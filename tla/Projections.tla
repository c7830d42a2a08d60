---------------------------- MODULE Projections ----------------------------
(***************************************************************************)
(* Folds over one session's journal (Projections), driven forward as it    *)
(* grows, written down (ProjectionCache) and restored onto the journal     *)
(* another process, or another build, finds.                               *)
(*                                                                         *)
(* A fold here is the most discerning one: its state is the events folded  *)
(* and the version of the unit that began it, so two states are equal only *)
(* when no unit could tell them apart.  An event is a number given once.   *)
(* `folded` is the code's seq + 1, so the empty log is 0.                  *)
(***************************************************************************)
EXTENDS Naturals, Sequences

CONSTANTS
  Units,    \* the projections that may be registered, by their keys
  Vers,     \* the state_versions a build may give them
  Drivers,  \* tasks that read the journal and drive or restore
  MaxLines, \* bound: events ever written
  MaxBuilds \* bound: processes

ASSUME ProjectionsAssumption == Vers \subseteq Nat \ {0}

VARIABLES
  journal, \* the events of the journal
  fsynced, \* how many of them survive a power loss
  written, \* events ever written
  build,   \* the process: its number, 0 while none runs, and its versions
  cells,   \* Projections::units
  driver,  \* what each driver holds between its lock sections
  taken,   \* a checkpoint on its way to the store
  row,     \* the session's row in the store
  lost     \* history: "no", "cut" by a power loss, "regrown" over the cut

projectionVars == <<journal, fsynced, written, build, cells, driver, taken, row, lost>>

Unserved == [ver |-> 0, of |-> <<>>, folded |-> 0]
NoRow == [u \in Units |-> Unserved]
AtRest == [at |-> "rest", events |-> <<>>]
Serves(u) == cells[u] # Unserved

ProjectionsInit ==
  /\ journal = <<>> /\ fsynced = 0 /\ written = 0 /\ lost = "no"
  /\ build = [n |-> 0, runs |-> FALSE, ver |-> [u \in Units |-> 1]]
  /\ cells = NoRow /\ taken = NoRow /\ row = NoRow
  /\ driver = [d \in Drivers |-> AtRest]

-----------------------------------------------------------------------------
(* The journal: what JsonlJournal shows of it.                             *)

Grow(durable) == /\ written < MaxLines /\ written' = written + 1
                 /\ journal' = Append(journal, written')
                 /\ fsynced' = IF durable THEN Len(journal') ELSE fsynced
                 /\ lost' = IF lost = "no" THEN "no" ELSE "regrown"

AppendEvent == /\ build.runs /\ Grow(TRUE)
               /\ UNCHANGED <<build, cells, driver, taken, row>>

Stop == /\ build.runs /\ build' = [build EXCEPT !.runs = FALSE]
        /\ cells' = NoRow /\ taken' = NoRow
        /\ driver' = [d \in Drivers |-> AtRest]
        /\ UNCHANGED row

(* A process killed in an append leaves its line, which nothing synced and *)
(* the next process adopts.                                                *)
Killed == /\ Stop
          /\ Grow(FALSE) \/ UNCHANGED <<journal, fsynced, written, lost>>

PowerFails == /\ Stop
              /\ \E n \in fsynced .. Len(journal) :
                   /\ journal' = SubSeq(journal, 1, n) /\ fsynced' = n
                   /\ lost' = IF n < Len(journal) /\ lost = "no" THEN "cut" ELSE lost
              /\ UNCHANGED written

(* The next process may be another build, with other units in it.          *)
StartBuild(ver) == /\ ~build.runs /\ build.n < MaxBuilds
                   /\ build' = [n |-> build.n + 1, runs |-> TRUE, ver |-> ver]
                   /\ UNCHANGED <<journal, fsynced, written, cells, driver, taken, row, lost>>

-----------------------------------------------------------------------------
(* Projections.                                                            *)

Fresh(u) == [ver |-> build.ver[u], of |-> <<>>, folded |-> 0]

RegisterUnit(u) == /\ build.runs /\ ~Serves(u)
                   /\ cells' = [cells EXCEPT ![u] = Fresh(u)]
                   /\ UNCHANGED <<journal, fsynced, written, build, driver, taken, row, lost>>

RemoveUnit(u) == /\ Serves(u) /\ cells' = [cells EXCEPT ![u] = Unserved]
                 /\ UNCHANGED <<journal, fsynced, written, build, driver, taken, row, lost>>

(* A caller takes the log's events before it has the units' lock.          *)
TakeEvents(d, at) ==
  /\ build.runs /\ driver[d] = AtRest
  /\ driver' = [driver EXCEPT ![d] = [at |-> at, events |-> journal]]
  /\ UNCHANGED <<journal, fsynced, written, build, cells, taken, row, lost>>

(* Only the tail past a unit's own watermark is folded.                    *)
Driven(cell, events) ==
  [cell EXCEPT !.of = @ \o SubSeq(events, cell.folded + 1, Len(events)),
               !.folded = IF events = <<>> THEN @ ELSE Len(events)]

Drive(d) ==
  /\ driver[d].at = "drive"
  /\ cells' = [u \in Units |-> IF Serves(u) THEN Driven(cells[u], driver[d].events)
                               ELSE Unserved]
  /\ driver' = [driver EXCEPT ![d] = AtRest]
  /\ UNCHANGED <<journal, fsynced, written, build, taken, row, lost>>

(* Any row of this unit's version.                                         *)
Usable_Longer(u, stored, events) ==
  stored[u] # Unserved /\ stored[u].ver = build.ver[u]

(* A row of this unit's own version that claims no event the log lacks.    *)
Usable(u, stored, events) ==
  stored[u] # Unserved /\ stored[u].ver = build.ver[u] /\ stored[u].folded <= Len(events)

(* A row's version is the unit's, whatever the state it holds came from.   *)
Adopted(u, stored) == stored[u]

(* A row that cannot be read or does not parse is no row.  The units' lock *)
(* is released between what is adopted and the drive that follows.         *)
Restore(d) ==
  /\ driver[d].at = "restore"
  /\ \E stored \in {row, NoRow} :
       cells' = [u \in Units |-> IF ~Serves(u) THEN Unserved
                                 ELSE IF Usable(u, stored, driver[d].events)
                                 THEN Adopted(u, stored) ELSE Fresh(u)]
  /\ driver' = [driver EXCEPT ![d].at = "drive"]
  /\ UNCHANGED <<journal, fsynced, written, build, taken, row, lost>>

Checkpoint == /\ taken = NoRow
              /\ taken' = [u \in Units |-> IF Serves(u) THEN [cells[u] EXCEPT !.ver = build.ver[u]]
                                           ELSE Unserved]
              /\ UNCHANGED <<journal, fsynced, written, build, cells, driver, row, lost>>

(* The store replaces its file whole, or refuses.                          *)
SaveRow == /\ taken # NoRow /\ taken' = NoRow
           /\ row' \in {taken, row}
           /\ UNCHANGED <<journal, fsynced, written, build, cells, driver, lost>>

ForgetRow == /\ build.runs /\ row # NoRow /\ row' = NoRow
             /\ UNCHANGED <<journal, fsynced, written, build, cells, driver, taken, lost>>

-----------------------------------------------------------------------------

ProjectionsNext ==
  \/ AppendEvent \/ Killed \/ PowerFails \/ Checkpoint \/ SaveRow \/ ForgetRow
  \/ \E ver \in [Units -> Vers] : StartBuild(ver)
  \/ \E u \in Units : RegisterUnit(u) \/ RemoveUnit(u)
  \/ \E d \in Drivers : TakeEvents(d, "drive") \/ TakeEvents(d, "restore") \/ Drive(d) \/ Restore(d)

ProjectionsSpec == ProjectionsInit /\ [][ProjectionsNext]_projectionVars

-----------------------------------------------------------------------------
(* Properties. *)

IsFold(u) == /\ cells[u].ver = build.ver[u]
             /\ cells[u].folded <= Len(journal)
             /\ cells[u].of = SubSeq(journal, 1, cells[u].folded)

(* A unit's value is the fold of the journal as far as its watermark says, *)
(* by its own version, however it was driven, when it was registered and   *)
(* whatever row it was restored from (drive, restore).                     *)
ValueIsFold == lost # "regrown" => \A u \in Units : Serves(u) => IsFold(u)

-----------------------------------------------------------------------------
(* What the code says of itself and does not keep (README, Disagreements). *)

(* projection_cache.rs: "A stored row may be stale ... but it can never be *)
(* wrong": a journal that lost lines and grew again is as long as the row. *)
NeverWrong == \A u \in Units : Serves(u) => IsFold(u)

=============================================================================
