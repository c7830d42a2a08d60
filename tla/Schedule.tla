------------------------------ MODULE Schedule ------------------------------
(***************************************************************************)
(* Work that is due at a time: ScheduleStore, a runner that polls it and   *)
(* runs what a poll answers, and callers that create and delete schedules  *)
(* while a poll is under way, across restarts and refused writes.          *)
(*                                                                         *)
(* An append writes a line, syncs it and folds it, under one lock that a   *)
(* call takes once to look and again to append.  A refused write, or one a *)
(* death cuts off, leaves nothing in the file or its whole line, which     *)
(* nobody has folded and the next open does (half a line is Jobs' and the  *)
(* session journal's).  The runner is a caller the repository does not     *)
(* have yet: it hands a poll the runs it has not finished, as the store    *)
(* asks.                                                                   *)
(***************************************************************************)
EXTENDS Naturals, Sequences, FiniteSets

CONSTANTS
  Names,       \* the ids schedules are created under
  Rules,       \* when they are due
  Never,       \* no instant
  Threads,     \* callers that create and delete
  MaxTime,     \* bound: the clock
  MaxRestarts, \* bound: deaths of the process
  MaxRefusals  \* bound: writes the disk refuses

Overlaps == {"skip", "queue", "concurrent"}

(* Once at an instant, or every interval from an anchor on: create refuses *)
(* an interval below a floor of a minute.                                  *)
ASSUME ScheduleAssumption ==
  /\ \A rule \in Rules : /\ rule.every \in Nat /\ rule.anchor \in Nat
                         /\ rule.once \in BOOLEAN /\ (~rule.once => rule.every > 0)
  /\ Never \notin Nat /\ Never \notin Rules
  /\ MaxTime \in Nat /\ MaxRestarts \in Nat /\ MaxRefusals \in Nat

VARIABLES
  now,        \* the clock the calls are given
  schedules,  \* the schedules created, by id
  stored,     \* what the lines of the file fold to
  judged,      \* of each caller, the change that is judged and not appended
  poll,       \* where the poll is: when it was called, with what running,
              \* what it has yet to decide and what it has decided
  running,    \* the runs that have not finished
  given,      \* history: the last occurrence of each the runner was given
  stale,      \* history: the ids a restart has found otherwise than they were
  restarts, refusals

entries == <<schedules, stored, stale>>
scheduleVars == <<now, entries, judged, poll, running, given, restarts, refusals>>

NoSchedule == [rule |-> Never, overlap |-> "skip", at |-> Never, held |-> Never,
               active |-> FALSE]
NoPoll == [phase |-> "idle", now |-> 0, running |-> {}, found |-> {}, todo |-> {}, fired |-> {}]

Change(id, op, at) == [id |-> id, op |-> op, at |-> at, rule |-> Never, overlap |-> "skip"]
NoChange == Change(Never, "none", 0)

ScheduleInit == /\ now = 0 /\ restarts = 0 /\ refusals = 0
                /\ schedules = [id \in Names |-> NoSchedule]
                /\ stored = schedules /\ stale = {}
                /\ judged = [c \in Threads |-> NoChange]
                /\ poll = NoPoll /\ running = {}
                /\ given = [id \in Names |-> Never]

Exists(id) == schedules[id].rule # Never

-----------------------------------------------------------------------------
(* The grid.                                                               *)

next_on_grid_FromNow(rule, t) == IF rule.anchor > t THEN rule.anchor ELSE t + rule.every

(* The first instant of the grid strictly after t, and the latest one at   *)
(* or before it.                                                           *)
next_on_grid(rule, t) ==
  IF rule.anchor > t THEN rule.anchor
  ELSE rule.anchor + ((t - rule.anchor) \div rule.every + 1) * rule.every

latest_on_grid(rule, t) ==
  rule.anchor + ((t - rule.anchor) \div rule.every) * rule.every

occurrence_of(sch, t) ==
  IF sch.rule.once THEN sch.rule.anchor
  ELSE IF sch.rule.anchor > t THEN sch.at ELSE latest_on_grid(sch.rule, t)

Dispatched_KeepsHeld(sch, t, decision) ==
  IF decision = "released" THEN sch
  ELSE [sch EXCEPT !.held = IF decision = "held" THEN occurrence_of(sch, t) ELSE @,
                   !.active = @ /\ ~sch.rule.once,
                   !.at = IF sch.rule.once THEN @ ELSE next_on_grid(sch.rule, t)]

Dispatched_SkipWaits(sch, t, decision) ==
  CASE decision = "released" -> [sch EXCEPT !.held = Never]
    [] decision = "skipped"  -> sch
    [] decision \in {"held", "run"} ->
         [sch EXCEPT !.held = IF decision = "held" THEN occurrence_of(sch, t) ELSE @,
                     !.active = @ /\ ~sch.rule.once,
                     !.at = IF sch.rule.once THEN @ ELSE next_on_grid(sch.rule, t)]

(* Every decision but a release advances a recurrence past the present and *)
(* ends a one-shot.                                                        *)
Dispatched(sch, t, decision) ==
  IF decision = "released" THEN [sch EXCEPT !.held = Never]
  ELSE [sch EXCEPT !.held = IF decision = "held" THEN occurrence_of(sch, t) ELSE @,
                   !.active = @ /\ ~sch.rule.once,
                   !.at = IF sch.rule.once THEN @ ELSE next_on_grid(sch.rule, t)]

-----------------------------------------------------------------------------
(* The file and its fold.                                                  *)

(* The first creation of an id stands, and what is not there is not        *)
(* changed.                                                                *)
Folded(sch, change) ==
  CASE change.op = "create" /\ sch.rule = Never ->
         [rule |-> change.rule, overlap |-> change.overlap, at |-> change.at,
          held |-> Never, active |-> TRUE]
    [] change.op = "create" /\ sch.rule # Never -> sch
    [] change.op # "create" /\ sch.rule = Never -> sch
    [] change.op = "delete" /\ sch.rule # Never -> [sch EXCEPT !.active = FALSE, !.held = Never]
    [] OTHER -> Dispatched(sch, change.at, change.op)

WithChange(held, change) == [held EXCEPT ![change.id] = Folded(@, change)]

Appended(change) == /\ schedules' = WithChange(schedules, change)
                    /\ stored' = WithChange(stored, change)
                    /\ UNCHANGED <<stale, refusals>>

(* Nothing of the line is in the file, or all of it: nothing takes it back *)
(* when the sync fails.                                                    *)
Unwritable(change) == /\ refusals < MaxRefusals /\ refusals' = refusals + 1
                      /\ stored' \in {stored, WithChange(stored, change)}
                      /\ UNCHANGED <<schedules, stale>>

-----------------------------------------------------------------------------
(* Callers and the clock.                                                  *)

Tick == /\ now < MaxTime /\ now' = now + 1
        /\ UNCHANGED <<entries, judged, poll, running, given, restarts, refusals>>

(* A one-shot lies ahead of its caller's clock, a recurrence starts at the *)
(* next instant after that; then the id is looked for.  An id is never     *)
(* free again, so looking at once finds no more taken than looking later.  *)
Create(c, id, rule, overlap) ==
  /\ judged[c] = NoChange /\ ~Exists(id) /\ (rule.once => rule.anchor > now)
  /\ judged' = [judged EXCEPT ![c] =
       [id |-> id, op |-> "create", rule |-> rule, overlap |-> overlap,
        at |-> IF rule.once THEN rule.anchor ELSE next_on_grid(rule, now)]]
  /\ UNCHANGED <<now, entries, poll, running, given, restarts, refusals>>

(* A schedule that is no longer active is left as it is.                   *)
Delete(c, id) == /\ judged[c] = NoChange /\ schedules[id].active
                 /\ judged' = [judged EXCEPT ![c] = Change(id, "delete", 0)]
                 /\ UNCHANGED <<now, entries, poll, running, given, restarts, refusals>>

(* The judged change is appended, whatever has come between, or refused.   *)
Settle(c) == /\ judged[c] # NoChange
             /\ Appended(judged[c]) \/ Unwritable(judged[c])
             /\ judged' = [judged EXCEPT ![c] = NoChange]
             /\ UNCHANGED <<now, poll, running, given, restarts>>

(* The process dies: what was running or in a call stops, and what the     *)
(* file says is what was decided.                                          *)
Restart == /\ restarts < MaxRestarts /\ restarts' = restarts + 1
           /\ poll' = NoPoll /\ running' = {} /\ judged' = [c \in Threads |-> NoChange]
           /\ schedules' = stored
           /\ stale' = stale \cup {id \in Names : stored[id] # schedules[id]}
           /\ UNCHANGED <<now, stored, given, refusals>>

-----------------------------------------------------------------------------
(* A poll: what was held and may go, then what is due, oldest first.  Each *)
(* list is a copy, decided while others may create and delete.             *)

Poll == /\ poll.phase = "idle"
        /\ poll' = [NoPoll EXCEPT !.phase = "release", !.now = now, !.running = running,
                      !.todo = {[id |-> id, sch |-> schedules[id]] :
                                  id \in {n \in Names \ running : schedules[n].held # Never}}]
        /\ UNCHANGED <<now, entries, judged, running, given, restarts, refusals>>

(* What is due at the poll's own reading of the clock.                     *)
Due == /\ poll.phase = "release" /\ poll.todo = {}
       /\ poll' = [poll EXCEPT !.phase = "decide",
                     !.found = {n \in Names : Exists(n)},
                     !.todo = {[id |-> id, sch |-> schedules[id]] :
                                 id \in {n \in Names : /\ schedules[n].active
                                                       /\ schedules[n].at <= poll.now}}]
       /\ UNCHANGED <<now, entries, judged, running, given, restarts, refusals>>

Decision(d) ==
  CASE poll.phase = "release" -> "released"
    [] poll.phase # "release" /\ (d.id \notin poll.running \/ d.sch.overlap = "concurrent") -> "run"
    [] poll.phase # "release" /\ d.id \in poll.running /\ d.sch.overlap = "queue"
         /\ d.sch.held = Never -> "held"
    [] OTHER -> "skipped"

Dispatch(d) == Change(d.id, Decision(d), poll.now)

(* Whose turn it is.                                                       *)
InTurn(d) ==
  /\ poll.phase \in {"release", "decide"} /\ d \in poll.todo
  /\ poll.phase = "decide" => \A other \in poll.todo : d.sch.at <= other.sch.at

Decide(d) ==
  /\ InTurn(d) /\ Appended(Dispatch(d))
  /\ LET occurrence == IF poll.phase = "release" THEN d.sch.held
                       ELSE occurrence_of(d.sch, poll.now)
     IN poll' = [poll EXCEPT !.todo = @ \ {d},
                             !.fired = @ \cup {[id |-> d.id, at |-> occurrence,
                                                decision |-> Decision(d)]}]
  /\ UNCHANGED <<now, judged, running, given, restarts>>

(* A refused write ends the poll, and what it had decided is answered to   *)
(* nobody.                                                                 *)
Refuse(d) == /\ InTurn(d) /\ Unwritable(Dispatch(d))
             /\ poll' = NoPoll
             /\ UNCHANGED <<now, judged, running, given, restarts>>

Answered == {f \in poll.fired : f.decision \in {"run", "released"}}

(* The runner runs what it is answered, and remembers what it was.         *)
Give == /\ poll.phase = "decide" /\ poll.todo = {}
        /\ running' = running \cup {f.id : f \in Answered}
        /\ given' = [id \in Names |->
             LET mine == {f \in Answered : f.id = id}
             IN  IF mine = {} THEN given[id]
                 ELSE (CHOOSE f \in mine : \A g \in mine : g.at <= f.at).at]
        /\ poll' = NoPoll
        /\ UNCHANGED <<now, entries, judged, restarts, refusals>>

RunEnds(id) == /\ id \in running /\ running' = running \ {id}
               /\ UNCHANGED <<now, entries, judged, poll, given, restarts, refusals>>

Deciding == Poll \/ Due \/ Give \/ \E d \in poll.todo : Decide(d) \/ Refuse(d)

Caller(c) == \/ Settle(c)
             \/ \E id \in Names : \/ Delete(c, id)
                                  \/ \E rule \in Rules, overlap \in Overlaps :
                                       Create(c, id, rule, overlap)

ScheduleNext == \/ Tick \/ Restart \/ Deciding
                \/ \E c \in Threads : Caller(c)
                \/ \E id \in Names : RunEnds(id)

ScheduleSpec == ScheduleInit /\ [][ScheduleNext]_scheduleVars

-----------------------------------------------------------------------------
(* Properties. *)

(* No occurrence is run twice or after a later one, over polls that race   *)
(* callers, restarts and refused writes: each run the runner is given is   *)
(* for an instant later than the last, unless a restart found the schedule *)
(* otherwise than it was, by the line of a write that was refused.         *)
OccurrencesAdvance ==
  poll.phase = "decide" /\ poll.todo = {} =>
    \A f \in Answered : f.id \notin stale =>
      /\ given[f.id] = Never \/ f.at > given[f.id]
      /\ \A g \in Answered : f.id = g.id /\ f # g => f.at # g.at

(* A finished poll leaves nothing due at the instant it was asked about of *)
(* what it found when it looked, whatever it decided and whatever callers  *)
(* have appended since: a runner that sleeps until next_wake does not spin.*)
NothingLeftDue ==
  poll.phase = "decide" /\ poll.todo = {} =>
    \A id \in poll.found : schedules[id].active => schedules[id].at > poll.now

(* A recurrence never leaves the grid of its anchor, however long it was   *)
(* not polled and whatever a restart reads back, and what is held is older *)
(* than what is due, if no restart found the schedule otherwise.           *)
StaysOnGrid ==
  \A id \in Names :
    LET sch == schedules[id]
    IN  Exists(id) /\ ~sch.rule.once =>
          /\ \E k \in 0..sch.at : sch.at = sch.rule.anchor + k * sch.rule.every
          /\ sch.held # Never /\ id \notin stale => sch.held < sch.at

-----------------------------------------------------------------------------
(* What the code says of itself and does not keep (README, Disagreements). *)

(* schedule.rs: a process that comes back up "gets the same answer the     *)
(* process that died would have given at the same instant".                *)
SameAnswer == [][Restart => schedules' = schedules]_scheduleVars

(* schedule.rs: what may not overlap is held until the run ends.           *)
NeverOverlaps ==
  poll.phase = "decide" /\ poll.todo = {} =>
    \A f, g \in Answered : f.id = g.id /\ f # g => schedules[f.id].overlap = "concurrent"

(* schedule.rs: deleting stops a schedule.                                 *)
DeletedIsQuiet ==
  [][\A id \in Names : Exists(id) /\ ~schedules[id].active /\ id \notin running
       => id \notin running']_scheduleVars
=============================================================================
