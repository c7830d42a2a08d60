---------------------------- MODULE JsonlJournal ----------------------------
(***************************************************************************)
(* The JSONL provider of the session-log seam: one file of one line per    *)
(* event, a mutex around the append, an in-memory mirror, and a reader     *)
(* that drops the unterminated tail a crash leaves.                        *)
(*                                                                         *)
(* The file is the whole lines it holds and the bytes after the last       *)
(* newline.  A line or a tail is a record when it parses as one, and       *)
(* Garbled when it does not: half a record, or one spliced onto another.   *)
(***************************************************************************)
EXTENDS Naturals, Sequences, FiniteSets

CONSTANTS Writers,      \* threads that hold the log
          Payloads,     \* what an append carries (type and data together)
          None, Garbled,
          MaxLines      \* bound: no append starts on a file this long

ASSUME ConstantsAssumption ==
  /\ None \notin Writers
  /\ MaxLines \in Nat

Records == [seq : Nat, ev : Payloads]

ASSUME MarkersAssumption == /\ None # Garbled
                            /\ None \notin Records
                            /\ Garbled \notin Records

VARIABLES
  file,     \* the whole lines of the file, in order
  tail,     \* what follows the last newline, or None
  synced,   \* how many lines are on stable storage
  open,     \* a process holds the journal open
  events,   \* State.events: the mirror of the open handle
  holder,   \* who holds the state mutex, or None
  step,     \* where each writer is in `write`
  rec,      \* the event each writer is writing
  told      \* events the bus has published and append has returned

vars == <<file, tail, synced, open, events, holder, step, rec, told>>

TypeOK == /\ file \in Seq(Records \cup {Garbled})
          /\ tail \in Records \cup {Garbled, None}
          /\ synced \in 0 .. Len(file)
          /\ open \in BOOLEAN
          /\ events \in Seq(Records)
          /\ holder \in Writers \cup {None}
          /\ step \in [Writers -> {"idle", "record", "body", "line", "emit"}]
          /\ rec \in [Writers -> Records \cup {None}]
          /\ told \subseteq Records

Init == /\ file = <<>> /\ tail = None /\ synced = 0
        /\ open = FALSE /\ events = <<>> /\ holder = None
        /\ step = [w \in Writers |-> "idle"]
        /\ rec = [w \in Writers |-> None]
        /\ told = {}

-----------------------------------------------------------------------------
(* One append: lock, number the event, write its bytes, write the newline, *)
(* fsync, mirror, unlock, publish, return.                                 *)

Begin(w, e) ==
  /\ open /\ holder = None /\ step[w] = "idle"
  /\ Len(file) < MaxLines
  /\ holder' = w
  /\ rec' = [rec EXCEPT ![w] = [seq |-> Len(events), ev |-> e]]
  /\ step' = [step EXCEPT ![w] = "record"]
  /\ UNCHANGED <<file, tail, synced, open, events, told>>

WriteBody(w) ==
  /\ step[w] = "record"
  /\ tail' = IF tail = None THEN rec[w] ELSE Garbled
  /\ step' = [step EXCEPT ![w] = "body"]
  /\ UNCHANGED <<file, synced, open, events, holder, rec, told>>

WriteNewline(w) ==
  /\ step[w] = "body"
  /\ file' = Append(file, tail)
  /\ tail' = None
  /\ step' = [step EXCEPT ![w] = "line"]
  /\ UNCHANGED <<synced, open, events, holder, rec, told>>

Commit_NoSync(w) ==
  /\ step[w] = "line"
  /\ events' = Append(events, rec[w])
  /\ holder' = None
  /\ step' = [step EXCEPT ![w] = "emit"]
  /\ UNCHANGED <<file, tail, synced, open, rec, told>>

Commit(w) ==
  /\ step[w] = "line"
  /\ synced' = Len(file)
  /\ events' = Append(events, rec[w])
  /\ holder' = None
  /\ step' = [step EXCEPT ![w] = "emit"]
  /\ UNCHANGED <<file, tail, open, rec, told>>

(* The mutex is already released, so another writer may be anywhere. *)
Publish(w) ==
  /\ step[w] = "emit"
  /\ told' = told \cup {rec[w]}
  /\ step' = [step EXCEPT ![w] = "idle"]
  /\ UNCHANGED <<file, tail, synced, open, events, holder, rec>>

(* The `?` after the write and after the sync: the error goes to the       *)
(* caller, the mirror is not touched, and the file keeps what reached it.  *)
Fail(w) ==
  /\ \/ step[w] = "record" /\ tail' \in {tail, Garbled}
     \/ step[w] \in {"body", "line"} /\ UNCHANGED tail
  /\ holder' = None
  /\ step' = [step EXCEPT ![w] = "idle"]
  /\ UNCHANGED <<file, synced, open, events, rec, told>>

-----------------------------------------------------------------------------
(* `replay` accepts the file: every line parses and names its own index. *)
Replays == \A i \in DOMAIN file : file[i] # Garbled /\ file[i].seq = i - 1

(* The process ends.                                                       *)

Stop == /\ open
        /\ open' = FALSE
        /\ events' = <<>>
        /\ holder' = None
        /\ step' = [w \in Writers |-> "idle"]
        /\ UNCHANGED <<rec, told>>

MidRecord == \E w \in Writers : step[w] = "record"

(* A kill leaves the file as it is, but for the write it cut short. *)
Kill == /\ Stop
        /\ tail' \in {tail} \cup (IF MidRecord THEN {Garbled} ELSE {})
        /\ UNCHANGED <<file, synced>>

(* A power loss keeps the synced lines and any prefix of the bytes after. *)
PowerLoss ==
  /\ Stop
  /\ \E n \in synced .. Len(file) :
       /\ file' = SubSeq(file, 1, n)
       /\ synced' = n
       /\ tail' \in IF n < Len(file) THEN {None, Garbled, file[n + 1]}
                    ELSE IF tail # None \/ MidRecord THEN {None, Garbled, tail}
                    ELSE {None}

(* The handle mirrors the lines of the file; a cut is synced. *)
Adopt(lines) ==
  /\ ~open /\ open' = TRUE
  /\ file' = lines /\ events' = lines
  /\ synced' = IF tail = None THEN synced ELSE Len(lines)
  /\ UNCHANGED <<holder, step, rec, told>>

Open_KeepTail == (\A i \in DOMAIN file : file[i] # Garbled) /\ Adopt(file) /\ UNCHANGED tail

Open_CutLast ==
  Adopt(IF tail = None \/ file = <<>> THEN file ELSE SubSeq(file, 1, Len(file) - 1))
    /\ tail' = None

(* `create`: scan refuses a damaged whole line; the unterminated tail is   *)
(* cut from the file, and only then is anything synced.                    *)
Open ==
  /\ \A i \in DOMAIN file : file[i] # Garbled
  /\ Adopt(file)
  /\ tail' = None

-----------------------------------------------------------------------------

Next == \/ \E w \in Writers :
             \/ \E e \in Payloads : Begin(w, e)
             \/ WriteBody(w) \/ WriteNewline(w) \/ Commit(w) \/ Publish(w)
        \/ Kill \/ PowerLoss \/ Open

Spec == Init /\ [][Next]_vars

(* The same on a disk whose writes and syncs may return an error. *)
FaultyNext == Next \/ \E w \in Writers : Fail(w)

FaultySpec == Init /\ [][FaultyNext]_vars

-----------------------------------------------------------------------------
(* What a caller was told is on stable storage under its own seq, through  *)
(* every kill and every power loss (write, create).                        *)
ToldIsDurable ==
  \A r \in told : r.seq < synced /\ file[r.seq + 1] = r

(* No history of appends, kills and power losses leaves a file that replay *)
(* refuses (write, create, scan).                                          *)
AlwaysReplays == Replays

(* Even on a disk that fails, an event a caller was told about is either   *)
(* still readable or leaves a line that makes every later open refuse the  *)
(* journal: it never just disappears (write, scan).                        *)
NeverSilentlyLost ==
  \A r \in told : \E i \in 1 .. synced : file[i] \in {r, Garbled}

Log == INSTANCE SessionLog
         WITH log <- [i \in DOMAIN file |-> file[i].ev],
              acknowledged <- {r.seq + 1 : r \in told}

(* The provider keeps the promise of the seam: the lines of the file are   *)
(* the log, and a crash never takes back an acknowledged event.            *)
LogSpec == Log!Spec

-----------------------------------------------------------------------------
(* What the code says of itself and does not keep: TLC refutes each of     *)
(* these (README, "Disagreements").                                        *)

(* "An append is durable when it returns": an event whose append returned  *)
(* is a line of the file.                                                  *)
DurableWhenReturned == \A r \in told : \E i \in 1 .. synced : file[i] = r

(* Every event in the mirror has been fsynced ("fsynced on append,         *)
(* mirrored in memory").                                                   *)
MirrorIsSynced == open => Len(events) <= synced

=============================================================================
