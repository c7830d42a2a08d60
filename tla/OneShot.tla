------------------------------ MODULE OneShot ------------------------------
(***************************************************************************)
(* One external command, run to its end: the process that leads its group, *)
(* what that starts, the pipe they write to, the task that reads it, and   *)
(* the call that waits for the command, its budget or the interrupt, walks *)
(* the ladder of signals and sweeps what is left holding the pipe.         *)
(*                                                                         *)
(* Time is not counted: a budget or a grace may end at any moment.  Output *)
(* is pieces, numbered; stdout and stderr are read alike and one pipe      *)
(* stands for both.                                                        *)
(***************************************************************************)
EXTENDS Naturals

CONSTANTS
  Children,     \* what the command may start, directly or not
  Keep,         \* Limits::max_capture
  MaxPrinted    \* bound: pieces of output

ASSUME OneShotAssumption == Keep \in Nat \ {0} /\ MaxPrinted \in Nat

Leader == "leader"
Family == {Leader} \cup Children

VARIABLES
  born,     \* processes started so far
  up,       \* those that run
  grouped,  \* those of them in the leader's group
  holds,    \* those of them with the pipe open
  traps,    \* those of them that outlive a SIGTERM
  wrote,    \* pieces in the pipe so far
  got,      \* pieces the reader has taken
  reading,  \* the reader task has not seen the end of the pipe
  spill,     \* Tail's writing: the spill, and the pieces it holds
  call,     \* where the call is
  ending,   \* why the command stopped
  swept,    \* the sweep reached somebody
  output    \* what the call answered

oneShotVars == <<born, up, grouped, holds, traps, wrote, got, reading, spill,
                 call, ending, swept, output>>
processes == <<up, grouped, holds, traps>>
stream == <<wrote, got, reading, spill>>
waiting == <<call, ending, swept, output>>

NoFile == [open |-> FALSE, first |-> 0, last |-> 0]
NotYet == [given |-> FALSE, seen |-> 0, spilled |-> FALSE]
CallPlaces == {"settling", "term", "kill", "joining", "swept", "returned"}
Endings == {"none", "exited", "timed-out", "interrupted"}

OneShotInit ==
  /\ born = {Leader} /\ up = {Leader} /\ grouped = {Leader} /\ holds = {Leader} /\ traps = {}
  /\ wrote = 0 /\ got = 0 /\ reading = TRUE /\ spill = NoFile
  /\ call = "settling" /\ ending = "none" /\ swept = FALSE /\ output = NotYet

Gone(S) ==
  up' = up \ S /\ grouped' = grouped \ S /\ holds' = holds \ S /\ traps' = traps \ S

--------------------------------------------------------------------------
(* What the command does.                                                  *)
Forks(p, c) ==
  /\ p \in up /\ c \in Children \ born
  /\ born' = born \cup {c} /\ up' = up \cup {c}
  /\ grouped' = IF p \in grouped THEN grouped \cup {c} ELSE grouped
  /\ holds' = IF p \in holds THEN holds \cup {c} ELSE holds
  /\ traps' = IF p \in traps THEN traps \cup {c} ELSE traps
  /\ UNCHANGED <<stream, waiting>>

(* It handles SIGTERM, redirects its output, leads a session of its own.   *)
Changes(p) ==
  /\ \/ p \in up \ traps /\ traps' = traps \cup {p} /\ UNCHANGED <<grouped, holds>>
     \/ p \in holds /\ holds' = holds \ {p} /\ UNCHANGED <<grouped, traps>>
     \/ p \in grouped \ {Leader} /\ grouped' = grouped \ {p} /\ UNCHANGED <<holds, traps>>
  /\ UNCHANGED <<born, up, stream, waiting>>

Prints(p) ==
  /\ p \in holds /\ wrote < MaxPrinted
  /\ wrote' = wrote + 1
  /\ UNCHANGED <<born, processes, got, reading, spill, waiting>>

Exits(p) ==
  /\ p \in up /\ Gone({p})
  /\ UNCHANGED <<born, stream, waiting>>

--------------------------------------------------------------------------
(* Tail::push of one more piece.  A spill that is open takes it first, and *)
(* is given up when it refuses; a buffer over its bound and without one    *)
(* opens it, with what the buffer has.                                     *)
Spills(takes, opens) ==
  LET piece == got + 1
  IN spill' = CASE spill.open /\ takes -> [spill EXCEPT !.last = piece]
               [] ~(spill.open /\ takes) /\ piece > Keep /\ opens ->
                    [open |-> TRUE, first |-> piece - Keep, last |-> piece]
               [] OTHER -> NoFile

(* collect: the reader takes a piece, or finds the pipe closed by all who  *)
(* held it.                                                                *)
TakesPiece ==
  /\ reading /\ got < wrote /\ got' = got + 1
  /\ \E takes, opens \in BOOLEAN : Spills(takes, opens)
  /\ UNCHANGED <<born, processes, wrote, reading, waiting>>

SeesTheEnd ==
  /\ reading /\ got = wrote /\ holds = {} /\ reading' = FALSE
  /\ UNCHANGED <<born, processes, wrote, got, spill, waiting>>

--------------------------------------------------------------------------
GoesTo(place) == call' = place
TermGroup == Gone(grouped \ traps)
KillGroup == Gone(grouped)

(* settle: whichever is first of the leader's end, the budget and the      *)
(* interrupt; the last two send the first rung.                            *)
SettleExited ==
  /\ call = "settling" /\ Leader \notin up
  /\ ending' = "exited" /\ GoesTo("joining")
  /\ UNCHANGED <<born, processes, stream, swept, output>>

SettleStopped(why) ==
  /\ call = "settling" /\ why \in {"timed-out", "interrupted"}
  /\ TermGroup /\ ending' = why /\ GoesTo("term")
  /\ UNCHANGED <<born, stream, swept, output>>

(* terminate: the leader is down, before the grace is over or after the    *)
(* second rung.                                                            *)
LeaderDown ==
  /\ call \in {"term", "kill"} /\ Leader \notin up
  /\ GoesTo("joining")
  /\ UNCHANGED <<born, processes, stream, ending, swept, output>>

GraceOver_Polite ==
  /\ call = "term" /\ TermGroup /\ GoesTo("kill")
  /\ UNCHANGED <<born, stream, ending, swept, output>>

GraceOver ==
  /\ call = "term" /\ KillGroup /\ GoesTo("kill")
  /\ UNCHANGED <<born, stream, ending, swept, output>>

(* execute: the streams did not close within the grace; what is left of    *)
(* the group is killed.                                                    *)
Sweep_Polite ==
  /\ call = "joining" /\ TermGroup /\ GoesTo("swept")
  /\ swept' = (grouped # {})
  /\ UNCHANGED <<born, stream, ending, output>>

Sweep ==
  /\ call = "joining" /\ KillGroup /\ GoesTo("swept")
  /\ swept' = (grouped # {})
  /\ UNCHANGED <<born, stream, ending, output>>

(* The reader is done, or the second grace is over.                        *)
Return ==
  /\ \/ call = "joining" /\ ~reading
     \/ call = "swept"
  /\ GoesTo("returned")
  /\ \E closes \in BOOLEAN :
       output' = [given |-> TRUE, seen |-> got, spilled |-> spill.open /\ closes]
  /\ spill' = [spill EXCEPT !.open = FALSE]
  /\ UNCHANGED <<born, processes, wrote, got, reading, ending, swept>>

CallGoesOn ==
  \/ SettleExited \/ \E why \in Endings : SettleStopped(why)
  \/ LeaderDown \/ GraceOver \/ Sweep \/ Return

OneShotNext ==
  \/ \E p \in Family : Changes(p) \/ Prints(p) \/ Exits(p) \/ \E c \in Children : Forks(p, c)
  \/ TakesPiece \/ SeesTheEnd
  \/ CallGoesOn

OneShotSpec == OneShotInit /\ [][OneShotNext]_oneShotVars

--------------------------------------------------------------------------
OneShotTypeOK ==
  /\ born \subseteq Family /\ up \subseteq born
  /\ grouped \subseteq up /\ holds \subseteq up /\ traps \subseteq up
  /\ reading \in BOOLEAN /\ swept \in BOOLEAN
  /\ wrote \in 0..MaxPrinted /\ got \in 0..wrote
  /\ call \in CallPlaces /\ ending \in Endings

(* When a call has returned, nothing of the command's group holds the pipe *)
(* it read, whatever was started, redirected, moved away or trapped, and   *)
(* whichever of the clocks ran out (proc.rs: "neither leaves a process     *)
(* behind holding the pipe this call is reading").                         *)
LeavesNoHolder == output.given => grouped \cap holds = {}

--------------------------------------------------------------------------
(* What the code says of itself and does not keep: TLC refutes each of     *)
(* these (README, "Disagreements").                                        *)

(* What a stopped command started is swept rather than left behind         *)
(* (terminate).                                                            *)
NothingOutlivesAStop ==
  output.given /\ ending \in {"timed-out", "interrupted"} => grouped = {}

(* A group is only signalled while it has a member (execute), whose number *)
(* may by then name another one.                                           *)
SignalsItsOwn == [][call = "joining" /\ call' = "swept" => grouped # {}]_oneShotVars

(* A spill that is reported holds the whole stream (spilling).             *)
SpilledIsWhole == output.spilled => spill.first = 1 /\ spill.last = output.seen
=============================================================================
