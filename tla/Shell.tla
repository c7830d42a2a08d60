------------------------------- MODULE Shell -------------------------------
(***************************************************************************)
(* A persistent shell (ShellSession): commands that callers feed it one at *)
(* a time, told apart by the markers around them, the bounded transcript   *)
(* their output is read from, and everything that ends a shell: a command, *)
(* a budget, an interrupt, its owner.                                      *)
(*                                                                         *)
(* What is printed is a sequence of lines: the two markers of a command,   *)
(* its output, and what a process it left behind prints after it.          *)
(***************************************************************************)
EXTENDS Naturals, Sequences, SequencesExt

CONSTANTS
  Runners, \* the tool calls that may run commands
  Keep,    \* max_scrollback, in lines
  MaxRuns, \* bound: commands
  MaxOut,  \* bound: lines of output a command prints
  MaxNoise \* bound: lines printed by what commands left running

ASSUME ShellAssumption ==
  /\ Keep \in Nat \ {0}
  /\ MaxRuns \in Nat /\ MaxOut \in Nat /\ MaxNoise \in Nat

VARIABLES
  shell,   \* the process: whether it lives, the command it runs, its input,
           \* what it printed that nobody has read
  text,    \* Transcript: what is kept and how much was dropped before it
  exited,  \* the watcher has published the exit
  life,    \* ShellSession::life
  open,    \* ShellSession::stdin is there to be written to
  run,     \* the call each runner is in; one of them holds ShellSession::running
  keeping, \* the overflow handle installed, and the artifact it writes
  nonces, printed, noise

shellVars == <<shell, text, exited, life, open, run, keeping, nonces, printed, noise>>

Commands == 1 .. MaxRuns
Line(k, n, i) == [k |-> k, n |-> n, i |-> i]
NoResult == [got |-> "none", body |-> <<>>, truncated |-> FALSE]
NoRun == [at |-> "idle", n |-> 0, from |-> 0, result |-> NoResult]
NoKeeping == [n |-> 0, from |-> 0, written |-> 0, artifact |-> <<>>, opened |-> FALSE]

ShellInit == /\ shell = [alive |-> TRUE, doing |-> 0, input |-> <<>>, pipe |-> <<>>]
             /\ text = [kept |-> <<>>, dropped |-> 0]
             /\ exited = FALSE /\ life = "none" /\ open = TRUE
             /\ run = [r \in Runners |-> NoRun]
             /\ keeping = NoKeeping
             /\ nonces = 0 /\ printed = [n \in Commands |-> 0] /\ noise = 0

-----------------------------------------------------------------------------
(* The transcript: positions are absolute, and what the bound forgets is   *)
(* handed over before it goes.                                             *)

Length == text.dropped + Len(text.kept)
since(from) ==
  SubSeq(text.kept, (IF from > text.dropped THEN from - text.dropped ELSE 0) + 1, Len(text.kept))

(* forget: the part that is this command's, into an artifact opened now.   *)
Forget(k, at, line) ==
  IF k.n = 0 \/ at < k.from THEN k
  ELSE [k EXCEPT !.opened = TRUE, !.artifact = Append(@, line), !.written = at + 1]

Push(line) ==
  IF Len(text.kept) < Keep
  THEN /\ text' = [text EXCEPT !.kept = Append(@, line)]
       /\ UNCHANGED keeping
  ELSE /\ text' = [kept |-> Append(Tail(text.kept), line), dropped |-> text.dropped + 1]
       /\ keeping' = Forget(keeping, text.dropped, Head(text.kept))

(* pump reads what was printed, alive or not.                              *)
Pump == /\ shell.pipe # <<>>
        /\ Push(Head(shell.pipe))
        /\ shell' = [shell EXCEPT !.pipe = Tail(@)]
        /\ UNCHANGED <<exited, life, open, run, nonces, printed, noise>>

(* The watcher publishes the exit, whatever is left in the pipe.           *)
Publish == /\ ~shell.alive /\ ~exited /\ exited' = TRUE
           /\ UNCHANGED <<shell, text, life, open, run, keeping, nonces, printed, noise>>

-----------------------------------------------------------------------------
(* The shell and what it runs.                                             *)

Prints(line) == shell' = [shell EXCEPT !.pipe = Append(@, line)]
others == <<text, exited, life, open, run, keeping, nonces>>

Begins == /\ shell.alive /\ shell.doing = 0 /\ shell.input # <<>>
          /\ shell' = [shell EXCEPT !.doing = Head(shell.input), !.input = Tail(@),
                         !.pipe = Append(@, Line("start", Head(shell.input), 0))]
          /\ UNCHANGED <<others, printed, noise>>

Says == /\ shell.alive /\ shell.doing # 0 /\ printed[shell.doing] < MaxOut
        /\ printed' = [printed EXCEPT ![shell.doing] = @ + 1]
        /\ Prints(Line("out", shell.doing, printed[shell.doing] + 1))
        /\ UNCHANGED <<others, noise>>

CommandDone == /\ shell.alive /\ shell.doing # 0
               /\ shell' = [shell EXCEPT !.doing = 0, !.pipe = Append(@, Line("end", shell.doing, 0))]
               /\ UNCHANGED <<others, printed, noise>>

LeftBehind == /\ shell.alive /\ nonces > 0 /\ noise < MaxNoise
              /\ noise' = noise + 1
              /\ Prints(Line("noise", 0, noise))
              /\ UNCHANGED <<others, printed>>

(* The command exits the shell, or something kills it.                     *)
Dies == /\ shell.alive
        /\ shell.doing # 0 \/ life # "none"
        /\ shell' = [shell EXCEPT !.alive = FALSE]
        /\ UNCHANGED <<others, printed, noise>>

-----------------------------------------------------------------------------
(* run_watching. *)

RunnerAt(r, at) == run' = [run EXCEPT ![r].at = at]
Result(r, got, body, truncated) ==
  run' = [run EXCEPT ![r].at = "done",
                     ![r].result = [got |-> got, body |-> body, truncated |-> truncated]]
Gone == life # "none" \/ exited
LastOf(seen, k, n) == Max({0} \cup {i \in DOMAIN seen : seen[i].k = k /\ seen[i].n = n})

Enter(r) == /\ \A q \in Runners : run[q].at \in {"idle", "done"}
            /\ run[r].at = "idle" /\ ~Gone /\ nonces < MaxRuns
            /\ nonces' = nonces + 1
            /\ run' = [run EXCEPT ![r] = [NoRun EXCEPT !.at = "put", !.n = nonces + 1,
                                                       !.from = Length]]
            /\ UNCHANGED <<shell, text, exited, life, open, keeping, printed, noise>>

(* The pipe to a shell that is gone, or was taken, takes nothing.          *)
WriteCommand(r) == /\ run[r].at = "put"
                   /\ IF open /\ shell.alive
                      THEN /\ shell' = [shell EXCEPT !.input = Append(@, run[r].n)]
                           /\ RunnerAt(r, "install")
                      ELSE /\ RunnerAt(r, "idle") /\ UNCHANGED shell
                   /\ UNCHANGED <<text, exited, life, open, keeping, nonces, printed, noise>>

Install(r) == /\ run[r].at = "install"
              /\ keeping' = [NoKeeping EXCEPT !.n = run[r].n, !.from = run[r].from,
                                              !.written = run[r].from]
              /\ RunnerAt(r, "loop")
              /\ UNCHANGED <<shell, text, exited, life, open, nonces, printed, noise>>

Body(seen, n) == SubSeq(seen, LastOf(seen, "start", n) + 1, LastOf(seen, "end", n) - 1)

Completes_Spilled(r) ==
  LET seen == since(run[r].from) n == run[r].n
  IN  /\ run[r].at = "loop" /\ LastOf(seen, "end", n) # 0
      /\ Result(r, "ok", Body(seen, n), keeping.opened)
      /\ keeping' = [keeping EXCEPT !.n = 0,
                       !.artifact = IF keeping.opened THEN @ \o since(keeping.written) ELSE @]
      /\ UNCHANGED <<shell, text, exited, life, open, nonces, printed, noise>>

(* The end marker is there: what stands between the markers, or from the   *)
(* first line kept when the bound dropped the first of them.               *)
Completes(r) ==
  LET seen == since(run[r].from) n == run[r].n
  IN  /\ run[r].at = "loop" /\ LastOf(seen, "end", n) # 0
      /\ Result(r, "ok", Body(seen, n), text.dropped > run[r].from)
      /\ keeping' = [keeping EXCEPT !.n = 0,
                       !.artifact = IF keeping.opened THEN @ \o since(keeping.written) ELSE @]
      /\ UNCHANGED <<shell, text, exited, life, open, nonces, printed, noise>>

Unfinished(r) == run[r].at = "loop" /\ LastOf(since(run[r].from), "end", run[r].n) = 0

(* The shell is gone and the end marker never came.                        *)
Died(r) == LET seen == since(run[r].from)
           IN  /\ Unfinished(r) /\ exited
               /\ life' = IF life = "none" THEN "exited" ELSE life
               /\ Result(r, "died", SubSeq(seen, LastOf(seen, "start", run[r].n) + 1, Len(seen)),
                         FALSE)
               /\ keeping' = NoKeeping
               /\ UNCHANGED <<shell, text, exited, open, nonces, printed, noise>>

(* The budget ran out, or the turn was interrupted: the shell goes too.    *)
CutOff(r) == /\ Unfinished(r) /\ ~exited
             /\ life' = IF life = "none" THEN "cut" ELSE life
             /\ open' = FALSE
             /\ RunnerAt(r, "closing")
             /\ UNCHANGED <<shell, text, exited, keeping, nonces, printed, noise>>

(* close_now waits for the exit, or gives up on it.                        *)
WasCut(r) == /\ run[r].at = "closing" /\ RunnerAt(r, "idle")
             /\ keeping' = NoKeeping
             /\ UNCHANGED <<shell, text, exited, life, open, nonces, printed, noise>>

RunReturns(r) == /\ run[r].at = "done" /\ run' = [run EXCEPT ![r] = NoRun]
                 /\ keeping' = IF \E q \in Runners \ {r} : run[q].at = "loop" THEN keeping ELSE NoKeeping
                 /\ UNCHANGED <<shell, text, exited, life, open, nonces, printed, noise>>

(* The owner closes it, in the middle of whatever runs.                    *)
OwnerCloses == /\ life' = IF life = "none" THEN "closed" ELSE life
               /\ open' = FALSE
               /\ UNCHANGED <<shell, text, exited, run, keeping, nonces, printed, noise>>

ShellNext == \/ Pump \/ Publish \/ Begins \/ Says \/ CommandDone \/ LeftBehind \/ Dies \/ OwnerCloses
             \/ \E r \in Runners : \/ Enter(r) \/ WriteCommand(r) \/ Install(r) \/ Completes(r) \/ Died(r)
                                   \/ CutOff(r) \/ WasCut(r) \/ RunReturns(r)

-----------------------------------------------------------------------------
(* Properties. *)

OutsOf(lines, n) == {i \in DOMAIN lines : lines[i].k = "out" /\ lines[i].n = n}

(* A command that completed is given its own output and nobody else's: the *)
(* end of what it printed, and all of it unless it is told that some was   *)
(* dropped, however small the scrollback and whatever still prints.        *)
OwnOutput ==
  \A r \in Runners : run[r].at = "done" /\ run[r].result.got = "ok" =>
    LET n == run[r].n body == run[r].result.body outs == OutsOf(body, n)
    IN  /\ \A i \in DOMAIN body : body[i].k = "noise" \/ body[i].n = n
        /\ \A i \in outs : body[i].i \in 1 .. printed[n]
        /\ \A i, j \in outs : i < j => body[i].i < body[j].i
        /\ \A x \in 1 .. printed[n] :
             \/ \E i \in outs : body[i].i = x
             \/ run[r].result.truncated /\ \A i \in outs : x < body[i].i

-----------------------------------------------------------------------------
(* What the code says of itself and does not keep (README, Disagreements). *)

Own(lines, n) == SelectSeq(lines, LAMBDA l : l.k = "out" /\ l.n = n)
Output(n) == [i \in 1 .. printed[n] |-> Line("out", n, i)]

(* session.rs: what a command that ended the shell printed first is        *)
(* carried, because that is usually why it died.                           *)
DiedSaysWhy ==
  \A r \in Runners : run[r].at = "done" /\ run[r].result.got = "died" =>
    IsSuffix(Own(run[r].result.body, run[r].n), Output(run[r].n))

(* session.rs: what the bound dropped and what it kept are together the    *)
(* command's whole output, in order.                                       *)
SpillIsWhole ==
  \A r \in Runners :
    /\ run[r].at = "done" /\ run[r].result.got = "ok" /\ run[r].n = nonces
    /\ keeping.opened /\ keeping.n = 0
    => Own(keeping.artifact, run[r].n) = Output(run[r].n)
=============================================================================
