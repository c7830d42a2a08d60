--------------------------- MODULE TerminalSession ---------------------------
(***************************************************************************)
(* A persistent terminal driven one send at a time: what is typed at the   *)
(* shell, the prompts it prints as its lines end, the task that publishes  *)
(* them, and a send that settles on a prompt, on silence, on its deadline, *)
(* on the turn's interrupt or on the shell's exit.                         *)
(*                                                                         *)
(* A line is a number; its prompt carries that number for the status it    *)
(* would carry.  Line 1 is the start of the shell, whose prompt ends it.   *)
(* What a command prints before its prompt is Shell's kind of question     *)
(* and is left out.                                                        *)
(***************************************************************************)
EXTENDS Naturals, Sequences

CONSTANTS
  MaxBurst,     \* lines the text of one send may hold
  QuietStart,   \* the shell may be silent for idle_silence while it starts
  MaxSends      \* bound: lines typed, and debts, at this terminal

ASSUME TerminalAssumption ==
  MaxBurst \in Nat \ {0} /\ QuietStart \in BOOLEAN /\ MaxSends \in Nat

VARIABLES
  typed,    \* lines in the terminal that nothing has read
  running,  \* the line the shell is working on, NoLine at a prompt
  printed,  \* the lines whose prompts the shell has printed, in order
  announced,\* how many of them have had their status stored
  prompts,  \* Watched::prompts, how many of them are counted
  owed,     \* Watched::owed
  gone,     \* the shell has exited
  lines,    \* how many lines were ever typed
  send,     \* the send at work, or the opening, and where it is
  outcome   \* what the latest send answered, and what was left at the shell

terminalVars == <<typed, running, printed, announced, prompts, owed, gone, lines, send, outcome>>
shell == <<typed, running, printed, gone>>
watched == <<announced, prompts>>

NoLine == 0
SendPlaces == {"free", "typing", "looking", "waiting", "never"}
NothingYet == [wait |-> "none", line |-> NoLine, code |-> NoLine, left |-> 0]

(* Everything the shell was given and has not answered with a published    *)
(* prompt.                                                                 *)
Unanswered == Len(typed) + (IF running = NoLine THEN 0 ELSE 1)
                + Len(printed) - prompts
last_status == IF announced = 0 THEN NoLine ELSE printed[announced]

TerminalInit ==
  /\ typed = <<>> /\ running = 1 /\ printed = <<>> /\ gone = FALSE
  /\ announced = 0 /\ prompts = 0 /\ owed = 0 /\ lines = 1
  /\ send = [at |-> "looking", line |-> 1, before |-> 0, opens |-> TRUE]
  /\ outcome = NothingYet

--------------------------------------------------------------------------
(* The shell: it reads a line at its prompt, a command may read one        *)
(* itself, ends by itself or by a signal, or is the last one.              *)
Reads ==
  /\ ~gone /\ running = NoLine /\ typed # <<>>
  /\ running' = Head(typed) /\ typed' = Tail(typed)
  /\ UNCHANGED <<printed, watched, owed, gone, lines, send, outcome>>

IsFed ==
  /\ ~gone /\ running \notin {NoLine, 1} /\ typed # <<>>
  /\ typed' = Tail(typed)
  /\ UNCHANGED <<running, printed, watched, owed, gone, lines, send, outcome>>

LineEnds ==
  /\ ~gone /\ running # NoLine
  /\ printed' = Append(printed, running) /\ running' = NoLine
  /\ UNCHANGED <<typed, watched, owed, gone, lines, send, outcome>>

ShellExits ==
  /\ ~gone /\ running # NoLine
  /\ gone' = TRUE
  /\ UNCHANGED <<typed, running, printed, watched, owed, lines, send, outcome>>

--------------------------------------------------------------------------
(* sanitize_into reads what was printed and publishes it: the text, the    *)
(* last status, and only then how many prompts there have been.            *)
Announce ==
  \E n \in (prompts + 1)..Len(printed) :
    /\ announced = prompts /\ announced' = n
    /\ UNCHANGED <<shell, prompts, owed, lines, send, outcome>>

publish ==
  /\ prompts < announced /\ prompts' = announced
  /\ UNCHANGED <<shell, announced, owed, lines, send, outcome>>

(* A send takes the terminal and counts what must come before its own      *)
(* prompt.                                                                 *)
BeginSend ==
  /\ send.at = "free" /\ ~gone /\ lines <= MaxSends /\ owed < MaxSends
  /\ send' = [at |-> "typing", line |-> NoLine, before |-> prompts + owed, opens |-> FALSE]
  /\ UNCHANGED <<shell, watched, owed, lines, outcome>>

(* Text with Enter is typed as one line or several; without Enter it is    *)
(* nothing the shell acts on.                                              *)
Type ==
  /\ send.at = "typing" /\ ~gone
  /\ \E n \in 0..MaxBurst :
       /\ lines' = lines + n
       /\ typed' = typed \o [i \in 1..n |-> lines + i]
       /\ send' = [send EXCEPT !.at = "looking", !.line = IF n = 0 THEN NoLine ELSE lines + n]
  /\ UNCHANGED <<running, printed, watched, owed, gone, outcome>>

(* pty.write fails: the send is an error and nothing was counted.          *)
TypeFails ==
  /\ send.at = "typing" /\ gone
  /\ send' = [send EXCEPT !.at = "free"]
  /\ UNCHANGED <<shell, watched, owed, lines, outcome>>

Pays_Forgetful(wait) == owed' = IF wait = "stdin_read" THEN 0 ELSE owed

(* What a settled send does to the debt.                                   *)
Pays(wait) ==
  owed' = CASE send.opens -> owed
            [] wait = "stdin_read" -> 0
            [] wait = "session_exit" -> owed
            [] OTHER -> owed + 1

Settle(wait) ==
  /\ Pays(wait)
  /\ send' = [send EXCEPT !.at = IF send.opens /\ wait \notin {"stdin_read", "inferred_idle"}
                                 THEN "never" ELSE "free"]
  /\ outcome' = IF send.opens THEN NothingYet
                ELSE [wait |-> wait, line |-> send.line,
                      code |-> IF wait = "stdin_read" THEN last_status ELSE NoLine,
                      left |-> Unanswered]
  /\ UNCHANGED <<shell, watched, lines>>

(* One pass of wait_for_readiness: the prompts first, then the rest, over  *)
(* and over.                                                               *)
SettlePrompt ==
  /\ send.at = "looking" /\ prompts > send.before
  /\ Settle("stdin_read")

Look ==
  /\ send.at = "looking" /\ prompts <= send.before
  /\ send' = [send EXCEPT !.at = "waiting"]
  /\ UNCHANGED <<shell, watched, owed, lines, outcome>>

LookAgain ==
  /\ send.at = "waiting" /\ ~gone
  /\ send' = [send EXCEPT !.at = "looking"]
  /\ UNCHANGED <<shell, watched, owed, lines, outcome>>

SettleExit ==
  /\ send.at = "waiting" /\ gone
  /\ Settle("session_exit")

(* The interrupt signals what owns the terminal; LineEnds is its effect.   *)
SettleInterrupt ==
  /\ send.at = "waiting" /\ ~gone /\ ~send.opens
  /\ Settle("interrupted")

(* Nothing was printed for idle_silence: a prompt published since the look *)
(* would have started that clock again.                                    *)
SettleIdle ==
  /\ send.at = "waiting" /\ ~gone /\ prompts <= send.before
  /\ send.opens => QuietStart
  /\ Settle("inferred_idle")

SettleTimeout ==
  /\ send.at = "waiting" /\ ~gone
  /\ Settle("timeout")

(* close, from another task: the shell and what it runs are killed.        *)
CloseSession ==
  /\ send.at # "never" /\ ~send.opens /\ ~gone
  /\ gone' = TRUE
  /\ UNCHANGED <<typed, running, printed, watched, owed, lines, send, outcome>>

TerminalNext ==
  \/ Reads \/ IsFed \/ LineEnds \/ ShellExits \/ Announce \/ publish
  \/ BeginSend \/ Type \/ TypeFails
  \/ SettlePrompt \/ Look \/ LookAgain \/ SettleExit \/ SettleInterrupt
  \/ SettleIdle \/ SettleTimeout \/ CloseSession

TerminalSpec == TerminalInit /\ [][TerminalNext]_terminalVars

--------------------------------------------------------------------------
TerminalTypeOK ==
  /\ typed \in Seq(1..lines) /\ running \in {NoLine} \cup 1..lines
  /\ printed \in Seq(1..lines) /\ announced \in 0..Len(printed) /\ prompts \in 0..announced
  /\ owed \in Nat /\ gone \in BOOLEAN /\ lines \in Nat
  /\ send.at \in SendPlaces

(* A send that settled on a prompt settled on the prompt of the line it    *)
(* typed, whatever earlier sends left running, were interrupted or fed to  *)
(* a program: the status is its own command's.                             *)
ReportsOwnCommand ==
  outcome.wait = "stdin_read" /\ outcome.line # NoLine => outcome.code = outcome.line

(* A send that typed a line and settled on silence left a command running: *)
(* the shell still owes a prompt (the module's fourth promise).  The debt  *)
(* of an earlier send is never paid when its prompt comes between two      *)
(* sends, so the code does not keep this.                                  *)
LeftRunning ==
  outcome.wait = "inferred_idle" /\ outcome.line # NoLine => outcome.left > 0
=============================================================================
