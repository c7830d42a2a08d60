---------------------------- MODULE AgentRuntime ----------------------------
(***************************************************************************)
(* One session's agent: prompts that claim it, interrupts and a drain that *)
(* ask its running turn to stop, and the status pushed to subscribers.     *)
(* Every call runs on a task of its own, so the atomics and the mutexes    *)
(* are the only order between them.                                        *)
(*                                                                         *)
(* A turn is what TurnFlow models; here it is its start, its boundaries,   *)
(* where it reads the interrupt, and its end, with the lines of the start  *)
(* and of the end that the journal may refuse.  Turns are numbered from 1. *)
(***************************************************************************)
EXTENDS Naturals, Sequences, FiniteSets

CONSTANTS
  Prompters,    \* callers of agent.prompt
  Stoppers,     \* callers of agent.interrupt
  Drainer,      \* the caller of drain, or a value no set holds
  MaxTurns,     \* bound: prompts accepted
  MaxSteps      \* TurnConfig::max_steps

ASSUME ConstantsAssumption ==
  /\ IsFiniteSet(Prompters) /\ Prompters \cap Stoppers = {}
  /\ Drainer \notin Prompters \cup Stoppers
  /\ MaxTurns \in Nat /\ MaxSteps \in Nat \ {0}

Causes == {"none", "cancelled", "shutdown"}
Reasons == {"none", "natural", "max-steps", "failed", "unclosed"} \cup (Causes \ {"none"})
Askers == Stoppers \cup {Drainer}

(* started: the turn had cleared the interrupt when it was found.          *)
Targets == [turn : 0 .. MaxTurns, started : BOOLEAN]

VARIABLES
  busy,     \* SessionAgent::busy
  stopped,  \* Interrupt::stopped
  cause,    \* Interrupt::cause
  pushed,   \* the last agent/status pushed to the subscribers
  at,       \* where each call is
  turn,     \* the turn the agent runs or ran last
  open,     \* the turns with a turn/start and no turn/end on the journal
  steps,    \* steps of the running turn
  ends,     \* how each turn ended: "unclosed" when its lines were refused
  target,   \* the turn an asker found the agent busy with
  asked,    \* the targets whose interrupt was answered ok: true
  drained   \* what the drain answered: "no", "zero" or "late"

vars == <<busy, stopped, cause, pushed, at, turn, open, steps, ends,
          target, asked, drained>>

interrupt == <<stopped, cause>>
flow == <<turn, open, steps, ends>>
asks == <<target, asked, drained>>

TypeOK ==
  /\ busy \in BOOLEAN /\ stopped \in BOOLEAN /\ open \subseteq 1 .. turn
  /\ cause \in Causes
  /\ pushed \in {"none", "running", "idle"}
  /\ at \in [Prompters \cup Askers ->
               {"out", "claimed", "starting", "clearing", "turn", "settling",
                "stopping", "returned", "released", "found", "set", "waiting",
                "done"}]
  /\ turn \in 0 .. MaxTurns /\ steps \in 0 .. MaxSteps
  /\ ends \in Seq(Reasons) /\ Len(ends) = turn
  /\ target \in [Askers -> Targets]
  /\ asked \subseteq Targets
  /\ drained \in {"no", "zero", "late"}

Init == /\ busy = FALSE /\ stopped = FALSE /\ cause = "none"
        /\ pushed = "none" /\ turn = 0 /\ open = {} /\ steps = 0
        /\ at = [c \in Prompters \cup Askers |-> "out"]
        /\ ends = <<>>
        /\ target = [c \in Askers |-> [turn |-> 0, started |-> FALSE]]
        /\ asked = {} /\ drained = "no"

Goto(c, place) == at' = [at EXCEPT ![c] = place]

-----------------------------------------------------------------------------
(* agent.prompt                                                            *)

(* The busy flag is read and then set, not exchanged.                      *)
Claim_Unguarded(p) == /\ at[p] = "out" /\ turn < MaxTurns
                      /\ busy' = TRUE
                      /\ Goto(p, "claimed")
                      /\ UNCHANGED <<interrupt, pushed, flow, asks>>

(* The compare-exchange; a caller that loses it is answered SessionBusy.   *)
Claim(p) == /\ at[p] = "out" /\ ~busy /\ turn < MaxTurns
            /\ busy' = TRUE
            /\ Goto(p, "claimed")
            /\ UNCHANGED <<interrupt, pushed, flow, asks>>

PushRunning(p) == /\ at[p] = "claimed"
                  /\ pushed' = "running"
                  /\ Goto(p, "starting")
                  /\ UNCHANGED <<busy, interrupt, flow, asks>>

(* run_turn begins with Interrupt::clear, which is two writes.             *)
ClearStopped(p) == /\ at[p] = "starting"
                   /\ stopped' = FALSE
                   /\ Goto(p, "clearing")
                   /\ UNCHANGED <<busy, cause, pushed, flow, asks>>

(* A number is taken and turn/start and the snapshot are appended: both    *)
(* stand, or a refusal leaves run_turn before it can write any closer.     *)
ClearCause(p) ==
  /\ at[p] = "clearing"
  /\ cause' = "none"
  /\ turn' = turn + 1
  /\ \/ /\ Goto(p, "turn") /\ steps' = 1
        /\ open' = open \cup {turn'} /\ ends' = Append(ends, "none")
     \/ /\ Goto(p, "returned") /\ steps' = 0
        /\ \/ open' = open /\ ends' = Append(ends, "failed")
           \/ open' = open \cup {turn'} /\ ends' = Append(ends, "unclosed")
  /\ UNCHANGED <<busy, stopped, pushed, asks>>

(* The boundary reads the step bound before the interrupt.                 *)
NextStep_IgnoresStop(p) == /\ at[p] = "turn" /\ steps < MaxSteps
                           /\ steps' = steps + 1
                           /\ UNCHANGED <<busy, interrupt, pushed, at, turn, open, ends, asks>>

(* A step boundary of a turn that is not over for another reason.          *)
NextStep(p) == /\ at[p] = "turn" /\ ~stopped /\ steps < MaxSteps
               /\ steps' = steps + 1
               /\ UNCHANGED <<busy, interrupt, pushed, at, turn, open, ends, asks>>

SeesStop(p) == /\ at[p] = "turn" /\ stopped
               /\ Goto(p, "settling")
               /\ UNCHANGED <<busy, interrupt, pushed, flow, asks>>

(* The guard is dropped before the closers are written.                    *)
End_Releases(p, reason) == /\ ends' = [ends EXCEPT ![turn] = reason]
                           /\ busy' = FALSE
                           /\ Goto(p, "stopping")
                           /\ UNCHANGED <<interrupt, pushed, turn, open, steps, asks>>

(* The cause is read after the flag.                                       *)
End(p, reason) == /\ ends' = [ends EXCEPT ![turn] = reason]
                  /\ Goto(p, "stopping")
                  /\ UNCHANGED <<busy, interrupt, pushed, turn, open, steps, asks>>

ReadCause(p) == /\ at[p] = "settling"
                /\ End(p, IF cause = "shutdown" THEN "shutdown" ELSE "cancelled")

(* The model settled, the guard fired or the step failed: the loop leaves  *)
(* without asking the interrupt, or after finding it unset.                *)
Finish(p) == /\ at[p] = "turn"
             /\ \/ \E reason \in {"natural", "failed"} : End(p, reason)
                \/ steps = MaxSteps /\ ~stopped /\ End(p, "max-steps")

TurnEnd(p) == /\ at[p] = "stopping"
              /\ open' = open \ {turn}
              /\ Goto(p, "returned")
              /\ UNCHANGED <<busy, interrupt, pushed, turn, steps, ends, asks>>

(* The journal refuses one of the closers; run_turn returns all the same.  *)
EndRefused(p) == /\ at[p] = "stopping"
                 /\ ends' = [ends EXCEPT ![turn] = "unclosed"]
                 /\ Goto(p, "returned")
                 /\ UNCHANGED <<busy, interrupt, pushed, turn, open, steps, asks>>

(* A failed turn keeps the claim: no guard releases it.                    *)
Release_NaturalOnly(p) == /\ at[p] = "returned" /\ ends[turn] # "failed"
                          /\ busy' = FALSE
                          /\ Goto(p, "released")
                          /\ UNCHANGED <<interrupt, pushed, flow, asks>>

(* The guard drops after the flush, whatever run_turn returned.            *)
Release(p) == /\ at[p] = "returned"
              /\ busy' = FALSE
              /\ Goto(p, "released")
              /\ UNCHANGED <<interrupt, pushed, flow, asks>>

PushIdle(p) == /\ at[p] = "released"
               /\ pushed' = "idle"
               /\ Goto(p, "out")
               /\ UNCHANGED <<busy, interrupt, flow, asks>>

-----------------------------------------------------------------------------
(* agent.interrupt and drain                                               *)

CauseOf(c) == IF c = Drainer THEN "shutdown" ELSE "cancelled"

Starting == \E p \in Prompters : at[p] \in {"claimed", "starting", "clearing"}

FindBusy(c) == /\ at[c] = "out" /\ busy
               /\ target' = [target EXCEPT ![c] =
                               [turn |-> IF Starting THEN turn + 1 ELSE turn,
                                started |-> ~Starting]]
               /\ Goto(c, "found")
               /\ UNCHANGED <<busy, interrupt, pushed, flow, asked, drained>>

(* stop_because sets the flag, and the first to set it then names why.     *)
SetStopped(c) == /\ at[c] = "found"
                 /\ stopped' = TRUE
                 /\ Goto(c, IF ~stopped THEN "set"
                            ELSE IF c = Drainer THEN "waiting" ELSE "done")
                 /\ UNCHANGED <<busy, cause, pushed, flow, asks>>

SetCause(c) == /\ at[c] = "set"
               /\ cause' = CauseOf(c)
               /\ asked' = IF c = Drainer THEN asked ELSE asked \cup {target[c]}
               /\ Goto(c, IF c = Drainer THEN "waiting" ELSE "done")
               /\ UNCHANGED <<busy, stopped, pushed, flow, target, drained>>

(* The drain found nobody busy, or a later poll does; or its budget ends.  *)
DrainAnswers ==
  /\ \/ at[Drainer] = "out" /\ ~busy /\ drained' = "zero"
     \/ at[Drainer] = "waiting" /\ ~busy /\ drained' = "zero"
     \/ at[Drainer] = "waiting" /\ busy /\ drained' = "late"
  /\ Goto(Drainer, "done")
  /\ UNCHANGED <<busy, interrupt, pushed, flow, target, asked>>

-----------------------------------------------------------------------------

Prompt(p) == \/ PushRunning(p) \/ ClearStopped(p) \/ ClearCause(p)
             \/ NextStep(p) \/ SeesStop(p) \/ ReadCause(p) \/ Finish(p)
             \/ TurnEnd(p) \/ EndRefused(p) \/ Release(p) \/ PushIdle(p)

Ask(c) == SetStopped(c) \/ SetCause(c)

Next == \/ \E p \in Prompters : Claim(p) \/ Prompt(p)
        \/ \E c \in Askers : FindBusy(c) \/ Ask(c)
        \/ DrainAnswers

Spec == Init /\ [][Next]_vars

(* Every accepted call keeps being scheduled; nobody has to call again.    *)
FairSpec == /\ Spec
            /\ \A p \in Prompters : WF_vars(Prompt(p))
            /\ \A c \in Askers : WF_vars(Ask(c))

-----------------------------------------------------------------------------

Inside == {"claimed", "starting", "clearing", "turn", "settling", "stopping",
           "returned"}
TurnRuns == \E p \in Prompters : at[p] \in {"turn", "settling", "stopping"}

(* One turn at a time: a single prompt is between its claim and its        *)
(* release, and the agent is busy exactly then (prompt, BusyGuard).        *)
OneTurnAtATime ==
  /\ \A p, q \in Prompters : at[p] \in Inside /\ at[q] \in Inside => p = q
  /\ busy <=> \E p \in Prompters : at[p] \in Inside

(* A drain that answers zero answers it with no turn under way, and leaves *)
(* a turn open only where the journal refused one of its lines (drain;     *)
(* prompt: the guard is dropped after run_turn and the flush).             *)
ZeroMeansClosed ==
  [][drained = "no" /\ drained' = "zero" =>
       ~TurnRuns /\ \A t \in open : ends[t] = "unclosed"]_vars

(* An interrupt that found the turn already started and was answered       *)
(* ok: true stops it at the next boundary, whatever other prompts and      *)
(* askers do in between (interrupt, run_steps).                            *)
HeardOnceStarted ==
  [][turn' = turn /\ steps' > steps => [turn |-> turn, started |-> TRUE] \notin asked]_vars

(* Every accepted prompt gives the session back.                           *)
BusyEnds == busy ~> ~busy

-----------------------------------------------------------------------------
(* What the code says of itself and does not keep: TLC refutes each of     *)
(* these (README, "Disagreements").                                        *)

(* An interrupt answered ok: true stops its turn at the next boundary: the *)
(* turn it was answered for takes no further step.                         *)
AnsweredIsHeard ==
  [][turn' = turn /\ steps' > steps => \A a \in asked : a.turn # turn]_vars

(* Zero means every turn closed itself.                                    *)
ZeroClosesAll == [][drained = "no" /\ drained' = "zero" => open = {}]_vars

(* An interrupt that found one turn does not stop the next.                *)
NoStrayStop ==
  \A t \in DOMAIN ends : ends[t] = "cancelled" => \E c \in Askers : target[c].turn = t

(* A turn only the drain stopped says shutdown.                            *)
ShutdownIsNamed ==
  (\A c \in Stoppers : at[c] = "out") =>
    \A t \in DOMAIN ends : ends[t] # "cancelled"

(* Nothing is told idle while a turn is running.                           *)
IdleMeansIdle == pushed = "idle" => ~TurnRuns

=============================================================================
