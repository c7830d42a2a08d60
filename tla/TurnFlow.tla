------------------------------ MODULE TurnFlow ------------------------------
(***************************************************************************)
(* One session's turn loop over its journal: run_turn, its steps, the pool *)
(* of tool calls, the closers a live turn writes, and the closers crash    *)
(* repair writes when the process died first.                              *)
(*                                                                         *)
(* An event is its type, a number (the turn, the step, the call's place in *)
(* the assistant message, or how many calls that message asks for), the    *)
(* position of the event it cites, 0 for none, and for a turn/end whether  *)
(* its stop reason is the failed one.  Chunks, prompts and the request     *)
(* envelope change no state the properties read and are left out.          *)
(***************************************************************************)
EXTENDS Naturals, Sequences, FiniteSets, SequencesExt, Listing

CONSTANTS
  Answers,    \* what the model may ask for: sequences of call kinds
  Cap,        \* max_parallel_tool_calls
  MaxSteps,   \* TurnConfig::max_steps
  MaxTurns,   \* bound: turns started on this journal
  MaxContexts,\* bound: contexts a step's post-execute listeners add
  Faults      \* where an append may fail or a plugin may panic

Kinds == {"parallel", "exclusive", "gated"}
FaultPoints == {"start", "context", "run", "tools", "close"}

ASSUME ConstantsAssumption ==
  /\ Answers \subseteq Seq(Kinds)
  /\ Cap \in Nat \ {0} /\ MaxSteps \in Nat \ {0} /\ MaxTurns \in Nat
  /\ MaxContexts \in Nat
  /\ Faults \subseteq FaultPoints

VARIABLES
  log,      \* the durable events
  pc,       \* where run_turn is, or "down", "repair", "idle"
  turns,    \* TurnEngine::turns
  steps,    \* Progress::steps
  inStep,   \* Progress::open_step is set
  batch,    \* messages claimed for the step about to start
  inbox,    \* the waiting next-step contexts
  calls,    \* kinds of this step's calls
  status,   \* where each of those calls is
  failure,  \* run_tool_group has met its first fault
  cut,      \* the provider stopped this step at its output cap
  reason,   \* the stop reason turn/end will carry
  stopped,  \* the interrupt flag
  closers   \* what repair has yet to append

vars == <<log, pc, turns, steps, inStep, batch, inbox, calls, status,
          failure, cut, reason, stopped, closers>>

memory == <<steps, inStep, batch, inbox, calls, status, failure, cut, reason>>

Types == {"turn/start", "step/start", "user/message", "assistant/message",
          "tool/call", "approval/asked", "approval/decided", "tool/result",
          "inbox/insert", "inbox/claim", "step/end", "turn/end"}

Events == [ty : Types, n : Nat, cites : Nat, failed : BOOLEAN]

Event(ty, n) == [ty |-> ty, n |-> n, cites |-> 0, failed |-> FALSE]
Result(i, at) == [Event("tool/result", i) EXCEPT !.cites = at]
TurnEnd(n, why) == [Event("turn/end", n) EXCEPT !.failed = (why = "failed")]

Positions(l, ty) == {i \in DOMAIN l : l[i].ty = ty}
LastAt(l, ty) == Max(Positions(l, ty) \cup {0})
LastOf(l, ty, n) == Max({i \in Positions(l, ty) : l[i].n = n} \cup {0})

Write(e) == log' = Append(log, e)

CallStates == {"asked", "pushed", "started", "waiting", "running", "settled",
               "committed", "done"}

TypeOK == /\ log \in Seq(Events)
          /\ pc \in {"down", "repair", "idle", "context", "boundary",
                     "pre-step", "enter", "messages", "request", "tools",
                     "settle", "stopping", "closing"}
          /\ turns \in 0 .. MaxTurns /\ steps \in 0 .. MaxSteps
          /\ inStep \in BOOLEAN /\ failure \in BOOLEAN /\ cut \in BOOLEAN
          /\ batch \in Seq(Nat) /\ inbox \in Seq(Nat)
          /\ calls \in Seq(Kinds)
          /\ status \in [DOMAIN calls -> CallStates]
          /\ stopped \in BOOLEAN
          /\ \A c \in ToSet(closers) : c \in Events

Init == /\ log = <<>> /\ pc = "down" /\ turns = 0 /\ stopped = FALSE
        /\ steps = 0 /\ inStep = FALSE /\ batch = <<>> /\ inbox = <<>>
        /\ calls = <<>> /\ status = <<>> /\ failure = FALSE /\ cut = FALSE
        /\ reason = "natural" /\ closers = <<>>

Idle == /\ steps' = 0 /\ inStep' = FALSE /\ calls' = <<>> /\ status' = <<>>
        /\ failure' = FALSE /\ cut' = FALSE /\ reason' = "natural"

-----------------------------------------------------------------------------
(* Crash repair: what an interrupted journal is missing, in append order.  *)

(* The asks of the open turn with no decision, in the order they were put. *)
Undecided(l, from) ==
  InOrder({i \in from + 1 .. Len(l) :
             /\ l[i].ty = "approval/asked"
             /\ ~\E j \in i + 1 .. Len(l) :
                   l[j].ty = "approval/decided" /\ l[j].n = l[i].n})

AskedBy(l, from) == IF LastAt(l, "assistant/message") > from
                    THEN l[LastAt(l, "assistant/message")].n ELSE 0

(* One result per call of the open step that none answers: it cites the    *)
(* tool/call when the crash left one.                                      *)
Unanswered(l, from) ==
  LET open == InOrder({i \in 1 .. AskedBy(l, from) :
                         LastOf(l, "tool/result", i) <= from})
      Call(i) == LastOf(l, "tool/call", i)
  IN  [k \in DOMAIN open |->
         Result(open[k], IF Call(open[k]) > from THEN Call(open[k]) ELSE 0)]

interrupted_turn_closers(l) ==
  LET turn == LastAt(l, "turn/start")
      step == LastAt(l, "step/start")
      asks == Undecided(l, turn)
  IN  IF turn = 0 \/ LastAt(l, "turn/end") > turn THEN <<>>
      ELSE [k \in DOMAIN asks |-> Event("approval/decided", l[asks[k]].n)]
           \o (IF step > turn /\ LastAt(l, "step/end") < step
               THEN Append(Unanswered(l, step), Event("step/end", l[step].n))
               ELSE <<>>)
           \o <<TurnEnd(l[turn].n, "interrupted")>>

(* Opening the session reads the journal and appends what it lacks.        *)
Reopen == /\ pc = "down"
          /\ closers' = interrupted_turn_closers(log)
          /\ pc' = "repair"
          /\ UNCHANGED <<log, turns, memory, stopped>>

Repair == /\ pc = "repair" /\ closers # <<>>
          /\ Write(Head(closers))
          /\ closers' = Tail(closers)
          /\ UNCHANGED <<pc, turns, memory, stopped>>

(* The contexts inserted and not yet claimed, which Inbox::replay folds.   *)
Waiting(l) == InOrder({i \in Positions(l, "inbox/insert") :
                         LastAt(l, "inbox/claim") < i})

(* TurnEngine::from_context: numbering continues, the queue is refolded.   *)
FromContext == /\ pc = "repair" /\ closers = <<>>
               /\ turns' = Cardinality(Positions(log, "turn/start"))
               /\ inbox' = Waiting(log)
               /\ pc' = "idle"
               /\ UNCHANGED <<log, steps, inStep, batch, calls, status,
                              failure, cut, reason, stopped, closers>>

Crash == /\ pc # "down"
         /\ pc' = "down" /\ Idle /\ turns' = 0 /\ stopped' = FALSE
         /\ batch' = <<>> /\ inbox' = <<>> /\ closers' = <<>>
         /\ UNCHANGED log

-----------------------------------------------------------------------------
(* The turn up to the model's answer.                                      *)

RunTurn == /\ pc = "idle" /\ turns < MaxTurns
           /\ stopped' = FALSE
           /\ turns' = turns + 1
           /\ Write(Event("turn/start", turns + 1))
           /\ Idle
           /\ batch' = <<0>>            \* the prompt itself
           /\ pc' = "context"
           /\ UNCHANGED <<inbox, closers>>

(* The journal refuses turn/start: the number is spent, nothing else is.   *)
StartRefused == /\ "start" \in Faults
                /\ pc = "idle" /\ turns < MaxTurns
                /\ stopped' = FALSE
                /\ turns' = turns + 1
                /\ UNCHANGED <<log, pc, memory, closers>>

SnapshotContext == /\ pc = "context"
                   /\ pc' = "boundary"
                   /\ UNCHANGED <<log, turns, memory, stopped, closers>>

(* Waiting input joins the turn behind what is already claimed; the claim  *)
(* is durable before the queue changes, and an empty one writes nothing.   *)
Claim == /\ pc = "boundary"
         /\ batch' = batch \o inbox
         /\ inbox' = <<>>
         /\ IF inbox = <<>> THEN UNCHANGED log
            ELSE Write(Event("inbox/claim", Len(inbox)))
         /\ pc' = "pre-step"
         /\ UNCHANGED <<turns, steps, inStep, calls, status, failure, cut,
                        reason, stopped, closers>>

(* agent/pre-step: a listener rejects the claim, or the step is entered.   *)
PreStep == /\ pc = "pre-step"
           /\ \/ pc' = "enter" /\ steps' = steps + 1 /\ UNCHANGED reason
              \/ pc' = "stopping" /\ reason' = "rejected" /\ UNCHANGED steps
           /\ UNCHANGED <<log, turns, inStep, batch, inbox, calls, status,
                          failure, cut, stopped, closers>>

StepStart == /\ pc = "enter"
             /\ Write(Event("step/start", steps))
             /\ inStep' = TRUE
             /\ pc' = "messages"
             /\ UNCHANGED <<turns, steps, batch, inbox, calls, status, failure,
                            cut, reason, stopped, closers>>

UserMessage == /\ pc = "messages" /\ batch # <<>>
               /\ Write(Event("user/message", Head(batch)))
               /\ batch' = Tail(batch)
               /\ UNCHANGED <<pc, turns, steps, inStep, inbox, calls, status,
                              failure, cut, reason, stopped, closers>>

Request == /\ pc = "messages" /\ batch = <<>>
           /\ pc' = "request"
           /\ UNCHANGED <<log, turns, memory, stopped, closers>>

(* The provider answers.  A completion cut at the cap keeps none of the    *)
(* calls it asked for, on the message or for dispatch.                     *)
Respond(asked, truncated) ==
  /\ pc = "request"
  /\ LET kept == IF truncated THEN <<>> ELSE asked
     IN  /\ Write(Event("assistant/message", Len(kept)))
         /\ calls' = kept
         /\ status' = [i \in DOMAIN kept |-> "asked"]
  /\ cut' = truncated
  /\ failure' = FALSE
  /\ pc' = "tools"
  /\ UNCHANGED <<turns, steps, inStep, batch, inbox, reason, stopped, closers>>

-----------------------------------------------------------------------------
(* One step's calls: run_tool_calls, run_tool_group, dispatch_tool_call.   *)

CallsAt(states) == {i \in DOMAIN calls : status[i] \in states}
InFlight == {"pushed", "started", "waiting", "running"}

Due_Any(i) == status[i] = "settled" /\ ~failure

(* A settled call whose every earlier sibling is committed.                *)
Due(i) == /\ status[i] = "settled" /\ ~failure
          /\ \A j \in 1 .. i - 1 : status[j] = "done"

(* One task polls every call: nothing else moves while a result is due or  *)
(* a committed result still owes its context.                              *)
Quiet == /\ \A i \in DOMAIN calls : ~Due(i)
         /\ CallsAt({"committed"}) = {}

Solo(i) == calls[i] = "exclusive"

MayPush_NoBarrier(i) == /\ status[i] = "asked" /\ ~failure
                        /\ \A j \in 1 .. i - 1 : status[j] # "asked"
                        /\ Cardinality(CallsAt(InFlight)) < Cap

(* The calls this pool may take on: in order, up to the cap, an exclusive  *)
(* call alone in a group of its own.                                       *)
MayPush(i) == /\ status[i] = "asked" /\ ~failure
              /\ \A j \in 1 .. i - 1 : status[j] # "asked"
              /\ Cardinality(CallsAt(InFlight)) < Cap
              /\ Solo(i) => \A j \in 1 .. i - 1 : status[j] = "done"
              /\ \A j \in 1 .. i - 1 : Solo(j) => status[j] = "done"

Move(i, to) == /\ status' = [status EXCEPT ![i] = to]
               /\ UNCHANGED <<pc, turns, steps, inStep, batch, calls, cut,
                              reason, stopped, closers>>

Push(i) == /\ pc = "tools" /\ Quiet /\ MayPush(i)
           /\ Move(i, "pushed")
           /\ UNCHANGED <<log, inbox, failure>>

(* The pool is topped up before anything in it is polled. *)
Polling == /\ pc = "tools" /\ Quiet
           /\ \A i \in DOMAIN calls : ~MayPush(i)

(* The first poll: calls are first polled in the order they were pushed.   *)
Dispatch(i) == /\ Polling /\ status[i] = "pushed"
               /\ \A j \in 1 .. i - 1 : status[j] # "pushed"
               /\ Write(Event("tool/call", i))
               /\ Move(i, IF calls[i] = "gated" THEN "started" ELSE "running")
               /\ UNCHANGED <<inbox, failure>>

Ask(i) == /\ Polling /\ status[i] = "started"
          /\ Write(Event("approval/asked", i))
          /\ Move(i, "waiting")
          /\ UNCHANGED <<inbox, failure>>

(* An outcome: granted, and the call runs, or a refusal settles it.        *)
Decide(i) == /\ Polling /\ status[i] = "waiting"
             /\ Write(Event("approval/decided", i))
             /\ \E to \in {"running", "settled"} : Move(i, to)
             /\ UNCHANGED <<inbox, failure>>

(* The tool and the post-execute listeners are done with the call.         *)
Settle(i) == /\ Polling /\ status[i] = "running"
             /\ Move(i, "settled")
             /\ UNCHANGED <<log, inbox, failure>>

CommitResult(i) == /\ pc = "tools" /\ Due(i)
                   /\ Write(Result(i, LastOf(log, "tool/call", i)))
                   /\ Move(i, "committed")
                   /\ UNCHANGED <<inbox, failure>>

(* A context goes to the inbox after its result, and durably first.        *)
CommitContext(i) == /\ pc = "tools" /\ status[i] = "committed"
                    /\ Move(i, "done")
                    /\ \/ UNCHANGED <<log, inbox>>
                       \/ /\ Len(inbox) < MaxContexts
                          /\ Write(Event("inbox/insert", Len(log)))
                          /\ inbox' = Append(inbox, Len(log) + 1)
                    /\ UNCHANGED failure

(* A call's append fails: the pool takes on nothing more and drains.  The  *)
(* call itself is over, with no result.                                    *)
CallFails(i) ==
  /\ "tools" \in Faults
  /\ \/ Polling /\ status[i] \in {"pushed", "started", "waiting"}
     \/ pc = "tools" /\ (Due(i) \/ status[i] = "committed")
  /\ failure' = TRUE
  /\ Move(i, "done")
  /\ UNCHANGED <<log, inbox>>

Drained == pc = "tools" /\ CallsAt(InFlight) = {}

GroupFailed == /\ Drained /\ failure
               /\ pc' = "closing" /\ reason' = "failed"
               /\ UNCHANGED <<log, turns, steps, inStep, batch, inbox, calls,
                              status, failure, cut, stopped, closers>>

StepEnd_CallsOnly == /\ Drained /\ ~failure /\ calls # <<>>
                     /\ \A i \in DOMAIN calls : status[i] = "done"
                     /\ Write(Event("step/end", steps))
                     /\ inStep' = FALSE
                     /\ pc' = "settle"
                     /\ UNCHANGED <<turns, steps, batch, inbox, calls, status,
                                    failure, cut, reason, stopped, closers>>

StepEnd == /\ Drained /\ ~failure
           /\ \A i \in DOMAIN calls : status[i] = "done"
           /\ Write(Event("step/end", steps))
           /\ inStep' = FALSE
           /\ pc' = "settle"
           /\ UNCHANGED <<turns, steps, batch, inbox, calls, status, failure,
                          cut, reason, stopped, closers>>

-----------------------------------------------------------------------------
(* The step boundary and the end of the turn.                              *)

(* Why the loop stops here, asked in the order the loop asks it.  A guard  *)
(* may fire at any boundary: time and repetition are the environment's.    *)
StopReasons ==
  CASE cut                -> {"max-tokens"}
    [] ~cut /\ calls = <<>> -> {"natural"}
    [] ~cut /\ calls # <<>> /\ stopped -> {"cancelled"}
    [] ~cut /\ calls # <<>> /\ ~stopped ->
         {"timed-out", "repeated"}
           \cup (IF steps >= MaxSteps THEN {"max-steps"} ELSE {"none"})

Boundary == /\ pc = "settle"
            /\ \E r \in StopReasons :
                 IF r = "none" THEN pc' = "boundary" /\ UNCHANGED reason
                 ELSE pc' = "stopping" /\ reason' = r
            /\ UNCHANGED <<log, turns, steps, inStep, batch, inbox, calls,
                           status, failure, cut, stopped, closers>>

TurnStopping == /\ pc = "stopping"
                /\ pc' = "closing"
                /\ UNCHANGED <<log, turns, memory, stopped, closers>>

CloseStep == /\ pc = "closing" /\ inStep
             /\ Write(Event("step/end", steps))
             /\ inStep' = FALSE
             /\ UNCHANGED <<pc, turns, steps, batch, inbox, calls, status,
                            failure, cut, reason, stopped, closers>>

CloseTurn_Early == /\ pc = "closing"
                   /\ Write(TurnEnd(turns, reason))
                   /\ pc' = "idle"
                   /\ UNCHANGED <<turns, memory, stopped, closers>>

CloseTurn == /\ pc = "closing" /\ ~inStep
             /\ Write(TurnEnd(turns, reason))
             /\ pc' = "idle"
             /\ UNCHANGED <<turns, memory, stopped, closers>>

(* A failed append or a panicking listener inside run_steps is caught, and *)
(* the closers are written; in the snapshot before it, and in the closers  *)
(* themselves, it ends run_turn at once.                                   *)
Fault ==
  /\ \/ /\ "run" \in Faults
        /\ pc \in {"boundary", "pre-step", "enter", "messages", "request",
                   "settle", "stopping"}
        /\ pc' = "closing" /\ reason' = "failed"
     \/ /\ "tools" \in Faults /\ pc = "tools"
        /\ pc' = "closing" /\ reason' = "failed"
     \/ /\ \/ "context" \in Faults /\ pc = "context"
           \/ "close" \in Faults /\ pc = "closing"
        /\ pc' = "idle" /\ UNCHANGED reason
  /\ UNCHANGED <<log, turns, steps, inStep, batch, inbox, calls, status,
                 failure, cut, stopped, closers>>

Interrupt == /\ pc \notin {"down", "repair", "idle"} /\ ~stopped
             /\ stopped' = TRUE
             /\ UNCHANGED <<log, pc, turns, memory, closers>>

-----------------------------------------------------------------------------

Pool == \E i \in DOMAIN calls :
          \/ Push(i) \/ Dispatch(i) \/ Ask(i) \/ Decide(i) \/ Settle(i)
          \/ CommitResult(i) \/ CommitContext(i)

Progress == \/ Reopen \/ Repair \/ FromContext
            \/ SnapshotContext \/ Claim \/ PreStep \/ StepStart
            \/ UserMessage \/ Request
            \/ \E asked \in Answers, truncated \in BOOLEAN :
                 Respond(asked, truncated)
            \/ Pool \/ GroupFailed \/ StepEnd
            \/ Boundary \/ TurnStopping \/ CloseStep \/ CloseTurn

Next == \/ Progress \/ RunTurn \/ StartRefused \/ Crash \/ Fault \/ Interrupt
        \/ \E i \in DOMAIN calls : CallFails(i)

Spec == Init /\ [][Next]_vars

(* The provider answers, tools and deciders settle: the turn's own task is *)
(* scheduled.  Nothing is assumed of prompts, crashes, faults, interrupts. *)
FairSpec == Spec /\ WF_vars(Progress)

-----------------------------------------------------------------------------
(* What a journal must look like.                                          *)

EndOf(l, i, start, end) ==
  \E j \in DOMAIN l : /\ j > i /\ l[j].ty = end /\ l[j].n = l[i].n
                      /\ \A k \in i + 1 .. j - 1 : l[k].ty # start

(* The turn of position i says that it failed. *)
TurnFailed(l, i) ==
  \E j \in DOMAIN l : /\ j > i /\ l[j].ty = "turn/end" /\ l[j].failed
                      /\ \A k \in i + 1 .. j - 1 : l[k].ty # "turn/start"

(* Every turn and every step of the journal is over, and every ask of a    *)
(* turn that did not fail is decided.                                      *)
Balanced(l) ==
  \A i \in DOMAIN l :
    /\ l[i].ty = "turn/start" => EndOf(l, i, "turn/start", "turn/end")
    /\ l[i].ty = "step/start" => EndOf(l, i, "step/start", "step/end")
    /\ l[i].ty = "approval/asked" =>
         EndOf(l, i, "turn/start", "approval/decided") \/ TurnFailed(l, i)

(* The results of call c of the assistant message at position i. *)
ResultsOf(l, i, c) ==
  {j \in DOMAIN l : /\ j > i /\ l[j].ty = "tool/result" /\ l[j].n = c
                    /\ \A k \in i + 1 .. j : l[k].ty # "assistant/message"}

Asked(l) == {i \in DOMAIN l : l[i].ty = "assistant/message"}

(* A session that is not running a turn has a journal on which every turn  *)
(* and step is closed, and every ask decided unless its own turn/end says  *)
(* the turn failed: after any crash, any refused append of the run or of a *)
(* call, and any panic of a listener or a tool, as long as the journal     *)
(* takes the snapshot and the closers (close, interrupted_turn_closers).   *)
BalancedWhenIdle == pc = "idle" => Balanced(log)

(* No request reaches the provider while an assistant message asks for a   *)
(* call that no result answers (close, repair, run_tool_calls).            *)
NoDanglingCall ==
  pc = "request" =>
    \A i \in Asked(log) : \A c \in 1 .. log[i].n : ResultsOf(log, i, c) # {}

(* The results of one message stand in the order it asked for the calls,   *)
(* one for each, however they settled, whether the engine or repair wrote  *)
(* them, and through any number of crashes in the middle of a repair.      *)
ResultsInModelOrder ==
  \A i \in Asked(log) : \A c, d \in 1 .. log[i].n :
    /\ Cardinality(ResultsOf(log, i, d)) <= 1
    /\ c < d => \A j \in ResultsOf(log, i, d) :
                  \E k \in ResultsOf(log, i, c) : k < j

(* An exclusive call shares the pool with no other call, and the calls     *)
(* before it are committed before it starts (run_tool_calls).              *)
ExclusiveRunsAlone ==
  \A i, j \in DOMAIN calls :
    pc = "tools" /\ i # j /\ Solo(i) /\ status[i] \in InFlight
      => status[j] \notin InFlight /\ (j < i => status[j] = "done")

(* Concurrency inside a group is not seen from outside: neither in what    *)
(* its results say nor in what an exclusive call may count on.             *)
CallsInOrder == ResultsInModelOrder /\ ExclusiveRunsAlone

(* A turn that started ends, or its process does.                          *)
TurnEnds == (pc = "context") ~> (pc \in {"idle", "down"})

-----------------------------------------------------------------------------
(* What the code says of itself and does not keep: TLC refutes each of     *)
(* these (README, "Disagreements").                                        *)

(* The audit pair is one to one: an ask left by a turn that is over has    *)
(* its decision.                                                           *)
AskedIsDecided ==
  pc = "idle" => \A i \in DOMAIN log :
    log[i].ty = "approval/asked" => EndOf(log, i, "turn/start", "approval/decided")

(* No two turns of one journal share a number, restarts included.          *)
TurnsNumberedOnce ==
  \A i, j \in Positions(log, "turn/start") : log[i].n = log[j].n => i = j

(* After the first fault of a group no further call is dispatched.         *)
NoDispatchAfterFault ==
  [][failure /\ failure' => \A i \in DOMAIN calls :
       ~(status[i] = "pushed" /\ status'[i] \in {"started", "running"})]_vars

(* A context whose claim is on the journal reaches the model: by the end   *)
(* of the turn that claimed it, it is a user message.                      *)
ClaimedIsRead ==
  pc = "idle" => \A i \in DOMAIN log : log[i].ty = "inbox/insert" =>
    \/ \A j \in DOMAIN log : log[j].ty = "inbox/claim" => j < i
    \/ \E j \in DOMAIN log : log[j].ty = "user/message" /\ log[j].n = i

=============================================================================
