----------------------------- MODULE TurnWaits -----------------------------
(***************************************************************************)
(* What one turn waits for, and the interrupt that cuts each wait short:   *)
(* the decision about a gated call, the user's answer to a tool that asks, *)
(* and the backoff before a failed request is sent again.                  *)
(*                                                                         *)
(* An event is its type, a key that pairs it with others (an ask's id, a   *)
(* turn and step) and what it says.  The journal takes every record but    *)
(* those of a retry, whose refusal the code handles; TurnFlow has the      *)
(* failing appends of the rest of a turn.  Ids hold no clock: two services *)
(* started in one millisecond are the case their counter is for.           *)
(***************************************************************************)
EXTENDS Naturals, Sequences, FiniteSets, SequencesExt, Listing

CONSTANTS
  Gated,        \* calls that need an approval
  Asking,       \* calls of ask_user_question
  QuestionSets, \* what such a call may ask
  Given,        \* what an answerer may answer it
  Nothing,      \* no answer
  Panic,        \* an answerer that panicked
  MaxRetries,   \* RetryPolicy::Normal::max_retries
  MaxSteps,     \* TurnConfig::max_steps
  MaxTurns, MaxWaits, MaxSwitches
                \* bounds: turns, asks and retries, policy switches

Calls == Gated \cup Asking
Words == {"allowed-once", "rejected", "unavailable"}
NoFailure == [listed |-> FALSE, asks |-> "nothing"]
Failures == [listed : BOOLEAN, asks : {"nothing", "less", "more"}]

ASSUME ConstantsAssumption ==
  /\ Gated \cap Asking = {} /\ "backoff" \notin Calls
  /\ Nothing \notin Words /\ Nothing \notin Given /\ Nothing # Panic
  /\ MaxRetries \in Nat /\ MaxSteps \in Nat
  /\ MaxTurns \in Nat /\ MaxWaits \in Nat /\ MaxSwitches \in Nat
  /\ \A s \in QuestionSets \cup Given : s \in Seq(ToSet(s))
  /\ \A g \in Given : \A k \in DOMAIN g :
       g[k].selected \in Seq(ToSet(g[k].selected)) /\ g[k].text \in BOOLEAN

VARIABLES
  log,      \* the durable events
  pc,       \* the turn's own task, or "down", "repair", "idle"
  turn, step,
  next,     \* ApprovalService::next and QuestionService::next
  at,       \* where each call of the step is
  id,       \* the id its ask goes by
  answer,   \* what its answerer has returned
  outcome,  \* what its ask settled as
  stopped,  \* the interrupt flag
  parked,   \* who has subscribed to it and waits for it to change
  woken,    \* which of them it has changed for
  mode,     \* the route's RetryPolicy
  failure,  \* why the last request failed
  sent,     \* requests sent in this step
  closers,  \* what repair has yet to append
  said      \* history: the answers of answerers that returned

vars == <<log, pc, turn, step, next, at, id, answer, outcome, stopped, parked,
          woken, mode, failure, sent, closers, said>>
asks == <<next, at, id, answer, outcome>>
flag == <<stopped, parked, woken>>
request == <<turn, step, failure, sent>>

Event(ty, key, says) == [ty |-> ty, key |-> key, says |-> says]
Write(e) == log' = Append(log, e)
Goto(place) == pc' = place
At(ty) == {i \in DOMAIN log : log[i].ty = ty}
Latest(S) == Max(S \cup {0})

AskedType(c) == IF c \in Gated THEN "approval/asked" ELSE "question/asked"
ClosedType(ty) ==
  IF ty = "approval/asked" THEN "approval/decided" ELSE "question/answered"
Withdrawn(ty) == IF ty = "approval/asked" THEN "cancelled" ELSE Nothing

NoCalls == /\ at' = [c \in Calls |-> "off"]
           /\ id' = [c \in Calls |-> 0]
           /\ answer' = [c \in Calls |-> Nothing]
           /\ outcome' = [c \in Calls |-> Nothing]

Init == /\ log = <<>> /\ pc = "down" /\ turn = 0 /\ step = 0
        /\ next = [ty \in {"approval/asked", "question/asked"} |-> 0]
        /\ at = [c \in Calls |-> "off"] /\ id = [c \in Calls |-> 0]
        /\ answer = [c \in Calls |-> Nothing]
        /\ outcome = [c \in Calls |-> Nothing]
        /\ stopped = FALSE /\ parked = {} /\ woken = {}
        /\ mode \in {"normal", "always"}
        /\ failure = NoFailure /\ sent = 0
        /\ closers = <<>> /\ said = {}

-----------------------------------------------------------------------------
(* The interrupt.  A waiter subscribes before it looks, so a stop that     *)
(* lands between the two is seen.                                          *)

Stop == /\ pc \notin {"down", "repair", "idle"} /\ ~stopped
        /\ stopped' = TRUE
        /\ woken' = parked
        /\ UNCHANGED <<log, pc, mode, asks, request, parked, closers, said>>

Waits_Unlooked(w) == /\ parked' = parked \cup {w}
                     /\ woken' = woken \ {w}
                     /\ UNCHANGED stopped

Waits(w) == /\ ~stopped
            /\ parked' = parked \cup {w}
            /\ woken' = woken \ {w}
            /\ UNCHANGED stopped

Leaves(w) == /\ parked' = parked \ {w}
             /\ woken' = woken \ {w}
             /\ UNCHANGED stopped

-----------------------------------------------------------------------------
(* The turn: opening a session repairs its journal, a prompt starts a turn *)
(* on services counted past the asks the journal holds.                    *)

HasOpenTurn == Latest(At("turn/start")) > Latest(At("turn/end"))

(* The asks of the open turn of one type that nothing closes, in order. *)
Open(ty) ==
  InOrder({i \in At(ty) : /\ i > Latest(At("turn/start"))
                         /\ ~\E j \in At(ClosedType(ty)) : log[j].key = log[i].key})

Closes(ty) == [k \in DOMAIN Open(ty) |->
                 Event(ClosedType(ty), log[Open(ty)[k]].key, Withdrawn(ty))]

Missing_NoQuestions ==
  IF HasOpenTurn
  THEN Closes("approval/asked")
       \o <<Event("turn/end", log[Latest(At("turn/start"))].key, Nothing)>>
  ELSE <<>>

Missing ==
  IF HasOpenTurn
  THEN Closes("approval/asked") \o Closes("question/asked")
       \o <<Event("turn/end", log[Latest(At("turn/start"))].key, Nothing)>>
  ELSE <<>>

Reopen == /\ pc = "down"
          /\ closers' = Missing
          /\ Goto("repair")
          /\ UNCHANGED <<log, mode, asks, request, flag, said>>

Repair == /\ pc = "repair"
          /\ IF closers = <<>> THEN Goto("idle") /\ UNCHANGED <<log, closers>>
             ELSE /\ Write(Head(closers)) /\ closers' = Tail(closers)
                  /\ UNCHANGED pc
          /\ UNCHANGED <<mode, asks, request, flag, said>>

(* What is in memory is lost; what an answerer said stays said. *)
Crash == /\ pc # "down"
         /\ Goto("down") /\ NoCalls
         /\ next' = [ty \in DOMAIN next |-> 0]
         /\ stopped' = FALSE /\ parked' = {} /\ woken' = {} /\ closers' = <<>>
         /\ turn' = 0 /\ step' = 0 /\ sent' = 0 /\ failure' = NoFailure
         /\ UNCHANGED <<log, mode, said>>

Seeded == [ty \in DOMAIN next |-> Cardinality(At(ty))]

RunTurn == /\ pc = "idle" /\ Cardinality(At("turn/start")) < MaxTurns
           /\ next' = Seeded
           /\ stopped' = FALSE
           /\ turn' = Cardinality(At("turn/start")) + 1
           /\ step' = 1 /\ sent' = 1
           /\ Write(Event("turn/start", turn', Nothing))
           /\ Goto("sending")
           /\ UNCHANGED <<mode, at, id, answer, outcome, parked, woken,
                          failure, closers, said>>

(* The model asks for some of the calls. *)
Asks == At("approval/asked") \cup At("question/asked")
Waited == Cardinality(Asks \cup At("llm/retry"))

Respond(asked) == /\ pc = "sending"
                  /\ Cardinality(asked) + Waited <= MaxWaits
                  /\ at' = [c \in Calls |-> IF c \in asked THEN "ready" ELSE "off"]
                  /\ Goto("tools")
                  /\ UNCHANGED <<log, mode, next, id, answer, outcome, request,
                                 flag, closers, said>>

(* A boundary: the turn takes another step, or stops. *)
StepEnd == /\ pc = "tools" /\ \A c \in Calls : at[c] \in {"off", "done"}
           /\ NoCalls
           /\ \/ /\ ~stopped /\ step < MaxSteps
                 /\ step' = step + 1 /\ sent' = 1 /\ Goto("sending")
              \/ Goto("closing") /\ UNCHANGED <<step, sent>>
           /\ UNCHANGED <<log, mode, next, turn, failure, flag, closers, said>>

TurnEnd == /\ pc = "closing"
           /\ Write(Event("turn/end", turn, Nothing))
           /\ Goto("idle")
           /\ UNCHANGED <<mode, asks, request, flag, closers, said>>

-----------------------------------------------------------------------------
(* One ask: ApprovalService::request and decide, QuestionService::ask and  *)
(* put.  The ask is durable before it is put, its outcome before it is     *)
(* acted on.                                                               *)

Policy == LET i == Latest(At("approval/policy"))
          IN  IF i = 0 THEN "ask" ELSE log[i].says

(* A switch to the policy in force writes nothing.                         *)
SetPolicy(p) == /\ pc \notin {"down", "repair"} /\ Policy # p
                /\ Cardinality(At("approval/policy")) < MaxSwitches
                /\ Write(Event("approval/policy", 0, p))
                /\ UNCHANGED <<pc, mode, asks, request, flag, closers, said>>

(* A set of questions that some answer would satisfy. *)
Askable(questions) ==
  /\ questions # <<>>
  /\ \A i, j \in DOMAIN questions : questions[i].id = questions[j].id => i = j
  /\ \A i \in DOMAIN questions :
       questions[i].multi => questions[i].options # {}

(* An approval has no words of its own to check.                           *)
Puts(c) == IF c \in Gated THEN {Nothing} ELSE QuestionSets

Ask(c) == /\ pc = "tools" /\ at[c] = "ready" /\ HasOpenTurn
          /\ \E asked \in Puts(c) :
               IF c \in Gated \/ Askable(asked)
               THEN /\ Write(Event(AskedType(c), next[AskedType(c)], asked))
                    /\ next' = [next EXCEPT ![AskedType(c)] = @ + 1]
                    /\ id' = [id EXCEPT ![c] = next[AskedType(c)]]
                    /\ at' = [at EXCEPT ![c] = "asked"]
               ELSE /\ at' = [at EXCEPT ![c] = "done"]
                    /\ UNCHANGED <<log, next, id>>
          /\ UNCHANGED <<pc, mode, answer, outcome, request, flag, closers, said>>

Settles(c, as) == /\ outcome' = [outcome EXCEPT ![c] = as]
                  /\ at' = [at EXCEPT ![c] = "settled"]

(* The policy is a listener's business, who may be asked too late.         *)
Put_NoGate(c) ==
  /\ at[c] = "asked"
  /\ IF stopped THEN Settles(c, Withdrawn(AskedType(c)))
     ELSE at' = [at EXCEPT ![c] = "put"] /\ UNCHANGED outcome
  /\ UNCHANGED <<log, pc, mode, next, id, answer, request, flag, closers, said>>

(* Withdrawn if the turn is stopping, refused under a never policy, and    *)
(* otherwise put to the chain of answerers.                                *)
Put(c) ==
  /\ at[c] = "asked"
  /\ CASE stopped -> Settles(c, Withdrawn(AskedType(c)))
       [] ~stopped /\ c \in Gated /\ Policy = "never" -> Settles(c, "rejected")
       [] OTHER -> at' = [at EXCEPT ![c] = "put"] /\ UNCHANGED outcome
  /\ UNCHANGED <<log, pc, mode, next, id, answer, request, flag, closers, said>>

(* An answerer returns, panics, or delegates to the terminal, which        *)
(* answers "unavailable" or nothing.                                       *)
Answer(c, a) ==
  /\ at[c] \in {"put", "parked"} /\ answer[c] = Nothing
  /\ answer' = [answer EXCEPT ![c] = a]
  /\ said' = said \cup {<<AskedType(c), id[c], a>>}
  /\ UNCHANGED <<log, pc, mode, next, at, id, outcome, request, flag, closers>>

(* The answer judge keeps for one question: the first that names it.       *)
For(given, q) == Picked(given, {k \in DOMAIN given : given[k].id = q.id})

Fits(a, q) ==
  /\ a.selected # <<>> \/ a.text
  /\ q.options # {} =>
       /\ a.selected # <<>> /\ ToSet(a.selected) \subseteq q.options
       /\ ~q.multi => Len(a.selected) = 1

judge(questions, given) ==
  LET first == [i \in DOMAIN questions |-> For(given, questions[i])]
  IN  IF \A i \in DOMAIN questions :
           first[i] # <<>> /\ Fits(first[i][1], questions[i])
      THEN [i \in DOMAIN questions |-> first[i][1]]
      ELSE Nothing

(* What an ask settles as once its answerer is done: a panic is contained. *)
Heard(c) ==
  CASE answer[c] = Panic -> IF c \in Gated THEN "unavailable" ELSE Nothing
    [] answer[c] # Panic /\ c \in Gated -> answer[c]
    [] OTHER -> LET i == CHOOSE i \in At("question/asked") : log[i].key = id[c]
                IN  judge(log[i].says, answer[c])

(* The race is biased: an answer that is there is taken before the         *)
(* interrupt is looked at.                                                 *)
Park(c) == /\ at[c] = "put" /\ answer[c] = Nothing
           /\ \/ /\ Waits(c)
                 /\ at' = [at EXCEPT ![c] = "parked"] /\ UNCHANGED outcome
              \/ stopped /\ Settles(c, Withdrawn(AskedType(c))) /\ UNCHANGED flag
           /\ UNCHANGED <<log, pc, mode, next, id, answer, request, closers, said>>

Wake(c) ==
  /\ at[c] \in {"put", "parked"}
  /\ \/ answer[c] # Nothing /\ Settles(c, Heard(c))
     \/ answer[c] = Nothing /\ c \in woken /\ Settles(c, Withdrawn(AskedType(c)))
  /\ Leaves(c)
  /\ UNCHANGED <<log, pc, mode, next, id, answer, request, closers, said>>

(* An answer that comes now is discarded. *)
Decided(c) == /\ at[c] = "settled"
              /\ Write(Event(ClosedType(AskedType(c)), id[c], outcome[c]))
              /\ at' = [at EXCEPT ![c] = "done"]
              /\ id' = [id EXCEPT ![c] = 0]
              /\ answer' = [answer EXCEPT ![c] = Nothing]
              /\ outcome' = [outcome EXCEPT ![c] = Nothing]
              /\ UNCHANGED <<pc, mode, next, request, flag, closers, said>>

-----------------------------------------------------------------------------
(* A request that failed, and the retry listener of its route.             *)

Here == <<turn, step>>

(* The number of the last retry this step recorded. *)
PriorRetries == LET i == Latest({k \in At("llm/retry") : log[k].key = Here})
                IN  IF i = 0 THEN 0 ELSE log[i].says

(* RetryPolicy::decide, without the length of the wait.                    *)
GivesUp == /\ mode = "normal"
           /\ \/ ~failure.listed
              \/ PriorRetries >= MaxRetries
              \/ failure.asks = "more"

RequestFails(f) ==
  /\ pc = "sending" /\ Waited < MaxWaits
  /\ failure' = IF stopped THEN NoFailure ELSE f
  /\ Goto(IF stopped THEN "closing" ELSE "failed")
  /\ UNCHANGED <<log, mode, turn, step, sent, asks, flag, closers, said>>

(* The retry is on the journal before its wait, unless the journal refuses *)
(* it, and then the failure stands.                                        *)
Schedule == /\ pc = "failed"
            /\ \/ /\ ~GivesUp
                  /\ Write(Event("llm/retry", Here, PriorRetries + 1))
                  /\ Goto("scheduled")
               \/ Goto("closing") /\ UNCHANGED log
            /\ failure' = NoFailure
            /\ UNCHANGED <<mode, turn, step, sent, asks, flag, closers, said>>

Backoff == /\ pc = "scheduled"
           /\ \/ Waits("backoff") /\ Goto("backoff")
              \/ stopped /\ Goto("closing") /\ UNCHANGED flag
           /\ UNCHANGED <<log, mode, asks, request, closers, said>>

Elapse == /\ pc = "backoff"
          /\ Leaves("backoff") /\ Goto("elapsed")
          /\ UNCHANGED <<log, mode, asks, request, closers, said>>

CutShort == /\ pc = "backoff" /\ "backoff" \in woken
            /\ Leaves("backoff") /\ Goto("closing")
            /\ UNCHANGED <<log, mode, asks, request, closers, said>>

Retry_Unrecorded ==
  /\ pc = "elapsed"
  /\ \/ Write(Event("llm/retry-started", Here, PriorRetries))
     \/ UNCHANGED log
  /\ Goto("retry")
  /\ UNCHANGED <<mode, asks, request, flag, closers, said>>

(* An attempt the journal refuses to record is not made.                   *)
Retry == /\ pc = "elapsed"
         /\ \/ /\ Write(Event("llm/retry-started", Here, PriorRetries))
               /\ Goto("retry")
            \/ Goto("closing") /\ UNCHANGED log
         /\ UNCHANGED <<mode, asks, request, flag, closers, said>>

(* An interrupt beats a retry. *)
Resend == /\ pc = "retry"
          /\ IF stopped THEN Goto("closing") /\ UNCHANGED sent
             ELSE Goto("sending") /\ sent' = sent + 1
          /\ UNCHANGED <<log, mode, turn, step, failure, asks, flag, closers, said>>

-----------------------------------------------------------------------------

(* What the turn's own task does without being answered, sent or timed. *)
Task == \/ StepEnd \/ TurnEnd \/ Schedule \/ Backoff \/ CutShort
        \/ Retry \/ Resend
        \/ \E c \in Calls : Ask(c) \/ Put(c) \/ Park(c) \/ Wake(c) \/ Decided(c)

Next == \/ Reopen \/ Repair \/ RunTurn \/ Task \/ Elapse \/ Crash \/ Stop
        \/ \E asked \in SUBSET Calls : Respond(asked)
        \/ \E f \in Failures : RequestFails(f)
        \/ \E p \in {"ask", "never"} : SetPolicy(p)
        \/ \E c \in Gated, a \in Words \cup {Panic} : Answer(c, a)
        \/ \E c \in Asking, a \in Given \cup {Panic} : Answer(c, a)

Spec == Init /\ [][Next]_vars

(* The turn's task is scheduled.  No answerer answers, no timer elapses and *)
(* no provider responds unless it will.                                     *)
FairSpec == Spec /\ WF_vars(Task)

-----------------------------------------------------------------------------

Decisions(i) == {j \in At(ClosedType(log[i].ty)) : log[j].key = log[i].key}

(* When no turn runs, every approval and question ever put is closed       *)
(* exactly once, in the turn that put it, whatever died in between, and no *)
(* two share an id (request, ask, repair, the counters of both services).  *)
PairsClosed ==
  pc = "idle" => \A i \in Asks :
    /\ Cardinality(Decisions(i)) = 1
    /\ \A j \in Decisions(i) :
         i < j /\ \A k \in i .. j : log[k].ty # "turn/end"

(* What answers an ask is what one of the answerers of that ask returned,  *)
(* and covers it: a grant is a grant some answerer gave, not under a       *)
(* policy that was "never" throughout; an answered question has one fitting *)
(* answer for each of its parts (decide, judge).                           *)
NothingInvented ==
  /\ \A j \in At("approval/decided") : log[j].says = "allowed-once" =>
       \E i \in At("approval/asked") :
         /\ log[i].key = log[j].key
         /\ <<"approval/asked", log[i].key, "allowed-once">> \in said
         /\ LET p == Latest({k \in At("approval/policy") : k < i})
            IN  \/ p = 0 \/ log[p].says = "ask"
                \/ \E k \in At("approval/policy") : i < k /\ k < j
  /\ \A j \in At("question/answered") : log[j].says # Nothing =>
       \E i \in At("question/asked") :
         /\ log[i].key = log[j].key
         /\ Len(log[j].says) = Len(log[i].says)
         /\ \A k \in DOMAIN log[i].says :
              LET q == log[i].says[k]  a == log[j].says[k]
              IN  /\ a.id = q.id
                  /\ ToSet(a.selected) \subseteq q.options \/ q.options = {}
                  /\ Len(a.selected) > 1 => q.multi \/ q.options = {}
                  /\ Len(a.selected) + (IF a.text THEN 1 ELSE 0) > 0
                  /\ \E g \in Given : /\ a \in ToSet(g)
                                      /\ <<"question/asked", log[i].key, g>> \in said

(* Whatever races for an ask - an answer, a panic, a policy, the interrupt *)
(* or the death of the process - it is closed once, in its own turn, and   *)
(* with what one of its answerers said (request, decide, ask, repair).     *)
AsksAnswered == PairsClosed /\ NothingInvented

(* Every request after a step's first is one the journal announced and     *)
(* recorded as started, and in normal mode there are at most max_retries,  *)
(* each step counting its own (install, schedule, prior_retries).          *)
RetriesCounted ==
  LET Of(ty) == {i \in At(ty) : log[i].key = Here}
  IN  pc = "sending" =>
        /\ sent = 1 + Cardinality(Of("llm/retry-started"))
        /\ {log[i].says : i \in Of("llm/retry")} = 1 .. sent - 1
        /\ mode = "normal" => sent <= 1 + MaxRetries

(* An interrupted turn ends although nobody answers it and no timer runs   *)
(* out, once its request is answered (cancelled, wait).                    *)
StopCutsWaits ==
  stopped /\ pc # "sending" ~> pc \in {"sending", "idle", "down"}

=============================================================================
