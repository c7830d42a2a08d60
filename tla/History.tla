------------------------------ MODULE History ------------------------------
(***************************************************************************)
(* What a request says of the past: the surface of a log, the pruning and  *)
(* the compaction that rewrite it by appending, and the history a turn     *)
(* derives from it, across refused writes, summarizers that fail and       *)
(* deaths between any two appends of a rewrite.                            *)
(*                                                                         *)
(* A seq is an event's place in the log.  An event carries its type, the   *)
(* calls it asks for or the message whose call it answers, the events a    *)
(* record shadows, and its price.  The appends of a turn's frame are one   *)
(* step here: TurnFlow dies and fails between them.                        *)
(***************************************************************************)
EXTENDS Naturals, Sequences, FiniteSets, SequencesExt, Listing

CONSTANTS
  Window,       \* the model's context window
  Envelope,     \* what the system prompt and the tool catalog cost
  Pruning,      \* CompactionPolicy::prune is configured
  Long, Short,  \* what a tool result may cost before and after pruning
  SummaryCosts, \* what a framed summary may cost; 0 for an empty one
  Batches,      \* how many calls one answer may ask for
  MaxSteps,     \* TurnConfig::max_steps
  MaxTurns      \* bound: turns of the session

(* CompactionBudget::for_window, with its fractions.                       *)
ThresholdTokens == (Window * 8) \div 10
RetainTokens == (Window * 16) \div 100

ASSUME ConstantsAssumption ==
  /\ Envelope \in Nat /\ Window \in Nat \ {0}
  /\ RetainTokens < ThresholdTokens
  /\ Pruning \in BOOLEAN /\ Long \in Nat /\ Short \in Nat /\ Short < Long
  /\ SummaryCosts \subseteq Nat
  /\ 0 \in Batches /\ Batches \subseteq Nat /\ MaxSteps \in Nat /\ MaxTurns \in Nat

VARIABLES
  log,       \* the durable events
  surface,   \* the places of those the model sees, and what is claimed
  pc,        \* where the turn is, or "down", "idle"
  step,
  todo,      \* results the pruner has yet to shrink
  shadowed,  \* what the running compaction replaces
  summary,   \* the price of the summary it was given
  failed     \* the running compaction met an error

vars == <<log, surface, pc, step, todo, shadowed, summary, failed>>
history == <<log, surface>>
rewrite == <<todo, shadowed, summary, failed>>

Event(ty, n, shadows, size) == [ty |-> ty, n |-> n, shadows |-> shadows, size |-> size]
Mark(ty) == Event(ty, 0, {}, 0)
User == Event("user/message", 0, {}, 1)
Result(of, size) == Event("tool/result", of, {}, size)

Goto(place) == pc' = place
Latest(tys) == Max({i \in DOMAIN log : log[i].ty \in tys} \cup {0})

IsRecord(e) == e.ty \in {"compaction/summary", "compaction/prune"}
IsSurface(e) == e.ty \in {"user/message", "assistant/message", "tool/result"}

-----------------------------------------------------------------------------
(* The surface: what a request carries, as places of the log.              *)

(* A replacement stands where the first event it shadows stood.            *)
Replaced(places, shadows, i) ==
  LET taken == {k \in DOMAIN places : places[k] \in shadows}
      kept  == Picked(places, DOMAIN places \ taken)
  IN  IF taken = {} THEN Append(kept, i) ELSE InsertAt(kept, Min(taken), i)

(* A record claims the surface event that follows it at once, and no other.*)
Place_Unexpired(s, i, e) ==
  CASE IsRecord(e)  -> [s EXCEPT !.claim = e.shadows]
    [] IsSurface(e) -> [nodes |-> Replaced(s.nodes, s.claim, i), claim |-> {}]
    [] OTHER        -> s

Place(s, i, e) ==
  CASE IsRecord(e)  -> [s EXCEPT !.claim = e.shadows]
    [] IsSurface(e) -> [nodes |-> Replaced(s.nodes, s.claim, i), claim |-> {}]
    [] OTHER        -> [s EXCEPT !.claim = {}]

(* The code folds the whole log each time; the fold is kept as it grows.   *)
Write(es) ==
  /\ log' = log \o es
  /\ LET Fold[k \in 0..Len(es)] ==
           IF k = 0 THEN surface ELSE Place(Fold[k - 1], Len(log) + k, es[k])
     IN  surface' = Fold[Len(es)]

nodes == surface.nodes

Price(places) ==
  LET Sum[k \in 0..Len(places)] ==
        IF k = 0 THEN 0 ELSE Sum[k - 1] + log[places[k]].size
  IN  Sum[Len(places)]

cost == Envelope + Price(nodes)

(* Where a snapshot's context goes in the derived history: before the      *)
(* first message later than it.  An answer that says nothing derives none. *)
Spoken(places) ==
  Picked(places, {k \in DOMAIN places : log[places[k]].ty = "assistant/message"
                                          => log[places[k]].size > 0})

ContextAt_AtEnd ==
  IF Latest({"context/snapshot"}) = 0 THEN 0 ELSE Len(Spoken(nodes)) + 1

ContextAt ==
  LET snapshot == Latest({"context/snapshot"})
      first == SelectInSeq(nodes, LAMBDA i : i > snapshot)
  IN  CASE snapshot = 0 -> 0
        [] snapshot > 0 /\ first = 0 -> Len(Spoken(nodes)) + 1
        [] OTHER -> Len(Spoken(SubSeq(nodes, 1, first - 1))) + 1

derive_messages ==
  IF ContextAt = 0 THEN Spoken(nodes)
  ELSE InsertAt(Spoken(nodes), ContextAt, Latest({"context/snapshot"}))

(* A cut that splits no call from its result. *)
open_calls_before(at) ==
  LET Open[k \in 0..(at - 1)] ==
        IF k = 0 THEN 0
        ELSE Open[k - 1] + (CASE log[nodes[k]].ty = "assistant/message" -> log[nodes[k]].n
                              [] log[nodes[k]].ty = "tool/result" -> -1
                              [] OTHER -> 0)
  IN  Open[at - 1]

tool_pairing_balanced_before(at) == open_calls_before(at) = 0

(* The tail that covers the retained tokens, moved back to a balanced cut. *)
KeepFrom ==
  Max({at \in DOMAIN nodes :
         Price(SubSeq(nodes, at, Len(nodes))) >= RetainTokens} \cup {1})

select_range_Unbalanced == SubSeq(nodes, 1, KeepFrom - 1)

select_range ==
  SubSeq(nodes, 1, Max({at \in 1..KeepFrom : tool_pairing_balanced_before(at)}) - 1)

open_compaction == LET i == Latest({"compaction/start", "compaction/end"})
                   IN  i # 0 /\ log[i].ty = "compaction/start"

-----------------------------------------------------------------------------
(* The turn around it. *)

Init == /\ log = <<>> /\ surface = [nodes |-> <<>>, claim |-> {}]
        /\ pc = "idle" /\ step = 0
        /\ todo = <<>> /\ shadowed = <<>> /\ summary = 0 /\ failed = FALSE

(* The calls of the last answer that no result answers. *)
Owed == LET a == Latest({"assistant/message"})
        IN  IF a = 0 \/ a < Latest({"step/start"}) THEN 0
            ELSE log[a].n - Cardinality({i \in DOMAIN log :
                                           log[i].ty = "tool/result" /\ log[i].n = a})

Crash == /\ pc # "down"
         /\ Goto("down") /\ step' = 0
         /\ todo' = <<>> /\ shadowed' = <<>> /\ summary' = 0 /\ failed' = FALSE
         /\ UNCHANGED history

(* A session is repaired as it is opened. *)
Closers ==
  (IF Latest({"step/start"}) <= Latest({"step/end"}) THEN <<>>
   ELSE [k \in 1..Owed |-> Result(Latest({"assistant/message"}), 1)]
        \o <<Mark("step/end")>>)
  \o <<Mark("turn/end")>>

Repair == /\ pc = "down"
          /\ Write(IF Latest({"turn/start"}) > Latest({"turn/end"}) THEN Closers ELSE <<>>)
          /\ Goto("idle")
          /\ UNCHANGED <<step, rewrite>>

(* Providers may have nothing to say: then no snapshot is written. *)
RunTurn == /\ pc = "idle"
           /\ Cardinality({i \in DOMAIN log : log[i].ty = "turn/start"}) < MaxTurns
           /\ \E says \in {<<>>, <<Mark("context/snapshot")>>} :
                Write(<<Mark("turn/start")>> \o says)
           /\ step' = 1 /\ Goto("boundary")
           /\ UNCHANGED rewrite

(* The messages claimed at a boundary: the prompt, then whatever waited. *)
StepStart(claimed) ==
  /\ pc = "boundary" /\ (step = 1 => claimed > 0)
  /\ Write(<<Mark("step/start")>> \o [k \in 1..claimed |-> User])
  /\ Goto("fit")
  /\ UNCHANGED <<step, rewrite>>

(* The live closers of a failed turn, after what could still be appended.  *)
Fails(es) == /\ Write(es \o <<Mark("step/end"), Mark("turn/end")>>)
             /\ Goto("idle") /\ step' = 0
             /\ todo' = <<>> /\ shadowed' = <<>> /\ summary' = 0 /\ failed' = FALSE

RequestFails == pc = "request" /\ Fails(<<>>)

(* A truncated answer asks for no call; one of price 0 says nothing.       *)
Respond(n, size) ==
  /\ pc = "request" /\ (n > 0 => size > 0)
  /\ Write(<<Event("assistant/message", n, {}, size)>>)
  /\ Goto(IF n = 0 THEN "close" ELSE "tools")
  /\ UNCHANGED <<step, rewrite>>

ToolResult(size) ==
  /\ pc = "tools" /\ Owed > 0
  /\ Write(<<Result(Latest({"assistant/message"}), size)>>)
  /\ UNCHANGED <<pc, step, rewrite>>

(* An interrupt, a guard or the step budget stops the turn at a boundary.  *)
StepEnd == /\ pc = "tools" /\ Owed = 0
           /\ Write(<<Mark("step/end")>>)
           /\ \/ step < MaxSteps /\ step' = step + 1 /\ Goto("boundary")
              \/ step' = 0 /\ Goto("stop")
           /\ UNCHANGED rewrite

TurnEnd == /\ pc \in {"close", "stop"}
           /\ Write((IF pc = "close" THEN <<Mark("step/end")>> ELSE <<>>)
                    \o <<Mark("turn/end")>>)
           /\ step' = 0 /\ Goto("idle")
           /\ UNCHANGED rewrite

-----------------------------------------------------------------------------
(* fit_context: prune, look again, compact. *)

OverLong == Picked(nodes, {k \in DOMAIN nodes : log[nodes[k]].ty = "tool/result"
                                               /\ log[nodes[k]].size = Long})

FitContext == /\ pc = "fit"
              /\ IF cost < ThresholdTokens THEN Goto("request") /\ UNCHANGED todo
                 ELSE /\ todo' = IF Pruning THEN OverLong ELSE <<>>
                      /\ Goto("prune")
              /\ UNCHANGED <<history, step, shadowed, summary, failed>>

(* prune_results works through the surface it started from; the price a    *)
(* record states is read by nobody, so it is left out.                     *)
Prune == /\ pc = "prune" /\ todo # <<>>
         /\ \/ /\ Write(<<Event("compaction/prune", 0, {Head(todo)}, 0)>>)
               /\ Goto("pruned")
               /\ UNCHANGED <<step, rewrite>>
            \/ Fails(<<>>)

Pruned == /\ pc = "pruned"
          /\ \/ /\ Write(<<Result(log[Head(todo)].n, Short)>>)
                /\ todo' = Tail(todo) /\ Goto("prune")
                /\ UNCHANGED <<step, shadowed, summary, failed>>
             \/ Fails(<<>>)

Recheck == /\ pc = "prune" /\ todo = <<>>
           /\ Goto(IF cost < ThresholdTokens THEN "request" ELSE "compact")
           /\ UNCHANGED <<history, step, rewrite>>

Helpless == open_compaction \/ select_range = <<>>

(* A compaction that is open already, or has nothing to take, is no        *)
(* failure of the turn.                                                    *)
Compact == /\ pc = "compact"
           /\ \/ Helpless /\ Goto("request")
                 /\ UNCHANGED <<history, step, rewrite>>
              \/ ~Helpless /\ shadowed' = select_range
                 /\ Write(<<Mark("compaction/start")>>) /\ Goto("summarize")
                 /\ UNCHANGED <<step, todo, summary, failed>>
              \/ ~Helpless /\ Fails(<<>>)

(* The summarizer fails or is cut off, says nothing, or answers with a     *)
(* summary, which has to be smaller than what it replaces.                 *)
Refused(size) == size = 0 \/ size >= Price(shadowed)

Summarize == /\ pc = "summarize"
             /\ \/ failed' = TRUE /\ Goto("closing") /\ UNCHANGED summary
                \/ \E size \in SummaryCosts :
                     IF Refused(size)
                     THEN failed' = TRUE /\ Goto("closing") /\ UNCHANGED summary
                     ELSE summary' = size /\ Goto("record") /\ UNCHANGED failed
             /\ UNCHANGED <<history, step, todo, shadowed>>

(* A refused write of the record or the replacement ends the turn, after a *)
(* best effort to say the compaction ended.                                *)
FailsCompacting == \E ended \in {<<>>, <<Mark("compaction/end")>>} : Fails(ended)

Record == /\ pc = "record"
          /\ \/ /\ Write(<<Event("compaction/summary", 0, ToSet(shadowed), 0)>>)
                /\ Goto("replace")
                /\ UNCHANGED <<step, rewrite>>
             \/ FailsCompacting

Replace == /\ pc = "replace"
           /\ \/ /\ Write(<<Event("user/message", 0, {}, summary)>>)
                 /\ Goto("closing")
                 /\ UNCHANGED <<step, rewrite>>
              \/ FailsCompacting

(* Of a failed compaction the end is best effort, of a committed one not.  *)
CompactEnd ==
  /\ pc = "closing"
  /\ \/ \E ended \in {<<>>, <<Mark("compaction/end")>>} :
          /\ ended # <<>> \/ failed
          /\ Write(ended)
          /\ Goto("request")
          /\ shadowed' = <<>> /\ summary' = 0 /\ failed' = FALSE
          /\ UNCHANGED <<step, todo>>
     \/ ~failed /\ Fails(<<>>)

Next == \/ Crash \/ Repair \/ RunTurn \/ RequestFails \/ StepEnd \/ TurnEnd
        \/ \E claimed \in 0..1 : StepStart(claimed)
        \/ \E n \in Batches, size \in {0, 1} : Respond(n, size)
        \/ \E size \in {1, Long} : ToolResult(size)
        \/ FitContext \/ Prune \/ Pruned \/ Recheck
        \/ Compact \/ Summarize \/ Record \/ Replace \/ CompactEnd

Spec == Init /\ [][Next]_vars

-----------------------------------------------------------------------------
(* Properties. *)

Replacement(i) == i > 1 /\ IsSurface(log[i]) /\ IsRecord(log[i - 1])

(* The messages of the conversation each place of the log stands for. *)
Covers ==
  LET Of[i \in DOMAIN log] ==
        IF Replacement(i) THEN UNION {Of[j] : j \in log[i - 1].shadows} ELSE {i}
  IN  [i \in DOMAIN log |-> Of[i]]

(* Nothing said is lost, repeated or moved: whatever was pruned, compacted *)
(* and compacted again, and wherever a rewrite was cut short, the nodes of *)
(* the surface stand for every message of the conversation once, in order. *)
SurfaceCovers ==
  LET covers == Covers
  IN  /\ UNION {covers[nodes[k]] : k \in DOMAIN nodes}
           = {i \in DOMAIN log : IsSurface(log[i]) /\ ~Replacement(i)}
      /\ \A k \in 2..Len(nodes) :
           \A a \in covers[nodes[k - 1]], b \in covers[nodes[k]] : a < b

(* A request answers every call right after the message that asks for it,  *)
(* and answers nothing else, the context message aside: a cut or a         *)
(* replacement that split a pair is a request a provider refuses.          *)
RequestPaired ==
  pc = "request" =>
    LET spoken == Spoken(nodes)
    IN  \A k \in DOMAIN spoken :
          CASE log[spoken[k]].ty = "assistant/message" ->
                 \A j \in 1..log[spoken[k]].n :
                   /\ k + j \in DOMAIN spoken
                   /\ log[spoken[k + j]].ty = "tool/result"
                   /\ log[spoken[k + j]].n = spoken[k]
            [] log[spoken[k]].ty = "tool/result" ->
                 \E j \in 1..(k - 1) :
                   spoken[j] = log[spoken[k]].n /\ k <= j + log[spoken[j]].n
            [] OTHER -> TRUE

(* The last message of a request is what it is to answer, verbatim or      *)
(* pruned: never the machine's own checkpoint or status.                   *)
EndsInWhatWasAsked ==
  pc = "request" =>
    LET messages == derive_messages
        last == messages[Len(messages)]
    IN  /\ log[last].ty \in {"user/message", "tool/result"}
        /\ ~(Replacement(last) /\ log[last - 1].ty = "compaction/summary")

(* What is sent is a history a provider accepts and that asks what the     *)
(* turn was started for, through every rewrite and wherever one was cut    *)
(* short (derive_messages, select_range, compact).                         *)
RequestSound == RequestPaired /\ EndsInWhatWasAsked

(* log.rs: the context goes after everything the turn inherited,           *)
(* immediately before the message that opened the turn.                    *)
ContextAfterInherited ==
  pc = "request" /\ Latest({"context/snapshot"}) > Latest({"turn/end"}) =>
    LET covers == Covers
        spoken == Spoken(nodes)
        at == ContextAt
    IN  \A k \in DOMAIN spoken :
          (k < at) = (\E i \in covers[spoken[k]] : i < Latest({"turn/start"}))
=============================================================================
