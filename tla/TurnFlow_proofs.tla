-------------------------- MODULE TurnFlow_proofs ---------------------------
(***************************************************************************)
(* Theorems about the turn, for any number of turns, steps, calls, crashes *)
(* and tools: results stand in the order the model asked for them, an      *)
(* exclusive call runs alone, and a session at rest has a balanced         *)
(* journal.                                                                *)
(***************************************************************************)
EXTENDS TurnFlow, Listing_proofs, Integers, SequenceTheorems, FiniteSetTheorems,
        WellFoundedInduction, TLAPS

-----------------------------------------------------------------------------
(* The inductive invariants. *)

Running == {"context", "boundary", "pre-step", "enter", "messages", "request",
            "tools", "settle", "stopping", "closing"}

(* What repair appends. *)
Closing == {"approval/decided", "tool/result", "step/end", "turn/end"}

(* The turns a journal starts. *)
Starts(l) == Cardinality(Positions(l, "turn/start"))

(* Memory is in order, only an open or a repair has closers to write, and  *)
(* a running engine has numbered every turn the journal starts.            *)
FlowTypeOK ==
  /\ log \in Seq(Events) /\ turns \in 0 .. MaxTurns /\ steps \in 0 .. MaxSteps
  /\ pc \in Running \cup {"down", "repair", "idle"}
  /\ inStep \in BOOLEAN /\ failure \in BOOLEAN /\ cut \in BOOLEAN /\ stopped \in BOOLEAN
  /\ batch \in Seq(Nat) /\ inbox \in Seq(Nat)
  /\ calls \in Seq(Kinds) /\ status \in [DOMAIN calls -> CallStates]
  /\ closers \in Seq(Events)
  /\ \A k \in DOMAIN closers : closers[k].ty \in Closing
  /\ pc # "repair" => closers = <<>>
  /\ pc \in {"context", "boundary", "pre-step"} => steps < MaxSteps
  /\ Starts(log) \in 0 .. MaxTurns
  /\ pc \notin {"down", "repair"} => turns >= Starts(log)

(* ---- calls ---- *)

(* Calls are taken on in order, and an exclusive one only when all before  *)
(* it are done.                                                            *)
TakenInOrder ==
  /\ \A i, j \in DOMAIN calls : i < j /\ status[i] = "asked" => status[j] = "asked"
  /\ \A i, j \in DOMAIN calls :
       Solo(i) /\ status[i] \in InFlight =>
         /\ j < i => status[j] = "done"
         /\ i < j => status[j] = "asked"

(* ---- results ---- *)

(* The results of each message are at most one a call, in order. *)
Ordered(l) ==
  \A i \in Asked(l) : \A c, d \in 1 .. l[i].n :
    /\ \A j, k \in ResultsOf(l, i, d) : j = k
    /\ c < d => \A j \in ResultsOf(l, i, d) : \E k \in ResultsOf(l, i, c) : k < j

(* A result since the last step began stands behind a message of that step. *)
BehindItsMessage(l) ==
  \A j \in Positions(l, "tool/result") :
    j > LastAt(l, "step/start") =>
      /\ LastAt(l, "assistant/message") > LastAt(l, "step/start")
      /\ j > LastAt(l, "assistant/message")

Unsettled == {"asked", "pushed", "started", "waiting", "running", "settled"}

InPlace(l) == Ordered(l) /\ BehindItsMessage(l)

(* A step has no message before the model answered. *)
NotAnswered == pc \in {"messages", "request"} =>
                 LastAt(log, "assistant/message") <= LastAt(log, "step/start")

(* The pool is that of the last message, and knows which of its calls have *)
(* a result on the journal.                                                *)
PoolInStep ==
  pc = "tools" =>
    LET at == LastAt(log, "assistant/message")
    IN  /\ at > LastAt(log, "step/start")
        /\ log[at].n = Len(calls)
        /\ \A c \in DOMAIN calls :
             /\ status[c] \in Unsettled => ResultsOf(log, at, c) = {}
             /\ status[c] = "committed" \/ (status[c] = "done" /\ ~failure)
                  => ResultsOf(log, at, c) # {}

ResultsInv == InPlace(log \o closers) /\ NotAnswered /\ PoolInStep

(* ---- balance ---- *)

TurnOver(l, i) == EndOf(l, i, "turn/start", "turn/end")
StepOver(l, i) == EndOf(l, i, "step/start", "step/end")
AskOver(l, i) == EndOf(l, i, "turn/start", "approval/decided")

(* The last turn is the only one that is open. *)
LastTurnOpen(l) ==
  /\ LastAt(l, "turn/start") > LastAt(l, "turn/end")
  /\ \A i \in Positions(l, "turn/start") : i = LastAt(l, "turn/start") \/ TurnOver(l, i)

(* It is step i that is open. *)
OpenStep(l, i) == /\ i = LastAt(l, "step/start")
                  /\ i > LastAt(l, "turn/start") /\ i > LastAt(l, "step/end")

(* A journal whose last turn is open, and of it at most a step and asks;   *)
(* the turn, the step and the asks have numbers of these sets.  Any other  *)
(* ask is decided, or its turn failed.                                     *)
Open(l, turn, step, ask) ==
  /\ LastTurnOpen(l) /\ l[LastAt(l, "turn/start")].n \in turn
  /\ \A i \in Positions(l, "step/start") :
       StepOver(l, i) \/ (OpenStep(l, i) /\ l[i].n \in step)
  /\ \A i \in Positions(l, "approval/asked") :
       AskOver(l, i) \/ TurnFailed(l, i)
         \/ (i > LastAt(l, "turn/start") /\ l[i].n \in ask)

(* A journal a death left, and the journal of a running turn. *)
Interrupted(l) == Open(l, Nat, Nat, Nat)

(* The calls whose asks a running turn may have left undecided: those that *)
(* wait, until a fault drops the group and with it the answers.            *)
AsksLeft ==
  IF pc = "tools" /\ ~failure THEN CallsAt({"waiting"})
  ELSE IF pc = "tools" \/ (pc = "closing" /\ reason = "failed") THEN Nat
  ELSE {}

InTurn(l) == Open(l, {turns}, IF inStep THEN {steps} ELSE {}, AsksLeft)

(* What is left to append: the turn's end last, and a step's end only for  *)
(* the step that is open.                                                  *)
EndsLast(l, c) ==
  \A k \in DOMAIN c :
    /\ (c[k].ty = "turn/end") <=> (k = Len(c))
    /\ c[k].ty = "step/end" => /\ k = Len(c) - 1
                               /\ OpenStep(l, LastAt(l, "step/start"))
                               /\ c[k].n = l[LastAt(l, "step/start")].n

BalanceInv ==
  /\ pc \in {"context", "boundary", "pre-step", "enter", "settle", "stopping"} => ~inStep
  /\ pc \in {"idle", "repair"} => Balanced(log \o closers)
  /\ pc \in {"down", "repair"} => Balanced(log) \/ Interrupted(log)
  /\ closers # <<>> => Interrupted(log)
  /\ EndsLast(log, closers)
  /\ pc \in Running => InTurn(log)

-----------------------------------------------------------------------------
(* Numbers. *)

(* One that is bounded has a greatest, and Max is it. *)
LEMMA MaxOfBounded ==
  ASSUME NEW S \in SUBSET Nat, S # {}, NEW b \in Nat, \A x \in S : x <= b
  PROVE  Max(S) \in S /\ \A x \in S : x <= Max(S)
<1> DEFINE U == {u \in Nat : \A x \in S : x <= u}
<1>1. U \in SUBSET Nat /\ U # {}
  OBVIOUS
<1>2. PICK u \in U : \A v \in U : u <= v
  <2> HIDE DEF U
  <2> QED  BY <1>1, Least
<1>3. u \in Nat /\ \A x \in S : x <= u
  BY <1>2
<1>4. u \in S
  <2> SUFFICES ASSUME u \notin S PROVE FALSE
    OBVIOUS
  <2>1. \A x \in S : x \in Nat /\ x < u
    BY <1>3
  <2>2. u - 1 \in Nat
    <3>1. PICK x : x \in S
      OBVIOUS
    <3> QED  BY <1>3, <2>1, <3>1
  <2>3. u - 1 \in U
    BY <1>3, <2>1, <2>2
  <2> HIDE DEF U
  <2> QED  BY <1>2, <1>3, <2>2, <2>3
<1> QED  BY <1>3, <1>4 DEF Max

(* A set of at most one member. *)
LEMMA AtMostOne ==
  ASSUME NEW S, \A x, y \in S : x = y
  PROVE  Cardinality(S) <= 1
<1>1. CASE S = {}
  BY <1>1, FS_EmptySet
<1>2. CASE S # {}
  <2>1. PICK x : x \in S
    BY <1>2
  <2>2. S = {x}
    BY <2>1
  <2> QED  BY <2>2, FS_Singleton
<1> QED  BY <1>1, <1>2

-----------------------------------------------------------------------------
(* Where events stand in a journal. *)

LEMMA EventIsEvent ==
  ASSUME NEW ty \in Types, NEW n \in Nat
  PROVE  /\ Event(ty, n) \in Events /\ Event(ty, n).ty = ty /\ Event(ty, n).n = n
BY DEF Event, Events

LEMMA ResultIsEvent ==
  ASSUME NEW i \in Nat, NEW at \in Nat
  PROVE  /\ Result(i, at) \in Events
         /\ Result(i, at).ty = "tool/result" /\ Result(i, at).n = i
BY DEF Result, Event, Events, Types

LEMMA TurnEndIsEvent ==
  ASSUME NEW n \in Nat, NEW why
  PROVE  /\ TurnEnd(n, why) \in Events
         /\ TurnEnd(n, why).ty = "turn/end" /\ TurnEnd(n, why).n = n
         /\ TurnEnd(n, why).failed <=> why = "failed"
BY DEF TurnEnd, Event, Events, Types

(* LastAt is the last position of a type, and 0 when there is none. *)
LEMMA LastAtIsLast ==
  ASSUME NEW l \in Seq(Events), NEW ty
  PROVE  /\ LastAt(l, ty) \in Nat /\ LastAt(l, ty) <= Len(l)
         /\ LastAt(l, ty) # 0 => LastAt(l, ty) \in Positions(l, ty)
         /\ \A i \in Positions(l, ty) : i \in 1 .. Len(l) /\ i <= LastAt(l, ty)
<1> DEFINE S == Positions(l, ty) \cup {0}
<1>1. Positions(l, ty) \subseteq 1 .. Len(l)
  BY DEF Positions
<1>2. S \in SUBSET Nat /\ S # {} /\ Len(l) \in Nat /\ \A x \in S : x <= Len(l)
  BY <1>1
<1>3. Max(S) \in S /\ \A x \in S : x <= Max(S)
  <2> DEFINE b == Len(l)
  <2> HIDE DEF S, b
  <2>1. b \in Nat /\ \A x \in S : x <= b
    BY <1>2 DEF b
  <2> QED  BY <1>2, <2>1, MaxOfBounded
<1> QED  BY <1>1, <1>2, <1>3 DEF LastAt

LEMMA LastOfIsLast ==
  ASSUME NEW l \in Seq(Events), NEW ty, NEW n
  PROVE  /\ LastOf(l, ty, n) \in Nat /\ LastOf(l, ty, n) <= Len(l)
         /\ LastOf(l, ty, n) # 0 => /\ LastOf(l, ty, n) \in Positions(l, ty)
                                    /\ l[LastOf(l, ty, n)].n = n
         /\ \A i \in Positions(l, ty) : l[i].n = n => i <= LastOf(l, ty, n)
<1> DEFINE S == {i \in Positions(l, ty) : l[i].n = n} \cup {0}
<1>1. Positions(l, ty) \subseteq 1 .. Len(l)
  BY DEF Positions
<1>2. S \in SUBSET Nat /\ S # {} /\ Len(l) \in Nat /\ \A x \in S : x <= Len(l)
  BY <1>1
<1>3. Max(S) \in S /\ \A x \in S : x <= Max(S)
  <2> DEFINE b == Len(l)
  <2> HIDE DEF S, b
  <2>1. b \in Nat /\ \A x \in S : x <= b
    BY <1>2 DEF b
  <2> QED  BY <1>2, <2>1, MaxOfBounded
<1> QED  BY <1>1, <1>2, <1>3 DEF LastOf

LEMMA LastAtAppend ==
  ASSUME NEW l \in Seq(Events), NEW e \in Events, NEW ty
  PROVE  LastAt(Append(l, e), ty) = IF e.ty = ty THEN Len(l) + 1 ELSE LastAt(l, ty)
<1> DEFINE m == Append(l, e)
<1>1. /\ m \in Seq(Events) /\ Len(m) = Len(l) + 1 /\ m[Len(l) + 1] = e
      /\ \A i \in 1 .. Len(l) : m[i] = l[i]
  OBVIOUS
<1> HIDE DEF m
<1>2. \A i : i \in Positions(m, ty) <=> \/ i \in Positions(l, ty)
                                        \/ i = Len(l) + 1 /\ e.ty = ty
  BY <1>1 DEF Positions
<1>3. LastAt(m, ty) = IF e.ty = ty THEN Len(l) + 1 ELSE LastAt(l, ty)
  <2>1. LastAt(m, ty) \in Nat /\ LastAt(l, ty) \in Nat /\ LastAt(l, ty) <= Len(l)
    BY <1>1, LastAtIsLast
  <2>2. CASE e.ty = ty
    <3>1. Len(l) + 1 <= LastAt(m, ty) /\ LastAt(m, ty) <= Len(l) + 1
      BY <1>1, <1>2, <2>2, LastAtIsLast
    <3> QED  BY <2>1, <2>2, <3>1
  <2>3. CASE e.ty # ty
    <3>1. Positions(m, ty) = Positions(l, ty)
      BY <1>2, <2>3
    <3> QED  BY <2>3, <3>1 DEF LastAt
  <2> QED  BY <2>2, <2>3
<1> QED  BY <1>3 DEF m

(* m continues l. *)
Extends(m, l) == /\ m \in Seq(Events) /\ Len(l) <= Len(m)
                 /\ \A i \in 1 .. Len(l) : m[i] = l[i]

LEMMA AppendExtends ==
  ASSUME NEW l \in Seq(Events), NEW e \in Events
  PROVE  /\ Extends(Append(l, e), l) /\ Len(Append(l, e)) = Len(l) + 1
         /\ Append(l, e)[Len(l) + 1] = e
         /\ \A i \in DOMAIN Append(l, e) : i \in DOMAIN l \/ i = Len(l) + 1
         /\ DOMAIN l = 1 .. Len(l)
BY DEF Extends

LEMMA ConcatExtends ==
  ASSUME NEW l \in Seq(Events), NEW c \in Seq(Events)
  PROVE  /\ Extends(l \o c, l) /\ Len(l \o c) = Len(l) + Len(c)
         /\ \A k \in DOMAIN c : (l \o c)[Len(l) + k] = c[k]
         /\ \A i \in DOMAIN (l \o c) :
              i \in DOMAIN l \/ \E k \in DOMAIN c : i = Len(l) + k
         /\ DOMAIN l = 1 .. Len(l) /\ DOMAIN c = 1 .. Len(c)
<1>1. /\ l \o c \in Seq(Events) /\ Len(l \o c) = Len(l) + Len(c)
      /\ \A i \in 1 .. Len(l) + Len(c) :
           (l \o c)[i] = IF i <= Len(l) THEN l[i] ELSE c[i - Len(l)]
  BY ConcatProperties
<1>2. DOMAIN l = 1 .. Len(l) /\ DOMAIN c = 1 .. Len(c) /\ Len(l) \in Nat /\ Len(c) \in Nat
  BY LenProperties
<1> DEFINE m == l \o c
<1>3. DOMAIN m = 1 .. Len(m)
  BY <1>1, LenProperties
<1>4. \A k \in DOMAIN c : m[Len(l) + k] = c[k]
  <2> TAKE k \in DOMAIN c
  <2>1. Len(l) + k \in 1 .. Len(l) + Len(c) /\ ~(Len(l) + k <= Len(l)) /\ Len(l) + k - Len(l) = k
    BY <1>2
  <2> QED  BY <1>1, <2>1
<1>5. \A i \in DOMAIN m : i \in DOMAIN l \/ \E k \in DOMAIN c : i = Len(l) + k
  <2> TAKE i \in DOMAIN m
  <2>1. CASE i <= Len(l)
    BY <1>1, <1>2, <1>3, <2>1
  <2>2. CASE ~(i <= Len(l))
    <3>1. i - Len(l) \in DOMAIN c /\ i = Len(l) + (i - Len(l))
      BY <1>1, <1>2, <1>3, <2>2
    <3> QED  BY <3>1
  <2> QED  BY <2>1, <2>2
<1>6. Extends(m, l)
  BY <1>1, <1>2 DEF Extends
<1> QED  BY <1>1, <1>2, <1>4, <1>5, <1>6

(* What is over stays over. *)
LEMMA EndOfExtends ==
  ASSUME NEW l \in Seq(Events), NEW m, Extends(m, l), NEW i \in DOMAIN l,
         NEW start, NEW end, EndOf(l, i, start, end)
  PROVE  EndOf(m, i, start, end)
<1>1. /\ DOMAIN l = 1 .. Len(l) /\ DOMAIN m = 1 .. Len(m) /\ Len(l) \in Nat /\ Len(m) \in Nat
      /\ Len(l) <= Len(m) /\ \A j \in DOMAIN l : m[j] = l[j]
  BY DEF Extends
<1>2. PICK j \in DOMAIN l : /\ j > i /\ l[j].ty = end /\ l[j].n = l[i].n
                            /\ \A k \in i + 1 .. j - 1 : l[k].ty # start
  BY DEF EndOf
<1>3. j \in DOMAIN m /\ \A k \in i + 1 .. j - 1 : k \in DOMAIN l
  BY <1>1, <1>2
<1> QED  BY <1>1, <1>2, <1>3 DEF EndOf

(* An event of the right type and number ends what nothing has followed.   *)
LEMMA EndOfAppend ==
  ASSUME NEW l \in Seq(Events), NEW e \in Events, NEW start, NEW i \in DOMAIN l,
         LastAt(l, start) <= i, e.n = l[i].n
  PROVE  EndOf(Append(l, e), i, start, e.ty)
<1> DEFINE m == Append(l, e)
<1>1. /\ Extends(m, l) /\ Len(m) = Len(l) + 1 /\ m[Len(l) + 1] = e /\ DOMAIN l = 1 .. Len(l)
      /\ Len(l) \in Nat
  BY AppendExtends
<1> HIDE DEF m
<1>2. \A k \in i + 1 .. Len(l) : k \notin Positions(l, start)
  BY <1>1, LastAtIsLast
<1>3. \A k \in i + 1 .. Len(l) : m[k].ty # start
  BY <1>1, <1>2 DEF Positions, Extends
<1>4. Len(l) + 1 \in DOMAIN m /\ Len(l) + 1 > i /\ m[i] = l[i]
  BY <1>1 DEF Extends
<1>5. EndOf(m, i, start, e.ty)
  BY <1>1, <1>3, <1>4 DEF EndOf
<1> QED  BY <1>5 DEF m

LEMMA LastAtConcat ==
  ASSUME NEW l \in Seq(Events), NEW c \in Seq(Events), NEW ty,
         \A k \in DOMAIN c : c[k].ty # ty
  PROVE  LastAt(l \o c, ty) = LastAt(l, ty)
<1>1. /\ Extends(l \o c, l) /\ Len(l \o c) = Len(l) + Len(c)
      /\ \A k \in DOMAIN c : (l \o c)[Len(l) + k] = c[k]
      /\ \A i \in DOMAIN (l \o c) : i \in DOMAIN l \/ \E k \in DOMAIN c : i = Len(l) + k
      /\ DOMAIN l = 1 .. Len(l) /\ DOMAIN c = 1 .. Len(c)
  BY ConcatExtends
<1> DEFINE m == l \o c
<1> HIDE DEF m
<1>2. \A i : i \in Positions(m, ty) <=> i \in Positions(l, ty)
  BY <1>1 DEF Positions, Extends, m
<1>3. Positions(m, ty) = Positions(l, ty)
  BY <1>2
<1> QED  BY <1>3 DEF LastAt, m


-----------------------------------------------------------------------------
(* What repair appends. *)

Undecideds(l) == {i \in LastAt(l, "turn/start") + 1 .. Len(l) :
                    /\ l[i].ty = "approval/asked"
                    /\ ~\E j \in i + 1 .. Len(l) :
                          l[j].ty = "approval/decided" /\ l[j].n = l[i].n}

Opens(l) == {i \in 1 .. AskedBy(l, LastAt(l, "step/start")) :
               LastOf(l, "tool/result", i) <= LastAt(l, "step/start")}

LEMMA FunctionIsSeq ==
  ASSUME NEW T, NEW n \in Nat, NEW f, DOMAIN f = 1 .. n, f = [k \in DOMAIN f |-> f[k]],
         \A k \in 1 .. n : f[k] \in T
  PROVE  f \in Seq(T) /\ Len(f) = n
<1>1. f \in [1 .. n -> T]
  OBVIOUS
<1> QED  BY <1>1

LEMMA EventAt ==
  ASSUME NEW l \in Seq(Events), NEW i \in 1 .. Len(l)
  PROVE  l[i] \in Events /\ l[i].ty \in Types /\ l[i].n \in Nat
<1>1. l[i] \in Events
  OBVIOUS
<1> QED  BY <1>1 DEF Events

(* A decision for every ask of the open turn that has none. *)
Decisions(l) ==
  LET asks == Undecided(l, LastAt(l, "turn/start"))
  IN  [k \in DOMAIN asks |-> Event("approval/decided", l[asks[k]].n)]

LEMMA DecidedShape ==
  ASSUME NEW l \in Seq(Events), NEW D, D = Decisions(l)
  PROVE  /\ D \in Seq(Events)
         /\ \A k \in DOMAIN D : D[k].ty = "approval/decided"
         /\ \A i \in Undecideds(l) : \E k \in DOMAIN D : D[k].n = l[i].n
<1> DEFINE asks == Undecided(l, LastAt(l, "turn/start"))
<1>1. asks = InOrder(Undecideds(l))
  BY DEF Undecided, Undecideds
<1>2. Undecideds(l) \in SUBSET (1 .. Len(l)) /\ Len(l) \in Nat
  <2>1. LastAt(l, "turn/start") \in Nat
    BY LastAtIsLast
  <2> QED  BY <2>1 DEF Undecideds
<1>3. /\ asks \in Seq(Undecideds(l)) /\ DOMAIN asks = 1 .. Len(asks)
      /\ \A i \in Undecideds(l) : \E k \in DOMAIN asks : asks[k] = i
  BY <1>1, <1>2, InOrderLists
<1>4. D = [k \in DOMAIN asks |-> Event("approval/decided", l[asks[k]].n)]
  BY DEF Decisions
<1> HIDE DEF asks
<1>5. \A k \in DOMAIN asks : asks[k] \in 1 .. Len(l) /\ l[asks[k]].n \in Nat
  <2> TAKE k \in DOMAIN asks
  <2>1. asks[k] \in 1 .. Len(l)
    BY <1>2, <1>3
  <2> QED  BY <2>1, EventAt
<1>6. \A k \in DOMAIN asks : /\ D[k] \in Events /\ D[k].ty = "approval/decided"
                             /\ D[k].n = l[asks[k]].n
  BY <1>4, <1>5, EventIsEvent DEF Types
<1>7. D \in Seq(Events) /\ DOMAIN D = DOMAIN asks
  <2>1. Len(asks) \in Nat /\ DOMAIN D = 1 .. Len(asks) /\ D = [k \in DOMAIN D |-> D[k]]
    BY <1>3, <1>4
  <2>2. \A k \in 1 .. Len(asks) : D[k] \in Events
    BY <1>3, <1>6
  <2> DEFINE n == Len(asks)
  <2> HIDE DEF n
  <2>3. n \in Nat /\ DOMAIN D = 1 .. n /\ \A k \in 1 .. n : D[k] \in Events
    BY <2>1, <2>2 DEF n
  <2>4. D \in Seq(Events)
    <3>1. D = [k \in DOMAIN D |-> D[k]]
      BY <2>1
    <3> QED  BY <2>3, <3>1, FunctionIsSeq
  <2> QED  BY <1>3, <2>1, <2>4
<1>8. \A i \in Undecideds(l) : \E k \in DOMAIN D : D[k].n = l[i].n
  <2> TAKE i \in Undecideds(l)
  <2>1. PICK k \in DOMAIN asks : asks[k] = i
    BY <1>3
  <2> QED  BY <1>6, <1>7, <2>1
<1> QED  BY <1>6, <1>7, <1>8

(* A result for every call of the open step that has none, in order. *)
LEMMA UnansweredShape ==
  ASSUME NEW l \in Seq(Events), NEW R, R = Unanswered(l, LastAt(l, "step/start"))
  PROVE  /\ R \in Seq(Events)
         /\ \A k \in DOMAIN R : R[k].ty = "tool/result" /\ R[k].n \in Opens(l)
         /\ \A c \in Opens(l) : \E k \in DOMAIN R : R[k].n = c
         /\ \A j, k \in DOMAIN R : j < k => R[j].n < R[k].n
<1> DEFINE from == LastAt(l, "step/start")
           open == InOrder(Opens(l))
           Call(i) == LastOf(l, "tool/call", i)
           cite(k) == IF Call(open[k]) > from THEN Call(open[k]) ELSE 0
<1>1. AskedBy(l, from) \in Nat
  <2>1. CASE LastAt(l, "assistant/message") > from
    <3>1. /\ from \in Nat /\ LastAt(l, "assistant/message") \in Nat
          /\ LastAt(l, "assistant/message") <= Len(l)
      BY LastAtIsLast
    <3>2. l[LastAt(l, "assistant/message")] \in Events
      BY <2>1, <3>1
    <3> QED  BY <2>1, <3>2 DEF AskedBy, Events
  <2>2. CASE ~(LastAt(l, "assistant/message") > from)
    BY <2>2 DEF AskedBy
  <2> QED  BY <2>1, <2>2
<1>2. Opens(l) \in SUBSET (1 .. AskedBy(l, from))
  BY DEF Opens
<1>3. /\ open \in Seq(Opens(l)) /\ DOMAIN open = 1 .. Len(open)
      /\ \A c \in Opens(l) : \E k \in DOMAIN open : open[k] = c
      /\ \A j, k \in DOMAIN open : j < k => open[j] < open[k]
  <2> DEFINE b == AskedBy(l, from)
  <2> HIDE DEF b
  <2>1. Opens(l) \in SUBSET (1 .. b) /\ b \in Nat
    BY <1>1, <1>2 DEF b
  <2> QED  BY <2>1, InOrderLists
<1>4. R = [k \in DOMAIN open |-> Result(open[k], cite(k))]
  BY DEF Unanswered, Opens
<1> HIDE DEF open
<1>5. \A k \in DOMAIN open : open[k] \in Opens(l) /\ open[k] \in Nat
  BY <1>1, <1>2, <1>3
<1>6. \A k \in DOMAIN open : cite(k) \in Nat
  BY <1>5, LastOfIsLast
<1> HIDE DEF cite
<1>7. \A k \in DOMAIN open : /\ R[k] \in Events /\ R[k].ty = "tool/result"
                             /\ R[k].n = open[k]
  BY <1>4, <1>5, <1>6, ResultIsEvent
<1>8. R \in Seq(Events) /\ DOMAIN R = DOMAIN open
  <2>1. Len(open) \in Nat /\ DOMAIN R = 1 .. Len(open) /\ R = [k \in DOMAIN R |-> R[k]]
    BY <1>3, <1>4
  <2>2. \A k \in 1 .. Len(open) : R[k] \in Events
    BY <1>3, <1>7
  <2> DEFINE n == Len(open)
  <2> HIDE DEF n
  <2>3. n \in Nat /\ DOMAIN R = 1 .. n /\ \A k \in 1 .. n : R[k] \in Events
    BY <2>1, <2>2 DEF n
  <2>4. R \in Seq(Events)
    BY <2>1, <2>3, FunctionIsSeq
  <2> QED  BY <1>3, <2>1, <2>4
<1>9. \A k \in DOMAIN R : R[k].ty = "tool/result" /\ R[k].n \in Opens(l)
  BY <1>5, <1>7, <1>8
<1>10. \A c \in Opens(l) : \E k \in DOMAIN R : R[k].n = c
  <2> TAKE c \in Opens(l)
  <2>1. PICK k \in DOMAIN open : open[k] = c
    BY <1>3
  <2> QED  BY <1>7, <1>8, <2>1
<1>11. \A j, k \in DOMAIN R : j < k => R[j].n < R[k].n
  <2> TAKE j, k \in DOMAIN R
  <2>1. j \in DOMAIN open /\ k \in DOMAIN open
    BY <1>8
  <2>2. R[j].n = open[j] /\ R[k].n = open[k] /\ (j < k => open[j] < open[k])
    BY <1>3, <1>7, <2>1
  <2> QED  BY <2>2
<1> QED  BY <1>8, <1>9, <1>10, <1>11

TurnOpen(l) == /\ LastAt(l, "turn/start") # 0
               /\ LastAt(l, "turn/end") <= LastAt(l, "turn/start")

StepOpen(l) == /\ LastAt(l, "step/start") > LastAt(l, "turn/start")
               /\ LastAt(l, "step/end") < LastAt(l, "step/start")

LEMMA ClosersEmpty ==
  ASSUME NEW l \in Seq(Events), ~TurnOpen(l)
  PROVE  interrupted_turn_closers(l) = <<>>
<1>1. LastAt(l, "turn/start") \in Nat /\ LastAt(l, "turn/end") \in Nat
  BY LastAtIsLast
<1> QED  BY <1>1 DEF interrupted_turn_closers, TurnOpen

(* The closers of an open turn: decisions, the open step's results in      *)
(* order and its end, the turn's end.                                      *)
Closes(l, C) ==
  LET turn == LastAt(l, "turn/start")
      step == LastAt(l, "step/start")
  IN  /\ C \in Seq(Events) /\ Len(C) \in DOMAIN C
      /\ \A k \in DOMAIN C : C[k].ty \in Closing
      /\ C[Len(C)].n = l[turn].n
      /\ \A k \in DOMAIN C : C[k].ty = "turn/end" <=> k = Len(C)
      /\ \A k \in DOMAIN C : C[k].ty = "step/end" =>
           k = Len(C) - 1 /\ StepOpen(l) /\ C[k].n = l[step].n
      /\ StepOpen(l) => \E k \in DOMAIN C : C[k].ty = "step/end" /\ C[k].n = l[step].n
      /\ \A i \in Undecideds(l) :
           \E k \in DOMAIN C : C[k].ty = "approval/decided" /\ C[k].n = l[i].n
      /\ \A k \in DOMAIN C : C[k].ty = "tool/result" => StepOpen(l) /\ C[k].n \in Opens(l)
      /\ StepOpen(l) => \A c \in Opens(l) :
           \E k \in DOMAIN C : C[k].ty = "tool/result" /\ C[k].n = c
      /\ \A j, k \in DOMAIN C :
           j < k /\ C[j].ty = "tool/result" /\ C[k].ty = "tool/result" => C[j].n < C[k].n

LEMMA ClosersShape ==
  ASSUME NEW l \in Seq(Events), TurnOpen(l)
  PROVE  Closes(l, interrupted_turn_closers(l))
<1> DEFINE turn == LastAt(l, "turn/start")
           step == LastAt(l, "step/start")
           asks == Undecided(l, turn)
           D == [k \in DOMAIN asks |-> Event("approval/decided", l[asks[k]].n)]
           R == Unanswered(l, step)
           se == Event("step/end", l[step].n)
           te == TurnEnd(l[turn].n, "interrupted")
           M == IF StepOpen(l) THEN Append(R, se) ELSE <<>>
<1>1. turn \in 1 .. Len(l) /\ step \in Nat /\ step <= Len(l) /\ Len(l) \in Nat
  BY LastAtIsLast DEF TurnOpen
<1>2. interrupted_turn_closers(l) = D \o M \o <<te>>
  <2>1. ~(turn = 0 \/ LastAt(l, "turn/end") > turn)
    <3>1. LastAt(l, "turn/end") \in Nat
      BY LastAtIsLast
    <3> QED  BY <1>1, <3>1 DEF TurnOpen
  <2> QED  BY <2>1 DEF interrupted_turn_closers, StepOpen
<1>3. /\ D \in Seq(Events)
      /\ \A k \in DOMAIN D : D[k].ty = "approval/decided"
      /\ \A i \in Undecideds(l) : \E k \in DOMAIN D : D[k].n = l[i].n
  <2> DEFINE d == D
  <2> HIDE DEF d
  <2> SUFFICES /\ d \in Seq(Events)
               /\ \A k \in DOMAIN d : d[k].ty = "approval/decided"
               /\ \A i \in Undecideds(l) : \E k \in DOMAIN d : d[k].n = l[i].n
    BY DEF d
  <2> QED  BY DecidedShape DEF d, Decisions
<1>4. /\ R \in Seq(Events)
      /\ \A k \in DOMAIN R : R[k].ty = "tool/result" /\ R[k].n \in Opens(l)
      /\ \A c \in Opens(l) : \E k \in DOMAIN R : R[k].n = c
      /\ \A j, k \in DOMAIN R : j < k => R[j].n < R[k].n
  BY UnansweredShape
<1>5. te \in Events /\ te.ty = "turn/end" /\ te.n = l[turn].n
  <2>1. l[turn].n \in Nat
    <3> HIDE DEF turn
    <3> QED  BY <1>1, EventAt
  <2> QED  BY <2>1, TurnEndIsEvent
<1>6. StepOpen(l) => se \in Events /\ se.ty = "step/end" /\ se.n = l[step].n
  <2> SUFFICES ASSUME StepOpen(l) PROVE se \in Events /\ se.ty = "step/end" /\ se.n = l[step].n
    OBVIOUS
  <2>1. step \in 1 .. Len(l)
    BY <1>1 DEF StepOpen
  <2>2. l[step].n \in Nat
    <3> HIDE DEF step
    <3> QED  BY <2>1, EventAt
  <2> QED  BY <2>2, EventIsEvent DEF Types
<1> HIDE DEF D, R, se, te
<1>7. /\ M \in Seq(Events)
      /\ \A k \in DOMAIN M : \/ StepOpen(l) /\ k \in DOMAIN R /\ M[k] = R[k]
                             \/ StepOpen(l) /\ k = Len(M) /\ M[k] = se /\ k \notin DOMAIN R
      /\ StepOpen(l) => /\ \A k \in DOMAIN R : k \in DOMAIN M /\ M[k] = R[k]
                        /\ Len(M) \in DOMAIN M /\ M[Len(M)] = se
  <2>1. CASE StepOpen(l)
    <3>1. M = Append(R, se)
      BY <2>1
    <3>2. /\ Extends(M, R) /\ Len(M) = Len(R) + 1 /\ M[Len(R) + 1] = se /\ DOMAIN R = 1 .. Len(R)
          /\ \A k \in DOMAIN M : k \in DOMAIN R \/ k = Len(R) + 1
      BY <1>4, <1>6, <2>1, <3>1, AppendExtends
    <3>3. Len(R) \in Nat /\ M \in Seq(Events) /\ DOMAIN M = 1 .. Len(M)
      BY <1>4, <3>2 DEF Extends
    <3> HIDE DEF M
    <3> QED  BY <2>1, <3>2, <3>3 DEF Extends
  <2>2. CASE ~StepOpen(l)
    BY <2>2
  <2> QED  BY <2>1, <2>2
<1> HIDE DEF M
<1> DEFINE H == D \o M
           C == H \o <<te>>
           d == Len(D)
           h == Len(H)
<1>8. /\ H \in Seq(Events) /\ h = d + Len(M) /\ DOMAIN D = 1 .. d /\ DOMAIN M = 1 .. Len(M)
      /\ \A k \in DOMAIN D : H[k] = D[k]
      /\ \A k \in DOMAIN M : H[d + k] = M[k]
      /\ \A i \in DOMAIN H : i \in DOMAIN D \/ \E k \in DOMAIN M : i = d + k
      /\ d \in Nat /\ h \in Nat /\ Len(M) \in Nat /\ DOMAIN H = 1 .. h
  BY <1>3, <1>7, ConcatExtends DEF Extends
<1> HIDE DEF H
<1>9. /\ C \in Seq(Events) /\ Len(C) = h + 1 /\ DOMAIN C = 1 .. h + 1
      /\ \A k \in 1 .. h : C[k] = H[k]
      /\ C[h + 1] = te
  <2>1. Extends(C, H) /\ Len(C) = Len(H) + 1 /\ C[Len(H) + 1] = te
    <3>1. C = Append(H, te)
      BY <1>5, <1>8
    <3> HIDE DEF C
    <3> QED  BY <1>5, <1>8, <3>1, AppendExtends
  <2> HIDE DEF C
  <2> QED  BY <1>8, <2>1 DEF Extends
<1> HIDE DEF C, h, d
<1>10. \A k \in DOMAIN D : k \in DOMAIN C /\ C[k] = D[k] /\ k <= h
  BY <1>8, <1>9
<1>11. \A k \in DOMAIN M : d + k \in DOMAIN C /\ C[d + k] = M[k] /\ d + k <= h
  BY <1>8, <1>9
<1>12. \A k \in DOMAIN C : \/ k \in DOMAIN D /\ C[k] = D[k]
                           \/ \E j \in DOMAIN M : k = d + j /\ C[k] = M[j]
                           \/ k = h + 1 /\ C[k] = te
  <2> TAKE k \in DOMAIN C
  <2>1. k \in 1 .. h \/ k = h + 1
    BY <1>8, <1>9
  <2> QED  BY <1>8, <1>9, <1>10, <1>11, <2>1
<1>13. \A k \in DOMAIN C :
         \/ k \in DOMAIN D /\ C[k].ty = "approval/decided"
         \/ \E j \in DOMAIN R : /\ k = d + j /\ StepOpen(l) /\ C[k] = R[j]
                                /\ C[k].ty = "tool/result" /\ C[k].n \in Opens(l)
         \/ StepOpen(l) /\ k = h /\ C[k].ty = "step/end" /\ C[k].n = l[step].n
         \/ k = h + 1 /\ C[k].ty = "turn/end" /\ C[k].n = l[turn].n
  <2> TAKE k \in DOMAIN C
  <2>1. CASE k \in DOMAIN D /\ C[k] = D[k]
    BY <1>3, <2>1
  <2>2. CASE k = h + 1 /\ C[k] = te
    BY <1>5, <2>2
  <2>3. CASE \E j \in DOMAIN M : k = d + j /\ C[k] = M[j]
    <3>1. PICK j \in DOMAIN M : k = d + j /\ C[k] = M[j]
      BY <2>3
    <3>2. CASE StepOpen(l) /\ j \in DOMAIN R /\ M[j] = R[j]
      BY <1>4, <3>1, <3>2
    <3>3. CASE StepOpen(l) /\ j = Len(M) /\ M[j] = se
      BY <1>6, <1>8, <3>1, <3>3
    <3> QED  BY <1>7, <3>1, <3>2, <3>3
  <2> QED  BY <1>12, <2>1, <2>2, <2>3
<1>14. StepOpen(l) => \A j \in DOMAIN R : d + j \in DOMAIN C /\ C[d + j] = R[j]
  BY <1>7, <1>11
<1>15. StepOpen(l) => h \in DOMAIN C /\ C[h] = se
  BY <1>7, <1>8, <1>11
<1> SUFFICES Closes(l, C)
  BY <1>2 DEF C, H
<1>16. h \in Nat /\ d \in Nat /\ Len(C) = h + 1 /\ \A k \in DOMAIN C : k <= h + 1
  BY <1>8, <1>9
<1>17. \A k \in DOMAIN D : k <= h
  BY <1>10
<1>18. \A j \in DOMAIN R : StepOpen(l) => d + j < h + 1
  BY <1>7, <1>11, <1>16
<1>a. \A k \in DOMAIN C : C[k].ty \in Closing
  BY <1>13 DEF Closing
<1>b. C[Len(C)].n = l[turn].n /\ Len(C) \in DOMAIN C
  BY <1>5, <1>8, <1>9
<1>c. \A k \in DOMAIN C : C[k].ty = "turn/end" <=> k = Len(C)
  BY <1>5, <1>9, <1>13, <1>16, <1>17, <1>18
<1>d. \A k \in DOMAIN C : C[k].ty = "step/end" =>
           k = Len(C) - 1 /\ StepOpen(l) /\ C[k].n = l[step].n
  BY <1>13, <1>16
<1>e. StepOpen(l) => \E k \in DOMAIN C : C[k].ty = "step/end" /\ C[k].n = l[step].n
  BY <1>6, <1>15
<1>f. \A i \in Undecideds(l) :
        \E k \in DOMAIN C : C[k].ty = "approval/decided" /\ C[k].n = l[i].n
  BY <1>3, <1>10
<1>g. \A k \in DOMAIN C : C[k].ty = "tool/result" => StepOpen(l) /\ C[k].n \in Opens(l)
  BY <1>13
<1>h. StepOpen(l) => \A c \in Opens(l) :
           \E k \in DOMAIN C : C[k].ty = "tool/result" /\ C[k].n = c
  BY <1>4, <1>14
<1>i. \A j, k \in DOMAIN C :
         j < k /\ C[j].ty = "tool/result" /\ C[k].ty = "tool/result" => C[j].n < C[k].n
  <2> SUFFICES ASSUME NEW j \in DOMAIN C, NEW k \in DOMAIN C, j < k,
                      C[j].ty = "tool/result", C[k].ty = "tool/result"
               PROVE  C[j].n < C[k].n
    OBVIOUS
  <2>1. PICK a \in DOMAIN R : j = d + a /\ C[j] = R[a]
    BY <1>13
  <2>2. PICK b \in DOMAIN R : k = d + b /\ C[k] = R[b]
    BY <1>13
  <2>3. a \in Nat /\ b \in Nat
    BY <1>4
  <2>4. a < b
    BY <1>16, <2>1, <2>2, <2>3
  <2> QED  BY <1>4, <2>1, <2>2, <2>4
<1> QED
  BY <1>9, <1>a, <1>b, <1>c, <1>d, <1>e, <1>f, <1>g, <1>h, <1>i DEF Closes

-----------------------------------------------------------------------------
(* Types. *)

LEMMA StartsAppend ==
  ASSUME NEW l \in Seq(Events), NEW e \in Events
  PROVE  /\ Starts(l) \in Nat
         /\ Starts(Append(l, e)) = IF e.ty = "turn/start" THEN Starts(l) + 1 ELSE Starts(l)
<1> DEFINE m == Append(l, e)
           P(x) == Positions(x, "turn/start")
<1>1. /\ Extends(m, l) /\ Len(m) = Len(l) + 1 /\ m[Len(l) + 1] = e /\ Len(l) \in Nat
      /\ \A i \in DOMAIN m : i \in DOMAIN l \/ i = Len(l) + 1
      /\ DOMAIN l = 1 .. Len(l) /\ DOMAIN m = 1 .. Len(m)
  BY AppendExtends DEF Extends
<1> HIDE DEF m
<1>2. P(l) \subseteq 1 .. Len(l) /\ IsFiniteSet(1 .. Len(l))
  <2>1. P(l) \subseteq 1 .. Len(l)
    BY <1>1 DEF Positions
  <2>2. \A n \in Nat : IsFiniteSet(1 .. n)
    BY FS_Interval
  <2> QED  BY <1>1, <2>1, <2>2
<1>3. IsFiniteSet(P(l)) /\ Starts(l) \in Nat
  BY <1>2, FS_Subset, FS_CardinalityType DEF Starts
<1>4. CASE e.ty = "turn/start"
  <2>1. P(m) = P(l) \cup {Len(l) + 1} /\ Len(l) + 1 \notin P(l)
    BY <1>1, <1>2, <1>4 DEF Positions, Extends
  <2>2. Starts(m) = Starts(l) + 1
    <3> HIDE DEF P
    <3>1. Cardinality(P(m)) = Cardinality(P(l)) + 1
      BY <1>3, <2>1, FS_AddElement
    <3> QED  BY <3>1 DEF Starts, P
  <2> QED  BY <1>3, <1>4, <2>2 DEF m
<1>5. CASE e.ty # "turn/start"
  <2>1. P(m) = P(l)
    BY <1>1, <1>2, <1>5 DEF Positions, Extends
  <2> QED  BY <1>3, <1>5, <2>1 DEF Starts, m
<1> QED  BY <1>4, <1>5

LEMMA WaitingIsSeq ==
  ASSUME NEW l \in Seq(Events)
  PROVE  Waiting(l) \in Seq(Nat)
<1> DEFINE S == {i \in Positions(l, "inbox/insert") : LastAt(l, "inbox/claim") < i}
<1>1. S \in SUBSET (1 .. Len(l)) /\ Len(l) \in Nat
  BY DEF Positions
<1>2. Waiting(l) = InOrder(S)
  BY DEF Waiting
<1> DEFINE b == Len(l)
<1> HIDE DEF S, b
<1>3. InOrder(S) \in Seq(S)
  <2>1. S \in SUBSET (1 .. b) /\ b \in Nat
    BY <1>1 DEF b
  <2> QED  BY <2>1, InOrderLists
<1>4. S \subseteq Nat
  BY <1>1
<1>5. InOrder(S) \in Seq(Nat)
  <2> DEFINE s == InOrder(S)
  <2> HIDE DEF s
  <2>1. s \in Seq(S)
    BY <1>3 DEF s
  <2>2. s \in Seq(Nat)
    <3>1. Len(s) \in Nat /\ s \in [1 .. Len(s) -> S]
      BY <2>1
    <3>2. s \in [1 .. Len(s) -> Nat]
      BY <1>4, <3>1
    <3> QED  BY <3>1, <3>2
  <2> QED  BY <2>2 DEF s
<1> QED  BY <1>2, <1>5

LEMMA HeadTail ==
  ASSUME NEW l \in Seq(Events), NEW c \in Seq(Events), c # <<>>
  PROVE  /\ Head(c) = c[1] /\ Head(c) \in Events /\ Tail(c) \in Seq(Events)
         /\ Len(c) \in Nat /\ Len(c) > 0 /\ DOMAIN c = 1 .. Len(c)
         /\ Len(Tail(c)) = Len(c) - 1 /\ DOMAIN Tail(c) = 1 .. Len(c) - 1
         /\ \A k \in DOMAIN Tail(c) : k + 1 \in DOMAIN c /\ Tail(c)[k] = c[k + 1]
         /\ Append(l, Head(c)) \o Tail(c) = l \o c
<1>1. /\ Head(c) \in Events /\ Tail(c) \in Seq(Events) /\ Head(c) = c[1]
      /\ Len(Tail(c)) = Len(c) - 1 /\ Len(c) \in Nat /\ Len(c) > 0
      /\ \A k \in 1 .. Len(c) - 1 : Tail(c)[k] = c[k + 1]
  BY HeadTailProperties, EmptySeq
<1>2. DOMAIN c = 1 .. Len(c) /\ DOMAIN Tail(c) = 1 .. Len(c) - 1
  BY <1>1
<1>3. Append(l, Head(c)) \o Tail(c) = l \o c
  <2>1. c = <<Head(c)>> \o Tail(c)
    BY <1>1
  <2>2. Append(l, Head(c)) = l \o <<Head(c)>>
    BY <1>1
  <2> DEFINE h == <<Head(c)>>
             t == Tail(c)
  <2>3. h \in Seq(Events) /\ t \in Seq(Events) /\ c = h \o t /\ Append(l, Head(c)) = l \o h
    BY <1>1, <2>1, <2>2
  <2> HIDE DEF h, t
  <2>4. (l \o h) \o t = l \o (h \o t)
    BY <2>3, ConcatAssociative
  <2> QED  BY <2>3, <2>4 DEF t
<1> QED  BY <1>1, <1>2, <1>3

(* What an action may leave of the type invariant's parts. *)
LEMMA WriteKeeps ==
  ASSUME FlowTypeOK, NEW e \in Events, e.ty # "turn/start", Write(e)
  PROVE  log' \in Seq(Events) /\ Starts(log') = Starts(log) /\ Starts(log') \in 0 .. MaxTurns
<1>1. log \in Seq(Events) /\ Starts(log) \in 0 .. MaxTurns
  BY DEF FlowTypeOK
<1> QED  BY <1>1, StartsAppend DEF Write

LEMMA ClosersTyped ==
  ASSUME NEW l \in Seq(Events)
  PROVE  /\ interrupted_turn_closers(l) \in Seq(Events)
         /\ \A k \in DOMAIN interrupted_turn_closers(l) :
              interrupted_turn_closers(l)[k].ty \in Closing
<1>1. CASE TurnOpen(l)
  BY <1>1, ClosersShape DEF Closes
<1>2. CASE ~TurnOpen(l)
  <2> DEFINE C == interrupted_turn_closers(l)
  <2>1. C = <<>>
    BY <1>2, ClosersEmpty
  <2> HIDE DEF C
  <2>2. C \in Seq(Events) /\ \A k \in DOMAIN C : C[k].ty \in Closing
    BY <2>1
  <2> QED  BY <2>2 DEF C
<1> QED  BY <1>1, <1>2

USE ConstantsAssumption DEF FaultPoints

LEMMA FlowTypes == FlowTypeOK => TypeOK
<1> SUFFICES ASSUME FlowTypeOK PROVE TypeOK
  OBVIOUS
<1>1. \A c \in ToSet(closers) : c \in Events
  BY DEF ToSet, FlowTypeOK
<1> QED  BY <1>1 DEF TypeOK, FlowTypeOK, Events, Running

LEMMA TypeInit == Init => FlowTypeOK
<1> SUFFICES ASSUME Init PROVE FlowTypeOK
  OBVIOUS
<1> USE DEF Init
<1>1. Starts(log) = 0
  <2>1. Positions(log, "turn/start") = {}
    BY DEF Positions
  <2> QED  BY <2>1, FS_EmptySet DEF Starts
<1>2. /\ log \in Seq(Events) /\ turns \in 0 .. MaxTurns /\ steps \in 0 .. MaxSteps
      /\ pc \in Running \cup {"down", "repair", "idle"}
  BY DEF Running
<1>3. inStep \in BOOLEAN /\ failure \in BOOLEAN /\ cut \in BOOLEAN /\ stopped \in BOOLEAN
  OBVIOUS
<1>4. batch \in Seq(Nat) /\ inbox \in Seq(Nat) /\ calls \in Seq(Kinds) /\ closers \in Seq(Events)
  OBVIOUS
<1>5. status \in [DOMAIN calls -> CallStates]
  OBVIOUS
<1>6. Starts(log) \in 0 .. MaxTurns
  BY <1>1
<1> QED  BY <1>1, <1>2, <1>3, <1>4, <1>5, <1>6 DEF FlowTypeOK

(* One action at a time; in each, what it writes is an event and is a turn's *)
(* start only in RunTurn.                                                    *)
LEMMA TypeNext == FlowTypeOK /\ [Next]_vars => FlowTypeOK'
<1> SUFFICES ASSUME FlowTypeOK, [Next]_vars PROVE FlowTypeOK'
  OBVIOUS
<1>t. /\ log \in Seq(Events) /\ turns \in 0 .. MaxTurns /\ steps \in 0 .. MaxSteps
      /\ Starts(log) \in 0 .. MaxTurns /\ Len(log) \in Nat
  BY DEF FlowTypeOK
<1>d. DOMAIN calls = 1 .. Len(calls) /\ Len(calls) \in Nat
  BY DEF FlowTypeOK
<1>w. ASSUME NEW e \in Events, e.ty # "turn/start", Write(e)
      PROVE  log' \in Seq(Events) /\ Starts(log') = Starts(log) /\ Starts(log') \in 0 .. MaxTurns
  BY <1>w, WriteKeeps
<1>e. ASSUME NEW ty \in Types \ {"turn/start"}, NEW n \in Nat, Write(Event(ty, n))
      PROVE  log' \in Seq(Events) /\ Starts(log') = Starts(log) /\ Starts(log') \in 0 .. MaxTurns
  BY <1>e, <1>w, EventIsEvent
<1>m. ASSUME NEW i \in DOMAIN calls, NEW to \in CallStates, Move(i, to)
      PROVE  status' \in [DOMAIN calls -> CallStates]
  BY <1>m DEF Move, FlowTypeOK
<1>1. CASE UNCHANGED vars
  BY <1>1 DEF FlowTypeOK, vars
<1>2. CASE Reopen
  <2>1. closers' \in Seq(Events) /\ \A k \in DOMAIN closers' : closers'[k].ty \in Closing
    BY <1>2, <1>t, ClosersTyped DEF Reopen
  <2> QED  BY <1>2, <2>1 DEF Reopen, FlowTypeOK, memory, Running
<1>3. CASE Repair
  <2>1. /\ closers' \in Seq(Events) /\ \A k \in DOMAIN closers' : closers'[k].ty \in Closing
        /\ Head(closers) \in Events /\ Head(closers).ty \in Closing
    BY <1>3, <1>t, HeadTail DEF Repair, FlowTypeOK
  <2>2. log' \in Seq(Events) /\ Starts(log') = Starts(log) /\ Starts(log') \in 0 .. MaxTurns
    BY <1>3, <2>1, <1>w DEF Repair, Closing
  <2> QED  BY <1>3, <2>1, <2>2 DEF Repair, FlowTypeOK, memory, Running
<1>4. CASE FromContext
  <2>1. turns' = Starts(log)
    BY <1>4 DEF FromContext, Starts
  <2>2. inbox' \in Seq(Nat)
    BY <1>4, <1>t, WaitingIsSeq DEF FromContext
  <2> QED  BY <1>4, <1>t, <2>1, <2>2 DEF FromContext, FlowTypeOK, Running
<1>5. CASE SnapshotContext
  BY <1>5 DEF SnapshotContext, FlowTypeOK, memory, Running
<1>5a. CASE Request
  BY <1>5a DEF Request, FlowTypeOK, memory, Running
<1>5b. CASE TurnStopping
  BY <1>5b DEF TurnStopping, FlowTypeOK, memory, Running
<1>5c. CASE Interrupt
  BY <1>5c DEF Interrupt, FlowTypeOK, memory, Running
<1>5d. CASE GroupFailed
  <2>1. pc = "tools" /\ pc' = "closing" /\ closers = <<>>
    BY <1>5d DEF GroupFailed, Drained, FlowTypeOK
  <2>2. turns >= Starts(log)
    BY <2>1 DEF FlowTypeOK
  <2> QED  BY <1>5d, <2>1, <2>2 DEF GroupFailed, FlowTypeOK, Running
<1>6. CASE Claim
  <2>1. log' \in Seq(Events) /\ Starts(log') = Starts(log) /\ Starts(log') \in 0 .. MaxTurns
    <3>1. Len(inbox) \in Nat
      BY DEF FlowTypeOK
    <3> QED  BY <1>6, <1>t, <1>e, <3>1 DEF Claim, Types
  <2>2. batch' \in Seq(Nat) /\ inbox' \in Seq(Nat)
    BY <1>6 DEF Claim, FlowTypeOK
  <2> QED  BY <1>6, <2>1, <2>2 DEF Claim, FlowTypeOK, Running
<1>7. CASE PreStep
  BY <1>7 DEF PreStep, FlowTypeOK, Running
<1>8. CASE StepStart
  <2>1. log' \in Seq(Events) /\ Starts(log') = Starts(log) /\ Starts(log') \in 0 .. MaxTurns
    BY <1>8, <1>t, <1>e DEF StepStart, Types
  <2> QED  BY <1>8, <2>1 DEF StepStart, FlowTypeOK, Running
<1>9. CASE UserMessage
  <2>1. batch' \in Seq(Nat) /\ Head(batch) \in Nat
    BY <1>9 DEF UserMessage, FlowTypeOK
  <2>2. log' \in Seq(Events) /\ Starts(log') = Starts(log) /\ Starts(log') \in 0 .. MaxTurns
    BY <1>9, <1>t, <1>e, <2>1 DEF UserMessage, Types
  <2> QED  BY <1>9, <2>1, <2>2 DEF UserMessage, FlowTypeOK, Running
<1>10. ASSUME NEW asked \in Answers, NEW truncated \in BOOLEAN, Respond(asked, truncated)
       PROVE  FlowTypeOK'
  <2> DEFINE kept == IF truncated THEN <<>> ELSE asked
  <2>1. kept \in Seq(Kinds) /\ Len(kept) \in Nat
    OBVIOUS
  <2>2. /\ Write(Event("assistant/message", Len(kept))) /\ calls' = kept
        /\ status' = [i \in DOMAIN kept |-> "asked"]
    BY <1>10 DEF Respond
  <2> HIDE DEF kept
  <2>3. log' \in Seq(Events) /\ Starts(log') = Starts(log) /\ Starts(log') \in 0 .. MaxTurns
    BY <1>t, <1>e, <2>1, <2>2 DEF Types
  <2>4. status' \in [DOMAIN calls' -> CallStates]
    BY <2>2 DEF CallStates
  <2>5. calls' \in Seq(Kinds)
    BY <2>1, <2>2
  <2> QED  BY <1>10, <2>3, <2>4, <2>5 DEF Respond, FlowTypeOK, Running
<1>11. ASSUME NEW i \in DOMAIN calls, Push(i) \/ Settle(i) PROVE FlowTypeOK'
  <2>1. status' \in [DOMAIN calls -> CallStates]
    BY <1>11, <1>m DEF Push, Settle, CallStates
  <2> QED  BY <1>11, <2>1 DEF Push, Settle, Move, FlowTypeOK
<1>12. ASSUME NEW i \in DOMAIN calls, Dispatch(i) \/ Ask(i) PROVE FlowTypeOK'
  <2>1. status' \in [DOMAIN calls -> CallStates]
    BY <1>12, <1>m DEF Dispatch, Ask, CallStates
  <2>2. log' \in Seq(Events) /\ Starts(log') = Starts(log) /\ Starts(log') \in 0 .. MaxTurns
    BY <1>12, <1>d, <1>e DEF Dispatch, Ask, Types
  <2> QED  BY <1>12, <2>1, <2>2 DEF Dispatch, Ask, Move, FlowTypeOK
<1>13. ASSUME NEW i \in DOMAIN calls, Decide(i) PROVE FlowTypeOK'
  <2>1. status' \in [DOMAIN calls -> CallStates]
    BY <1>13, <1>m DEF Decide, CallStates
  <2>2. log' \in Seq(Events) /\ Starts(log') = Starts(log) /\ Starts(log') \in 0 .. MaxTurns
    BY <1>13, <1>d, <1>e DEF Decide, Types
  <2> QED  BY <1>13, <2>1, <2>2 DEF Decide, Move, FlowTypeOK
<1>14. ASSUME NEW i \in DOMAIN calls, CommitResult(i) PROVE FlowTypeOK'
  <2>1. status' \in [DOMAIN calls -> CallStates]
    BY <1>14, <1>m DEF CommitResult, CallStates
  <2>2. i \in Nat /\ LastOf(log, "tool/call", i) \in Nat
    BY <1>t, <1>d, LastOfIsLast
  <2>3. log' \in Seq(Events) /\ Starts(log') = Starts(log) /\ Starts(log') \in 0 .. MaxTurns
    BY <1>14, <2>2, <1>w, ResultIsEvent DEF CommitResult
  <2> QED  BY <1>14, <2>1, <2>3 DEF CommitResult, Move, FlowTypeOK
<1>15. ASSUME NEW i \in DOMAIN calls, CommitContext(i) PROVE FlowTypeOK'
  <2>1. status' \in [DOMAIN calls -> CallStates]
    BY <1>15, <1>m DEF CommitContext, CallStates
  <2>2. log' \in Seq(Events) /\ Starts(log') = Starts(log) /\ Starts(log') \in 0 .. MaxTurns
    BY <1>15, <1>t, <1>e DEF CommitContext, Types
  <2>3. inbox' \in Seq(Nat)
    <3>1. inbox \in Seq(Nat) /\ Len(log) + 1 \in Nat
      BY <1>t DEF FlowTypeOK
    <3>2. inbox' = inbox \/ inbox' = Append(inbox, Len(log) + 1)
      BY <1>15 DEF CommitContext
    <3> QED  BY <3>1, <3>2
  <2> QED  BY <1>15, <2>1, <2>2, <2>3 DEF CommitContext, Move, FlowTypeOK
<1>16. ASSUME NEW i \in DOMAIN calls, CallFails(i) PROVE FlowTypeOK'
  <2>1. status' \in [DOMAIN calls -> CallStates]
    BY <1>16, <1>m DEF CallFails, CallStates
  <2> QED  BY <1>16, <2>1 DEF CallFails, Move, FlowTypeOK
<1>17. CASE StepEnd
  <2>1. log' \in Seq(Events) /\ Starts(log') = Starts(log) /\ Starts(log') \in 0 .. MaxTurns
    BY <1>17, <1>t, <1>e DEF StepEnd, Types
  <2>2. pc = "tools" /\ pc' = "settle" /\ closers = <<>>
    BY <1>17 DEF StepEnd, Drained, FlowTypeOK
  <2>3. turns >= Starts(log)
    BY <2>2 DEF FlowTypeOK
  <2> QED  BY <1>17, <2>1, <2>2, <2>3 DEF StepEnd, FlowTypeOK, Running
<1>17a. CASE CloseStep
  <2>1. log' \in Seq(Events) /\ Starts(log') = Starts(log) /\ Starts(log') \in 0 .. MaxTurns
    BY <1>17a, <1>t, <1>e DEF CloseStep, Types
  <2> QED  BY <1>17a, <2>1 DEF CloseStep, FlowTypeOK, Running
<1>18. CASE Boundary
  BY <1>18, <1>t DEF Boundary, StopReasons, FlowTypeOK, Running
<1>19. CASE CloseTurn
  <2>1. log' \in Seq(Events) /\ Starts(log') = Starts(log) /\ Starts(log') \in 0 .. MaxTurns
    BY <1>19, <1>t, <1>w, TurnEndIsEvent DEF CloseTurn
  <2> QED  BY <1>19, <2>1 DEF CloseTurn, memory, FlowTypeOK, Running
<1>20. CASE RunTurn
  <2>1. log' \in Seq(Events) /\ Starts(log') = Starts(log) + 1
    <3> DEFINE e == Event("turn/start", turns + 1)
    <3>1. e \in Events /\ e.ty = "turn/start" /\ log' = Append(log, e)
      BY <1>20, <1>t, EventIsEvent DEF RunTurn, Write, Types
    <3> HIDE DEF e
    <3> QED  BY <1>t, <3>1, StartsAppend
  <2>2. turns >= Starts(log) /\ turns < MaxTurns /\ turns' = turns + 1
    BY <1>20 DEF RunTurn, FlowTypeOK
  <2>3. calls' \in Seq(Kinds) /\ status' \in [DOMAIN calls' -> CallStates]
    BY <1>20 DEF RunTurn, Idle
  <2>4. batch' \in Seq(Nat) /\ steps' = 0 /\ steps' < MaxSteps /\ steps' \in 0 .. MaxSteps
    BY <1>20 DEF RunTurn, Idle
  <2>5. /\ inStep' = FALSE /\ failure' = FALSE /\ cut' = FALSE /\ stopped' = FALSE
        /\ UNCHANGED <<inbox, closers>> /\ pc' = "context"
    BY <1>20 DEF RunTurn, Idle
  <2>6. closers' = <<>> /\ Starts(log') \in 0 .. MaxTurns /\ turns' >= Starts(log')
    BY <1>20, <1>t, <2>1, <2>2 DEF RunTurn, FlowTypeOK
  <2>7. turns' \in 0 .. MaxTurns
    BY <1>t, <2>2
  <2> QED  BY <1>t, <2>1, <2>3, <2>4, <2>5, <2>6, <2>7 DEF FlowTypeOK, Running
<1>20a. CASE StartRefused
  <2>1. /\ pc = "idle" /\ turns' \in 0 .. MaxTurns /\ turns' >= Starts(log)
        /\ stopped' = FALSE /\ UNCHANGED <<log, pc, memory, closers>>
    BY <1>20a, <1>t DEF StartRefused, FlowTypeOK
  <2> QED  BY <2>1 DEF FlowTypeOK, memory, Running
<1>21. CASE Crash
  <2>1. calls' \in Seq(Kinds) /\ status' \in [DOMAIN calls' -> CallStates]
    BY <1>21 DEF Crash, Idle
  <2>2. /\ batch' \in Seq(Nat) /\ inbox' \in Seq(Nat) /\ closers' \in Seq(Events)
        /\ closers' = <<>>
    BY <1>21 DEF Crash
  <2>3. turns' \in 0 .. MaxTurns /\ steps' \in 0 .. MaxSteps /\ log' = log
    BY <1>21 DEF Crash, Idle
  <2>4. /\ inStep' = FALSE /\ failure' = FALSE /\ cut' = FALSE /\ stopped' = FALSE
        /\ pc' = "down"
    BY <1>21 DEF Crash, Idle
  <2>5. log' \in Seq(Events) /\ Starts(log') \in 0 .. MaxTurns
    BY <1>t, <2>3
  <2>6. \A k \in DOMAIN closers' : closers'[k].ty \in Closing
    BY <2>2
  <2> QED  BY <2>1, <2>2, <2>3, <2>4, <2>5, <2>6 DEF FlowTypeOK, Running
<1>22. CASE Fault
  BY <1>22 DEF Fault, FlowTypeOK, Running
<1> QED
  BY <1>1, <1>2, <1>3, <1>4, <1>5, <1>5a, <1>5b, <1>5c, <1>5d, <1>6, <1>7, <1>8, <1>9,
     <1>10, <1>11, <1>12, <1>13, <1>14, <1>15, <1>16, <1>17, <1>17a, <1>18, <1>19, <1>20, <1>20a,
     <1>21, <1>22 DEF Next, Progress, Pool

-----------------------------------------------------------------------------
(* The pool. *)

LEMMA TakenInit == Init => TakenInOrder
BY DEF Init, TakenInOrder

(* A call that is under way may go anywhere but back. *)
LEMMA TakenMove ==
  ASSUME FlowTypeOK, TakenInOrder, NEW i \in DOMAIN calls, NEW to, Move(i, to),
         status[i] \notin {"asked", "done"}, to # "asked",
         to \in InFlight => status[i] \in InFlight
  PROVE  TakenInOrder'
<1>1. /\ calls' = calls /\ DOMAIN status = DOMAIN calls
      /\ \A j \in DOMAIN calls : status'[j] = IF j = i THEN to ELSE status[j]
  BY DEF Move, FlowTypeOK
<1>2. \A h, j \in DOMAIN calls' : h < j /\ status'[h] = "asked" => status'[j] = "asked"
  <2> SUFFICES ASSUME NEW h \in DOMAIN calls, NEW j \in DOMAIN calls, h < j, status'[h] = "asked"
               PROVE  status'[j] = "asked"
    BY <1>1
  <2>1. h # i /\ status[h] = "asked"
    BY <1>1
  <2>2. status[j] = "asked"
    BY <2>1 DEF TakenInOrder
  <2> QED  BY <1>1, <2>2
<1>3. ASSUME NEW h \in DOMAIN calls, NEW j \in DOMAIN calls, calls[h] = "exclusive",
             status'[h] \in InFlight
      PROVE  (j < h => status'[j] = "done") /\ (h < j => status'[j] = "asked")
  <2>1. status[h] \in InFlight
    BY <1>1, <1>3
  <2>2. (j < h => status[j] = "done") /\ (h < j => status[j] = "asked")
    BY <1>3, <2>1 DEF TakenInOrder, Solo
  <2>3. DOMAIN calls = 1 .. Len(calls)
    BY DEF FlowTypeOK
  <2>4. j # i \/ j = h
    BY <2>2, <2>3
  <2> QED  BY <1>1, <2>2, <2>3, <2>4
<1> QED  BY <1>1, <1>2, <1>3 DEF TakenInOrder, Solo

LEMMA TakenNext == FlowTypeOK /\ TakenInOrder /\ [Next]_vars => TakenInOrder'
<1> SUFFICES ASSUME FlowTypeOK, TakenInOrder, [Next]_vars PROVE TakenInOrder'
  OBVIOUS
<1>1. CASE UNCHANGED <<calls, status>>
  BY <1>1 DEF TakenInOrder, Solo
<1>2. CASE RunTurn \/ Crash
  <2>1. calls' = <<>>
    BY <1>2 DEF RunTurn, Crash, Idle
  <2> QED  BY <2>1 DEF TakenInOrder, Solo
<1>3. ASSUME NEW asked \in Answers, NEW truncated \in BOOLEAN, Respond(asked, truncated)
      PROVE  TakenInOrder'
  <2>1. \A j \in DOMAIN calls' : status'[j] = "asked"
    BY <1>3 DEF Respond
  <2> QED  BY <2>1 DEF TakenInOrder, InFlight
<1>4. ASSUME NEW i \in DOMAIN calls, Push(i) PROVE TakenInOrder'
  <2>1. /\ calls' = calls /\ DOMAIN status = DOMAIN calls /\ DOMAIN calls = 1 .. Len(calls)
        /\ \A j \in DOMAIN calls : status'[j] = IF j = i THEN "pushed" ELSE status[j]
        /\ Len(calls) \in Nat
    <3>1. DOMAIN status = DOMAIN calls
      BY DEF FlowTypeOK
    <3>2. DOMAIN calls = 1 .. Len(calls) /\ Len(calls) \in Nat
      BY DEF FlowTypeOK
    <3> QED  BY <1>4, <3>1, <3>2 DEF Push, Move
  <2>2. /\ status[i] = "asked"
        /\ \A j \in 1 .. i - 1 : status[j] # "asked"
        /\ Solo(i) => \A j \in 1 .. i - 1 : status[j] = "done"
        /\ \A j \in 1 .. i - 1 : Solo(j) => status[j] = "done"
    BY <1>4 DEF Push, MayPush
  <2>3. \A j \in DOMAIN calls : j < i => j \in 1 .. i - 1
    BY <2>1
  <2>4. \A h, j \in DOMAIN calls : h < j /\ status'[h] = "asked" => status'[j] = "asked"
    <3> SUFFICES ASSUME NEW h \in DOMAIN calls, NEW j \in DOMAIN calls,
                        h < j, status'[h] = "asked"
                 PROVE  status'[j] = "asked"
      OBVIOUS
    <3>1. h # i /\ status[h] = "asked"
      BY <2>1
    <3>2. status[j] = "asked"
      BY <3>1 DEF TakenInOrder
    <3>3. j # i
      BY <2>2, <2>3, <3>1
    <3> QED  BY <2>1, <3>2, <3>3
  <2>5. ASSUME NEW h \in DOMAIN calls, NEW j \in DOMAIN calls, Solo(h),
               status'[h] \in InFlight
        PROVE  (j < h => status'[j] = "done") /\ (h < j => status'[j] = "asked")
    <3>1. CASE h = i
      <4>1. h < j => status[j] = "asked"
        BY <2>2, <3>1 DEF TakenInOrder
      <4> QED  BY <2>1, <2>2, <2>3, <2>5, <3>1, <4>1
    <3>2. CASE h # i
      <4>1. status[h] \in InFlight
        BY <2>1, <2>5, <3>2
      <4>2. ~(h < i)
        BY <2>2, <2>3, <2>5, <4>1 DEF InFlight
      <4>3. ~(i < h)
        BY <2>2, <2>5, <4>1 DEF TakenInOrder
      <4> QED  BY <2>1, <3>2, <4>2, <4>3
    <3> QED  BY <3>1, <3>2
  <2> QED  BY <2>1, <2>4, <2>5 DEF TakenInOrder, Solo
<1>5. ASSUME NEW i \in DOMAIN calls,
             Dispatch(i) \/ Ask(i) \/ Decide(i) \/ Settle(i) \/ CommitResult(i) \/ CommitContext(i)
      PROVE  TakenInOrder'
  BY <1>5, TakenMove DEF Dispatch, Ask, Decide, Settle, CommitResult, CommitContext, InFlight, Due
<1>6. ASSUME NEW i \in DOMAIN calls, CallFails(i) PROVE TakenInOrder'
  BY <1>6, TakenMove DEF CallFails, Due, InFlight
<1>7. \/ UNCHANGED <<calls, status>> \/ RunTurn \/ Crash
      \/ \E asked \in Answers, truncated \in BOOLEAN : Respond(asked, truncated)
      \/ Pool \/ \E i \in DOMAIN calls : CallFails(i)
  BY DEF Next, Progress, vars, memory, Reopen, Repair, FromContext, SnapshotContext, Claim,
         PreStep, StepStart, UserMessage, Request, GroupFailed, StepEnd, Boundary,
         TurnStopping, CloseStep, CloseTurn, Fault, Interrupt, StartRefused
<1> QED  BY <1>1, <1>2, <1>3, <1>4, <1>5, <1>6, <1>7 DEF Pool

(* A call the pool took on alone is alone there. *)
LEMMA TakenMeans == FlowTypeOK /\ TakenInOrder => ExclusiveRunsAlone
<1> SUFFICES ASSUME FlowTypeOK, TakenInOrder, NEW i \in DOMAIN calls, NEW j \in DOMAIN calls,
                    i # j, Solo(i), status[i] \in InFlight
             PROVE  status[j] \notin InFlight /\ (j < i => status[j] = "done")
  BY DEF ExclusiveRunsAlone
<1>1. i < j \/ j < i
  <2>1. DOMAIN calls = 1 .. Len(calls)
    BY DEF FlowTypeOK
  <2> QED  BY <2>1
<1> QED  BY <1>1 DEF TakenInOrder, InFlight

-----------------------------------------------------------------------------
(* Results. *)

(* A journal that goes on without a new message gives results only to the  *)
(* last one.                                                               *)
LEMMA ResultsExtend ==
  ASSUME NEW l \in Seq(Events), NEW m, Extends(m, l),
         \A k \in DOMAIN m : k > Len(l) => m[k].ty # "assistant/message",
         NEW i \in Asked(l), NEW c
  PROVE  ResultsOf(m, i, c) =
           ResultsOf(l, i, c) \cup
             (IF i = LastAt(l, "assistant/message")
              THEN {j \in DOMAIN m : j > Len(l) /\ m[j].ty = "tool/result" /\ m[j].n = c}
              ELSE {})
<1> DEFINE at == LastAt(l, "assistant/message")
           New == {j \in DOMAIN m : j > Len(l) /\ m[j].ty = "tool/result" /\ m[j].n = c}
<1>1. /\ DOMAIN l = 1 .. Len(l) /\ DOMAIN m = 1 .. Len(m) /\ Len(l) \in Nat /\ Len(m) \in Nat
      /\ Len(l) <= Len(m) /\ \A j \in DOMAIN l : m[j] = l[j]
  BY DEF Extends
<1>2. /\ i \in DOMAIN l /\ i \in Nat /\ l[i].ty = "assistant/message" /\ i <= at
      /\ at \in Nat /\ (at # 0 => at \in DOMAIN l /\ l[at].ty = "assistant/message")
      /\ \A k \in DOMAIN l : l[k].ty = "assistant/message" => k <= at
  <2>1. i \in DOMAIN l /\ l[i].ty = "assistant/message"
    BY DEF Asked
  <2>2. /\ at \in Nat /\ (at # 0 => at \in Positions(l, "assistant/message"))
        /\ \A k \in Positions(l, "assistant/message") : k <= at
    BY LastAtIsLast
  <2> HIDE DEF at
  <2> QED  BY <1>1, <2>1, <2>2 DEF Positions
<1> HIDE DEF at
<1>3. ASSUME NEW j PROVE j \in ResultsOf(l, i, c) <=> j \in ResultsOf(m, i, c) /\ j \in DOMAIN l
  <2>1. CASE j \in DOMAIN l
    <3>1. j \in DOMAIN m /\ m[j] = l[j] /\ \A k \in i + 1 .. j : k \in DOMAIN l /\ m[k] = l[k]
      BY <1>1, <1>2, <2>1
    <3> QED  BY <2>1, <3>1 DEF ResultsOf
  <2>2. CASE j \notin DOMAIN l
    BY <2>2 DEF ResultsOf
  <2> QED  BY <2>1, <2>2
<1>4. CASE i = at
  <2>1. ASSUME NEW j \in DOMAIN m, j > Len(l) PROVE j \in ResultsOf(m, i, c) <=> j \in New
    <3>1. \A k \in i + 1 .. j : k \in DOMAIN m /\ m[k].ty # "assistant/message"
      <4> TAKE k \in i + 1 .. j
      <4>1. k \in DOMAIN m /\ (k \in DOMAIN l \/ k > Len(l))
        BY <1>1, <1>2, <2>1
      <4>2. k \in DOMAIN l => k > at
        BY <1>2, <1>4
      <4>3. k \in DOMAIN l => l[k].ty # "assistant/message"
        BY <1>1, <1>2, <4>2
      <4> QED  BY <1>1, <4>1, <4>3
    <3>2. j > i
      BY <1>1, <1>2, <2>1
    <3> QED  BY <2>1, <3>1, <3>2 DEF ResultsOf
  <2>2. \A j \in DOMAIN m : j \in DOMAIN l \/ j > Len(l)
    BY <1>1
  <2>3. \A j : j \in ResultsOf(m, i, c) => j \in DOMAIN m
    BY DEF ResultsOf
  <2>4. \A j : j \in New => j \in DOMAIN m /\ j > Len(l) /\ j \notin DOMAIN l
    BY <1>1
  <2> HIDE DEF New
  <2>5. \A j : j \in ResultsOf(m, i, c) <=> j \in ResultsOf(l, i, c) \/ j \in New
    BY <1>3, <2>1, <2>2, <2>3, <2>4
  <2> QED  BY <1>4, <2>5 DEF New, at
<1>5. CASE i # at
  <2>1. ASSUME NEW j \in ResultsOf(m, i, c) PROVE j \in DOMAIN l
    <3>1. j \in DOMAIN m /\ \A k \in i + 1 .. j : m[k].ty # "assistant/message"
      BY DEF ResultsOf
    <3>2. at \in i + 1 .. j => FALSE
      BY <1>1, <1>2, <1>5, <3>1
    <3>3. j < at
      BY <1>1, <1>2, <1>5, <3>1, <3>2
    <3> QED  BY <1>1, <1>2, <3>1, <3>3
  <2>2. \A j : j \in ResultsOf(m, i, c) <=> j \in ResultsOf(l, i, c)
    BY <1>3, <2>1
  <2> QED  BY <1>5, <2>2 DEF at
<1> QED  BY <1>4, <1>5

LEMMA AskedExtend ==
  ASSUME NEW l \in Seq(Events), NEW m, Extends(m, l),
         \A k \in DOMAIN m : k > Len(l) => m[k].ty # "assistant/message"
  PROVE  Asked(m) = Asked(l) /\ \A i \in Asked(l) : m[i] = l[i]
<1>1. /\ DOMAIN l = 1 .. Len(l) /\ DOMAIN m = 1 .. Len(m) /\ Len(l) \in Nat /\ Len(m) \in Nat
      /\ Len(l) <= Len(m) /\ \A j \in DOMAIN l : m[j] = l[j]
  BY DEF Extends
<1>2. \A j \in DOMAIN m : j \in DOMAIN l \/ j > Len(l)
  BY <1>1
<1>3. \A j : j \in Asked(m) <=> j \in Asked(l)
  BY <1>1, <1>2 DEF Asked
<1> QED  BY <1>1, <1>3 DEF Asked

(* What an append leaves of a message's results. *)
LEMMA ResultsAppend ==
  ASSUME NEW l \in Seq(Events), NEW e \in Events, e.ty # "assistant/message",
         NEW i \in Asked(l), NEW c
  PROVE  ResultsOf(Append(l, e), i, c) =
           ResultsOf(l, i, c) \cup
             (IF i = LastAt(l, "assistant/message") /\ e.ty = "tool/result" /\ e.n = c
              THEN {Len(l) + 1} ELSE {})
<1> DEFINE m == Append(l, e)
           New == {j \in DOMAIN m : j > Len(l) /\ m[j].ty = "tool/result" /\ m[j].n = c}
<1>1. /\ Extends(m, l) /\ Len(m) = Len(l) + 1 /\ m[Len(l) + 1] = e /\ DOMAIN m = 1 .. Len(m)
      /\ Len(l) \in Nat
  BY AppendExtends DEF Extends
<1> HIDE DEF m
<1>2. \A k \in DOMAIN m : k > Len(l) <=> k = Len(l) + 1
  BY <1>1
<1>3. ResultsOf(m, i, c) = ResultsOf(l, i, c) \cup
             (IF i = LastAt(l, "assistant/message") THEN New ELSE {})
  BY <1>1, <1>2, ResultsExtend
<1>4. New = IF e.ty = "tool/result" /\ e.n = c THEN {Len(l) + 1} ELSE {}
  BY <1>1, <1>2
<1> HIDE DEF New
<1> QED  BY <1>3, <1>4 DEF m

(* A new message has no result yet, and takes none from those before it. *)
LEMMA ResultsNewMessage ==
  ASSUME NEW l \in Seq(Events), NEW e \in Events, e.ty = "assistant/message"
  PROVE  /\ Asked(Append(l, e)) = Asked(l) \cup {Len(l) + 1}
         /\ \A c : ResultsOf(Append(l, e), Len(l) + 1, c) = {}
         /\ \A i \in Asked(l) : \A c : ResultsOf(Append(l, e), i, c) = ResultsOf(l, i, c)
<1> DEFINE m == Append(l, e)
<1>1. /\ Extends(m, l) /\ Len(m) = Len(l) + 1 /\ m[Len(l) + 1] = e /\ DOMAIN m = 1 .. Len(m)
      /\ Len(l) \in Nat /\ DOMAIN l = 1 .. Len(l) /\ \A j \in DOMAIN l : m[j] = l[j]
  BY AppendExtends DEF Extends
<1> HIDE DEF m
<1>2. \A k \in DOMAIN m : k \in DOMAIN l \/ k = Len(l) + 1
  BY <1>1
<1>3. Asked(m) = Asked(l) \cup {Len(l) + 1}
  BY <1>1, <1>2 DEF Asked
<1>4. \A c : ResultsOf(m, Len(l) + 1, c) = {}
  BY <1>1 DEF ResultsOf
<1>5. ASSUME NEW i \in Asked(l), NEW c PROVE ResultsOf(m, i, c) = ResultsOf(l, i, c)
  <2>1. i \in DOMAIN l
    BY DEF Asked
  <2>2. ASSUME NEW j PROVE j \in ResultsOf(m, i, c) <=> j \in ResultsOf(l, i, c)
    <3>1. CASE j \in DOMAIN l
      <4>1. j \in DOMAIN m /\ m[j] = l[j] /\ \A k \in i + 1 .. j : k \in DOMAIN l /\ m[k] = l[k]
        BY <1>1, <2>1, <3>1
      <4> QED  BY <3>1, <4>1 DEF ResultsOf
    <3>2. CASE j = Len(l) + 1
      BY <1>1, <3>2 DEF ResultsOf
    <3>3. CASE j \notin DOMAIN l /\ j # Len(l) + 1
      BY <1>2, <3>3 DEF ResultsOf
    <3> QED  BY <3>1, <3>2, <3>3
  <2> QED  BY <2>2
<1> QED  BY <1>3, <1>4, <1>5 DEF m

(* Results in order stay so when those added are of the last message, one  *)
(* a call, for calls that have none and behind those of the calls before.  *)
LEMMA OrderedExtend ==
  ASSUME NEW l \in Seq(Events), NEW m, Extends(m, l), Ordered(l),
         \A k \in DOMAIN m : k > Len(l) => m[k].ty # "assistant/message",
         NEW at, at = LastAt(l, "assistant/message"),
         NEW New, New = {j \in DOMAIN m : j > Len(l) /\ m[j].ty = "tool/result"},
         at # 0 =>
           /\ \A j \in New : ResultsOf(l, at, m[j].n) = {}
           /\ \A j, k \in New : m[j].n = m[k].n => j = k
           /\ \A j \in New, c \in 1 .. l[at].n :
                c < m[j].n => \E k \in ResultsOf(m, at, c) : k < j
  PROVE  Ordered(m)
<1>1. Asked(m) = Asked(l) /\ \A i \in Asked(l) : m[i] = l[i]
  BY AskedExtend
<1> SUFFICES ASSUME NEW i \in Asked(l), NEW c \in 1 .. l[i].n, NEW d \in 1 .. l[i].n
             PROVE  /\ \A j, k \in ResultsOf(m, i, d) : j = k
                    /\ c < d => \A j \in ResultsOf(m, i, d) :
                         \E k \in ResultsOf(m, i, c) : k < j
  BY <1>1 DEF Ordered
<1>2. /\ \A j, k \in ResultsOf(l, i, d) : j = k
      /\ c < d => \A j \in ResultsOf(l, i, d) : \E k \in ResultsOf(l, i, c) : k < j
  BY DEF Ordered
<1> DEFINE N(x) == {j \in DOMAIN m : j > Len(l) /\ m[j].ty = "tool/result" /\ m[j].n = x}
<1>3. ResultsOf(m, i, d) = ResultsOf(l, i, d) \cup (IF i = at THEN N(d) ELSE {})
  BY ResultsExtend
<1>4. ResultsOf(m, i, c) = ResultsOf(l, i, c) \cup (IF i = at THEN N(c) ELSE {})
  BY ResultsExtend
<1>5. CASE i # at
  <2> HIDE DEF N
  <2> QED  BY <1>2, <1>3, <1>4, <1>5
<1>6. CASE i = at
  <2>1. at # 0
    BY <1>6 DEF Asked
  <2>2. \A j \in N(d) : j \in New /\ m[j].n = d
    OBVIOUS
  <2> HIDE DEF N
  <2>3. \A j, k \in ResultsOf(m, i, d) : j = k
    <3>1. CASE N(d) = {}
      BY <1>2, <1>3, <3>1
    <3>2. CASE N(d) # {}
      <4>1. PICK x \in N(d) : TRUE
        BY <3>2
      <4>2. ResultsOf(l, at, d) = {}
        BY <2>1, <2>2, <4>1
      <4>3. ResultsOf(m, i, d) = N(d)
        BY <1>3, <1>6, <4>2
      <4>4. \A j, k \in N(d) : j \in New /\ k \in New /\ m[j].n = m[k].n
        BY <2>2
      <4> QED  BY <2>1, <4>3, <4>4
    <3> QED  BY <3>1, <3>2
  <2>4. ASSUME c < d, NEW j \in ResultsOf(m, i, d)
        PROVE  \E k \in ResultsOf(m, i, c) : k < j
    <3>1. CASE j \in ResultsOf(l, i, d)
      BY <1>2, <1>4, <2>4, <3>1
    <3>2. CASE j \in N(d)
      BY <1>6, <2>1, <2>2, <2>4, <3>2
    <3> QED  BY <1>3, <1>6, <2>4, <3>1, <3>2
  <2> QED  BY <2>3, <2>4
<1> QED  BY <1>5, <1>6

(* An event that is no result changes nothing of this. *)
LEMMA OrderedAppend ==
  ASSUME NEW l \in Seq(Events), NEW e \in Events, Ordered(l), e.ty # "tool/result"
  PROVE  Ordered(Append(l, e))
<1> DEFINE m == Append(l, e)
<1>1. /\ Extends(m, l) /\ Len(m) = Len(l) + 1 /\ m[Len(l) + 1] = e /\ DOMAIN m = 1 .. Len(m)
      /\ Len(l) \in Nat /\ \A j \in DOMAIN l : m[j] = l[j]
  BY AppendExtends DEF Extends
<1>2. CASE e.ty = "assistant/message"
  <2>1. /\ Asked(m) = Asked(l) \cup {Len(l) + 1}
        /\ \A c : ResultsOf(m, Len(l) + 1, c) = {}
        /\ \A i \in Asked(l) : \A c : ResultsOf(m, i, c) = ResultsOf(l, i, c)
    BY <1>2, ResultsNewMessage
  <2> HIDE DEF m
  <2>2. \A i \in Asked(l) : m[i] = l[i]
    BY <1>1 DEF Asked
  <2>3. Ordered(m)
    BY <2>1, <2>2 DEF Ordered
  <2> QED  BY <2>3 DEF m
<1>3. CASE e.ty # "assistant/message"
  <2> HIDE DEF m
  <2> DEFINE New == {j \in DOMAIN m : j > Len(l) /\ m[j].ty = "tool/result"}
             at == LastAt(l, "assistant/message")
  <2>1. \A k \in DOMAIN m : k > Len(l) => k = Len(l) + 1
    BY <1>1
  <2>2. New = {}
    BY <1>1, <2>1
  <2>3. \A k \in DOMAIN m : k > Len(l) => m[k].ty # "assistant/message"
    BY <1>1, <1>3, <2>1
  <2> HIDE DEF at
  <2>4. at = LastAt(l, "assistant/message") /\ New = {j \in DOMAIN m : j > Len(l) /\ m[j].ty = "tool/result"}
    BY DEF at
  <2> HIDE DEF New
  <2>5. Ordered(m)
    BY <1>1, <2>2, <2>3, <2>4, OrderedExtend
  <2> QED  BY <2>5 DEF m
<1> QED  BY <1>2, <1>3

(* A journal's results are in order when those of a longer one are. *)
LEMMA OrderedPrefix ==
  ASSUME NEW l \in Seq(Events), NEW m, Extends(m, l), Ordered(m),
         \A k \in DOMAIN m : k > Len(l) => m[k].ty # "assistant/message"
  PROVE  Ordered(l)
<1>1. Asked(m) = Asked(l) /\ \A i \in Asked(l) : m[i] = l[i]
  BY AskedExtend
<1>2. /\ DOMAIN l = 1 .. Len(l) /\ DOMAIN m = 1 .. Len(m) /\ Len(l) \in Nat /\ Len(m) \in Nat
  BY DEF Extends
<1> SUFFICES ASSUME NEW i \in Asked(l), NEW c \in 1 .. l[i].n, NEW d \in 1 .. l[i].n
             PROVE  /\ \A j, k \in ResultsOf(l, i, d) : j = k
                    /\ c < d => \A j \in ResultsOf(l, i, d) :
                         \E k \in ResultsOf(l, i, c) : k < j
  BY DEF Ordered
<1>3. /\ \A j, k \in ResultsOf(m, i, d) : j = k
      /\ c < d => \A j \in ResultsOf(m, i, d) : \E k \in ResultsOf(m, i, c) : k < j
  BY <1>1 DEF Ordered
<1> DEFINE N(x) == IF i = LastAt(l, "assistant/message")
                   THEN {j \in DOMAIN m : j > Len(l) /\ m[j].ty = "tool/result" /\ m[j].n = x}
                   ELSE {}
<1>4. ResultsOf(m, i, d) = ResultsOf(l, i, d) \cup N(d)
  BY ResultsExtend
<1>5. ResultsOf(m, i, c) = ResultsOf(l, i, c) \cup N(c)
  BY ResultsExtend
<1>6. \A j \in N(c) : j \in Nat /\ j > Len(l)
  BY <1>2
<1>7. \A j \in ResultsOf(l, i, d) : j \in Nat /\ j <= Len(l)
  BY <1>2 DEF ResultsOf
<1> HIDE DEF N
<1>8. ASSUME c < d, NEW j \in ResultsOf(l, i, d)
      PROVE  \E k \in ResultsOf(l, i, c) : k < j
  <2>1. PICK k \in ResultsOf(m, i, c) : k < j
    BY <1>3, <1>4, <1>8
  <2>2. k \notin N(c)
    BY <1>2, <1>6, <1>7, <2>1
  <2> QED  BY <1>5, <2>1, <2>2
<1> QED  BY <1>3, <1>4, <1>8

(* Where an event stands that was the last of its type and still is. *)
LEMMA BehindAppend ==
  ASSUME NEW l \in Seq(Events), NEW e \in Events, BehindItsMessage(l),
         e.ty = "assistant/message" =>
           LastAt(l, "assistant/message") <= LastAt(l, "step/start"),
         e.ty = "tool/result" =>
           LastAt(l, "assistant/message") > LastAt(l, "step/start")
  PROVE  BehindItsMessage(Append(l, e))
<1> DEFINE m == Append(l, e)
           A == LastAt(l, "assistant/message")
           S == LastAt(l, "step/start")
<1>1. /\ Len(m) = Len(l) + 1 /\ m[Len(l) + 1] = e /\ Len(l) \in Nat
      /\ \A j \in DOMAIN m : j \in DOMAIN l \/ j = Len(l) + 1
      /\ DOMAIN l = 1 .. Len(l) /\ \A j \in DOMAIN l : m[j] = l[j]
  BY AppendExtends DEF Extends
<1>2. /\ LastAt(m, "assistant/message") = IF e.ty = "assistant/message" THEN Len(l) + 1 ELSE A
      /\ LastAt(m, "step/start") = IF e.ty = "step/start" THEN Len(l) + 1 ELSE S
      /\ A \in Nat /\ S \in Nat /\ A <= Len(l) /\ S <= Len(l)
  BY LastAtAppend, LastAtIsLast
<1>3. \A j \in DOMAIN l : l[j].ty = "tool/result" /\ j > S => A > S /\ j > A
  BY DEF BehindItsMessage, Positions
<1> HIDE DEF m, A, S
<1> SUFFICES ASSUME NEW j \in DOMAIN m, m[j].ty = "tool/result",
                    j > LastAt(m, "step/start")
             PROVE  /\ LastAt(m, "assistant/message") > LastAt(m, "step/start")
                    /\ j > LastAt(m, "assistant/message")
  BY DEF BehindItsMessage, Positions, m
<1>4. CASE j \in DOMAIN l
  <2>1. e.ty # "step/start" /\ j > S /\ l[j].ty = "tool/result"
    BY <1>1, <1>2, <1>4
  <2>2. A > S /\ j > A
    BY <1>3, <1>4, <2>1
  <2>3. e.ty # "assistant/message"
    BY <1>2, <2>2 DEF A, S
  <2> QED  BY <1>2, <2>1, <2>2, <2>3
<1>5. CASE j = Len(l) + 1
  <2>1. e.ty = "tool/result"
    BY <1>1, <1>5
  <2>2. A > S
    BY <2>1 DEF A, S
  <2> QED  BY <1>1, <1>2, <1>5, <2>1, <2>2
<1> QED  BY <1>1, <1>4, <1>5

LEMMA BehindConcat ==
  ASSUME NEW l \in Seq(Events), NEW C \in Seq(Events),
         \A k \in DOMAIN C : C[k].ty \notin {"assistant/message", "step/start"},
         (\E k \in DOMAIN C : C[k].ty = "tool/result") =>
           LastAt(l, "assistant/message") > LastAt(l, "step/start")
  PROVE  BehindItsMessage(l \o C) <=> BehindItsMessage(l)
<1> DEFINE m == l \o C
           A == LastAt(l, "assistant/message")
           S == LastAt(l, "step/start")
<1>1. /\ \A k \in DOMAIN C : m[Len(l) + k] = C[k]
      /\ \A i \in DOMAIN m : i \in DOMAIN l \/ \E k \in DOMAIN C : i = Len(l) + k
      /\ DOMAIN l = 1 .. Len(l) /\ DOMAIN C = 1 .. Len(C) /\ Len(l) \in Nat
      /\ \A j \in DOMAIN l : j \in DOMAIN m /\ m[j] = l[j]
  BY ConcatExtends DEF Extends
<1>2. LastAt(m, "assistant/message") = A /\ LastAt(m, "step/start") = S
  BY LastAtConcat
<1>3. A \in Nat /\ S \in Nat /\ A <= Len(l) /\ S <= Len(l)
  BY LastAtIsLast
<1>4. (\E k \in DOMAIN C : C[k].ty = "tool/result") => A > S
  OBVIOUS
<1> HIDE DEF m, A, S
<1>5. ASSUME NEW j \in DOMAIN m, j \notin DOMAIN l, m[j].ty = "tool/result"
      PROVE  A > S /\ j > A
  <2>1. PICK k \in DOMAIN C : j = Len(l) + k
    BY <1>1, <1>5
  <2> QED  BY <1>1, <1>3, <1>4, <1>5, <2>1
<1> QED  BY <1>1, <1>2, <1>5 DEF BehindItsMessage, Positions, m, A, S

LEMMA NoClosers ==
  ASSUME NEW l \in Seq(Events)
  PROVE  l \o <<>> = l
OBVIOUS

(* Forgetting what was yet to append leaves the results in place. *)
LEMMA InPlacePrefix ==
  ASSUME NEW l \in Seq(Events), NEW C \in Seq(Events), InPlace(l \o C),
         \A k \in DOMAIN C : C[k].ty \in Closing
  PROVE  InPlace(l)
<1> DEFINE m == l \o C
<1>1. /\ Extends(m, l) /\ \A k \in DOMAIN C : m[Len(l) + k] = C[k]
      /\ \A i \in DOMAIN m : i \in DOMAIN l \/ \E k \in DOMAIN C : i = Len(l) + k
      /\ DOMAIN l = 1 .. Len(l) /\ DOMAIN C = 1 .. Len(C) /\ Len(l) \in Nat
  BY ConcatExtends
<1>2. \A k \in DOMAIN C : C[k].ty \notin {"assistant/message", "step/start"}
  BY DEF Closing
<1> HIDE DEF m
<1>3. \A k \in DOMAIN m : k > Len(l) => m[k].ty # "assistant/message"
  BY <1>1, <1>2
<1>4. Ordered(l)
  BY <1>1, <1>3, OrderedPrefix DEF InPlace, m
<1> DEFINE A == LastAt(l, "assistant/message")
           S == LastAt(l, "step/start")
<1>5. LastAt(m, "assistant/message") = A /\ LastAt(m, "step/start") = S
  BY <1>2, LastAtConcat DEF m
<1>6. BehindItsMessage(l)
  <2> HIDE DEF A, S
  <2>1. ASSUME NEW j \in DOMAIN l, l[j].ty = "tool/result", j > S PROVE A > S /\ j > A
    <3>1. j \in DOMAIN m /\ m[j].ty = "tool/result"
      BY <1>1, <2>1 DEF Extends
    <3> QED  BY <1>5, <2>1, <3>1 DEF InPlace, BehindItsMessage, Positions, m
  <2> QED  BY <2>1 DEF BehindItsMessage, Positions, A, S
<1> QED  BY <1>4, <1>6 DEF InPlace

(* Repair puts the results that are missing where they belong. *)
LEMMA InPlaceClosed ==
  ASSUME NEW l \in Seq(Events), InPlace(l)
  PROVE  InPlace(l \o interrupted_turn_closers(l))
<1> DEFINE C == interrupted_turn_closers(l)
           m == l \o C
           at == LastAt(l, "assistant/message")
           S == LastAt(l, "step/start")
           New == {j \in DOMAIN m : j > Len(l) /\ m[j].ty = "tool/result"}
<1>1. CASE ~TurnOpen(l)
  BY <1>1, ClosersEmpty, NoClosers
<1>2. CASE TurnOpen(l)
  <2>1. Closes(l, C)
    BY <1>2, ClosersShape
  <2> HIDE DEF C
  <2>2. C \in Seq(Events)
    BY <2>1 DEF Closes
  <2>3. /\ Extends(m, l) /\ \A k \in DOMAIN C : m[Len(l) + k] = C[k]
        /\ \A i \in DOMAIN m : i \in DOMAIN l \/ \E k \in DOMAIN C : i = Len(l) + k
        /\ DOMAIN l = 1 .. Len(l) /\ DOMAIN C = 1 .. Len(C) /\ Len(l) \in Nat
        /\ Len(m) = Len(l) + Len(C) /\ Len(C) \in Nat
    BY <2>2, ConcatExtends
  <2>4. /\ at \in Nat /\ S \in Nat /\ at <= Len(l) /\ S <= Len(l)
        /\ (at # 0 => at \in Positions(l, "assistant/message"))
        /\ \A i \in Positions(l, "assistant/message") : i <= at
    BY LastAtIsLast
  <2>5. \A k \in DOMAIN C : C[k].ty \notin {"assistant/message", "step/start"}
    BY <2>1 DEF Closes, Closing
  <2>6. \A k \in DOMAIN C : C[k].ty = "tool/result" => C[k].n \in Opens(l)
    BY <2>1 DEF Closes
  <2>o. \A c \in Opens(l) : /\ at > S /\ c \in 1 .. l[at].n
                            /\ LastOf(l, "tool/result", c) <= S
    BY <2>4 DEF Opens, AskedBy
  <2>7. /\ \A j, k \in DOMAIN C :
             j < k /\ C[j].ty = "tool/result" /\ C[k].ty = "tool/result" => C[j].n < C[k].n
        /\ StepOpen(l) => \A c \in Opens(l) :
             \E k \in DOMAIN C : C[k].ty = "tool/result" /\ C[k].n = c
        /\ \A k \in DOMAIN C : C[k].ty = "tool/result" => StepOpen(l)
    BY <2>1 DEF Closes
  <2> HIDE DEF m, at, S
  <2>8. \A j \in New : \E k \in DOMAIN C : j = Len(l) + k /\ m[j] = C[k] /\ C[k].ty = "tool/result"
    BY <2>3
  <2>9. \A k \in DOMAIN C : C[k].ty = "tool/result" => Len(l) + k \in New
    BY <2>3 DEF Extends
  <2>10. \A k \in DOMAIN m : k > Len(l) => m[k].ty # "assistant/message"
    BY <2>3, <2>5
  <2>11. ASSUME NEW j \in New PROVE ResultsOf(l, at, m[j].n) = {}
    <3>1. m[j].n \in Opens(l)
      BY <2>6, <2>8
    <3>2. at > S /\ LastOf(l, "tool/result", m[j].n) <= S
      BY <2>o, <3>1
    <3>3. \A x \in Positions(l, "tool/result") : l[x].n = m[j].n => x <= S
      <4>1. /\ LastOf(l, "tool/result", m[j].n) \in Nat
            /\ \A x \in Positions(l, "tool/result") :
                 l[x].n = m[j].n => x <= LastOf(l, "tool/result", m[j].n)
        BY LastOfIsLast
      <4>2. \A x \in Positions(l, "tool/result") : x \in Nat
        BY <2>3 DEF Positions
      <4> QED  BY <2>4, <3>2, <4>1, <4>2
    <3>4. \A x \in ResultsOf(l, at, m[j].n) :
            x \in Positions(l, "tool/result") /\ l[x].n = m[j].n /\ x > at /\ x \in Nat
      BY <2>3 DEF ResultsOf, Positions
    <3> QED  BY <2>4, <3>2, <3>3, <3>4
  <2>12. ASSUME NEW j \in New, NEW k \in New, m[j].n = m[k].n PROVE j = k
    <3>1. PICK a \in DOMAIN C : j = Len(l) + a /\ m[j] = C[a] /\ C[a].ty = "tool/result"
      BY <2>8
    <3>2. PICK b \in DOMAIN C : k = Len(l) + b /\ m[k] = C[b] /\ C[b].ty = "tool/result"
      BY <2>8
    <3>3. a \in Nat /\ b \in Nat
      BY <2>3
    <3>4. C[a].n \in Nat /\ C[b].n \in Nat
      <4>1. a \in 1 .. Len(C) /\ b \in 1 .. Len(C)
        BY <2>3
      <4> QED  BY <2>2, <4>1, EventAt
    <3>5. ~(a < b) /\ ~(b < a)
      BY <2>7, <2>12, <3>1, <3>2, <3>4
    <3> QED  BY <3>1, <3>2, <3>3, <3>5
  <2>13. ASSUME NEW j \in New, NEW c \in 1 .. l[at].n, c < m[j].n
         PROVE  \E k \in ResultsOf(m, at, c) : k < j
    <3>1. PICK b \in DOMAIN C : j = Len(l) + b /\ m[j] = C[b] /\ C[b].ty = "tool/result"
      BY <2>8
    <3>2. StepOpen(l) /\ at > S /\ at \in Asked(l)
      <4>1. StepOpen(l) /\ at > S
        BY <2>6, <2>7, <2>o, <3>1
      <4> QED  BY <2>4, <4>1 DEF Asked, Positions
    <3> DEFINE N == {x \in DOMAIN m : x > Len(l) /\ m[x].ty = "tool/result" /\ m[x].n = c}
    <3>3. ResultsOf(m, at, c) = ResultsOf(l, at, c) \cup N
      BY <2>3, <2>10, <3>2, ResultsExtend DEF at
    <3>4. CASE LastOf(l, "tool/result", c) <= S
      <4>1. c \in Opens(l)
        <5>1. AskedBy(l, S) = l[at].n
          BY <3>2 DEF AskedBy, at
        <5> QED  BY <3>4, <5>1 DEF Opens, S
      <4>2. PICK a \in DOMAIN C : C[a].ty = "tool/result" /\ C[a].n = c
        BY <2>7, <3>2, <4>1
      <4>3. Len(l) + a \in N
        <5>1. Len(l) + a \in New /\ m[Len(l) + a] = C[a]
          BY <2>3, <2>9, <4>2
        <5> QED  BY <4>2, <5>1
      <4>4. a < b
        <5>1. a \in 1 .. Len(C) /\ b \in 1 .. Len(C)
          BY <2>3
        <5>2. C[a].n \in Nat /\ C[b].n \in Nat
          BY <2>2, <5>1, EventAt
        <5>3. C[a].n < C[b].n
          BY <2>13, <3>1, <4>2
        <5> QED  BY <2>7, <3>1, <4>2, <5>1, <5>2, <5>3
      <4>5. Len(l) + a < j
        BY <2>3, <3>1, <4>4
      <4> QED  BY <3>3, <4>3, <4>5
    <3>5. CASE ~(LastOf(l, "tool/result", c) <= S)
      <4> DEFINE x == LastOf(l, "tool/result", c)
      <4>1. x \in Nat /\ x <= Len(l) /\ (x # 0 => x \in Positions(l, "tool/result") /\ l[x].n = c)
        BY LastOfIsLast
      <4>2. x > S
        BY <2>4, <3>5, <4>1
      <4> HIDE DEF x
      <4>3. x \in Positions(l, "tool/result") /\ l[x].n = c
        BY <2>4, <4>1, <4>2
      <4>4. x > at
        BY <4>2, <4>3 DEF InPlace, BehindItsMessage, at, S
      <4>5. \A k \in at + 1 .. x : k \in DOMAIN l /\ l[k].ty # "assistant/message"
        <5> TAKE k \in at + 1 .. x
        <5>1. k \in DOMAIN l /\ k > at
          BY <2>3, <2>4, <4>1
        <5> QED  BY <2>4, <5>1 DEF Positions
      <4>6. x \in ResultsOf(l, at, c)
        BY <4>3, <4>4, <4>5 DEF ResultsOf, Positions
      <4>7. x < j
        BY <2>3, <3>1, <4>1
      <4> QED  BY <3>3, <4>6, <4>7
    <3> QED  BY <3>4, <3>5
  <2> HIDE DEF New
  <2>14. Ordered(m)
    <3>1. at = LastAt(l, "assistant/message") /\ New = {j \in DOMAIN m : j > Len(l) /\ m[j].ty = "tool/result"}
      BY DEF at, New
    <3> QED  BY <2>3, <2>10, <2>11, <2>12, <2>13, <3>1, OrderedExtend DEF InPlace
  <2>15. BehindItsMessage(m)
    <3>1. (\E k \in DOMAIN C : C[k].ty = "tool/result") => at > S
      BY <2>6, <2>o
    <3> QED  BY <2>2, <2>5, <3>1, BehindConcat DEF InPlace, m, at, S
  <2> QED  BY <2>14, <2>15 DEF InPlace, m, C
<1> QED  BY <1>1, <1>2

(* The journal went on, and neither a message nor a step nor a result has  *)
(* been added.                                                             *)
SameResults ==
  /\ LastAt(log', "assistant/message") = LastAt(log, "assistant/message")
  /\ LastAt(log', "step/start") = LastAt(log, "step/start")
  /\ \A i \in Asked(log) : /\ log'[i] = log[i]
                           /\ \A c : ResultsOf(log', i, c) = ResultsOf(log, i, c)

LEMMA OtherEvent ==
  ASSUME FlowTypeOK, NEW e \in Events, Write(e), InPlace(log),
         e.ty \notin {"assistant/message", "step/start", "tool/result"}
  PROVE  SameResults /\ InPlace(log')
<1>1. log \in Seq(Events) /\ log' = Append(log, e)
  BY DEF FlowTypeOK, Write
<1>2. Ordered(log') /\ BehindItsMessage(log')
  BY <1>1, OrderedAppend, BehindAppend DEF InPlace
<1>3. /\ LastAt(log', "assistant/message") = LastAt(log, "assistant/message")
      /\ LastAt(log', "step/start") = LastAt(log, "step/start")
  BY <1>1, LastAtAppend
<1>4. \A i \in Asked(log) : log'[i] = log[i]
  <2>1. \A i \in DOMAIN log : Append(log, e)[i] = log[i]
    BY <1>1, AppendExtends DEF Extends
  <2> QED  BY <1>1, <2>1 DEF Asked
<1>5. \A i \in Asked(log) : \A c : ResultsOf(log', i, c) = ResultsOf(log, i, c)
  <2> TAKE i \in Asked(log)
  <2> TAKE c
  <2> DEFINE added == IF /\ i = LastAt(log, "assistant/message")
                         /\ e.ty = "tool/result" /\ e.n = c THEN {Len(log) + 1} ELSE {}
  <2>1. ResultsOf(Append(log, e), i, c) = ResultsOf(log, i, c) \cup added
    BY <1>1, ResultsAppend
  <2>2. added = {}
    OBVIOUS
  <2> HIDE DEF added
  <2> QED  BY <1>1, <2>1, <2>2
<1> QED  BY <1>2, <1>3, <1>4, <1>5 DEF InPlace, SameResults

LEMMA LastAsked ==
  ASSUME FlowTypeOK, PoolInStep, pc = "tools"
  PROVE  LastAt(log, "assistant/message") \in Asked(log)
<1> DEFINE at == LastAt(log, "assistant/message")
<1>1. log \in Seq(Events)
  BY DEF FlowTypeOK
<1>2. /\ at \in Nat /\ (at # 0 => at \in Positions(log, "assistant/message"))
      /\ LastAt(log, "step/start") \in Nat /\ at > LastAt(log, "step/start")
  BY <1>1, LastAtIsLast DEF PoolInStep
<1> HIDE DEF at
<1>3. at \in Asked(log)
  BY <1>2 DEF Asked, Positions
<1> QED  BY <1>3 DEF at

(* A call of the pool goes on, and none gets a result. *)
LEMMA PoolKept ==
  ASSUME FlowTypeOK, PoolInStep, pc = "tools", SameResults,
         NEW i \in DOMAIN calls, NEW to, Move(i, to), failure => failure',
         to \in Unsettled => status[i] \in Unsettled,
         to = "committed" => FALSE,
         to = "done" /\ ~failure' => status[i] = "committed"
  PROVE  PoolInStep'
<1> DEFINE at == LastAt(log, "assistant/message")
<1>1. /\ calls' = calls
      /\ \A c \in DOMAIN calls : status'[c] = IF c = i THEN to ELSE status[c]
  BY DEF Move, FlowTypeOK
<1>2. at \in Asked(log)
  BY LastAsked
<1>3. /\ LastAt(log', "assistant/message") = at /\ at > LastAt(log', "step/start")
      /\ log'[at].n = Len(calls)
      /\ \A c : ResultsOf(log', at, c) = ResultsOf(log, at, c)
  BY <1>2 DEF SameResults, PoolInStep
<1>4. \A c \in DOMAIN calls :
        /\ status[c] \in Unsettled => ResultsOf(log, at, c) = {}
        /\ status[c] = "committed" \/ (status[c] = "done" /\ ~failure)
             => ResultsOf(log, at, c) # {}
  BY DEF PoolInStep
<1> HIDE DEF at
<1>5. ASSUME NEW c \in DOMAIN calls
      PROVE  /\ status'[c] \in Unsettled => ResultsOf(log', at, c) = {}
             /\ status'[c] = "committed" \/ (status'[c] = "done" /\ ~failure')
                  => ResultsOf(log', at, c) # {}
  <2>1. CASE c = i
    BY <1>1, <1>3, <1>4, <2>1
  <2>2. CASE c # i
    BY <1>1, <1>3, <1>4, <2>2
  <2> QED  BY <2>1, <2>2
<1> QED  BY <1>1, <1>3, <1>5 DEF PoolInStep

LEMMA NothingWritten ==
  ASSUME UNCHANGED log
  PROVE  SameResults
BY DEF SameResults

LEMMA ResultsInit == Init => ResultsInv
<1> SUFFICES ASSUME Init PROVE ResultsInv
  OBVIOUS
<1>1. log = <<>> /\ closers = <<>> /\ pc = "down"
  BY DEF Init
<1>2. log \o closers = <<>>
  BY <1>1
<1>3. InPlace(<<>>)
  <2>1. Asked(<<>>) = {} /\ Positions(<<>>, "tool/result") = {}
    BY DEF Asked, Positions
  <2> QED  BY <2>1 DEF InPlace, Ordered, BehindItsMessage
<1> QED  BY <1>1, <1>2, <1>3 DEF ResultsInv, NotAnswered, PoolInStep

LEMMA ResultsNext == FlowTypeOK /\ FlowTypeOK' /\ ResultsInv /\ [Next]_vars => ResultsInv'
<1> SUFFICES ASSUME FlowTypeOK, FlowTypeOK', ResultsInv, [Next]_vars PROVE ResultsInv'
  OBVIOUS
<1>t. /\ log \in Seq(Events) /\ closers \in Seq(Events) /\ log' \in Seq(Events)
      /\ closers' \in Seq(Events) /\ \A k \in DOMAIN closers : closers[k].ty \in Closing
      /\ DOMAIN calls = 1 .. Len(calls) /\ Len(calls) \in Nat
  BY DEF FlowTypeOK
<1>s. InPlace(log)
  BY <1>t, InPlacePrefix DEF ResultsInv
<1>e. ASSUME closers' = <<>>, InPlace(log') PROVE InPlace(log' \o closers')
  BY <1>t, <1>e, NoClosers
<1>c. /\ pc # "repair" => closers = <<>>
      /\ pc' # "repair" => closers' = <<>>
  BY DEF FlowTypeOK
<1>n. ASSUME NEW ty \in Types \ {"assistant/message", "step/start", "tool/result"}, NEW n \in Nat,
             Write(Event(ty, n))
      PROVE  SameResults /\ InPlace(log')
  BY <1>s, <1>n, EventIsEvent, OtherEvent
<1>1. CASE UNCHANGED vars
  BY <1>1 DEF ResultsInv, InPlace, NotAnswered, PoolInStep, vars
<1>2. CASE Reopen
  <2>1. log' = log /\ closers' = interrupted_turn_closers(log) /\ pc' = "repair"
    BY <1>2 DEF Reopen
  <2>2. InPlace(log' \o closers')
    BY <1>t, <1>s, <2>1, InPlaceClosed
  <2> QED  BY <2>1, <2>2 DEF ResultsInv, NotAnswered, PoolInStep
<1>3. CASE Repair
  <2>1. /\ log' = Append(log, Head(closers)) /\ closers' = Tail(closers) /\ pc' = "repair"
        /\ closers # <<>>
    BY <1>3 DEF Repair, Write
  <2>2. log' \o closers' = log \o closers
    BY <1>t, <2>1, HeadTail
  <2>3. InPlace(log' \o closers')
    BY <2>2 DEF ResultsInv
  <2> QED  BY <2>1, <2>3 DEF ResultsInv, NotAnswered, PoolInStep
<1>4. CASE /\ UNCHANGED log /\ pc' \notin {"repair", "tools", "messages"}
           /\ pc' = "request" => pc \in {"messages", "request"}
  <2>1. InPlace(log' \o closers')
    BY <1>4, <1>s, <1>c, <1>e
  <2>2. NotAnswered'
    BY <1>4 DEF ResultsInv, NotAnswered
  <2> QED  BY <1>4, <2>1, <2>2 DEF ResultsInv, PoolInStep
<1>5. CASE UNCHANGED log /\ UNCHANGED <<pc, calls, status, failure, closers>>
  BY <1>5 DEF ResultsInv, NotAnswered, PoolInStep
<1>6. ASSUME NEW ty \in Types \ {"assistant/message", "step/start", "tool/result"}, NEW n \in Nat,
             Write(Event(ty, n)), pc' \notin {"repair", "tools", "request"},
             pc' = "messages" => pc = "messages"
      PROVE  ResultsInv'
  <2>1. SameResults /\ InPlace(log')
    BY <1>6, <1>n
  <2>2. InPlace(log' \o closers')
    BY <1>6, <1>c, <1>e, <2>1
  <2>3. NotAnswered'
    BY <1>6, <2>1 DEF ResultsInv, NotAnswered, SameResults
  <2> QED  BY <1>6, <2>2, <2>3 DEF ResultsInv, PoolInStep
<1>7. CASE RunTurn
  <2>1. turns + 1 \in Nat
    BY DEF FlowTypeOK
  <2> QED  BY <1>6, <1>7, <2>1 DEF RunTurn, Types
<1>8. CASE Claim
  <2>1. CASE inbox = <<>>
    BY <1>4, <1>8, <2>1 DEF Claim
  <2>2. CASE inbox # <<>>
    <3>1. Len(inbox) \in Nat
      BY DEF FlowTypeOK
    <3> QED  BY <1>6, <1>8, <2>2, <3>1 DEF Claim, Types
  <2> QED  BY <2>1, <2>2
<1>9. CASE UserMessage
  <2>1. Head(batch) \in Nat
    BY <1>9 DEF FlowTypeOK, UserMessage
  <2> QED  BY <1>6, <1>9, <2>1 DEF UserMessage, Types
<1>10. CASE StepEnd \/ CloseStep
  <2>1. steps \in Nat
    BY DEF FlowTypeOK
  <2> QED  BY <1>6, <1>10, <2>1 DEF StepEnd, CloseStep, Types
<1>11. CASE CloseTurn
  <2> DEFINE e == TurnEnd(turns, reason)
  <2>1. e \in Events /\ e.ty = "turn/end" /\ Write(e) /\ pc' = "idle"
    BY <1>11, TurnEndIsEvent DEF CloseTurn, FlowTypeOK
  <2> HIDE DEF e
  <2>2. InPlace(log')
    BY <1>s, <2>1, OtherEvent
  <2>3. InPlace(log' \o closers')
    BY <1>c, <1>e, <2>1, <2>2
  <2> QED  BY <2>1, <2>3 DEF ResultsInv, NotAnswered, PoolInStep
<1>12. CASE StepStart
  <2> DEFINE e == Event("step/start", steps)
  <2>1. log' = Append(log, e) /\ pc' = "messages"
    BY <1>12 DEF StepStart, Write
  <2>2. e \in Events /\ e.ty = "step/start"
    <3>1. steps \in Nat
      BY DEF FlowTypeOK
    <3> QED  BY <3>1, EventIsEvent DEF Types
  <2> HIDE DEF e
  <2>3. InPlace(log')
    BY <1>t, <1>s, <2>1, <2>2, OrderedAppend, BehindAppend DEF InPlace
  <2>4. LastAt(log', "assistant/message") <= LastAt(log', "step/start")
    <3>1. /\ LastAt(log', "assistant/message") = LastAt(log, "assistant/message")
          /\ LastAt(log', "step/start") = Len(log) + 1
      BY <1>t, <2>1, <2>2, LastAtAppend
    <3>2. /\ LastAt(log, "assistant/message") \in Nat /\ LastAt(log, "assistant/message") <= Len(log)
          /\ Len(log) \in Nat
      BY <1>t, LastAtIsLast
    <3> QED  BY <3>1, <3>2
  <2>5. InPlace(log' \o closers')
    BY <1>c, <1>e, <2>1, <2>3
  <2> QED  BY <2>1, <2>4, <2>5 DEF ResultsInv, NotAnswered, PoolInStep
<1>13. ASSUME NEW asked \in Answers, NEW truncated \in BOOLEAN, Respond(asked, truncated)
       PROVE  ResultsInv'
  <2> DEFINE kept == IF truncated THEN <<>> ELSE asked
             e == Event("assistant/message", Len(kept))
  <2>1. /\ pc = "request" /\ log' = Append(log, e) /\ calls' = kept /\ pc' = "tools"
        /\ status' = [i \in DOMAIN kept |-> "asked"]
    BY <1>13 DEF Respond, Write
  <2>2. e \in Events /\ e.ty = "assistant/message" /\ e.n = Len(calls')
    <3>1. Len(kept) \in Nat
      <4>1. kept \in Seq(Kinds)
        OBVIOUS
      <4> HIDE DEF kept
      <4> QED  BY <4>1
    <3> QED  BY <2>1, <3>1, EventIsEvent DEF Types
  <2> HIDE DEF e, kept
  <2>3. LastAt(log, "assistant/message") <= LastAt(log, "step/start")
    BY <2>1 DEF ResultsInv, NotAnswered
  <2>4. InPlace(log')
    BY <1>t, <1>s, <2>1, <2>2, <2>3, OrderedAppend, BehindAppend DEF InPlace
  <2>5. /\ LastAt(log', "assistant/message") = Len(log) + 1
        /\ LastAt(log', "step/start") = LastAt(log, "step/start")
        /\ LastAt(log, "step/start") \in Nat /\ LastAt(log, "step/start") <= Len(log)
        /\ Len(log) \in Nat
    BY <1>t, <2>1, <2>2, LastAtAppend, LastAtIsLast
  <2>6. log'[Len(log) + 1] = e /\ \A c : ResultsOf(log', Len(log) + 1, c) = {}
    BY <1>t, <2>1, <2>2, AppendExtends, ResultsNewMessage
  <2>7. PoolInStep'
    BY <2>1, <2>2, <2>5, <2>6 DEF PoolInStep
  <2>8. InPlace(log' \o closers')
    BY <1>c, <1>e, <2>1, <2>4
  <2> QED  BY <2>1, <2>7, <2>8 DEF ResultsInv, NotAnswered
<1>14. ASSUME pc = "tools", pc' = "tools", PoolInStep', InPlace(log') PROVE ResultsInv'
  <2>1. InPlace(log' \o closers')
    BY <1>c, <1>e, <1>14
  <2> QED  BY <1>14, <2>1 DEF ResultsInv, NotAnswered
<1>15. ASSUME NEW i \in DOMAIN calls, Push(i) \/ Settle(i) PROVE ResultsInv'
  <2>1. SameResults /\ InPlace(log') /\ pc = "tools" /\ pc' = "tools"
    BY <1>15, <1>s, NothingWritten DEF Push, Settle, Polling, Move
  <2>2. PoolInStep'
    BY <1>15, <2>1, PoolKept DEF Push, Settle, MayPush, Unsettled, ResultsInv
  <2> QED  BY <1>14, <2>1, <2>2
<1>16. ASSUME NEW i \in DOMAIN calls, Dispatch(i) \/ Ask(i) \/ Decide(i) PROVE ResultsInv'
  <2>1. SameResults /\ InPlace(log')
    BY <1>16, <1>n, <1>t DEF Dispatch, Ask, Decide, Types
  <2>2. pc = "tools" /\ pc' = "tools"
    BY <1>16 DEF Dispatch, Ask, Decide, Polling, Move
  <2>3. PoolInStep'
    BY <1>16, <2>1, <2>2, PoolKept DEF Dispatch, Ask, Decide, Unsettled, ResultsInv
  <2> QED  BY <1>14, <2>1, <2>2, <2>3
<1>17. ASSUME NEW i \in DOMAIN calls, CommitContext(i) PROVE ResultsInv'
  <2>1. SameResults /\ InPlace(log')
    <3>1. Len(log) \in Nat
      BY <1>t
    <3> QED  BY <1>17, <1>n, <1>s, <3>1, NothingWritten DEF CommitContext, Types
  <2>2. pc = "tools" /\ pc' = "tools"
    BY <1>17 DEF CommitContext, Move
  <2>3. PoolInStep'
    BY <1>17, <2>1, <2>2, PoolKept DEF CommitContext, Unsettled, ResultsInv
  <2> QED  BY <1>14, <2>1, <2>2, <2>3
<1>18. ASSUME NEW i \in DOMAIN calls, CallFails(i) PROVE ResultsInv'
  <2>1. SameResults /\ InPlace(log') /\ pc = "tools" /\ pc' = "tools"
    BY <1>18, <1>s, NothingWritten DEF CallFails, Polling, Move
  <2>2. PoolInStep'
    BY <1>18, <2>1, PoolKept DEF CallFails, Unsettled, ResultsInv
  <2> QED  BY <1>14, <2>1, <2>2
<1>19. ASSUME NEW i \in DOMAIN calls, CommitResult(i) PROVE ResultsInv'
  <2> DEFINE e == Result(i, LastOf(log, "tool/call", i))
             at == LastAt(log, "assistant/message")
  <2>1. /\ pc = "tools" /\ pc' = "tools" /\ log' = Append(log, e) /\ calls' = calls
        /\ UNCHANGED failure /\ ~failure
        /\ status[i] = "settled" /\ \A c \in 1 .. i - 1 : status[c] = "done"
        /\ \A c \in DOMAIN calls : status'[c] = IF c = i THEN "committed" ELSE status[c]
    BY <1>19 DEF CommitResult, Due, Move, Write, FlowTypeOK
  <2>2. e \in Events /\ e.ty = "tool/result" /\ e.n = i /\ i \in Nat
    BY <1>t, LastOfIsLast, ResultIsEvent
  <2>3. at \in Asked(log) /\ at \in Nat /\ at > LastAt(log, "step/start") /\ log[at].n = Len(calls)
    BY <1>t, <2>1, LastAsked, LastAtIsLast DEF ResultsInv, PoolInStep
  <2>4. ResultsOf(log, at, i) = {} /\ \A c \in 1 .. i - 1 : ResultsOf(log, at, c) # {}
    <3>1. \A c \in 1 .. i - 1 : c \in DOMAIN calls
      BY <1>t
    <3> QED  BY <2>1, <3>1 DEF ResultsInv, PoolInStep, Unsettled
  <2> HIDE DEF e
  <2>5. /\ Extends(log', log) /\ Len(log') = Len(log) + 1 /\ log'[Len(log) + 1] = e
        /\ Len(log) \in Nat /\ DOMAIN log = 1 .. Len(log) /\ DOMAIN log' = 1 .. Len(log')
        /\ \A j \in DOMAIN log : log'[j] = log[j]
    BY <1>t, <2>1, <2>2, AppendExtends DEF Extends
  <2>6. \A c : ResultsOf(log', at, c) =
                 ResultsOf(log, at, c) \cup (IF c = i THEN {Len(log) + 1} ELSE {})
    BY <1>t, <2>1, <2>2, <2>3, ResultsAppend
  <2>7. /\ LastAt(log', "assistant/message") = at
        /\ LastAt(log', "step/start") = LastAt(log, "step/start")
    BY <1>t, <2>1, <2>2, LastAtAppend
  <2>8. Ordered(log')
    <3> DEFINE New == {j \in DOMAIN log' : j > Len(log) /\ log'[j].ty = "tool/result"}
    <3>1. \A k \in DOMAIN log' : k > Len(log) => k = Len(log) + 1
      BY <2>5
    <3>2. New = {Len(log) + 1}
      BY <2>2, <2>5, <3>1
    <3>3. \A k \in DOMAIN log' : k > Len(log) => log'[k].ty # "assistant/message"
      BY <2>2, <2>5, <3>1
    <3>4. \A c \in 1 .. log[at].n : c < i => \E k \in ResultsOf(log', at, c) : k < Len(log) + 1
      <4> SUFFICES ASSUME NEW c \in 1 .. log[at].n, c < i
                   PROVE  \E k \in ResultsOf(log', at, c) : k < Len(log) + 1
        OBVIOUS
      <4>1. c \in 1 .. i - 1
        BY <1>t, <2>2, <2>3
      <4>2. PICK k \in ResultsOf(log, at, c) : TRUE
        BY <2>4, <4>1
      <4>3. k \in DOMAIN log
        BY DEF ResultsOf
      <4> QED  BY <2>5, <2>6, <4>2, <4>3
    <3> HIDE DEF at
    <3>5. at = LastAt(log, "assistant/message") /\ New = {j \in DOMAIN log' : j > Len(log) /\ log'[j].ty = "tool/result"}
      BY DEF at
    <3> HIDE DEF New
    <3>6. \A j, k \in New : log'[j].n = log'[k].n => j = k
      BY <3>2
    <3>7. \A j \in New : ResultsOf(log, at, log'[j].n) = {}
      BY <2>2, <2>4, <2>5, <3>2
    <3>8. \A j \in New, c \in 1 .. log[at].n :
            c < log'[j].n => \E k \in ResultsOf(log', at, c) : k < j
      BY <2>2, <2>5, <3>2, <3>4
    <3> QED  BY <1>t, <1>s, <2>5, <3>3, <3>5, <3>6, <3>7, <3>8, OrderedExtend DEF InPlace
  <2>9. BehindItsMessage(log')
    BY <1>t, <1>s, <2>1, <2>2, <2>3, BehindAppend DEF InPlace
  <2>10. log'[at] = log[at]
    BY <2>3, <2>5 DEF Asked
  <2>11. ASSUME NEW c \in DOMAIN calls
         PROVE  /\ status'[c] \in Unsettled => ResultsOf(log', at, c) = {}
                /\ status'[c] = "committed" \/ (status'[c] = "done" /\ ~failure')
                     => ResultsOf(log', at, c) # {}
    <3>1. CASE c = i
      BY <2>1, <2>6, <3>1 DEF Unsettled
    <3>2. CASE c # i
      BY <2>1, <2>6, <3>2 DEF ResultsInv, PoolInStep
    <3> QED  BY <3>1, <3>2
  <2>12. PoolInStep'
    BY <2>1, <2>3, <2>7, <2>10, <2>11 DEF PoolInStep
  <2> QED  BY <1>14, <2>1, <2>8, <2>9, <2>12 DEF InPlace
<1>20. CASE FromContext \/ SnapshotContext \/ PreStep \/ Request \/ GroupFailed \/ Boundary
            \/ TurnStopping \/ Crash \/ Fault \/ StartRefused
  BY <1>20, <1>4 DEF FromContext, SnapshotContext, PreStep, Request, GroupFailed, Boundary,
                     TurnStopping, Crash, Fault, StartRefused
<1>21. CASE Interrupt
  BY <1>21, <1>5 DEF Interrupt, memory
<1> QED
  BY <1>1, <1>2, <1>3, <1>7, <1>8, <1>9, <1>10, <1>11, <1>12, <1>13, <1>15, <1>16, <1>17,
     <1>18, <1>19, <1>20, <1>21 DEF Next, Progress, Pool

(* Concurrency inside a group is not seen from outside: the results of a   *)
(* message are journalled once each and in the order of its calls, and an  *)
(* exclusive call starts when those before it are done and has the pool to *)
(* itself, whatever fails, is cut, crashes and is repaired                 *)
(* (run_tool_calls, execute_call, interrupted_turn_closers).               *)
THEOREM CallsKeepOrder == Spec => []CallsInOrder
<1> DEFINE Inv == FlowTypeOK /\ TakenInOrder /\ ResultsInv
<1>1. Init => Inv
  BY TypeInit, TakenInit, ResultsInit
<1>2. Inv /\ [Next]_vars => Inv'
  BY TypeNext, TakenNext, ResultsNext
<1>3. Inv => CallsInOrder
  <2> SUFFICES ASSUME Inv PROVE ResultsInModelOrder /\ ExclusiveRunsAlone
    BY DEF CallsInOrder
  <2>1. ExclusiveRunsAlone
    BY TakenMeans
  <2>2. Ordered(log)
    BY InPlacePrefix DEF FlowTypeOK, ResultsInv, InPlace
  <2>3. \A i \in Asked(log) : \A d \in 1 .. log[i].n : Cardinality(ResultsOf(log, i, d)) <= 1
    BY <2>2, AtMostOne DEF Ordered
  <2>4. ResultsInModelOrder
    BY <2>2, <2>3 DEF Ordered, ResultsInModelOrder
  <2> QED  BY <2>1, <2>4
<1> QED  BY <1>1, <1>2, <1>3, PTL DEF Spec

(* The journal is a sequence of events, and memory keeps its types, in any *)
(* number of turns and steps (run_turn, run_step).                         *)
THEOREM TypesHold == Spec => []TypeOK
<1>1. FlowTypeOK => TypeOK
  BY FlowTypes
<1> QED  BY <1>1, TypeInit, TypeNext, PTL DEF Spec

-----------------------------------------------------------------------------
(* Balance, when the journal takes the snapshot and the closers. *)

LEMMA PositionsAppend ==
  ASSUME NEW l \in Seq(Events), NEW e \in Events, NEW m, Extends(m, l),
         Len(m) = Len(l) + 1, m[Len(l) + 1] = e, NEW ty
  PROVE  \A i : i \in Positions(m, ty) <=>
                 (i \in Positions(l, ty) \/ (i = Len(l) + 1 /\ e.ty = ty))
<1>1. /\ m \in Seq(Events) /\ Len(m) = Len(l) + 1 /\ m[Len(l) + 1] = e
      /\ \A j \in 1 .. Len(l) : m[j] = l[j]
  BY DEF Extends
<1> QED  BY <1>1 DEF Positions

LEMMA BalancedMeans ==
  ASSUME NEW l \in Seq(Events)
  PROVE  Balanced(l) <=> /\ \A i \in Positions(l, "turn/start") : TurnOver(l, i)
                         /\ \A i \in Positions(l, "step/start") : StepOver(l, i)
                         /\ \A i \in Positions(l, "approval/asked") :
                              AskOver(l, i) \/ TurnFailed(l, i)
BY DEF Balanced, Positions, TurnOver, StepOver, AskOver

LEMMA OverExtends ==
  ASSUME NEW l \in Seq(Events), NEW m, Extends(m, l), NEW ty, NEW i \in Positions(l, ty)
  PROVE  /\ TurnOver(l, i) => TurnOver(m, i)
         /\ StepOver(l, i) => StepOver(m, i)
         /\ AskOver(l, i) => AskOver(m, i)
         /\ TurnFailed(l, i) => TurnFailed(m, i)
         /\ m[i] = l[i] /\ i \in DOMAIN l
<1>1. i \in DOMAIN l /\ DOMAIN l = 1 .. Len(l) /\ Len(l) \in Nat
  BY DEF Positions
<1>2. /\ TurnOver(l, i) => TurnOver(m, i)
      /\ StepOver(l, i) => StepOver(m, i)
      /\ AskOver(l, i) => AskOver(m, i)
      /\ m[i] = l[i]
  BY <1>1, EndOfExtends DEF TurnOver, StepOver, AskOver, Extends
<1>3. ASSUME TurnFailed(l, i) PROVE TurnFailed(m, i)
  <2>1. PICK j \in DOMAIN l : /\ j > i /\ l[j].ty = "turn/end" /\ l[j].failed
                             /\ \A k \in i + 1 .. j - 1 : l[k].ty # "turn/start"
    BY <1>3 DEF TurnFailed
  <2>2. /\ j \in DOMAIN m /\ m[j] = l[j]
        /\ \A k \in i + 1 .. j - 1 : k \in 1 .. Len(l) /\ m[k] = l[k]
    BY <1>1, <2>1 DEF Extends
  <2> QED  BY <2>1, <2>2 DEF TurnFailed
<1> QED  BY <1>1, <1>2, <1>3

(* How an open journal goes on. *)
LEMMA OpenAppend ==
  ASSUME NEW l \in Seq(Events), NEW e \in Events, NEW T, NEW S, NEW W, NEW S2, NEW W2,
         Open(l, T, S, W), e.ty \notin {"turn/start", "turn/end"},
         e.ty = "step/start" => S = {} /\ e.n \in S2,
         e.ty = "step/end" => S \subseteq {e.n},
         e.ty \notin {"step/start", "step/end"} => S \subseteq S2,
         e.ty = "approval/asked" => e.n \in W2,
         IF e.ty = "approval/decided" THEN W \subseteq W2 \cup {e.n} ELSE W \subseteq W2
  PROVE  Open(Append(l, e), T, S2, W2)
<1> DEFINE m == Append(l, e)
           ts == LastAt(l, "turn/start")
           te == LastAt(l, "turn/end")
           ss == LastAt(l, "step/start")
           se == LastAt(l, "step/end")
<1>1. /\ Extends(m, l) /\ Len(m) = Len(l) + 1 /\ m[Len(l) + 1] = e /\ Len(l) \in Nat
      /\ DOMAIN l = 1 .. Len(l)
  BY AppendExtends
<1>2. /\ LastAt(m, "turn/start") = ts /\ LastAt(m, "turn/end") = te
      /\ LastAt(m, "step/start") = IF e.ty = "step/start" THEN Len(l) + 1 ELSE ss
      /\ LastAt(m, "step/end") = IF e.ty = "step/end" THEN Len(l) + 1 ELSE se
  BY LastAtAppend
<1>3. /\ ts \in Nat /\ te \in Nat /\ ss \in Nat /\ se \in Nat /\ ts <= Len(l) /\ se <= Len(l)
      /\ (ts # 0 => ts \in Positions(l, "turn/start"))
  BY LastAtIsLast
<1>p. \A ty : \A i : i \in Positions(m, ty) <=>
                        (i \in Positions(l, ty) \/ (i = Len(l) + 1 /\ e.ty = ty))
  <2> HIDE DEF m
  <2> TAKE ty
  <2> QED  BY <1>1, PositionsAppend
<1>e. ASSUME NEW start, NEW i \in DOMAIN l, LastAt(l, start) <= i, e.n = l[i].n
      PROVE  EndOf(m, i, start, e.ty)
  BY <1>e, EndOfAppend
<1> HIDE DEF m, ts, te, ss, se
<1>4. LastTurnOpen(m) /\ m[ts].n \in T
  <2>1. ts > te /\ l[ts].n \in T /\ \A i \in Positions(l, "turn/start") : i = ts \/ TurnOver(l, i)
    BY DEF Open, LastTurnOpen, ts, te
  <2>2. m[ts] = l[ts]
    BY <1>1, <1>3, <2>1, OverExtends
  <2>3. \A i \in Positions(m, "turn/start") : i = ts \/ TurnOver(m, i)
    BY <1>1, <1>p, <2>1, OverExtends
  <2> QED  BY <1>2, <2>1, <2>2, <2>3 DEF LastTurnOpen
<1>5. ASSUME NEW i \in Positions(m, "step/start")
      PROVE  StepOver(m, i) \/ (OpenStep(m, i) /\ m[i].n \in S2)
  <2>1. CASE i = Len(l) + 1 /\ e.ty = "step/start"
    BY <1>1, <1>2, <1>3, <2>1 DEF OpenStep
  <2>2. CASE i \in Positions(l, "step/start")
    <3>1. CASE StepOver(l, i)
      BY <1>1, <2>2, <3>1, OverExtends
    <3>2. CASE OpenStep(l, i) /\ l[i].n \in S
      <4>1. i = ss /\ i > ts /\ i > se /\ m[i] = l[i] /\ i \in DOMAIN l
        BY <1>1, <2>2, <3>2, OverExtends DEF OpenStep, ss, ts, se
      <4>2. CASE e.ty = "step/end"
        <5>1. e.n = l[i].n
          BY <3>2, <4>2
        <5>2. EndOf(m, i, "step/start", "step/end")
          BY <1>3, <1>e, <4>1, <4>2, <5>1 DEF ss
        <5> QED  BY <5>2 DEF StepOver
      <4>3. CASE e.ty # "step/end"
        <5>1. e.ty # "step/start" /\ S \subseteq S2
          BY <3>2, <4>3
        <5> QED  BY <1>2, <3>2, <4>1, <4>3, <5>1 DEF OpenStep
      <4> QED  BY <4>2, <4>3
    <3> QED  BY <2>2, <3>1, <3>2 DEF Open
  <2> QED  BY <1>p, <2>1, <2>2
<1>6. ASSUME NEW i \in Positions(m, "approval/asked")
      PROVE  AskOver(m, i) \/ TurnFailed(m, i) \/ (i > ts /\ m[i].n \in W2)
  <2>1. CASE i = Len(l) + 1 /\ e.ty = "approval/asked"
    BY <1>1, <1>3, <2>1
  <2>2. CASE i \in Positions(l, "approval/asked")
    <3>1. CASE AskOver(l, i) \/ TurnFailed(l, i)
      BY <1>1, <2>2, <3>1, OverExtends
    <3>2. CASE i > ts /\ l[i].n \in W
      <4>1. m[i] = l[i] /\ i \in DOMAIN l
        BY <1>1, <2>2, OverExtends
      <4>2. CASE e.ty = "approval/decided" /\ e.n = l[i].n
        <5>1. EndOf(m, i, "turn/start", "approval/decided")
          BY <1>1, <1>3, <1>e, <3>2, <4>1, <4>2 DEF ts
        <5> QED  BY <5>1 DEF AskOver
      <4>3. CASE ~(e.ty = "approval/decided" /\ e.n = l[i].n)
        <5>1. l[i].n \in W2
          BY <3>2, <4>3
        <5> QED  BY <3>2, <4>1, <5>1
      <4> QED  BY <4>2, <4>3
    <3> QED  BY <2>2, <3>1, <3>2 DEF Open, ts
  <2> QED  BY <1>p, <2>1, <2>2
<1> QED  BY <1>2, <1>4, <1>5, <1>6 DEF Open, m

(* A turn starts on a balanced journal, and ends on one. *)
LEMMA OpenFromBalanced ==
  ASSUME NEW l \in Seq(Events), NEW e \in Events, Balanced(l), e.ty = "turn/start"
  PROVE  Open(Append(l, e), {e.n}, {}, {})
<1> DEFINE m == Append(l, e)
<1>1. /\ Extends(m, l) /\ m[Len(l) + 1] = e /\ Len(l) \in Nat /\ Len(m) = Len(l) + 1
  BY AppendExtends
<1>2. /\ LastAt(m, "turn/start") = Len(l) + 1 /\ LastAt(m, "turn/end") = LastAt(l, "turn/end")
      /\ LastAt(l, "turn/end") \in Nat /\ LastAt(l, "turn/end") <= Len(l)
  BY LastAtAppend, LastAtIsLast
<1>p. \A ty : \A i : i \in Positions(m, ty) <=>
                        (i \in Positions(l, ty) \/ (i = Len(l) + 1 /\ e.ty = ty))
  <2> HIDE DEF m
  <2> TAKE ty
  <2> QED  BY <1>1, PositionsAppend
<1> HIDE DEF m
<1>3. /\ \A i \in Positions(l, "turn/start") : TurnOver(m, i)
      /\ \A i \in Positions(l, "step/start") : StepOver(m, i)
      /\ \A i \in Positions(l, "approval/asked") : AskOver(m, i) \/ TurnFailed(m, i)
  BY <1>1, BalancedMeans, OverExtends
<1> QED  BY <1>1, <1>2, <1>3, <1>p DEF Open, LastTurnOpen, m

LEMMA BalancedFromOpen ==
  ASSUME NEW l \in Seq(Events), NEW e \in Events, NEW W, Open(l, {e.n}, {}, W),
         e.ty = "turn/end", W = {} \/ e.failed
  PROVE  Balanced(Append(l, e))
<1> DEFINE m == Append(l, e)
           ts == LastAt(l, "turn/start")
<1>1. /\ Extends(m, l) /\ m \in Seq(Events) /\ DOMAIN l = 1 .. Len(l)
      /\ Len(m) = Len(l) + 1 /\ m[Len(l) + 1] = e
  BY AppendExtends DEF Extends
<1>p. \A ty : \A i : i \in Positions(m, ty) <=>
                        (i \in Positions(l, ty) \/ (i = Len(l) + 1 /\ e.ty = ty))
  <2> HIDE DEF m
  <2> TAKE ty
  <2> QED  BY <1>1, PositionsAppend
<1>2. /\ ts \in Nat /\ LastAt(l, "turn/end") \in Nat
      /\ (ts # 0 => ts \in Positions(l, "turn/start"))
  BY LastAtIsLast
<1>3. /\ ts > LastAt(l, "turn/end") /\ l[ts].n = e.n
      /\ \A i \in Positions(l, "turn/start") : i = ts \/ TurnOver(l, i)
  BY DEF Open, LastTurnOpen
<1>4. ts \in DOMAIN l
  BY <1>2, <1>3 DEF Positions
<1>5. TurnOver(m, ts)
  BY <1>2, <1>3, <1>4, EndOfAppend DEF TurnOver
<1> HIDE DEF m, ts
<1>6. \A i \in Positions(m, "turn/start") : TurnOver(m, i)
  BY <1>1, <1>3, <1>5, <1>p, OverExtends
<1>7. \A i \in Positions(m, "step/start") : StepOver(m, i)
  BY <1>1, <1>p, OverExtends DEF Open
<1>8. \A i \in Positions(m, "approval/asked") : AskOver(m, i) \/ TurnFailed(m, i)
  <2> SUFFICES ASSUME NEW i \in Positions(l, "approval/asked")
               PROVE  AskOver(m, i) \/ TurnFailed(m, i)
    BY <1>1, <1>p
  <2>1. CASE AskOver(l, i) \/ TurnFailed(l, i)
    BY <1>1, <2>1, OverExtends
  <2>2. CASE i > ts /\ e.failed
    <3>1. i \in 1 .. Len(l) /\ Len(l) \in Nat
      BY <1>1 DEF Positions
    <3>2. /\ Len(l) + 1 \in DOMAIN m /\ Len(l) + 1 > i
          /\ m[Len(l) + 1].ty = "turn/end" /\ m[Len(l) + 1].failed
      BY <1>1, <2>2, <3>1
    <3>3. \A k \in i + 1 .. Len(l) + 1 - 1 : m[k].ty # "turn/start"
      <4> SUFFICES ASSUME NEW k \in i + 1 .. Len(l), m[k].ty = "turn/start" PROVE FALSE
        BY <3>1
      <4>1. k \in Positions(l, "turn/start")
        BY <1>1, <3>1 DEF Positions, Extends
      <4>2. k <= ts
        BY <4>1, LastAtIsLast DEF ts
      <4> QED  BY <1>2, <2>2, <3>1, <4>2
    <3> QED  BY <3>2, <3>3 DEF TurnFailed
  <2> QED  BY <2>1, <2>2 DEF Open, ts
<1> QED  BY <1>1, <1>6, <1>7, <1>8, BalancedMeans DEF m

(* A death leaves the journal of a turn interrupted. *)
LEMMA OpenIsInterrupted ==
  ASSUME NEW l \in Seq(Events), NEW T, NEW S, NEW W, Open(l, T, S, W)
  PROVE  Interrupted(l) /\ Open(l, Nat, {l[LastAt(l, "step/start")].n}, Nat)
<1>1. \A ty : \A i \in Positions(l, ty) : l[i].n \in Nat
  BY EventAt DEF Positions
<1>2. /\ LastAt(l, "turn/start") \in Nat /\ LastAt(l, "turn/end") \in Nat
      /\ (LastAt(l, "turn/start") # 0 => LastAt(l, "turn/start") \in Positions(l, "turn/start"))
  BY LastAtIsLast
<1>3. l[LastAt(l, "turn/start")].n \in Nat
  <2>1. LastAt(l, "turn/start") > LastAt(l, "turn/end")
    BY DEF Open, LastTurnOpen
  <2> QED  BY <1>1, <1>2, <2>1
<1> QED  BY <1>1, <1>3 DEF Interrupted, Open, OpenStep

(* What was open when a journal was left is what its closers close. *)
LEMMA OpenOrBalanced ==
  ASSUME NEW l \in Seq(Events), Balanced(l) \/ Interrupted(l)
  PROVE  Interrupted(l) <=> TurnOpen(l)
<1> DEFINE ts == LastAt(l, "turn/start")
           te == LastAt(l, "turn/end")
<1>1. /\ ts \in Nat /\ te \in Nat
      /\ (ts # 0 => ts \in Positions(l, "turn/start"))
      /\ \A i \in Positions(l, "turn/end") : i \in 1 .. Len(l) /\ i <= te
      /\ (te # 0 => te \in Positions(l, "turn/end"))
  BY LastAtIsLast
<1>2. Interrupted(l) => TurnOpen(l)
  BY <1>1 DEF Interrupted, Open, LastTurnOpen, TurnOpen
<1>3. ASSUME Balanced(l), TurnOpen(l) PROVE FALSE
  <2>1. ts \in Positions(l, "turn/start")
    BY <1>1, <1>3 DEF TurnOpen
  <2>2. TurnOver(l, ts)
    BY <1>3, <2>1, BalancedMeans
  <2>3. PICK j \in DOMAIN l : j > ts /\ l[j].ty = "turn/end"
    BY <2>2 DEF TurnOver, EndOf
  <2>4. j \in Positions(l, "turn/end")
    BY <2>3 DEF Positions
  <2>5. j \in Nat /\ j <= te /\ te <= ts
    BY <1>1, <1>3, <2>4 DEF TurnOpen
  <2> HIDE DEF ts, te
  <2> QED  BY <1>1, <2>3, <2>5
<1> QED  BY <1>2, <1>3

(* Repair closes it. *)
LEMMA BalancedClosed ==
  ASSUME NEW l \in Seq(Events), Interrupted(l)
  PROVE  Balanced(l \o interrupted_turn_closers(l))
<1> DEFINE C == interrupted_turn_closers(l)
           m == l \o C
           ts == LastAt(l, "turn/start")
           ss == LastAt(l, "step/start")
<1>1. TurnOpen(l)
  BY OpenOrBalanced
<1>2. Closes(l, C)
  BY <1>1, ClosersShape
<1> HIDE DEF C
<1>3. C \in Seq(Events) /\ Len(C) \in DOMAIN C /\ \A k \in DOMAIN C : C[k].ty \in Closing
  BY <1>2 DEF Closes
<1>4. /\ Extends(m, l) /\ \A k \in DOMAIN C : m[Len(l) + k] = C[k]
      /\ \A i \in DOMAIN m : i \in DOMAIN l \/ \E k \in DOMAIN C : i = Len(l) + k
      /\ DOMAIN l = 1 .. Len(l) /\ DOMAIN C = 1 .. Len(C) /\ Len(l) \in Nat
      /\ Len(m) = Len(l) + Len(C) /\ Len(C) \in Nat /\ m \in Seq(Events)
      /\ DOMAIN m = 1 .. Len(m)
  BY <1>3, ConcatExtends DEF Extends
<1>5. /\ ts \in Nat /\ ts <= Len(l) /\ ss \in Nat /\ ss <= Len(l)
      /\ \A i \in Positions(l, "turn/start") : i <= ts
      /\ \A i \in Positions(l, "step/start") : i <= ss
  BY LastAtIsLast
<1> HIDE DEF m, ts, ss
<1>p. ASSUME NEW ty, ty \notin Closing, NEW i \in Positions(m, ty) PROVE i \in Positions(l, ty)
  <2>1. i \in DOMAIN m /\ m[i].ty = ty
    BY DEF Positions
  <2>2. i \in DOMAIN l
    BY <1>3, <1>4, <1>p, <2>1
  <2> QED  BY <1>4, <2>1, <2>2 DEF Positions, Extends
<1>6. ASSUME NEW start, start \notin Closing, NEW i \in DOMAIN l, NEW k \in DOMAIN C,
             \A j \in Positions(l, start) : j <= i, C[k].n = l[i].n
      PROVE  EndOf(m, i, start, C[k].ty)
  <2>1. Len(l) + k \in DOMAIN m /\ Len(l) + k > i /\ m[Len(l) + k] = C[k] /\ m[i] = l[i]
    BY <1>4 DEF Extends
  <2>2. \A j \in i + 1 .. Len(l) + k - 1 : m[j].ty # start
    <3> SUFFICES ASSUME NEW j \in i + 1 .. Len(l) + k - 1, m[j].ty = start PROVE FALSE
      OBVIOUS
    <3>1. j \in DOMAIN m /\ j > i
      BY <1>4
    <3>2. j \in Positions(m, start)
      BY <3>1 DEF Positions
    <3> QED  BY <1>4, <1>6, <1>p, <3>1, <3>2
  <2> DEFINE j == Len(l) + k
  <2>3. /\ j \in DOMAIN m /\ j > i /\ m[j].ty = C[k].ty /\ m[j].n = m[i].n
        /\ \A x \in i + 1 .. j - 1 : m[x].ty # start
    <3>1. m[j].n = m[i].n /\ m[j].ty = C[k].ty
      BY <1>6, <2>1
    <3>2. \A x \in i + 1 .. j - 1 : m[x].ty # start
      BY <2>2
    <3> QED  BY <2>1, <3>1, <3>2
  <2> HIDE DEF j
  <2> QED  BY <2>3 DEF EndOf
<1>7. \A i \in Positions(m, "turn/start") : TurnOver(m, i)
  <2> SUFFICES ASSUME NEW i \in Positions(l, "turn/start") PROVE TurnOver(m, i)
    BY <1>p DEF Closing
  <2>1. CASE i = ts
    <3>1. C[Len(C)].ty = "turn/end" /\ C[Len(C)].n = l[ts].n
      BY <1>2, <1>3 DEF Closes, ts
    <3>2. i \in DOMAIN l /\ "turn/start" \notin Closing
      BY DEF Positions, Closing
    <3> QED  BY <1>3, <1>5, <1>6, <2>1, <3>1, <3>2 DEF TurnOver
  <2>2. CASE TurnOver(l, i)
    BY <1>4, <2>2, OverExtends
  <2> QED  BY <2>1, <2>2 DEF Interrupted, Open, LastTurnOpen, ts
<1>8. \A i \in Positions(m, "step/start") : StepOver(m, i)
  <2> SUFFICES ASSUME NEW i \in Positions(l, "step/start") PROVE StepOver(m, i)
    BY <1>p DEF Closing
  <2>1. CASE OpenStep(l, i)
    <3>1. i = ss /\ StepOpen(l)
      BY <2>1 DEF OpenStep, StepOpen, ss
    <3>2. PICK k \in DOMAIN C : C[k].ty = "step/end" /\ C[k].n = l[ss].n
      BY <1>2, <3>1 DEF Closes, ss
    <3>3. i \in DOMAIN l /\ "step/start" \notin Closing
      BY DEF Positions, Closing
    <3> QED  BY <1>5, <1>6, <3>1, <3>2, <3>3 DEF StepOver
  <2>2. CASE StepOver(l, i)
    BY <1>4, <2>2, OverExtends
  <2> QED  BY <2>1, <2>2 DEF Interrupted, Open
<1>9. \A i \in Positions(m, "approval/asked") : AskOver(m, i) \/ TurnFailed(m, i)
  <2> SUFFICES ASSUME NEW i \in Positions(l, "approval/asked")
               PROVE  AskOver(m, i) \/ TurnFailed(m, i)
    BY <1>p DEF Closing
  <2>0. i \in DOMAIN l /\ l[i].ty = "approval/asked"
    BY DEF Positions
  <2>1. CASE AskOver(l, i) \/ TurnFailed(l, i)
    BY <1>4, <2>1, OverExtends
  <2>2. CASE i > ts /\ ~AskOver(l, i)
    <3>1. i \in Undecideds(l)
      <4>1. i \in ts + 1 .. Len(l)
        BY <1>4, <1>5, <2>0, <2>2
      <4>2. ASSUME NEW j \in i + 1 .. Len(l), l[j].ty = "approval/decided", l[j].n = l[i].n
            PROVE  FALSE
        <5>1. j \in DOMAIN l /\ j > i /\ \A k \in i + 1 .. j - 1 : k \in DOMAIN l /\ k > ts
          BY <1>4, <1>5, <2>0, <2>2
        <5>2. \A k \in i + 1 .. j - 1 : l[k].ty # "turn/start"
          BY <1>4, <1>5, <5>1 DEF Positions
        <5> QED  BY <2>2, <4>2, <5>1, <5>2 DEF AskOver, EndOf
      <4> QED  BY <2>0, <4>1, <4>2 DEF Undecideds, ts
    <3>2. PICK k \in DOMAIN C : C[k].ty = "approval/decided" /\ C[k].n = l[i].n
      BY <1>2, <3>1 DEF Closes
    <3>3. "turn/start" \notin Closing
      BY DEF Closing
    <3>4. \A j \in Positions(l, "turn/start") : j <= i
      <4>1. \A j \in Positions(l, "turn/start") : j \in Nat
        BY <1>4 DEF Positions
      <4> QED  BY <1>4, <1>5, <2>0, <2>2, <4>1
    <3> QED  BY <1>6, <2>0, <3>2, <3>3, <3>4 DEF AskOver
  <2> QED  BY <2>1, <2>2 DEF Interrupted, Open, ts
<1> QED  BY <1>4, <1>7, <1>8, <1>9, BalancedMeans DEF m, C

LEMMA OpenSame ==
  ASSUME NEW l, NEW T, NEW S, NEW W, NEW S2, NEW W2, Open(l, T, S, W),
         S \subseteq S2, W \subseteq W2
  PROVE  Open(l, T, S2, W2)
BY DEF Open

LEMMA BalanceInit == Init => BalanceInv
<1> SUFFICES ASSUME Init PROVE BalanceInv
  OBVIOUS
<1>1. log = <<>> /\ closers = <<>> /\ pc = "down"
  BY DEF Init
<1>2. Balanced(log)
  BY <1>1 DEF Balanced
<1>3. EndsLast(log, closers)
  BY <1>1 DEF EndsLast
<1> QED  BY <1>1, <1>2, <1>3 DEF BalanceInv, Running

LEMMA BalanceNext ==
  ASSUME Faults \subseteq {"start", "run", "tools"}, FlowTypeOK, FlowTypeOK', BalanceInv, [Next]_vars
  PROVE  BalanceInv'
<1>t. /\ log \in Seq(Events) /\ closers \in Seq(Events) /\ log' \in Seq(Events)
      /\ DOMAIN calls = 1 .. Len(calls) /\ Len(calls) \in Nat /\ DOMAIN status = DOMAIN calls
      /\ steps \in Nat /\ turns \in Nat /\ steps' \in Nat /\ turns' \in Nat
  BY DEF FlowTypeOK
<1>c. /\ pc # "repair" => closers = <<>>
      /\ pc' # "repair" => closers' = <<>>
  BY DEF FlowTypeOK
<1>f. "context" \notin Faults /\ "close" \notin Faults
  OBVIOUS
<1>r. ASSUME pc' \in Running, InTurn(log)',
             pc' \in {"context", "boundary", "pre-step", "enter", "settle", "stopping"} => ~inStep'
      PROVE  BalanceInv'
  <2>1. pc' \notin {"idle", "repair", "down"}
    BY <1>r DEF Running
  <2>2. closers' = <<>> /\ EndsLast(log', closers')
    BY <1>c, <2>1 DEF EndsLast
  <2> QED  BY <1>r, <2>1, <2>2 DEF BalanceInv
<1>i. pc \in Running => Open(log, {turns}, IF inStep THEN {steps} ELSE {}, AsksLeft)
  BY DEF BalanceInv, InTurn
<1>a. pc \notin {"tools", "closing"} => AsksLeft = {}
  BY DEF AsksLeft
<1>1. CASE UNCHANGED vars
  <2>1. InTurn(log)' <=> InTurn(log)
    BY <1>1 DEF InTurn, AsksLeft, CallsAt, vars
  <2> QED  BY <1>1, <2>1 DEF BalanceInv, EndsLast, vars
<1>2. CASE Reopen
  <2> DEFINE C == interrupted_turn_closers(log)
  <2>1. pc = "down" /\ log' = log /\ closers' = C /\ pc' = "repair" /\ failure' = failure
    BY <1>2 DEF Reopen, memory
  <2>2. Balanced(log) \/ Interrupted(log)
    BY <2>1 DEF BalanceInv
  <2>3. CASE Interrupted(log)
    <3>1. Closes(log, C)
      BY <1>t, <2>3, OpenOrBalanced, ClosersShape
    <3>2. Balanced(log \o C)
      BY <1>t, <2>3, BalancedClosed
    <3> HIDE DEF C
    <3>3. EndsLast(log, C)
      <4>1. StepOpen(log) => OpenStep(log, LastAt(log, "step/start"))
        <5>1. LastAt(log, "step/start") \in Nat /\ LastAt(log, "step/end") \in Nat
          BY <1>t, LastAtIsLast
        <5> QED  BY <5>1 DEF StepOpen, OpenStep
      <4> QED  BY <3>1, <4>1 DEF Closes, EndsLast
    <3> QED  BY <2>1, <2>3, <3>2, <3>3 DEF BalanceInv, Running
  <2>4. CASE ~Interrupted(log)
    <3>1. C = <<>>
      BY <1>t, <2>2, <2>4, OpenOrBalanced, ClosersEmpty
    <3>2. Balanced(log) /\ log \o <<>> = log
      BY <1>t, <2>2, <2>4, NoClosers
    <3> HIDE DEF C
    <3>3. EndsLast(log, C) /\ log \o C = log
      BY <3>1, <3>2 DEF EndsLast
    <3> QED  BY <2>1, <3>1, <3>2, <3>3 DEF BalanceInv, Running
  <2> QED  BY <2>3, <2>4
<1>3. CASE Repair
  <2> DEFINE h == Head(closers)
  <2>1. /\ pc = "repair" /\ closers # <<>> /\ pc' = "repair" /\ failure' = failure
        /\ log' = Append(log, h) /\ closers' = Tail(closers)
    BY <1>3 DEF Repair, Write, memory
  <2>2. /\ h = closers[1] /\ h \in Events /\ Len(closers) \in Nat /\ Len(closers) > 0
        /\ DOMAIN closers = 1 .. Len(closers) /\ Len(closers') = Len(closers) - 1
        /\ DOMAIN closers' = 1 .. Len(closers) - 1
        /\ \A k \in DOMAIN closers' : k + 1 \in DOMAIN closers /\ closers'[k] = closers[k + 1]
        /\ log' \o closers' = log \o closers
    BY <1>t, <2>1, HeadTail
  <2> HIDE DEF h
  <2>3. Balanced(log' \o closers')
    BY <2>1, <2>2 DEF BalanceInv
  <2>4. /\ Interrupted(log) /\ h.ty \in Closing
        /\ (h.ty = "turn/end") <=> (Len(closers) = 1)
        /\ h.ty = "step/end" => /\ Len(closers) = 2
                                /\ h.n = log[LastAt(log, "step/start")].n
    <3>1. 1 \in DOMAIN closers
      BY <2>2
    <3>2. h.ty \in Closing
      BY <2>2, <3>1 DEF FlowTypeOK
    <3>3. /\ (h.ty = "turn/end") <=> (1 = Len(closers))
          /\ h.ty = "step/end" => /\ 1 = Len(closers) - 1
                                  /\ h.n = log[LastAt(log, "step/start")].n
      BY <2>2, <3>1 DEF BalanceInv, EndsLast
    <3>4. Interrupted(log)
      BY <2>1 DEF BalanceInv
    <3> QED  BY <2>2, <3>2, <3>3, <3>4
  <2>5. CASE Len(closers) = 1
    <3>1. closers' = <<>>
      BY <1>3, <2>2, <2>5 DEF FlowTypeOK
    <3>2. Balanced(log')
      BY <1>t, <2>3, <3>1, NoClosers
    <3>3. EndsLast(log', closers')
      BY <3>1 DEF EndsLast
    <3> QED  BY <2>1, <2>3, <3>1, <3>2, <3>3 DEF BalanceInv, Running
  <2>6. CASE Len(closers) # 1
    <3>1. Interrupted(log')
      <4>1. Open(log, Nat, {log[LastAt(log, "step/start")].n}, Nat)
        BY <1>t, <2>4, OpenIsInterrupted DEF Interrupted
      <4> DEFINE S == IF h.ty = "step/end" THEN {h.n} ELSE Nat
      <4>2. Open(log, Nat, S, Nat)
        <5>1. CASE h.ty = "step/end"
          BY <2>4, <4>1, <5>1
        <5>2. CASE h.ty # "step/end"
          BY <2>4, <5>2 DEF Interrupted
        <5> QED  BY <5>1, <5>2
      <4>3. h.n \in Nat
        BY <2>2 DEF Events
      <4>4. h.ty \in {"approval/decided", "tool/result", "step/end"}
        BY <2>4, <2>6 DEF Closing
      <4>5. (h.ty = "step/end" => S \subseteq {h.n}) /\ (h.ty # "step/end" => S \subseteq Nat)
        OBVIOUS
      <4> HIDE DEF S
      <4>6. Open(Append(log, h), Nat, Nat, Nat)
        BY <1>t, <2>2, <4>2, <4>3, <4>4, <4>5, OpenAppend
      <4> QED  BY <2>1, <4>6 DEF Interrupted
    <3>2. EndsLast(log', closers')
      <4> SUFFICES ASSUME NEW k \in DOMAIN closers'
                   PROVE  /\ (closers'[k].ty = "turn/end") <=> (k = Len(closers'))
                          /\ closers'[k].ty = "step/end" =>
                               /\ k = Len(closers') - 1
                               /\ OpenStep(log', LastAt(log', "step/start"))
                               /\ closers'[k].n = log'[LastAt(log', "step/start")].n
        BY DEF EndsLast
      <4>1. k \in Nat /\ k + 1 \in DOMAIN closers /\ closers'[k] = closers[k + 1] /\ k >= 1
        BY <2>2
      <4>2. /\ (closers[k + 1].ty = "turn/end") <=> (k + 1 = Len(closers))
            /\ closers[k + 1].ty = "step/end" =>
                 /\ k + 1 = Len(closers) - 1
                 /\ OpenStep(log, LastAt(log, "step/start"))
                 /\ closers[k + 1].n = log[LastAt(log, "step/start")].n
        BY <4>1 DEF BalanceInv, EndsLast
      <4>3. (closers'[k].ty = "turn/end") <=> (k = Len(closers'))
        BY <2>2, <4>1, <4>2
      <4>4. ASSUME closers'[k].ty = "step/end"
            PROVE  /\ k = Len(closers') - 1
                   /\ OpenStep(log', LastAt(log', "step/start"))
                   /\ closers'[k].n = log'[LastAt(log', "step/start")].n
        <5>1. /\ k + 1 = Len(closers) - 1 /\ OpenStep(log, LastAt(log, "step/start"))
              /\ closers'[k].n = log[LastAt(log, "step/start")].n
          BY <4>1, <4>2, <4>4
        <5>2. h.ty \in {"approval/decided", "tool/result"}
          BY <2>2, <2>4, <2>6, <4>1, <5>1 DEF Closing
        <5>3. \A ty \in {"turn/start", "step/start", "step/end"} : LastAt(log', ty) = LastAt(log, ty)
          BY <1>t, <2>1, <2>2, <5>2, LastAtAppend
        <5>4. LastAt(log, "step/start") \in DOMAIN log
          <6>1. /\ LastAt(log, "step/start") \in Nat /\ LastAt(log, "step/start") <= Len(log)
                /\ LastAt(log, "step/end") \in Nat
            BY <1>t, LastAtIsLast
          <6>2. LastAt(log, "step/start") > 0
            BY <5>1, <6>1 DEF OpenStep
          <6> QED  BY <1>t, <6>1, <6>2
        <5>5. log'[LastAt(log, "step/start")] = log[LastAt(log, "step/start")]
          BY <1>t, <2>1, <2>2, <5>4, AppendExtends DEF Extends
        <5> QED  BY <2>2, <5>1, <5>3, <5>5 DEF OpenStep
      <4> QED  BY <4>3, <4>4
    <3> QED  BY <2>1, <2>3, <3>1, <3>2 DEF BalanceInv, Running
  <2> QED  BY <2>5, <2>6
<1>4. CASE FromContext
  <2>1. /\ pc = "repair" /\ closers = <<>> /\ pc' = "idle" /\ log' = log /\ failure' = failure
        /\ closers' = <<>>
    BY <1>4 DEF FromContext
  <2>2. Balanced(log' \o closers')
    BY <2>1 DEF BalanceInv
  <2>3. EndsLast(log', closers')
    BY <2>1 DEF EndsLast
  <2> QED  BY <2>1, <2>2, <2>3 DEF BalanceInv, Running
<1>5. CASE Crash
  <2>1. pc # "down" /\ pc' = "down" /\ log' = log /\ failure' = FALSE /\ closers' = <<>>
    BY <1>5 DEF Crash, Idle
  <2>2. Balanced(log) \/ Interrupted(log)
    <3>1. CASE pc = "idle"
      BY <1>t, <1>c, <3>1, NoClosers DEF BalanceInv
    <3>2. CASE pc = "repair"
      BY <3>2 DEF BalanceInv
    <3>3. CASE pc \in Running
      BY <1>t, <1>i, <3>3, OpenIsInterrupted
    <3> QED  BY <2>1, <3>1, <3>2, <3>3 DEF FlowTypeOK
  <2>3. EndsLast(log', closers')
    BY <2>1 DEF EndsLast
  <2> QED  BY <2>1, <2>2, <2>3 DEF BalanceInv, Running
<1>6. CASE RunTurn
  <2> DEFINE e == Event("turn/start", turns + 1)
  <2>1. /\ pc = "idle" /\ log' = Append(log, e) /\ pc' = "context" /\ failure' = FALSE
        /\ inStep' = FALSE /\ turns' = turns + 1
    BY <1>6 DEF RunTurn, Idle, Write
  <2>2. e \in Events /\ e.ty = "turn/start" /\ e.n = turns'
    BY <1>t, <2>1, EventIsEvent DEF Types
  <2> HIDE DEF e
  <2>3. Balanced(log)
    BY <1>t, <1>c, <2>1, NoClosers DEF BalanceInv
  <2>4. Open(log', {turns'}, {}, {})
    BY <1>t, <2>1, <2>2, <2>3, OpenFromBalanced
  <2> QED  BY <1>r, <2>1, <2>4 DEF InTurn, AsksLeft, Running
(* A step of the turn that only writes what neither opens nor closes. *)
<1>w. ASSUME NEW e \in Events, Write(e), pc \in Running,
             e.ty \notin {"turn/start", "turn/end", "step/start", "step/end",
                          "approval/asked", "approval/decided"},
             UNCHANGED turns, inStep => inStep' /\ steps' = steps, AsksLeft \subseteq AsksLeft'
      PROVE  InTurn(log)'
  <2> DEFINE S == IF inStep THEN {steps} ELSE {}
             W == AsksLeft
             S2 == IF inStep' THEN {steps'} ELSE {}
             W2 == AsksLeft'
  <2>1. S \subseteq S2 /\ W \subseteq W2
    BY <1>w
  <2>2. Open(log, {turns}, S, W)
    BY <1>i, <1>w
  <2> HIDE DEF S, W, S2, W2
  <2>3. Open(Append(log, e), {turns}, S2, W2)
    BY <1>t, <1>w, <2>1, <2>2, OpenAppend
  <2> QED  BY <1>w, <2>3 DEF InTurn, Write, S2, W2
<1>u. ASSUME log' = log, pc \in Running, UNCHANGED turns,
             inStep => inStep' /\ steps' = steps, AsksLeft \subseteq AsksLeft'
      PROVE  InTurn(log)'
  <2> DEFINE S == IF inStep THEN {steps} ELSE {}
             W == AsksLeft
             S2 == IF inStep' THEN {steps'} ELSE {}
             W2 == AsksLeft'
  <2>1. S \subseteq S2 /\ W \subseteq W2
    BY <1>u
  <2>2. Open(log, {turns}, S, W)
    BY <1>i, <1>u
  <2> HIDE DEF S, W, S2, W2
  <2>3. Open(log, {turns}, S2, W2)
    BY <2>1, <2>2, OpenSame
  <2> QED  BY <1>u, <2>3 DEF InTurn, S2, W2
<1>7. CASE SnapshotContext \/ Request \/ TurnStopping
  <2>1. /\ log' = log /\ pc \in Running /\ pc' \in Running /\ pc # "tools" /\ UNCHANGED turns
        /\ UNCHANGED <<inStep, steps, failure>>
        /\ pc' \in {"context", "boundary", "pre-step", "enter", "settle", "stopping"} => ~inStep
        /\ pc # "closing"
    BY <1>7 DEF SnapshotContext, Request, TurnStopping, memory, Running, BalanceInv
  <2>2. InTurn(log)'
    BY <1>a, <1>u, <2>1
  <2> QED  BY <1>r, <2>1, <2>2
<1>8. CASE Claim
  <2>1. /\ pc = "boundary" /\ pc' = "pre-step" /\ UNCHANGED turns
        /\ UNCHANGED <<inStep, steps, failure>> /\ ~inStep
    BY <1>8 DEF Claim, BalanceInv
  <2>2. pc \in Running /\ pc' \in Running
    BY <2>1 DEF Running
  <2>3. InTurn(log)'
    <3>1. CASE inbox = <<>>
      BY <1>8, <1>a, <1>u, <2>1, <2>2, <3>1 DEF Claim
    <3>2. CASE inbox # <<>>
      <4> DEFINE e == Event("inbox/claim", Len(inbox))
      <4>1. e \in Events /\ e.ty = "inbox/claim" /\ Write(e)
        <5>1. Len(inbox) \in Nat
          BY DEF FlowTypeOK
        <5> QED  BY <1>8, <3>2, <5>1, EventIsEvent DEF Claim, Types
      <4> HIDE DEF e
      <4> QED  BY <1>a, <1>w, <2>1, <2>2, <4>1
    <3> QED  BY <3>1, <3>2
  <2> QED  BY <1>r, <2>1, <2>2, <2>3
<1>9. CASE PreStep
  <2>1. /\ pc = "pre-step" /\ pc' \in {"enter", "stopping"} /\ UNCHANGED <<turns, inStep, failure>>
        /\ log' = log /\ ~inStep
    BY <1>9 DEF PreStep, BalanceInv
  <2>2. pc \in Running /\ pc' \in Running
    BY <2>1 DEF Running
  <2>3. InTurn(log)'
    BY <1>a, <1>u, <2>1, <2>2
  <2> QED  BY <1>r, <2>1, <2>2, <2>3
<1>10. CASE StepStart
  <2> DEFINE e == Event("step/start", steps)
  <2>1. /\ pc = "enter" /\ pc' = "messages" /\ UNCHANGED <<turns, steps, failure>>
        /\ log' = Append(log, e) /\ ~inStep /\ inStep' = TRUE
    BY <1>10 DEF StepStart, BalanceInv, Write
  <2>2. e \in Events /\ e.ty = "step/start" /\ e.n = steps'
    BY <1>t, <2>1, EventIsEvent DEF Types
  <2> HIDE DEF e
  <2>3. Open(log, {turns}, {}, {})
    BY <1>a, <1>i, <2>1 DEF Running
  <2>4. Open(log', {turns'}, {steps'}, {})
    BY <1>t, <2>1, <2>2, <2>3, OpenAppend
  <2> QED  BY <1>r, <2>1, <2>4 DEF InTurn, AsksLeft, Running
<1>11. CASE UserMessage
  <2> DEFINE e == Event("user/message", Head(batch))
  <2>1. /\ pc = "messages" /\ pc' = "messages" /\ UNCHANGED <<turns, steps, inStep, failure>>
        /\ Write(e) /\ batch # <<>>
    BY <1>11 DEF UserMessage
  <2>2. e \in Events /\ e.ty = "user/message"
    <3>1. Head(batch) \in Nat
      BY <2>1 DEF FlowTypeOK
    <3> QED  BY <3>1, EventIsEvent DEF Types
  <2> HIDE DEF e
  <2>3. InTurn(log)'
    BY <1>a, <1>w, <2>1, <2>2 DEF Running
  <2> QED  BY <1>r, <2>1, <2>3 DEF Running
<1>12. ASSUME NEW asked \in Answers, NEW truncated \in BOOLEAN, Respond(asked, truncated)
       PROVE  BalanceInv'
  <2> DEFINE kept == IF truncated THEN <<>> ELSE asked
             e == Event("assistant/message", Len(kept))
  <2>1. /\ pc = "request" /\ pc' = "tools" /\ UNCHANGED <<turns, steps, inStep>> /\ failure' = FALSE
        /\ Write(e)
    BY <1>12 DEF Respond
  <2>2. e \in Events /\ e.ty = "assistant/message"
    <3>1. Len(kept) \in Nat
      <4>1. kept \in Seq(Kinds)
        OBVIOUS
      <4> HIDE DEF kept
      <4> QED  BY <4>1
    <3> QED  BY <3>1, EventIsEvent DEF Types
  <2> HIDE DEF e
  <2>3. InTurn(log)'
    BY <1>a, <1>w, <2>1, <2>2 DEF Running
  <2> QED  BY <1>r, <2>1, <2>3 DEF Running
<1>p. ASSUME pc = "tools", pc' = "tools", InTurn(log)' PROVE BalanceInv'
  BY <1>r, <1>p DEF Running
<1>m. ASSUME NEW i \in DOMAIN calls, NEW to, pc = "tools", Move(i, to), UNCHANGED failure
      PROVE  /\ UNCHANGED <<pc, turns, steps, inStep, calls>>
             /\ status[i] # "waiting" => AsksLeft \subseteq AsksLeft'
             /\ to = "waiting" => i \in AsksLeft'
             /\ AsksLeft \subseteq AsksLeft' \cup {i}
  <2>1. /\ UNCHANGED <<pc, turns, steps, inStep, calls>>
        /\ \A c \in DOMAIN calls : status'[c] = IF c = i THEN to ELSE status[c]
    BY <1>t, <1>m DEF Move
  <2>2. CASE failure
    BY <1>m, <1>t, <2>1, <2>2 DEF AsksLeft
  <2>3. CASE ~failure
    <3>1. AsksLeft = CallsAt({"waiting"}) /\ AsksLeft' = CallsAt({"waiting"})'
      BY <1>m, <2>1, <2>3 DEF AsksLeft
    <3> QED  BY <2>1, <3>1 DEF CallsAt
  <2> QED  BY <2>2, <2>3
<1>13. ASSUME NEW i \in DOMAIN calls, Push(i) \/ Settle(i) PROVE BalanceInv'
  <2>1. /\ pc = "tools" /\ pc' = "tools" /\ log' = log
        /\ UNCHANGED <<turns, steps, inStep>> /\ AsksLeft \subseteq AsksLeft'
    BY <1>13, <1>m DEF Push, Settle, Polling, MayPush
  <2>2. InTurn(log)'
    BY <1>u, <2>1 DEF Running
  <2> QED  BY <1>p, <2>1, <2>2
<1>14. ASSUME NEW i \in DOMAIN calls, Dispatch(i) \/ CommitResult(i) \/ CommitContext(i)
       PROVE  BalanceInv'
  <2>1. /\ pc = "tools" /\ pc' = "tools" /\ UNCHANGED <<turns, steps, inStep>>
        /\ AsksLeft \subseteq AsksLeft'
    BY <1>14, <1>m DEF Dispatch, CommitResult, CommitContext, Polling, Due
  <2>2. \/ log' = log
        \/ \E e \in Events : e.ty \in {"tool/call", "tool/result", "inbox/insert"} /\ Write(e)
    <3>1. i \in Nat /\ LastOf(log, "tool/call", i) \in Nat /\ Len(log) \in Nat
      BY <1>t, LastOfIsLast
    <3>2. CASE Dispatch(i)
      BY <3>1, <3>2, EventIsEvent DEF Dispatch, Types
    <3>3. CASE CommitResult(i)
      BY <3>1, <3>3, ResultIsEvent DEF CommitResult
    <3>4. CASE CommitContext(i)
      <4>1. CASE log' = log
        BY <4>1
      <4>2. CASE Write(Event("inbox/insert", Len(log)))
        <5> DEFINE e == Event("inbox/insert", Len(log))
        <5>1. e \in Events /\ e.ty = "inbox/insert" /\ Write(e)
          BY <3>1, <4>2, EventIsEvent DEF Types
        <5> QED  BY <5>1
      <4> QED  BY <3>4, <4>1, <4>2 DEF CommitContext
    <3> QED  BY <1>14, <3>2, <3>3, <3>4
  <2>3. InTurn(log)'
    BY <1>u, <1>w, <2>1, <2>2 DEF Running
  <2> QED  BY <1>p, <2>1, <2>3
<1>15. ASSUME NEW i \in DOMAIN calls, Ask(i) \/ Decide(i) PROVE BalanceInv'
  <2> DEFINE S == IF inStep THEN {steps} ELSE {}
             W == AsksLeft
             W2 == AsksLeft'
  <2>1. /\ pc = "tools" /\ pc' = "tools" /\ UNCHANGED <<turns, steps, inStep>>
    BY <1>15 DEF Ask, Decide, Polling, Move
  <2>2. Open(log, {turns}, S, W)
    BY <1>i, <2>1 DEF Running
  <2>3. Open(log', {turns}, S, W2)
    <3>1. CASE Ask(i)
      <4> DEFINE e == Event("approval/asked", i)
      <4>1. e \in Events /\ e.ty = "approval/asked" /\ e.n = i /\ log' = Append(log, e)
        BY <1>t, <3>1, EventIsEvent DEF Ask, Write, Types
      <4>2. W \subseteq W2 /\ i \in W2
        BY <1>m, <2>1, <3>1 DEF Ask
      <4> HIDE DEF e, S, W, W2
      <4> QED  BY <1>t, <2>2, <4>1, <4>2, OpenAppend
    <3>2. CASE Decide(i)
      <4> DEFINE e == Event("approval/decided", i)
      <4>1. e \in Events /\ e.ty = "approval/decided" /\ e.n = i /\ log' = Append(log, e)
        BY <1>t, <3>2, EventIsEvent DEF Decide, Write, Types
      <4>2. W \subseteq W2 \cup {e.n}
        BY <1>m, <2>1, <3>2, <4>1 DEF Decide
      <4> HIDE DEF e, S, W, W2
      <4> QED  BY <1>t, <2>2, <4>1, <4>2, OpenAppend
    <3> QED  BY <1>15, <3>1, <3>2
  <2>4. InTurn(log)'
    BY <2>1, <2>3 DEF InTurn
  <2> QED  BY <1>p, <2>1, <2>4
(* A fault of the group leaves any of its asks without a decision. *)
<1>15a. \A ids : CallsAt(ids) \subseteq Nat
  BY <1>t DEF CallsAt
<1>15b. AsksLeft \subseteq Nat
  BY <1>15a DEF AsksLeft
<1>15c. ASSUME NEW i \in DOMAIN calls, CallFails(i) PROVE BalanceInv'
  <2>1. /\ pc = "tools" /\ pc' = "tools" /\ log' = log /\ failure' = TRUE
        /\ UNCHANGED <<turns, steps, inStep>>
    BY <1>15c DEF CallFails, Polling, Move
  <2>2. AsksLeft' = Nat
    BY <2>1 DEF AsksLeft
  <2>3. InTurn(log)'
    BY <1>u, <1>15b, <2>1, <2>2 DEF Running
  <2> QED  BY <1>p, <2>1, <2>3
<1>15d. CASE GroupFailed
  <2>1. /\ pc = "tools" /\ pc' = "closing" /\ log' = log /\ reason' = "failed"
        /\ UNCHANGED <<turns, steps, inStep>>
    BY <1>15d DEF GroupFailed, Drained
  <2>2. AsksLeft' = Nat
    BY <2>1 DEF AsksLeft
  <2>3. InTurn(log)'
    BY <1>u, <1>15b, <2>1, <2>2 DEF Running
  <2> QED  BY <1>r, <2>1, <2>3 DEF Running
<1>16. CASE StepEnd \/ CloseStep
  <2> DEFINE e == Event("step/end", steps)
             S == IF inStep THEN {steps} ELSE {}
             W == AsksLeft
             W2 == AsksLeft'
  <2>1. /\ pc \in {"tools", "closing"} /\ pc' \in {"settle", "closing"}
        /\ UNCHANGED <<turns, steps>> /\ inStep' = FALSE /\ log' = Append(log, e)
    BY <1>16 DEF StepEnd, CloseStep, Drained, Write
  <2>2. e \in Events /\ e.ty = "step/end" /\ e.n = steps
    BY <1>t, EventIsEvent DEF Types
  <2>3. Open(log, {turns}, S, W)
    BY <1>i, <2>1 DEF Running
  <2>4. S \subseteq {e.n} /\ W \subseteq W2
    <3>1. S \subseteq {e.n}
      BY <2>2
    <3>2. CASE StepEnd
      BY <3>1, <3>2 DEF StepEnd, Drained, CallsAt, AsksLeft
    <3>3. CASE CloseStep
      BY <3>1, <3>3 DEF CloseStep, AsksLeft
    <3> QED  BY <1>16, <3>2, <3>3
  <2> HIDE DEF e, S, W, W2
  <2>5. Open(log', {turns}, {}, W2)
    BY <1>t, <2>1, <2>2, <2>3, <2>4, OpenAppend
  <2> QED  BY <1>r, <2>1, <2>5 DEF InTurn, Running, W2
<1>17. CASE Boundary
  <2>1. /\ pc = "settle" /\ pc' \in {"boundary", "stopping"} /\ log' = log
        /\ UNCHANGED <<turns, inStep, steps>> /\ ~inStep
    BY <1>17 DEF Boundary, BalanceInv
  <2>2. InTurn(log)'
    BY <1>a, <1>u, <2>1 DEF Running
  <2> QED  BY <1>r, <2>1, <2>2 DEF Running
<1>18. CASE CloseTurn
  <2> DEFINE e == TurnEnd(turns, reason)
             W == AsksLeft
  <2>1. /\ pc = "closing" /\ pc' = "idle" /\ ~inStep /\ log' = Append(log, e)
    BY <1>18 DEF CloseTurn, Write
  <2>2. e \in Events /\ e.ty = "turn/end" /\ e.n = turns /\ (e.failed <=> reason = "failed")
    BY <1>t, TurnEndIsEvent
  <2>3. Open(log, {turns}, {}, W)
    BY <1>i, <2>1 DEF Running
  <2>3a. W = {} \/ e.failed
    BY <2>1, <2>2 DEF AsksLeft
  <2> HIDE DEF e, W
  <2>4. Balanced(log')
    BY <1>t, <2>1, <2>2, <2>3, <2>3a, BalancedFromOpen
  <2>5. closers' = <<>> /\ log' \o closers' = log'
    BY <1>t, <1>c, <2>1, NoClosers
  <2>6. EndsLast(log', closers')
    BY <2>5 DEF EndsLast
  <2> QED  BY <2>1, <2>4, <2>5, <2>6 DEF BalanceInv, Running
<1>19. CASE Fault
  <2>1. /\ pc \in Running /\ pc # "closing"
        /\ pc' = "closing" /\ reason' = "failed" /\ log' = log
        /\ UNCHANGED <<turns, inStep, steps>>
    BY <1>19, <1>f DEF Fault, Running
  <2>2. AsksLeft' = Nat
    BY <2>1 DEF AsksLeft
  <2>3. InTurn(log)'
    BY <1>u, <1>15b, <2>1, <2>2
  <2> QED  BY <1>r, <2>1, <2>3 DEF Running
<1>19a. CASE StartRefused
  <2>1. pc = "idle" /\ UNCHANGED <<log, pc, closers>>
    BY <1>19a DEF StartRefused
  <2> QED  BY <2>1 DEF BalanceInv, EndsLast, Running
<1>20. CASE Interrupt
  <2>1. UNCHANGED <<log, pc, turns, memory, closers>>
    BY <1>20 DEF Interrupt
  <2>2. InTurn(log)' <=> InTurn(log)
    BY <2>1 DEF InTurn, AsksLeft, CallsAt, memory
  <2> QED  BY <2>1, <2>2 DEF BalanceInv, EndsLast, memory
<1> QED
  BY <1>1, <1>2, <1>3, <1>4, <1>5, <1>6, <1>7, <1>8, <1>9, <1>10, <1>11, <1>12, <1>13,
     <1>14, <1>15, <1>15c, <1>15d, <1>16, <1>17, <1>18, <1>19, <1>19a, <1>20 DEF Next, Progress, Pool

(* A session that runs no turn has a journal on which every turn and step  *)
(* is closed and every ask decided or of a turn that says it failed, after *)
(* any interleaving of calls, interrupts, crashes and repairs, any append  *)
(* the run or a call fails to make and any panic of a tool or a listener,  *)
(* as long as the journal takes the snapshot and the closers (close,       *)
(* interrupted_turn_closers).                                              *)
THEOREM IdleIsBalanced ==
  ASSUME Faults \subseteq {"start", "run", "tools"}
  PROVE  Spec => []BalancedWhenIdle
<1> DEFINE Inv == FlowTypeOK /\ BalanceInv
<1>1. Init => Inv
  BY TypeInit, BalanceInit
<1>2. Inv /\ [Next]_vars => Inv'
  BY TypeNext, BalanceNext
<1>3. Inv => BalancedWhenIdle
  <2> SUFFICES ASSUME Inv, pc = "idle" PROVE Balanced(log)
    BY DEF BalancedWhenIdle
  <2>1. log \in Seq(Events) /\ closers = <<>>
    BY DEF FlowTypeOK
  <2> QED  BY <2>1, NoClosers DEF BalanceInv
<1> QED  BY <1>1, <1>2, <1>3, PTL DEF Spec
=============================================================================
