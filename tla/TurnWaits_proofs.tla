-------------------------- MODULE TurnWaits_proofs --------------------------
(***************************************************************************)
(* What a turn waits for is settled once, for any calls, answers, retries, *)
(* turns, interrupts and deaths.                                           *)
(*                                                                         *)
(* The journal's part of the invariants is stated of any sequence of       *)
(* events, so that what one more event means to it is a lemma of its own.  *)
(***************************************************************************)
EXTENDS TurnWaits, Listing_proofs

-----------------------------------------------------------------------------
(* One more event. *)

AtIn(l, ty) == {i \in DOMAIN l : l[i].ty = ty}

Grown(m, l, e) ==
  /\ Len(l) \in Nat /\ DOMAIN l = 1 .. Len(l)
  /\ DOMAIN m = 1 .. Len(l) + 1 /\ Len(m) = Len(l) + 1
  /\ \A k \in 1 .. Len(l) : m[k] = l[k]
  /\ m[Len(l) + 1] = e

LEMMA OwnSeq ==
  ASSUME NEW T, NEW s \in Seq(T)
  PROVE  s \in Seq(ToSet(s))
<1>1. Len(s) \in Nat /\ DOMAIN s = 1 .. Len(s) /\ s = [k \in 1 .. Len(s) |-> s[k]]
  OBVIOUS
<1>2. \A k \in 1 .. Len(s) : s[k] \in ToSet(s)
  BY <1>1 DEF ToSet
<1> QED  BY <1>1, <1>2

LEMMA AppendGrows ==
  ASSUME NEW l, NEW e, l \in Seq(ToSet(l))
  PROVE  Append(l, e) \in Seq(ToSet(Append(l, e))) /\ Grown(Append(l, e), l, e)
<1> DEFINE m == Append(l, e)
           T == ToSet(l) \cup {e}
<1>1. l \in Seq(T) /\ e \in T
  <2>1. DOMAIN l = 1 .. Len(l) /\ Len(l) \in Nat /\ \A k \in 1 .. Len(l) : l[k] \in T
    OBVIOUS
  <2> QED  BY <2>1
<1> HIDE DEF T
<1>2. /\ m \in Seq(T) /\ Len(l) \in Nat /\ DOMAIN l = 1 .. Len(l)
      /\ DOMAIN m = 1 .. Len(l) + 1 /\ Len(m) = Len(l) + 1
      /\ \A k \in 1 .. Len(l) : m[k] = l[k]
      /\ m[Len(l) + 1] = e
  BY <1>1
<1> HIDE DEF m
<1>3. m \in Seq(ToSet(m))
  BY <1>2, OwnSeq
<1> QED  BY <1>2, <1>3 DEF Grown, m

LEMMA AtGrows ==
  ASSUME NEW l, NEW m, NEW e, Grown(m, l, e), NEW ty
  PROVE  /\ AtIn(m, ty) = IF e.ty = ty THEN AtIn(l, ty) \cup {Len(l) + 1} ELSE AtIn(l, ty)
         /\ IsFiniteSet(AtIn(l, ty)) /\ Cardinality(AtIn(l, ty)) \in Nat
         /\ AtIn(l, ty) \subseteq 1 .. Len(l)
         /\ Cardinality(AtIn(m, ty)) =
              IF e.ty = ty THEN Cardinality(AtIn(l, ty)) + 1 ELSE Cardinality(AtIn(l, ty))
<1> DEFINE n == Len(l)
           A == AtIn(l, ty)
<1>1. n \in Nat /\ DOMAIN l = 1 .. n /\ DOMAIN m = 1 .. n + 1 /\ m[n + 1] = e
      /\ \A k \in 1 .. n : m[k] = l[k]
  BY DEF Grown
<1>2. A \subseteq 1 .. n
  BY <1>1 DEF AtIn
<1>3. AtIn(m, ty) = IF e.ty = ty THEN A \cup {n + 1} ELSE A
  BY <1>1 DEF AtIn
<1>4. IsFiniteSet(A) /\ Cardinality(A) \in Nat
  <2>1. IsFiniteSet(1 .. n)
    BY <1>1, FS_Interval
  <2>2. IsFiniteSet(A)
    BY <1>2, <2>1, FS_Subset
  <2> QED  BY <2>2, FS_CardinalityType
<1>5. n + 1 \notin A
  BY <1>1, <1>2
<1>6. Cardinality(A \cup {n + 1}) = Cardinality(A) + 1
  BY <1>4, <1>5, FS_AddElement
<1> QED  BY <1>2, <1>3, <1>4, <1>6

(* The greatest number of a set, or 0. *)
LEMMA LatestIs ==
  ASSUME NEW n \in Nat, NEW S \in SUBSET (1 .. n)
  PROVE  /\ Latest(S) \in S \cup {0} /\ Latest(S) \in 0 .. n
         /\ \A k \in S : k <= Latest(S)
         /\ Latest(S) = 0 <=> S = {}
<1> DEFINE Z == S \cup {0}
           U == {b \in 0 .. n : \A k \in Z : k <= b}
<1>1. n \in U /\ U \in SUBSET Nat
  OBVIOUS
<1>2. PICK b \in U : \A c \in U : b <= c
  <2> HIDE DEF U
  <2> QED  BY <1>1, Least
<1>3. b \in Z
  <2>1. SUFFICES ASSUME b \notin Z PROVE FALSE
    OBVIOUS
  <2>2. b >= 1 /\ \A k \in Z : k <= b - 1
    BY <1>2, <2>1
  <2>3. b - 1 \in U
    BY <1>2, <2>2
  <2> QED  BY <1>2, <2>3
<1>4. \A k \in Z : b >= k
  BY <1>2
<1> DEFINE m == Latest(S)
<1>5. m \in Z /\ \A k \in Z : m >= k
  BY <1>3, <1>4 DEF Latest, Max
<1> HIDE DEF m
<1>6. m \in 0 .. n /\ m \in S \cup {0} /\ \A k \in S : k \in 1 .. n /\ k <= m
  BY <1>5
<1> QED  BY <1>6 DEF m

LEMMA LatestIsNew ==
  ASSUME NEW n \in Nat, NEW S \in SUBSET (1 .. n)
  PROVE  Latest(S \cup {n + 1}) = n + 1
<1>1. n + 1 \in Nat /\ S \cup {n + 1} \in SUBSET (1 .. n + 1)
  OBVIOUS
<1> DEFINE T == S \cup {n + 1}
<1>2. n + 1 \in T
  OBVIOUS
<1>3. T \in SUBSET (1 .. n + 1)
  BY <1>1
<1> HIDE DEF T
<1>4. Latest(T) \in 0 .. n + 1 /\ n + 1 <= Latest(T)
  BY <1>1, <1>2, <1>3, LatestIs
<1> QED  BY <1>4 DEF T

-----------------------------------------------------------------------------
(* The retries of one step. *)

OfIn(l, ty, key) == {i \in AtIn(l, ty) : l[i].key = key}
LastIn(l, key) ==
  LET i == Latest(OfIn(l, "llm/retry", key)) IN IF i = 0 THEN 0 ELSE l[i].says

(* The step recorded the retries 1 to n and started a number of them.      *)
Counted(l, key, started, n) ==
  /\ Cardinality(OfIn(l, "llm/retry-started", key)) = started
  /\ {l[i].says : i \in OfIn(l, "llm/retry", key)} = 1 .. n
  /\ LastIn(l, key) = n

RetryTypes == {"llm/retry", "llm/retry-started"}

LEMMA OfGrows ==
  ASSUME NEW l, NEW m, NEW e, Grown(m, l, e), NEW ty, NEW key
  PROVE  /\ OfIn(l, ty, key) \in SUBSET (1 .. Len(l)) /\ Len(l) \in Nat
         /\ IsFiniteSet(OfIn(l, ty, key)) /\ Cardinality(OfIn(l, ty, key)) \in Nat
         /\ e.ty = ty /\ e.key = key => OfIn(m, ty, key) = OfIn(l, ty, key) \cup {Len(l) + 1}
         /\ e.ty # ty \/ e.key # key => OfIn(m, ty, key) = OfIn(l, ty, key)
         /\ \A i \in OfIn(l, ty, key) : m[i] = l[i]
<1> DEFINE n == Len(l)
<1>1. n \in Nat /\ DOMAIN l = 1 .. n /\ DOMAIN m = 1 .. n + 1 /\ m[n + 1] = e
      /\ \A k \in 1 .. n : m[k] = l[k]
  BY DEF Grown
<1>2. OfIn(l, ty, key) \in SUBSET (1 .. n)
  BY <1>1 DEF OfIn, AtIn
<1>3. IsFiniteSet(OfIn(l, ty, key)) /\ Cardinality(OfIn(l, ty, key)) \in Nat
  <2>1. IsFiniteSet(1 .. n)
    BY <1>1, FS_Interval
  <2>2. IsFiniteSet(OfIn(l, ty, key))
    BY <1>2, <2>1, FS_Subset
  <2> QED  BY <2>2, FS_CardinalityType
<1>4. e.ty = ty /\ e.key = key => OfIn(m, ty, key) = OfIn(l, ty, key) \cup {n + 1}
  BY <1>1 DEF OfIn, AtIn
<1>5. e.ty # ty \/ e.key # key => OfIn(m, ty, key) = OfIn(l, ty, key)
  BY <1>1 DEF OfIn, AtIn
<1> QED  BY <1>1, <1>2, <1>3, <1>4, <1>5

(* An event of another kind, or of another step, counts for nothing.       *)
LEMMA CountStays ==
  ASSUME NEW l, NEW m, NEW e, Grown(m, l, e), NEW key, NEW s, NEW n, Counted(l, key, s, n),
         e.ty \notin RetryTypes \/ e.key # key
  PROVE  Counted(m, key, s, n)
<1> DEFINE R == OfIn(l, "llm/retry", key)
           T == OfIn(l, "llm/retry-started", key)
<1>1. OfIn(m, "llm/retry", key) = R /\ \A i \in R : m[i] = l[i]
  BY OfGrows DEF RetryTypes
<1>2. OfIn(m, "llm/retry-started", key) = T
  BY OfGrows DEF RetryTypes
<1>3. R \in SUBSET (1 .. Len(l)) /\ Len(l) \in Nat
  BY OfGrows
<1>4. Cardinality(T) = s /\ {l[i].says : i \in R} = 1 .. n /\ LastIn(l, key) = n
  BY DEF Counted
<1>5. LastIn(l, key) = IF Latest(R) = 0 THEN 0 ELSE l[Latest(R)].says
  BY DEF LastIn
<1>6. LastIn(m, key) = IF Latest(R) = 0 THEN 0 ELSE m[Latest(R)].says
  BY <1>1 DEF LastIn
<1> HIDE DEF R, T
<1>7. Latest(R) \in R \cup {0}
  BY <1>3, LatestIs
<1>8. LastIn(m, key) = n
  BY <1>1, <1>4, <1>5, <1>6, <1>7
<1>9. {m[i].says : i \in R} = 1 .. n
  BY <1>1, <1>4
<1> QED  BY <1>1, <1>2, <1>4, <1>8, <1>9 DEF Counted

LEMMA CountRetry ==
  ASSUME NEW l, NEW m, NEW e, Grown(m, l, e), NEW key, NEW s, NEW n \in Nat, Counted(l, key, s, n),
         e = Event("llm/retry", key, n + 1)
  PROVE  Counted(m, key, s, n + 1)
<1> DEFINE R == OfIn(l, "llm/retry", key)
           T == OfIn(l, "llm/retry-started", key)
           k == Len(l) + 1
<1>0. e.ty = "llm/retry" /\ e.key = key /\ e.says = n + 1
  BY DEF Event
<1>1. OfIn(m, "llm/retry", key) = R \cup {k} /\ \A i \in R : m[i] = l[i]
  BY <1>0, OfGrows
<1>2. OfIn(m, "llm/retry-started", key) = T
  BY <1>0, OfGrows
<1>3. R \in SUBSET (1 .. Len(l)) /\ Len(l) \in Nat /\ m[k] = e
  BY OfGrows DEF Grown
<1>4. Cardinality(T) = s /\ {l[i].says : i \in R} = 1 .. n
  BY DEF Counted
<1>5. Latest(R \cup {k}) = k
  <2> HIDE DEF R
  <2> QED  BY <1>3, LatestIsNew
<1>6. LastIn(m, key) = n + 1
  <2>1. LastIn(m, key) = IF Latest(R \cup {k}) = 0 THEN 0 ELSE m[Latest(R \cup {k})].says
    BY <1>1 DEF LastIn
  <2> HIDE DEF R
  <2>2. k # 0
    BY <1>3
  <2> QED  BY <1>0, <1>3, <1>5, <2>1, <2>2
<1>7. {m[i].says : i \in R \cup {k}} = 1 .. n + 1
  <2>1. {m[i].says : i \in R} = 1 .. n
    BY <1>1, <1>4
  <2>2. {m[i].says : i \in R \cup {k}} = {m[i].says : i \in R} \cup {n + 1}
    BY <1>0, <1>3
  <2> QED  BY <2>1, <2>2
<1> QED  BY <1>1, <1>2, <1>4, <1>6, <1>7 DEF Counted

LEMMA CountStarted ==
  ASSUME NEW l, NEW m, NEW e, Grown(m, l, e), NEW key, NEW s, NEW n, Counted(l, key, s, n),
         e.ty = "llm/retry-started", e.key = key
  PROVE  Counted(m, key, s + 1, n)
<1> DEFINE R == OfIn(l, "llm/retry", key)
           T == OfIn(l, "llm/retry-started", key)
           k == Len(l) + 1
<1>1. OfIn(m, "llm/retry", key) = R /\ \A i \in R : m[i] = l[i]
  BY OfGrows
<1>2. OfIn(m, "llm/retry-started", key) = T \cup {k}
  BY OfGrows
<1>3. /\ R \in SUBSET (1 .. Len(l)) /\ Len(l) \in Nat
      /\ T \in SUBSET (1 .. Len(l)) /\ IsFiniteSet(T)
  BY OfGrows
<1>4. Cardinality(T) = s /\ {l[i].says : i \in R} = 1 .. n /\ LastIn(l, key) = n
  BY DEF Counted
<1>5. Cardinality(T \cup {k}) = s + 1
  <2> HIDE DEF T
  <2>1. k \notin T
    BY <1>3
  <2>2. Cardinality(T \cup {k}) = Cardinality(T) + 1
    BY <1>3, <2>1, FS_AddElement
  <2> QED  BY <1>4, <2>2
<1>6. LastIn(l, key) = IF Latest(R) = 0 THEN 0 ELSE l[Latest(R)].says
  BY DEF LastIn
<1>7. LastIn(m, key) = IF Latest(R) = 0 THEN 0 ELSE m[Latest(R)].says
  BY <1>1 DEF LastIn
<1> HIDE DEF R, T
<1>8. Latest(R) \in R \cup {0}
  BY <1>3, LatestIs
<1>9. LastIn(m, key) = n
  BY <1>1, <1>4, <1>6, <1>7, <1>8
<1>10. {m[i].says : i \in R} = 1 .. n
  BY <1>1, <1>4
<1> QED  BY <1>1, <1>2, <1>5, <1>9, <1>10 DEF Counted, R, T

LEMMA CountNone ==
  ASSUME NEW l, NEW key, OfIn(l, "llm/retry", key) = {}, OfIn(l, "llm/retry-started", key) = {}
  PROVE  Counted(l, key, 0, 0)
<1>1. Latest({}) = 0
  BY LatestIs
<1>2. LastIn(l, key) = 0
  BY <1>1 DEF LastIn
<1>3. Cardinality({}) = 0
  BY FS_EmptySet
<1> QED  BY <1>2, <1>3 DEF Counted

-----------------------------------------------------------------------------
(* What repair has yet to write. *)

AskTypes == {"approval/asked", "question/asked"}
ClosedTypes == {"approval/decided", "question/answered"}

(* The asks of one type that a repair closes. *)
Left(ty) == {i \in At(ty) : /\ i > Latest(At("turn/start"))
                            /\ ~\E j \in At(ClosedType(ty)) : log[j].key = log[i].key}

Closing(ty, i) == Event(ClosedType(ty), log[i].key, Withdrawn(ty))

LEMMA ClosesIs ==
  ASSUME log \in Seq(ToSet(log)), NEW ty
  PROVE  /\ Closes(ty) \in Seq(ToSet(Closes(ty))) /\ DOMAIN Closes(ty) = DOMAIN InOrder(Left(ty))
         /\ \A k \in DOMAIN Closes(ty) :
              InOrder(Left(ty))[k] \in Left(ty) /\ Closes(ty)[k] = Closing(ty, InOrder(Left(ty))[k])
         /\ \A i \in Left(ty) : \E k \in DOMAIN Closes(ty) : InOrder(Left(ty))[k] = i
         /\ \A j, k \in DOMAIN Closes(ty) : j < k => InOrder(Left(ty))[j] < InOrder(Left(ty))[k]
<1> DEFINE o == InOrder(Left(ty))
           C == Closes(ty)
<1>1. Len(log) \in Nat /\ DOMAIN log = 1 .. Len(log)
  OBVIOUS
<1>2. Left(ty) \in SUBSET (1 .. Len(log))
  BY <1>1 DEF Left, At
<1>3. /\ o \in Seq(Left(ty)) /\ DOMAIN o = 1 .. Len(o)
      /\ \A i \in Left(ty) : \E k \in DOMAIN o : o[k] = i
      /\ \A j, k \in DOMAIN o : j < k => o[j] < o[k]
  BY <1>1, <1>2, InOrderLists
<1>4. Open(ty) = o
  BY DEF Open, Left
<1> HIDE DEF o
<1>5. C = [k \in DOMAIN o |-> Closing(ty, o[k])]
  BY <1>4 DEF Closes, Closing
<1> HIDE DEF C
<1>6. DOMAIN C = DOMAIN o /\ \A k \in DOMAIN C : o[k] \in Left(ty) /\ C[k] = Closing(ty, o[k])
  BY <1>3, <1>5
<1>7. C \in Seq(ToSet(C))
  <2>1. \A k \in DOMAIN C : C[k] \in ToSet(C)
    BY DEF ToSet
  <2>2. DOMAIN C = 1 .. Len(o) /\ Len(o) \in Nat
    BY <1>3, <1>6
  <2>3. C = [k \in 1 .. Len(o) |-> C[k]]
    BY <1>3, <1>5, <1>6
  <2>4. C \in [1 .. Len(o) -> ToSet(C)]
    BY <2>1, <2>2, <2>3
  <2> QED  BY <2>2, <2>4
<1> QED  BY <1>3, <1>6, <1>7 DEF o, C

(* The closers: one for each ask that is left, and the turn's end.         *)
LEMMA MissingIs ==
  ASSUME log \in Seq(ToSet(log)), HasOpenTurn
  PROVE  /\ Missing \in Seq(ToSet(Missing)) /\ Len(Missing) >= 1
         /\ Missing[Len(Missing)].ty = "turn/end"
         /\ \A k \in 1 .. Len(Missing) - 1 :
              \E ty \in AskTypes : \E i \in Left(ty) : Missing[k] = Closing(ty, i)
         /\ \A ty \in AskTypes : \A i \in Left(ty) :
              \E k \in 1 .. Len(Missing) - 1 : Missing[k] = Closing(ty, i)
         /\ (\A ty \in AskTypes : \A i, j \in Left(ty) : log[i].key = log[j].key => i = j) =>
              \A j, k \in 1 .. Len(Missing) - 1 :
                 Missing[j].ty = Missing[k].ty /\ Missing[j].key = Missing[k].key => j = k
<1> DEFINE e == Event("turn/end", log[Latest(At("turn/start"))].key, Nothing)
           a == Closes("approval/asked")
           q == Closes("question/asked")
           oa == InOrder(Left("approval/asked"))
           oq == InOrder(Left("question/asked"))
           na == Len(a)
           nq == Len(q)
           M == Missing
<1>1. M = a \o q \o <<e>>
  BY DEF Missing
<1>2. e.ty = "turn/end"
  BY DEF Event
<1>3. /\ a \in Seq(ToSet(a)) /\ DOMAIN a = DOMAIN oa
      /\ \A k \in DOMAIN a : oa[k] \in Left("approval/asked") /\ a[k] = Closing("approval/asked", oa[k])
      /\ \A i \in Left("approval/asked") : \E k \in DOMAIN a : oa[k] = i
      /\ \A j, k \in DOMAIN a : j < k => oa[j] < oa[k]
  BY ClosesIs
<1>4. /\ q \in Seq(ToSet(q)) /\ DOMAIN q = DOMAIN oq
      /\ \A k \in DOMAIN q : oq[k] \in Left("question/asked") /\ q[k] = Closing("question/asked", oq[k])
      /\ \A i \in Left("question/asked") : \E k \in DOMAIN q : oq[k] = i
      /\ \A j, k \in DOMAIN q : j < k => oq[j] < oq[k]
  BY ClosesIs
<1> DEFINE T == ToSet(a) \cup ToSet(q) \cup {e}
<1>5. /\ na \in Nat /\ nq \in Nat /\ DOMAIN a = 1 .. na /\ DOMAIN q = 1 .. nq
      /\ a \in Seq(T) /\ q \in Seq(T) /\ <<e>> \in Seq(T)
  <2>1. na \in Nat /\ nq \in Nat /\ DOMAIN a = 1 .. na /\ DOMAIN q = 1 .. nq
    BY <1>3, <1>4
  <2>2. (\A k \in 1 .. na : a[k] \in T) /\ (\A k \in 1 .. nq : q[k] \in T) /\ e \in T
    BY <2>1 DEF ToSet
  <2> HIDE DEF T, e, a, q
  <2> QED  BY <1>3, <1>4, <2>1, <2>2
<1>6. \A i \in Left("approval/asked") : Closing("approval/asked", i).ty = "approval/decided"
                                     /\ Closing("approval/asked", i).key = log[i].key
  BY DEF Closing, Event, ClosedType
<1>7. \A i \in Left("question/asked") : Closing("question/asked", i).ty = "question/answered"
                                     /\ Closing("question/asked", i).key = log[i].key
  BY DEF Closing, Event, ClosedType
<1>8. Left("approval/asked") \subseteq 1 .. Len(log) /\ Left("question/asked") \subseteq 1 .. Len(log)
      /\ Len(log) \in Nat
  BY DEF Left, At
<1> HIDE DEF e, a, q, oa, oq, T, M
<1>9. /\ M \in Seq(T) /\ Len(M) = na + nq + 1 /\ DOMAIN M = 1 .. na + nq + 1
      /\ \A k \in 1 .. na : M[k] = a[k]
      /\ \A k \in 1 .. nq : M[na + k] = q[k]
      /\ M[na + nq + 1] = e
  BY <1>1, <1>5
<1> HIDE DEF na, nq
<1>10. M \in Seq(ToSet(M))
  BY <1>9, OwnSeq
<1>11. \A k \in 1 .. na + nq : k \in 1 .. na \/ (k - na \in 1 .. nq /\ k = na + (k - na))
  BY <1>5
<1>12. \A k \in 1 .. na + nq : \E ty \in AskTypes : \E i \in Left(ty) : M[k] = Closing(ty, i)
  <2> TAKE k \in 1 .. na + nq
  <2>1. CASE k \in 1 .. na
    BY <1>3, <1>5, <1>9, <2>1 DEF AskTypes
  <2>2. CASE k - na \in 1 .. nq /\ k = na + (k - na)
    <3>1. M[k] = q[k - na] /\ k - na \in DOMAIN q
      BY <1>5, <1>9, <2>2
    <3> QED  BY <1>4, <3>1 DEF AskTypes
  <2> QED  BY <1>11, <2>1, <2>2
<1>13. \A ty \in AskTypes : \A i \in Left(ty) : \E k \in 1 .. na + nq : M[k] = Closing(ty, i)
  <2>1. \A i \in Left("approval/asked") : \E k \in 1 .. na + nq : M[k] = Closing("approval/asked", i)
    <3> TAKE i \in Left("approval/asked")
    <3>1. PICK k \in DOMAIN a : oa[k] = i
      BY <1>3
    <3>2. k \in 1 .. na + nq /\ M[k] = Closing("approval/asked", i)
      BY <1>3, <1>5, <1>9, <3>1
    <3> QED  BY <3>2
  <2>2. \A i \in Left("question/asked") : \E k \in 1 .. na + nq : M[k] = Closing("question/asked", i)
    <3> TAKE i \in Left("question/asked")
    <3>1. PICK k \in DOMAIN q : oq[k] = i
      BY <1>4
    <3>2. na + k \in 1 .. na + nq /\ M[na + k] = Closing("question/asked", i)
      BY <1>4, <1>5, <1>9, <3>1
    <3> QED  BY <3>2
  <2> QED  BY <2>1, <2>2 DEF AskTypes
<1>14. ASSUME \A ty \in AskTypes : \A i, j \in Left(ty) : log[i].key = log[j].key => i = j,
              NEW j \in 1 .. na + nq, NEW k \in 1 .. na + nq,
              M[j].ty = M[k].ty, M[j].key = M[k].key
       PROVE  j = k
  <2>1. \A i \in 1 .. na : M[i].ty = "approval/decided" /\ oa[i] \in Left("approval/asked")
                        /\ M[i].key = log[oa[i]].key
    <3> TAKE i \in 1 .. na
    <3>1. oa[i] \in Left("approval/asked") /\ a[i] = Closing("approval/asked", oa[i]) /\ M[i] = a[i]
      BY <1>3, <1>5, <1>9
    <3> QED  BY <1>6, <3>1
  <2>2. \A i \in 1 .. nq : M[na + i].ty = "question/answered" /\ oq[i] \in Left("question/asked")
                        /\ M[na + i].key = log[oq[i]].key
    <3> TAKE i \in 1 .. nq
    <3>1. oq[i] \in Left("question/asked") /\ q[i] = Closing("question/asked", oq[i])
          /\ M[na + i] = q[i]
      BY <1>4, <1>5, <1>9
    <3> QED  BY <1>7, <3>1
  <2>3. \A ty \in AskTypes : Left(ty) \subseteq 1 .. Len(log)
    BY <1>8 DEF AskTypes
  <2>4. CASE j \in 1 .. na /\ k \in 1 .. na
    <3>1. oa[j] = oa[k]
      BY <1>14, <2>1, <2>4 DEF AskTypes
    <3>2. ~(j < k) /\ ~(k < j)
      <4>1. oa[j] \in Nat /\ oa[k] \in Nat
        BY <1>8, <2>1, <2>4
      <4>2. (j < k => oa[j] < oa[k]) /\ (k < j => oa[k] < oa[j])
        BY <1>3, <1>5, <2>4
      <4> QED  BY <3>1, <4>1, <4>2
    <3> QED  BY <2>4, <3>2, <1>5
  <2>5. CASE j - na \in 1 .. nq /\ k - na \in 1 .. nq
    <3> DEFINE x == j - na
               y == k - na
    <3>0. j = na + x /\ k = na + y /\ x \in 1 .. nq /\ y \in 1 .. nq
      BY <1>5, <2>5
    <3> HIDE DEF x, y
    <3>1. oq[x] = oq[y]
      BY <1>14, <2>2, <3>0 DEF AskTypes
    <3>2. ~(x < y) /\ ~(y < x)
      <4>1. oq[x] \in Nat /\ oq[y] \in Nat
        BY <1>8, <2>2, <3>0
      <4>2. (x < y => oq[x] < oq[y]) /\ (y < x => oq[y] < oq[x])
        BY <1>4, <1>5, <3>0
      <4> QED  BY <3>1, <4>1, <4>2
    <3> QED  BY <3>0, <3>2, <1>5
  <2>6. \A i \in 1 .. na : \A h \in 1 .. nq : M[i].ty # M[na + h].ty
    BY <2>1, <2>2
  <2>7. CASE j \in 1 .. na /\ k - na \in 1 .. nq /\ k = na + (k - na)
    BY <1>14, <2>6, <2>7
  <2>8. CASE k \in 1 .. na /\ j - na \in 1 .. nq /\ j = na + (j - na)
    BY <1>14, <2>6, <2>8
  <2> QED  BY <1>11, <2>4, <2>5, <2>7, <2>8
<1>15. Len(M) - 1 = na + nq /\ Len(M) >= 1 /\ M[Len(M)] = e
  BY <1>5, <1>9
<1>16. (\A ty \in AskTypes : \A i, j \in Left(ty) : log[i].key = log[j].key => i = j) =>
         \A j, k \in 1 .. na + nq : M[j].ty = M[k].ty /\ M[j].key = M[k].key => j = k
  BY <1>14
<1> QED  BY <1>2, <1>10, <1>12, <1>13, <1>15, <1>16 DEF M

-----------------------------------------------------------------------------
(* Requests and retries. *)

Running == {"sending", "tools", "closing", "failed", "scheduled", "backoff", "elapsed", "retry"}
Places == Running \cup {"down", "repair", "idle"}
Sending == {"sending", "failed"}
Waiting == {"scheduled", "backoff", "elapsed"}

Starts(l) == Cardinality(AtIn(l, "turn/start"))

(* A retry's key is a turn and a step of it, no later than these.          *)
UpTo(key, t, s) == \E a, b \in Nat : key = <<a, b>> /\ (a < t \/ (a = t /\ b <= s))
KeyedUpTo(l, t, s) == \A i \in DOMAIN l : l[i].ty \in RetryTypes => UpTo(l[i].key, t, s)
KeyedIn(l, t) == \A i \in DOMAIN l : l[i].ty \in RetryTypes =>
                   \E a, b \in Nat : l[i].key = <<a, b>> /\ a <= t

TaskTyped ==
  /\ log \in Seq(ToSet(log)) /\ closers \in Seq(ToSet(closers))
  /\ pc \in Places /\ turn \in Nat /\ step \in Nat /\ sent \in Nat
  /\ \A k \in DOMAIN closers : closers[k].ty \in ClosedTypes \cup {"turn/end"}

(* A step's first request and its retries are counted by its own records.  *)
Tally ==
  /\ pc \in Sending => /\ sent >= 1 /\ Counted(log, Here, sent - 1, sent - 1)
                       /\ mode = "normal" => sent - 1 <= MaxRetries
  /\ pc \in Waiting => /\ sent >= 1 /\ Counted(log, Here, sent - 1, sent)
                       /\ mode = "normal" => sent <= MaxRetries
  /\ pc = "retry" => /\ Counted(log, Here, sent, sent)
                     /\ mode = "normal" => sent <= MaxRetries

RetryInv ==
  /\ TaskTyped /\ KeyedIn(log, Starts(log))
  /\ pc \in Running => turn = Starts(log) /\ KeyedUpTo(log, turn, step)
  /\ Tally

(* A step that keeps its place among the requests and records no retry.    *)
LEMMA TallyStays ==
  ASSUME RetryInv, UNCHANGED <<turn, step, sent, mode>>,
         log' = log \/ \E e : e.ty \notin RetryTypes \cup {"turn/start"} /\ Write(e),
         closers' \in Seq(ToSet(closers')),
         \A k \in DOMAIN closers' : closers'[k].ty \in ClosedTypes \cup {"turn/end"},
         \/ pc' = pc \/ pc' \in {"down", "repair", "idle"}
         \/ pc \in Running /\ pc' \in {"tools", "closing"}
         \/ pc \in Sending /\ pc' \in Sending
         \/ pc \in Waiting /\ pc' \in Waiting
  PROVE  RetryInv'
<1>1. /\ log \in Seq(ToSet(log)) /\ pc \in Places /\ turn \in Nat /\ step \in Nat /\ sent \in Nat
      /\ turn' = turn /\ step' = step /\ sent' = sent /\ mode' = mode
  BY DEF RetryInv, TaskTyped
<1>2. Here' = Here
  BY <1>1 DEF Here
<1>3. pc' \in Places
  BY <1>1 DEF Places, Running, Sending, Waiting
<1>4. /\ pc' \in Running => pc \in Running
      /\ pc' \in Sending => pc \in Sending
      /\ pc' \in Waiting => pc \in Waiting
      /\ pc' = "retry" => pc = "retry"
  BY DEF Running, Sending, Waiting
<1>5. ASSUME log' = log
      PROVE  RetryInv'
  <2>1. TaskTyped' /\ KeyedIn(log, Starts(log))' /\ (pc' \in Running => turn' = Starts(log') /\ KeyedUpTo(log', turn', step'))
    BY <1>1, <1>3, <1>4, <1>5 DEF RetryInv, TaskTyped
  <2>2. Tally'
    BY <1>1, <1>2, <1>4, <1>5 DEF RetryInv, Tally
  <2> QED  BY <2>1, <2>2 DEF RetryInv
<1>6. ASSUME NEW e, e.ty \notin RetryTypes \cup {"turn/start"}, Write(e)
      PROVE  RetryInv'
  <2>1. log' \in Seq(ToSet(log')) /\ Grown(log', log, e)
    BY <1>1, <1>6, AppendGrows DEF Write
  <2>2. TaskTyped'
    BY <1>1, <1>3, <2>1 DEF TaskTyped
  <2>3. Starts(log') = Starts(log)
    BY <1>6, <2>1, AtGrows DEF Starts
  <2>4. \A i \in DOMAIN log' : log'[i].ty \in RetryTypes => i \in DOMAIN log /\ log'[i] = log[i]
    BY <1>6, <2>1 DEF Grown
  <2>5. KeyedIn(log', Starts(log'))
    BY <2>3, <2>4 DEF RetryInv, KeyedIn
  <2>6. pc' \in Running => turn' = Starts(log') /\ KeyedUpTo(log', turn', step')
    BY <1>1, <1>4, <2>3, <2>4 DEF RetryInv, KeyedUpTo
  <2>7. \A s, n : Counted(log, Here, s, n) => Counted(log', Here, s, n)
    BY <1>6, <2>1, CountStays
  <2>8. Tally'
    BY <1>1, <1>2, <1>4, <2>7 DEF RetryInv, Tally
  <2> QED  BY <2>2, <2>5, <2>6, <2>8 DEF RetryInv
<1> QED  BY <1>5, <1>6

LEMMA NoneYet ==
  ASSUME NEW l, NEW t \in Nat, NEW s \in Nat, NEW a \in Nat, NEW b \in Nat,
         KeyedUpTo(l, t, s), t < a \/ (t = a /\ s < b)
  PROVE  Counted(l, <<a, b>>, 0, 0)
<1>1. \A i \in DOMAIN l : l[i].ty \in RetryTypes => l[i].key # <<a, b>>
  BY DEF KeyedUpTo, UpTo
<1>2. OfIn(l, "llm/retry", <<a, b>>) = {} /\ OfIn(l, "llm/retry-started", <<a, b>>) = {}
  BY <1>1 DEF OfIn, AtIn, RetryTypes
<1> QED  BY <1>2, CountNone

LEMMA RunTurnTallies ==
  ASSUME RetryInv, RunTurn
  PROVE  RetryInv'
<1> DEFINE e == Event("turn/start", turn', Nothing)
<1>1. /\ log \in Seq(ToSet(log)) /\ closers' = closers
      /\ turn' = Starts(log) + 1 /\ step' = 1 /\ sent' = 1 /\ pc' = "sending" /\ mode' = mode
      /\ log' = Append(log, e)
  BY DEF RetryInv, TaskTyped, RunTurn, Write, Goto, Starts, AtIn, At
<1>2. log' \in Seq(ToSet(log')) /\ Grown(log', log, e) /\ e.ty = "turn/start"
  BY <1>1, AppendGrows DEF Event
<1>3. Starts(log) \in Nat /\ Starts(log') = Starts(log) + 1
  BY <1>2, AtGrows DEF Starts
<1>4. TaskTyped'
  BY <1>1, <1>2, <1>3 DEF RetryInv, TaskTyped, Places, Running
<1>5. \A i \in DOMAIN log' : log'[i].ty \in RetryTypes => i \in DOMAIN log /\ log'[i] = log[i]
  BY <1>2 DEF Grown, RetryTypes
<1>6. KeyedIn(log', Starts(log)) /\ KeyedIn(log', Starts(log'))
  BY <1>3, <1>5 DEF RetryInv, KeyedIn
<1>8. \A i \in DOMAIN log' : log'[i].ty \in RetryTypes =>
        \E a, b \in Nat : log'[i].key = <<a, b>> /\ a < turn'
  <2> SUFFICES ASSUME NEW i \in DOMAIN log', log'[i].ty \in RetryTypes
               PROVE  \E a, b \in Nat : log'[i].key = <<a, b>> /\ a < turn'
    OBVIOUS
  <2>1. PICK a \in Nat, b \in Nat : log'[i].key = <<a, b>> /\ a <= Starts(log)
    BY <1>6 DEF KeyedIn
  <2>2. a < turn'
    BY <1>1, <1>3, <2>1
  <2> QED  BY <2>1, <2>2
<1>9. KeyedUpTo(log', turn', 0) /\ KeyedUpTo(log', turn', step')
  <2>1. \A i \in DOMAIN log' : log'[i].ty \in RetryTypes =>
          UpTo(log'[i].key, turn', 0) /\ UpTo(log'[i].key, turn', step')
    BY <1>8 DEF UpTo
  <2> QED  BY <2>1 DEF KeyedUpTo
<1>10. Here' = <<turn', 1>> /\ turn' \in Nat
  BY <1>1, <1>3 DEF Here
<1>11. Counted(log', Here', 0, 0)
  BY <1>9, <1>10, NoneYet
<1>12. Tally'
  BY <1>1, <1>11, ConstantsAssumption DEF Tally, Waiting
<1> QED  BY <1>1, <1>3, <1>4, <1>6, <1>9, <1>12 DEF RetryInv

LEMMA StepEndTallies ==
  ASSUME RetryInv, StepEnd
  PROVE  RetryInv'
<1>1. CASE pc' = "closing"
  <2>1. UNCHANGED <<log, turn, step, sent, mode, closers>> /\ pc \in Running
    BY <1>1 DEF StepEnd, Goto, Running
  <2> QED  BY <1>1, <2>1, TallyStays DEF RetryInv, TaskTyped
<1>2. CASE pc' = "sending"
  <2>1. /\ log' = log /\ closers' = closers /\ turn' = turn /\ step' = step + 1 /\ sent' = 1
        /\ mode' = mode /\ pc \in Running /\ turn \in Nat /\ step \in Nat
    BY <1>2 DEF StepEnd, Goto, Running, RetryInv, TaskTyped
  <2>2. TaskTyped'
    BY <1>2, <2>1 DEF RetryInv, TaskTyped, Places, Running
  <2>3. KeyedUpTo(log, turn, step) /\ turn = Starts(log)
    BY <2>1 DEF RetryInv
  <2>4. KeyedUpTo(log, turn, step + 1)
    BY <2>1, <2>3 DEF KeyedUpTo, UpTo
  <2>5. Counted(log, <<turn, step + 1>>, 0, 0)
    BY <2>1, <2>3, NoneYet
  <2>6. Here' = <<turn, step + 1>>
    BY <2>1 DEF Here
  <2>7. Tally'
    BY <1>2, <2>1, <2>5, <2>6, ConstantsAssumption DEF Tally, Waiting
  <2> QED  BY <2>1, <2>2, <2>3, <2>4, <2>7 DEF RetryInv
<1> QED  BY <1>1, <1>2 DEF StepEnd, Goto

LEMMA PriorIs ==
  ASSUME NEW n, NEW s, Counted(log, Here, s, n)
  PROVE  PriorRetries = n
<1>1. {k \in At("llm/retry") : log[k].key = Here} = OfIn(log, "llm/retry", Here)
  BY DEF At, OfIn, AtIn
<1>2. PriorRetries = LastIn(log, Here)
  BY <1>1 DEF PriorRetries, LastIn
<1> QED  BY <1>2 DEF Counted

(* A record of this step's own keeps the keys in order.                    *)
LEMMA RetryKeyed ==
  ASSUME RetryInv, pc \in Running, NEW e, Write(e), e.ty \in RetryTypes, e.key = Here
  PROVE  /\ log' \in Seq(ToSet(log')) /\ Grown(log', log, e) /\ Starts(log') = Starts(log)
         /\ KeyedIn(log', Starts(log')) /\ turn = Starts(log') /\ KeyedUpTo(log', turn, step)
<1>1. /\ log \in Seq(ToSet(log)) /\ turn \in Nat /\ step \in Nat /\ turn = Starts(log)
      /\ KeyedIn(log, Starts(log)) /\ KeyedUpTo(log, turn, step)
  BY DEF RetryInv, TaskTyped
<1>2. log' \in Seq(ToSet(log')) /\ Grown(log', log, e)
  BY <1>1, AppendGrows DEF Write
<1>3. Starts(log') = Starts(log)
  BY <1>2, AtGrows DEF Starts, RetryTypes
<1>4. \A i \in DOMAIN log' : (i \in DOMAIN log /\ log'[i] = log[i]) \/ log'[i] = e
  BY <1>2 DEF Grown
<1>5. e.key = <<turn, step>>
  BY DEF Here
<1>6. UpTo(e.key, turn, step)
  BY <1>1, <1>5 DEF UpTo
<1>7. KeyedUpTo(log', turn, step)
  BY <1>1, <1>4, <1>6 DEF KeyedUpTo
<1>8. KeyedIn(log', turn)
  BY <1>1, <1>4, <1>5 DEF KeyedIn
<1> QED  BY <1>1, <1>2, <1>3, <1>7, <1>8

LEMMA ScheduleTallies ==
  ASSUME RetryInv, Schedule
  PROVE  RetryInv'
<1>1. CASE pc' = "closing"
  <2>1. UNCHANGED <<log, turn, step, sent, mode, closers>> /\ pc \in Running
    BY <1>1 DEF Schedule, Goto, Running
  <2> QED  BY <1>1, <2>1, TallyStays DEF RetryInv, TaskTyped
<1>2. CASE pc' = "scheduled"
  <2> DEFINE e == Event("llm/retry", Here, PriorRetries + 1)
  <2>1. /\ ~GivesUp /\ Write(e) /\ pc = "failed" /\ pc \in Running /\ closers' = closers
        /\ turn' = turn /\ step' = step /\ sent' = sent /\ mode' = mode
        /\ turn \in Nat /\ step \in Nat /\ sent \in Nat
    BY <1>2 DEF Schedule, Goto, Running, RetryInv, TaskTyped
  <2>2. sent >= 1 /\ Counted(log, Here, sent - 1, sent - 1)
    BY <2>1 DEF RetryInv, Tally, Sending
  <2>3. PriorRetries = sent - 1
    BY <2>2, PriorIs
  <2>4. e.ty \in RetryTypes /\ e.key = Here
    BY DEF Event, RetryTypes
  <2>5. /\ log' \in Seq(ToSet(log')) /\ Grown(log', log, e) /\ Starts(log') = Starts(log)
        /\ KeyedIn(log', Starts(log')) /\ turn = Starts(log') /\ KeyedUpTo(log', turn, step)
    <3> HIDE DEF e
    <3> QED  BY <2>1, <2>4, RetryKeyed
  <2>6. Counted(log', Here, sent - 1, (sent - 1) + 1) /\ (sent - 1) + 1 = sent
    BY <2>1, <2>2, <2>3, <2>5, CountRetry
  <2>7. mode = "normal" => sent <= MaxRetries
    BY <2>1, <2>3, ConstantsAssumption DEF GivesUp
  <2>8. Here' = Here
    BY <2>1 DEF Here
  <2>9. Tally'
    BY <1>2, <2>1, <2>2, <2>6, <2>7, <2>8 DEF Tally, Sending
  <2>10. TaskTyped'
    BY <1>2, <2>1, <2>5 DEF RetryInv, TaskTyped, Places, Running
  <2> QED  BY <2>1, <2>5, <2>9, <2>10 DEF RetryInv
<1> QED  BY <1>1, <1>2 DEF Schedule, Goto

LEMMA RetryTallies ==
  ASSUME RetryInv, Retry
  PROVE  RetryInv'
<1>1. CASE pc' = "closing"
  <2>1. UNCHANGED <<log, turn, step, sent, mode, closers>> /\ pc \in Running
    BY <1>1 DEF Retry, Goto, Running, request
  <2> QED  BY <1>1, <2>1, TallyStays DEF RetryInv, TaskTyped
<1>2. CASE pc' = "retry"
  <2> DEFINE e == Event("llm/retry-started", Here, PriorRetries)
  <2>1. /\ Write(e) /\ pc = "elapsed" /\ pc \in Running /\ closers' = closers
        /\ turn' = turn /\ step' = step /\ sent' = sent /\ mode' = mode
        /\ turn \in Nat /\ step \in Nat /\ sent \in Nat
    BY <1>2 DEF Retry, Goto, Running, request, RetryInv, TaskTyped
  <2>2. /\ sent >= 1 /\ Counted(log, Here, sent - 1, sent)
        /\ mode = "normal" => sent <= MaxRetries
    BY <2>1 DEF RetryInv, Tally, Waiting
  <2>4. e.ty \in RetryTypes /\ e.key = Here /\ e.ty = "llm/retry-started"
    BY DEF Event, RetryTypes
  <2> HIDE DEF e
  <2>5. /\ log' \in Seq(ToSet(log')) /\ Grown(log', log, e) /\ Starts(log') = Starts(log)
        /\ KeyedIn(log', Starts(log')) /\ turn = Starts(log') /\ KeyedUpTo(log', turn, step)
    BY <2>1, <2>4, RetryKeyed
  <2>6. Counted(log', Here, (sent - 1) + 1, sent) /\ (sent - 1) + 1 = sent
    BY <2>1, <2>2, <2>4, <2>5, CountStarted
  <2>8. Here' = Here
    BY <2>1 DEF Here
  <2>9. Tally'
    BY <1>2, <2>1, <2>2, <2>6, <2>8 DEF Tally, Sending, Waiting
  <2>10. TaskTyped'
    BY <1>2, <2>1, <2>5 DEF RetryInv, TaskTyped, Places, Running
  <2> QED  BY <2>1, <2>5, <2>9, <2>10 DEF RetryInv
<1> QED  BY <1>1, <1>2 DEF Retry, Goto

LEMMA ResendTallies ==
  ASSUME RetryInv, Resend
  PROVE  RetryInv'
<1>1. CASE pc' = "closing"
  <2>1. UNCHANGED <<log, turn, step, sent, mode, closers>> /\ pc \in Running
    BY <1>1 DEF Resend, Goto, Running, request
  <2> QED  BY <1>1, <2>1, TallyStays DEF RetryInv, TaskTyped
<1>2. CASE pc' = "sending"
  <2>1. /\ pc = "retry" /\ pc \in Running /\ closers' = closers /\ log' = log
        /\ turn' = turn /\ step' = step /\ sent' = sent + 1 /\ mode' = mode
        /\ turn \in Nat /\ step \in Nat /\ sent \in Nat
    BY <1>2 DEF Resend, Goto, Running, RetryInv, TaskTyped
  <2>2. Here' = Here /\ sent' - 1 = sent /\ sent' >= 1
    BY <2>1 DEF Here
  <2>3. Tally'
    BY <1>2, <2>1, <2>2 DEF RetryInv, Tally, Waiting
  <2>4. TaskTyped'
    BY <1>2, <2>1 DEF RetryInv, TaskTyped, Places, Running
  <2> QED  BY <2>1, <2>3, <2>4 DEF RetryInv
<1> QED  BY <1>1, <1>2 DEF Resend, Goto

LEMMA CrashTallies ==
  ASSUME RetryInv, Crash
  PROVE  RetryInv'
<1>1. /\ pc' = "down" /\ closers' = <<>> /\ log' = log /\ turn' = 0 /\ step' = 0 /\ sent' = 0
  BY DEF Crash, Goto
<1>2. <<>> \in Seq(ToSet(<<>>))
  OBVIOUS
<1>3. TaskTyped'
  BY <1>1, <1>2 DEF RetryInv, TaskTyped, Places, Running
<1>4. Tally'
  BY <1>1 DEF Tally, Sending, Waiting
<1> QED  BY <1>1, <1>3, <1>4 DEF RetryInv, Running

LEMMA ReopenTallies ==
  ASSUME RetryInv, Reopen
  PROVE  RetryInv'
<1>1. /\ log \in Seq(ToSet(log)) /\ closers' = Missing /\ pc' = "repair"
      /\ UNCHANGED <<log, turn, step, sent, mode>>
  BY DEF RetryInv, TaskTyped, Reopen, Goto, request
<1>2. CASE ~HasOpenTurn
  <2>1. Missing = <<>>
    BY <1>2 DEF Missing
  <2>2. <<>> \in Seq(ToSet(<<>>))
    OBVIOUS
  <2> QED  BY <1>1, <2>1, <2>2, TallyStays
<1>3. CASE HasOpenTurn
  <2>1. /\ Missing \in Seq(ToSet(Missing)) /\ Len(Missing) >= 1
        /\ Missing[Len(Missing)].ty = "turn/end"
        /\ \A k \in 1 .. Len(Missing) - 1 :
             \E ty \in AskTypes : \E i \in Left(ty) : Missing[k] = Closing(ty, i)
    BY <1>1, <1>3, MissingIs
  <2>2. \A ty \in AskTypes : \A i : Closing(ty, i).ty \in ClosedTypes
    BY DEF Closing, Event, ClosedType, AskTypes, ClosedTypes
  <2> HIDE DEF Missing
  <2>3. \A k \in DOMAIN Missing : k \in 1 .. Len(Missing) - 1 \/ k = Len(Missing)
    BY <2>1
  <2>4. \A k \in DOMAIN Missing : Missing[k].ty \in ClosedTypes \cup {"turn/end"}
    BY <2>1, <2>2, <2>3
  <2> QED  BY <1>1, <2>1, <2>4, TallyStays
<1> QED  BY <1>2, <1>3

LEMMA RepairTallies ==
  ASSUME RetryInv, Repair
  PROVE  RetryInv'
<1>1. /\ closers \in Seq(ToSet(closers)) /\ pc = "repair" /\ UNCHANGED <<turn, step, sent, mode>>
      /\ \A k \in DOMAIN closers : closers[k].ty \in ClosedTypes \cup {"turn/end"}
  BY DEF RetryInv, TaskTyped, Repair, request
<1>2. CASE closers = <<>>
  <2>1. UNCHANGED <<log, closers>> /\ pc' = "idle"
    BY <1>2 DEF Repair, Goto
  <2> QED  BY <1>1, <2>1, TallyStays
<1>3. CASE closers # <<>>
  <2>1. Write(Head(closers)) /\ closers' = Tail(closers) /\ pc' = pc
    BY <1>3 DEF Repair
  <2>2. 1 \in DOMAIN closers /\ Head(closers) = closers[1]
    BY <1>1, <1>3
  <2>3. Head(closers).ty \notin RetryTypes \cup {"turn/start"}
    BY <1>1, <2>2 DEF ClosedTypes, RetryTypes
  <2>4. Tail(closers) \in Seq(ToSet(closers))
        /\ \A k \in DOMAIN Tail(closers) : k + 1 \in DOMAIN closers /\ Tail(closers)[k] = closers[k + 1]
    BY <1>1, <1>3
  <2>5. Tail(closers) \in Seq(ToSet(Tail(closers)))
    BY <2>4, OwnSeq
  <2>6. \A k \in DOMAIN closers' : closers'[k].ty \in ClosedTypes \cup {"turn/end"}
    BY <1>1, <2>1, <2>4
  <2> QED  BY <1>1, <2>1, <2>3, <2>5, <2>6, TallyStays
<1> QED  BY <1>2, <1>3

LEMMA RetryStep ==
  ASSUME RetryInv, [Next]_vars
  PROVE  RetryInv'
<1> USE DEF RetryInv, TaskTyped
<1>1. CASE UNCHANGED vars
  BY <1>1, TallyStays DEF vars, asks, flag, request
<1>2. CASE Reopen
  BY <1>2, ReopenTallies
<1>3. CASE Repair
  BY <1>3, RepairTallies
<1>4. CASE RunTurn
  BY <1>4, RunTurnTallies
<1>5. CASE Elapse
  BY <1>5, TallyStays DEF Elapse, Goto, Waiting, asks, request
<1>6. CASE Crash
  BY <1>6, CrashTallies
<1>7. CASE Stop
  BY <1>7, TallyStays DEF Stop, asks, request
<1>8. CASE \E asked \in SUBSET Calls : Respond(asked)
  BY <1>8, TallyStays DEF Respond, Goto, Running, request, flag
<1>9. CASE \E f \in Failures : RequestFails(f)
  <2>1. PICK f \in Failures : RequestFails(f)
    BY <1>9
  <2>2. /\ UNCHANGED <<log, turn, step, sent, mode, closers>> /\ pc = "sending"
        /\ pc' = "closing" \/ pc' = "failed"
    BY <2>1 DEF RequestFails, Goto
  <2> QED  BY <2>2, TallyStays DEF Running, Sending
<1>10. CASE \E p \in {"ask", "never"} : SetPolicy(p)
  <2>1. PICK p \in {"ask", "never"} : SetPolicy(p)
    BY <1>10
  <2>2. Event("approval/policy", 0, p).ty \notin RetryTypes \cup {"turn/start"}
    BY DEF Event, RetryTypes
  <2>3. UNCHANGED <<pc, turn, step, sent, mode, closers>> /\ Write(Event("approval/policy", 0, p))
    BY <2>1 DEF SetPolicy, request
  <2> QED  BY <2>2, <2>3, TallyStays
<1>11. CASE \E c, a : Answer(c, a)
  BY <1>11, TallyStays DEF Answer, request, flag
<1>12. CASE StepEnd
  BY <1>12, StepEndTallies
<1>13. CASE TurnEnd
  <2>1. Event("turn/end", turn, Nothing).ty \notin RetryTypes \cup {"turn/start"}
    BY DEF Event, RetryTypes
  <2>2. /\ UNCHANGED <<turn, step, sent, mode, closers>> /\ Write(Event("turn/end", turn, Nothing))
        /\ pc' = "idle"
    BY <1>13 DEF TurnEnd, Goto, request
  <2> QED  BY <2>1, <2>2, TallyStays
<1>14. CASE Schedule
  BY <1>14, ScheduleTallies
<1>15. CASE Backoff
  <2>1. /\ UNCHANGED <<log, turn, step, sent, mode, closers>> /\ pc = "scheduled"
        /\ pc' = "closing" \/ pc' = "backoff"
    BY <1>15 DEF Backoff, Goto, request
  <2> QED  BY <2>1, TallyStays DEF Running, Waiting
<1>16. CASE CutShort
  BY <1>16, TallyStays DEF CutShort, Goto, Running, asks, request
<1>17. CASE Retry
  BY <1>17, RetryTallies
<1>18. CASE Resend
  BY <1>18, ResendTallies
<1>19. ASSUME NEW c \in Calls, Ask(c)
       PROVE  RetryInv'
  <2>1. UNCHANGED <<pc, turn, step, sent, mode, closers>>
    BY <1>19 DEF Ask, request
  <2>2. log' = log \/ \E asked : Write(Event(AskedType(c), next[AskedType(c)], asked))
    BY <1>19 DEF Ask
  <2>3. \A asked : Event(AskedType(c), next[AskedType(c)], asked).ty \notin RetryTypes \cup {"turn/start"}
    BY DEF Event, AskedType, RetryTypes
  <2> QED  BY <2>1, <2>2, <2>3, TallyStays
<1>20. ASSUME NEW c \in Calls, Put(c)
       PROVE  RetryInv'
  BY <1>20, TallyStays DEF Put, request, flag
<1>21. ASSUME NEW c \in Calls, Park(c)
       PROVE  RetryInv'
  BY <1>21, TallyStays DEF Park, request
<1>22. ASSUME NEW c \in Calls, Wake(c)
       PROVE  RetryInv'
  BY <1>22, TallyStays DEF Wake, request
<1>23. ASSUME NEW c \in Calls, Decided(c)
       PROVE  RetryInv'
  <2>1. UNCHANGED <<pc, turn, step, sent, mode, closers>>
    BY <1>23 DEF Decided, request
  <2>2. Write(Event(ClosedType(AskedType(c)), id[c], outcome[c]))
    BY <1>23 DEF Decided
  <2>3. Event(ClosedType(AskedType(c)), id[c], outcome[c]).ty \notin RetryTypes \cup {"turn/start"}
    BY DEF Event, ClosedType, RetryTypes
  <2> QED  BY <2>1, <2>2, <2>3, TallyStays
<1>24. CASE Task
  BY <1>24, <1>12, <1>13, <1>14, <1>15, <1>16, <1>17, <1>18, <1>19, <1>20, <1>21, <1>22, <1>23
     DEF Task
<1> QED
  BY <1>1, <1>2, <1>3, <1>4, <1>5, <1>6, <1>7, <1>8, <1>9, <1>10, <1>11, <1>24 DEF Next

LEMMA RetryStarts ==
  ASSUME Init
  PROVE  RetryInv
<1>1. /\ log = <<>> /\ closers = <<>> /\ pc = "down" /\ turn = 0 /\ step = 0 /\ sent = 0
  BY DEF Init
<1>2. <<>> \in Seq(ToSet(<<>>)) /\ DOMAIN <<>> = {}
  OBVIOUS
<1>3. TaskTyped /\ KeyedIn(log, Starts(log)) /\ pc \notin Running
  BY <1>1, <1>2 DEF TaskTyped, KeyedIn, Places, Running
<1>4. Tally
  BY <1>1 DEF Tally, Sending, Waiting
<1> QED  BY <1>3, <1>4 DEF RetryInv

(* In every reachable state the requests of a step are its first and one   *)
(* for each retry its journal announced and recorded as started, and in    *)
(* normal mode no more than the policy allows, over any turns, steps,      *)
(* failures, refused records and deaths (install, schedule).               *)
THEOREM RequestsAreCounted == Spec => []RetriesCounted
<1>1. Init => RetryInv
  BY RetryStarts
<1>2. RetryInv /\ [Next]_vars => RetryInv'
  BY RetryStep
<1>3. RetryInv => RetriesCounted
  <2> SUFFICES ASSUME RetryInv, pc = "sending" PROVE RetriesCounted
    BY DEF RetriesCounted
  <2>1. /\ sent \in Nat /\ sent >= 1 /\ Counted(log, Here, sent - 1, sent - 1)
        /\ mode = "normal" => sent - 1 <= MaxRetries
    BY DEF RetryInv, TaskTyped, Tally, Sending
  <2>2. \A ty : {i \in At(ty) : log[i].key = Here} = OfIn(log, ty, Here)
    BY DEF At, OfIn, AtIn
  <2>3. /\ Cardinality(OfIn(log, "llm/retry-started", Here)) = sent - 1
        /\ {log[i].says : i \in OfIn(log, "llm/retry", Here)} = 1 .. sent - 1
    BY <2>1 DEF Counted
  <2>4. /\ sent = 1 + Cardinality(OfIn(log, "llm/retry-started", Here))
        /\ mode = "normal" => sent <= 1 + MaxRetries
    BY <2>1, <2>3, ConstantsAssumption
  <2> QED  BY <2>2, <2>3, <2>4 DEF RetriesCounted
<1> QED  BY <1>1, <1>2, <1>3, PTL DEF Spec

-----------------------------------------------------------------------------
(* Asks on a journal. *)

(* An ask that nothing closes, and the start of a turn that goes on.       *)
Unclosed(l, i) ==
  /\ i \in DOMAIN l /\ l[i].ty \in AskTypes
  /\ \A j \in DOMAIN l : ~(l[j].ty = ClosedType(l[i].ty) /\ l[j].key = l[i].key)
OpenAt(l, s) ==
  /\ s \in DOMAIN l /\ l[s].ty = "turn/start"
  /\ \A k \in DOMAIN l : k > s => l[k].ty \notin {"turn/start", "turn/end"}

(* Asks are numbered from 0 in each service, and each number is one ask's. *)
Numbered(l) ==
  /\ \A i \in DOMAIN l : l[i].ty \in AskTypes =>
       l[i].key \in Nat /\ l[i].key < Cardinality(AtIn(l, l[i].ty))
  /\ \A i, j \in DOMAIN l :
       l[i].ty \in AskTypes /\ l[j].ty = l[i].ty /\ l[j].key = l[i].key => i = j

(* What closes an ask stands behind it in its turn, and once.              *)
ClosedOnce(l) ==
  \A i, j \in DOMAIN l :
    l[i].ty \in ClosedTypes /\ l[j].ty = l[i].ty /\ l[j].key = l[i].key => i = j
ClosesIn(l, i, j) ==
  /\ i < j /\ l[i].ty \in AskTypes /\ l[j].ty = ClosedType(l[i].ty) /\ l[j].key = l[i].key
  /\ \A k \in i .. j : l[k].ty # "turn/end"
ClosedWithin(l) ==
  \A j \in DOMAIN l : l[j].ty \in ClosedTypes => \E i \in DOMAIN l : ClosesIn(l, i, j)

(* Only the turn that goes on has asks that nothing closes.                *)
LeftInOpen(l) == \A i : Unclosed(l, i) => \E s : OpenAt(l, s) /\ s < i

AsksInv(l) == Numbered(l) /\ ClosedOnce(l) /\ ClosedWithin(l) /\ LeftInOpen(l)

(* An event that is no ask, closes none and is no bound of a turn.         *)
LEMMA AsksIgnore ==
  ASSUME NEW l, NEW m, NEW e, Grown(m, l, e), AsksInv(l),
         e.ty \notin AskTypes \cup ClosedTypes \cup {"turn/start", "turn/end"}
  PROVE  /\ AsksInv(m) /\ \A i : Unclosed(m, i) <=> Unclosed(l, i)
         /\ \A s : OpenAt(m, s) <=> OpenAt(l, s)
<1> DEFINE n == Len(l)
<1>1. n \in Nat /\ DOMAIN l = 1 .. n /\ DOMAIN m = 1 .. n + 1 /\ m[n + 1] = e
      /\ \A k \in 1 .. n : m[k] = l[k]
  BY DEF Grown
<1> HIDE DEF n
<1>2. \A k \in DOMAIN m : (k \in DOMAIN l /\ m[k] = l[k]) \/ (k = n + 1 /\ m[k] = e)
  BY <1>1
<1>3. \A ty : ClosedType(ty) \in ClosedTypes
  BY DEF ClosedType, ClosedTypes
<1>4. \A i : Unclosed(m, i) <=> Unclosed(l, i)
  BY <1>1, <1>2, <1>3 DEF Unclosed
<1>5. \A s : OpenAt(m, s) <=> OpenAt(l, s)
  BY <1>1, <1>2 DEF OpenAt
<1>6. \A ty \in AskTypes : Cardinality(AtIn(m, ty)) = Cardinality(AtIn(l, ty))
  BY AtGrows
<1>7. Numbered(m)
  BY <1>1, <1>2, <1>6 DEF AsksInv, Numbered
<1>8. ClosedOnce(m)
  BY <1>1, <1>2 DEF AsksInv, ClosedOnce
<1>9. ClosedWithin(m)
  <2> SUFFICES ASSUME NEW j \in DOMAIN m, m[j].ty \in ClosedTypes
               PROVE  \E i \in DOMAIN m : ClosesIn(m, i, j)
    BY DEF ClosedWithin
  <2>1. j \in DOMAIN l /\ m[j] = l[j]
    BY <1>2
  <2>2. PICK i \in DOMAIN l : ClosesIn(l, i, j)
    BY <2>1 DEF AsksInv, ClosedWithin
  <2>3. i \in DOMAIN m /\ \A k \in i .. j : m[k] = l[k]
    BY <1>1, <2>1
  <2>4. ClosesIn(m, i, j)
    BY <1>1, <2>1, <2>2, <2>3 DEF ClosesIn
  <2> QED  BY <2>3, <2>4
<1>10. LeftInOpen(m)
  BY <1>4, <1>5 DEF AsksInv, LeftInOpen
<1> QED  BY <1>4, <1>5, <1>7, <1>8, <1>9, <1>10 DEF AsksInv

(* A turn starts, or ends, when nothing is left open.                      *)
LEMMA AsksBound ==
  ASSUME NEW l, NEW m, NEW e, Grown(m, l, e), AsksInv(l),
         e.ty \in {"turn/start", "turn/end"}, \A i : ~Unclosed(l, i)
  PROVE  /\ AsksInv(m) /\ \A i : ~Unclosed(m, i)
         /\ e.ty = "turn/start" => OpenAt(m, Len(l) + 1)
         /\ e.ty = "turn/end" => \A s : ~OpenAt(m, s)
<1> DEFINE n == Len(l)
<1>1. n \in Nat /\ DOMAIN l = 1 .. n /\ DOMAIN m = 1 .. n + 1 /\ m[n + 1] = e
      /\ \A k \in 1 .. n : m[k] = l[k]
  BY DEF Grown
<1> HIDE DEF n
<1>2. \A k \in DOMAIN m : (k \in DOMAIN l /\ m[k] = l[k]) \/ (k = n + 1 /\ m[k] = e)
  BY <1>1
<1>3. e.ty \notin AskTypes \cup ClosedTypes
  BY DEF AskTypes, ClosedTypes
<1>4. \A i : ~Unclosed(m, i)
  BY <1>1, <1>2, <1>3 DEF Unclosed
<1>5. e.ty = "turn/start" => OpenAt(m, n + 1)
  BY <1>1, <1>2 DEF OpenAt
<1>5a. e.ty = "turn/end" => \A s : ~OpenAt(m, s)
  <2> SUFFICES ASSUME e.ty = "turn/end", NEW s, OpenAt(m, s) PROVE FALSE
    OBVIOUS
  <2>1. s \in DOMAIN m /\ m[s].ty = "turn/start"
    BY DEF OpenAt
  <2>2. s # n + 1
    BY <1>1, <2>1
  <2>3. n + 1 > s /\ n + 1 \in DOMAIN m
    BY <1>1, <2>1, <2>2
  <2> QED  BY <1>1, <2>3 DEF OpenAt
<1>6. \A ty \in AskTypes : Cardinality(AtIn(m, ty)) = Cardinality(AtIn(l, ty))
  BY <1>3, AtGrows
<1>7. Numbered(m)
  BY <1>1, <1>2, <1>3, <1>6 DEF AsksInv, Numbered
<1>8. ClosedOnce(m)
  BY <1>1, <1>2, <1>3 DEF AsksInv, ClosedOnce
<1>9. ClosedWithin(m)
  <2> SUFFICES ASSUME NEW j \in DOMAIN m, m[j].ty \in ClosedTypes
               PROVE  \E i \in DOMAIN m : ClosesIn(m, i, j)
    BY DEF ClosedWithin
  <2>1. j \in DOMAIN l /\ m[j] = l[j]
    BY <1>2, <1>3
  <2>2. PICK i \in DOMAIN l : ClosesIn(l, i, j)
    BY <2>1 DEF AsksInv, ClosedWithin
  <2>3. i \in DOMAIN m /\ \A k \in i .. j : m[k] = l[k]
    BY <1>1, <2>1
  <2>4. ClosesIn(m, i, j)
    BY <1>1, <2>1, <2>2, <2>3 DEF ClosesIn
  <2> QED  BY <2>3, <2>4
<1>10. LeftInOpen(m)
  BY <1>4 DEF LeftInOpen
<1> QED  BY <1>4, <1>5, <1>5a, <1>7, <1>8, <1>9, <1>10 DEF AsksInv, n

(* An ask under the next number of its service, in the turn that goes on.  *)
LEMMA AsksAsk ==
  ASSUME NEW l, NEW m, NEW e, Grown(m, l, e), AsksInv(l), e.ty \in AskTypes,
         e.key = Cardinality(AtIn(l, e.ty)), \E s : OpenAt(l, s)
  PROVE  /\ AsksInv(m) /\ \A i : Unclosed(m, i) <=> Unclosed(l, i) \/ i = Len(l) + 1
         /\ \A s : OpenAt(m, s) <=> OpenAt(l, s)
         /\ \A i \in DOMAIN l : l[i].ty = e.ty => l[i].key # e.key
<1> DEFINE n == Len(l)
<1>1. n \in Nat /\ DOMAIN l = 1 .. n /\ DOMAIN m = 1 .. n + 1 /\ m[n + 1] = e
      /\ \A k \in 1 .. n : m[k] = l[k]
  BY DEF Grown
<1> HIDE DEF n
<1>2. \A k \in DOMAIN m : (k \in DOMAIN l /\ m[k] = l[k]) \/ (k = n + 1 /\ m[k] = e)
  BY <1>1
<1>3. e.ty \notin ClosedTypes \cup {"turn/start", "turn/end"}
  BY DEF AskTypes, ClosedTypes
<1>4. \A ty : Cardinality(AtIn(l, ty)) \in Nat /\ Cardinality(AtIn(m, ty)) \in Nat
  <2> TAKE ty
  <2>1. Cardinality(AtIn(l, ty)) \in Nat
    BY AtGrows
  <2>2. Cardinality(AtIn(m, ty)) =
          IF e.ty = ty THEN Cardinality(AtIn(l, ty)) + 1 ELSE Cardinality(AtIn(l, ty))
    BY AtGrows
  <2> QED  BY <2>1, <2>2
<1>5. /\ Cardinality(AtIn(m, e.ty)) = e.key + 1 /\ e.key \in Nat
      /\ \A ty : ty # e.ty => Cardinality(AtIn(m, ty)) = Cardinality(AtIn(l, ty))
  BY <1>4, AtGrows
<1>6. \A i \in DOMAIN l : l[i].ty = e.ty => l[i].key \in Nat /\ l[i].key < e.key
  BY DEF AsksInv, Numbered
<1>7. \A i \in DOMAIN l : l[i].ty = e.ty => l[i].key # e.key
  BY <1>5, <1>6
<1>8. \A t, u \in AskTypes : ClosedType(t) = ClosedType(u) => t = u
  BY DEF AskTypes, ClosedType
<1>9. \A j \in DOMAIN l : ~(l[j].ty = ClosedType(e.ty) /\ l[j].key = e.key)
  <2> SUFFICES ASSUME NEW j \in DOMAIN l, l[j].ty = ClosedType(e.ty), l[j].key = e.key
               PROVE  FALSE
    OBVIOUS
  <2>1. l[j].ty \in ClosedTypes
    BY DEF ClosedType, ClosedTypes
  <2>2. PICK i \in DOMAIN l : ClosesIn(l, i, j)
    BY <2>1 DEF AsksInv, ClosedWithin
  <2>3. l[i].ty = e.ty /\ l[i].key = e.key
    BY <1>8, <2>2 DEF ClosesIn
  <2> QED  BY <1>7, <2>3
<1>10. \A i : Unclosed(m, i) <=> Unclosed(l, i) \/ i = n + 1
  <2>0. \A ty : ClosedType(ty) \in ClosedTypes
    BY DEF ClosedType, ClosedTypes
  <2>1. \A i \in DOMAIN l : Unclosed(m, i) <=> Unclosed(l, i)
    BY <1>1, <1>2, <1>3, <2>0 DEF Unclosed
  <2>2. Unclosed(m, n + 1)
    BY <1>1, <1>2, <1>3, <1>9, <2>0 DEF Unclosed
  <2>3. \A i : Unclosed(m, i) => i \in DOMAIN l \/ i = n + 1
    BY <1>2 DEF Unclosed
  <2>4. \A i : Unclosed(l, i) => i \in DOMAIN l
    BY DEF Unclosed
  <2> QED  BY <2>1, <2>2, <2>3, <2>4
<1>11. \A s : OpenAt(m, s) <=> OpenAt(l, s)
  BY <1>1, <1>2, <1>3 DEF OpenAt, AskTypes
<1>12. Numbered(m)
  <2>1. ASSUME NEW i \in DOMAIN m, m[i].ty \in AskTypes
        PROVE  m[i].key \in Nat /\ m[i].key < Cardinality(AtIn(m, m[i].ty))
    <3>1. CASE m[i] = e
      BY <1>5, <3>1
    <3>2. CASE i \in DOMAIN l /\ m[i] = l[i]
      <4>1. l[i].key \in Nat /\ l[i].key < Cardinality(AtIn(l, l[i].ty))
        BY <2>1, <3>2 DEF AsksInv, Numbered
      <4>2. CASE l[i].ty = e.ty
        BY <1>5, <1>6, <3>2, <4>2
      <4>3. CASE l[i].ty # e.ty
        BY <1>5, <3>2, <4>1, <4>3
      <4> QED  BY <4>2, <4>3
    <3> QED  BY <1>2, <3>1, <3>2
  <2>2. ASSUME NEW i \in DOMAIN m, NEW j \in DOMAIN m, m[i].ty \in AskTypes,
               m[j].ty = m[i].ty, m[j].key = m[i].key
        PROVE  i = j
    <3>1. CASE i \in DOMAIN l /\ m[i] = l[i] /\ j \in DOMAIN l /\ m[j] = l[j]
      BY <2>2, <3>1 DEF AsksInv, Numbered
    <3> QED  BY <1>2, <1>7, <2>2, <3>1
  <2> QED  BY <2>1, <2>2 DEF Numbered
<1>13. ClosedOnce(m)
  BY <1>1, <1>2, <1>3 DEF AsksInv, ClosedOnce
<1>14. ClosedWithin(m)
  <2> SUFFICES ASSUME NEW j \in DOMAIN m, m[j].ty \in ClosedTypes
               PROVE  \E i \in DOMAIN m : ClosesIn(m, i, j)
    BY DEF ClosedWithin
  <2>1. j \in DOMAIN l /\ m[j] = l[j]
    BY <1>2, <1>3
  <2>2. PICK i \in DOMAIN l : ClosesIn(l, i, j)
    BY <2>1 DEF AsksInv, ClosedWithin
  <2>3. i \in DOMAIN m /\ \A k \in i .. j : m[k] = l[k]
    BY <1>1, <2>1
  <2>4. ClosesIn(m, i, j)
    BY <1>1, <2>1, <2>2, <2>3 DEF ClosesIn
  <2> QED  BY <2>3, <2>4
<1>15. LeftInOpen(m)
  <2>1. \A s : OpenAt(l, s) => s < n + 1
    BY <1>1 DEF OpenAt
  <2> QED  BY <1>10, <1>11, <2>1 DEF AsksInv, LeftInOpen
<1> QED  BY <1>7, <1>10, <1>11, <1>12, <1>13, <1>14, <1>15 DEF AsksInv, n

(* What closes an ask that is left.                                        *)
LEMMA AsksClose ==
  ASSUME NEW l, NEW m, NEW e, Grown(m, l, e), AsksInv(l), NEW a, Unclosed(l, a),
         e.ty = ClosedType(l[a].ty), e.key = l[a].key
  PROVE  /\ AsksInv(m) /\ \A i : Unclosed(m, i) <=> Unclosed(l, i) /\ i # a
         /\ \A s : OpenAt(m, s) <=> OpenAt(l, s)
<1> DEFINE n == Len(l)
<1>1. n \in Nat /\ DOMAIN l = 1 .. n /\ DOMAIN m = 1 .. n + 1 /\ m[n + 1] = e
      /\ \A k \in 1 .. n : m[k] = l[k]
  BY DEF Grown
<1> HIDE DEF n
<1>2. \A k \in DOMAIN m : (k \in DOMAIN l /\ m[k] = l[k]) \/ (k = n + 1 /\ m[k] = e)
  BY <1>1
<1>3. /\ a \in 1 .. n /\ l[a].ty \in AskTypes /\ e.ty \in ClosedTypes
      /\ \A j \in DOMAIN l : ~(l[j].ty = e.ty /\ l[j].key = e.key)
  BY <1>1 DEF Unclosed, AskTypes, ClosedType, ClosedTypes
<1>4. e.ty \notin AskTypes \cup {"turn/start", "turn/end"}
  BY <1>3 DEF AskTypes, ClosedTypes
<1>5. \A t, u \in AskTypes : ClosedType(t) = ClosedType(u) => t = u
  BY DEF AskTypes, ClosedType
<1>6. \A i \in DOMAIN l : l[i].ty \in AskTypes /\ ClosedType(l[i].ty) = e.ty /\ l[i].key = e.key => i = a
  <2>1. a \in DOMAIN l
    BY <1>1, <1>3
  <2> QED  BY <1>3, <1>5, <2>1 DEF AsksInv, Numbered
<1>7. \A i : Unclosed(m, i) <=> Unclosed(l, i) /\ i # a
  <2>1. ASSUME NEW i, Unclosed(m, i)
        PROVE  Unclosed(l, i) /\ i # a
    <3>1. i \in DOMAIN l /\ m[i] = l[i]
      BY <1>2, <1>4, <2>1 DEF Unclosed
    <3>2. Unclosed(l, i)
      BY <1>1, <2>1, <3>1 DEF Unclosed
    <3>3. i # a
      BY <1>1, <1>3, <2>1, <3>1 DEF Unclosed
    <3> QED  BY <3>2, <3>3
  <2>2. ASSUME NEW i, Unclosed(l, i), i # a
        PROVE  Unclosed(m, i)
    <3>1. i \in DOMAIN l /\ l[i].ty \in AskTypes
      BY <2>2 DEF Unclosed
    <3>2. i \in DOMAIN m /\ m[i] = l[i]
      BY <1>1, <3>1
    <3>3. ~(e.ty = ClosedType(l[i].ty) /\ e.key = l[i].key)
      BY <1>6, <2>2, <3>1
    <3> QED  BY <1>2, <2>2, <3>1, <3>2, <3>3 DEF Unclosed
  <2> QED  BY <2>1, <2>2
<1>8. \A s : OpenAt(m, s) <=> OpenAt(l, s)
  BY <1>1, <1>2, <1>4 DEF OpenAt
<1>9. \A ty \in AskTypes : Cardinality(AtIn(m, ty)) = Cardinality(AtIn(l, ty))
  BY <1>4, AtGrows
<1>10. Numbered(m)
  BY <1>1, <1>2, <1>4, <1>9 DEF AsksInv, Numbered
<1>11. ClosedOnce(m)
  BY <1>1, <1>2, <1>3 DEF AsksInv, ClosedOnce
<1>12. PICK s : OpenAt(l, s) /\ s < a
  BY DEF AsksInv, LeftInOpen
<1>13. ClosedWithin(m)
  <2> SUFFICES ASSUME NEW j \in DOMAIN m, m[j].ty \in ClosedTypes
               PROVE  \E i \in DOMAIN m : ClosesIn(m, i, j)
    BY DEF ClosedWithin
  <2>1. CASE j \in DOMAIN l /\ m[j] = l[j]
    <3>2. PICK i \in DOMAIN l : ClosesIn(l, i, j)
      BY <2>1 DEF AsksInv, ClosedWithin
    <3>3. i \in DOMAIN m /\ \A k \in i .. j : m[k] = l[k]
      BY <1>1, <2>1
    <3>4. ClosesIn(m, i, j)
      BY <1>1, <2>1, <3>2, <3>3 DEF ClosesIn
    <3> QED  BY <3>3, <3>4
  <2>2. CASE j = n + 1 /\ m[j] = e
    <3>1. a \in DOMAIN m /\ m[a] = l[a] /\ a < j
      BY <1>1, <1>3, <2>2
    <3>2. \A k \in a .. j : m[k].ty # "turn/end"
      <4> TAKE k \in a .. j
      <4>1. CASE k = n + 1
        BY <1>4, <2>2, <4>1
      <4>2. CASE k # n + 1
        <5>1. k \in DOMAIN l /\ m[k] = l[k] /\ k >= a
          BY <1>1, <1>3, <2>2, <4>2
        <5>2. s \in 1 .. n /\ \A h \in DOMAIN l : h > s => l[h].ty # "turn/end"
          BY <1>1, <1>12 DEF OpenAt
        <5>3. k > s
          BY <1>1, <1>3, <1>12, <5>1, <5>2
        <5> QED  BY <5>1, <5>2, <5>3
      <4> QED  BY <4>1, <4>2
    <3> QED  BY <1>3, <2>2, <3>1, <3>2 DEF ClosesIn
  <2> QED  BY <1>2, <2>1, <2>2
<1>14. LeftInOpen(m)
  BY <1>7, <1>8 DEF AsksInv, LeftInOpen
<1> QED  BY <1>7, <1>8, <1>10, <1>11, <1>13, <1>14 DEF AsksInv

-----------------------------------------------------------------------------
(* Who said what closes an ask. *)

Policies(l, i) == {k \in AtIn(l, "approval/policy") : k < i}

(* The policy that held at i asks, or another came before j.               *)
Allowed(l, i, j) ==
  \/ Latest(Policies(l, i)) = 0 \/ l[Latest(Policies(l, i))].says = "ask"
  \/ \E k \in AtIn(l, "approval/policy") : i < k /\ k < j

(* A fitting answer for each question, out of one that an answerer gave.   *)
Covers(questions, key, given, S) ==
  /\ Len(given) = Len(questions)
  /\ \A k \in DOMAIN questions :
       LET q == questions[k]  a == given[k]
       IN  /\ a.id = q.id
           /\ ToSet(a.selected) \subseteq q.options \/ q.options = {}
           /\ Len(a.selected) > 1 => q.multi \/ q.options = {}
           /\ Len(a.selected) + (IF a.text THEN 1 ELSE 0) > 0
           /\ \E g \in Given : a \in ToSet(g) /\ <<"question/asked", key, g>> \in S

SomeoneGranted(l, key, j, S) ==
  \E i \in AtIn(l, "approval/asked") :
    l[i].key = key /\ <<"approval/asked", key, "allowed-once">> \in S /\ Allowed(l, i, j)
SomeoneAnswered(l, key, given, S) ==
  \E i \in AtIn(l, "question/asked") : l[i].key = key /\ Covers(l[i].says, key, given, S)

SaidInv(l, S) ==
  /\ \A k \in AtIn(l, "approval/policy") : l[k].says \in {"ask", "never"}
  /\ \A i \in AtIn(l, "question/asked") : l[i].says \in QuestionSets
  /\ \A j \in AtIn(l, "approval/decided") :
       l[j].says = "allowed-once" => SomeoneGranted(l, l[j].key, j, S)
  /\ \A j \in AtIn(l, "question/answered") :
       l[j].says # Nothing => SomeoneAnswered(l, l[j].key, l[j].says, S)

LEMMA AllowedLasts ==
  ASSUME NEW l, NEW m, NEW e, Grown(m, l, e), NEW i \in DOMAIN l, NEW j \in Nat, NEW h \in Nat,
         Allowed(l, i, j), j <= h
  PROVE  Allowed(m, i, h)
<1> DEFINE n == Len(l)
           P == Policies(l, i)
<1>1. n \in Nat /\ DOMAIN l = 1 .. n /\ DOMAIN m = 1 .. n + 1
      /\ \A k \in 1 .. n : m[k] = l[k]
  BY DEF Grown
<1>2. \A k \in AtIn(l, "approval/policy") : k \in 1 .. n /\ k \in AtIn(m, "approval/policy")
  BY <1>1 DEF AtIn
<1>3. Policies(m, i) = P
  BY <1>1 DEF Policies, AtIn
<1>4. P \in SUBSET (1 .. n)
  BY <1>2 DEF Policies
<1>5. Allowed(l, i, j) = (\/ Latest(P) = 0 \/ l[Latest(P)].says = "ask"
                          \/ \E k \in AtIn(l, "approval/policy") : i < k /\ k < j)
  BY DEF Allowed
<1>6. Allowed(m, i, h) = (\/ Latest(P) = 0 \/ m[Latest(P)].says = "ask"
                          \/ \E k \in AtIn(m, "approval/policy") : i < k /\ k < h)
  BY <1>3 DEF Allowed
<1> HIDE DEF P
<1>7. Latest(P) \in P \cup {0}
  BY <1>1, <1>4, LatestIs
<1>8. CASE Latest(P) = 0 \/ l[Latest(P)].says = "ask"
  BY <1>1, <1>4, <1>6, <1>7, <1>8
<1>9. CASE \E k \in AtIn(l, "approval/policy") : i < k /\ k < j
  <2>1. PICK k \in AtIn(l, "approval/policy") : i < k /\ k < j
    BY <1>9
  <2>2. k \in AtIn(m, "approval/policy") /\ k < h /\ i < k
    BY <1>1, <1>2, <2>1
  <2> QED  BY <1>6, <2>2
<1> QED  BY <1>5, <1>8, <1>9

LEMMA CoversMore ==
  ASSUME NEW questions, NEW key, NEW given, NEW S, NEW T, S \subseteq T,
         Covers(questions, key, given, S)
  PROVE  Covers(questions, key, given, T)
BY DEF Covers

LEMMA SaidMore ==
  ASSUME NEW l, NEW S, NEW T, S \subseteq T, SaidInv(l, S)
  PROVE  SaidInv(l, T)
<1>1. \A key, j : SomeoneGranted(l, key, j, S) => SomeoneGranted(l, key, j, T)
  BY DEF SomeoneGranted
<1>2. \A key, given : SomeoneAnswered(l, key, given, S) => SomeoneAnswered(l, key, given, T)
  <2> TAKE key, given
  <2>1. ASSUME SomeoneAnswered(l, key, given, S) PROVE SomeoneAnswered(l, key, given, T)
    <3>1. PICK i \in AtIn(l, "question/asked") : l[i].key = key /\ Covers(l[i].says, key, given, S)
      BY <2>1 DEF SomeoneAnswered
    <3>2. Covers(l[i].says, key, given, T)
      BY <3>1, CoversMore
    <3> QED  BY <3>1, <3>2 DEF SomeoneAnswered
  <2> QED  BY <2>1
<1> QED  BY <1>1, <1>2 DEF SaidInv

LEMMA SaidGrows ==
  ASSUME NEW l, NEW m, NEW e, NEW S, Grown(m, l, e), SaidInv(l, S),
         e.ty = "approval/policy" => e.says \in {"ask", "never"},
         e.ty = "question/asked" => e.says \in QuestionSets,
         e.ty = "approval/decided" /\ e.says = "allowed-once" =>
           SomeoneGranted(l, e.key, Len(l) + 1, S),
         e.ty = "question/answered" /\ e.says # Nothing =>
           SomeoneAnswered(l, e.key, e.says, S)
  PROVE  SaidInv(m, S)
<1> DEFINE n == Len(l)
<1>1. n \in Nat /\ DOMAIN l = 1 .. n /\ DOMAIN m = 1 .. n + 1 /\ m[n + 1] = e
      /\ \A k \in 1 .. n : m[k] = l[k]
  BY DEF Grown
<1>2. \A ty : \A k \in AtIn(m, ty) : (k \in AtIn(l, ty) /\ m[k] = l[k]) \/ (k = n + 1 /\ m[k] = e /\ e.ty = ty)
  BY <1>1 DEF AtIn
<1>3. \A ty : \A k \in AtIn(l, ty) : k \in AtIn(m, ty) /\ m[k] = l[k] /\ k \in DOMAIN l
  BY <1>1 DEF AtIn
<1>4. \A key : \A j \in Nat : SomeoneGranted(l, key, j, S) => SomeoneGranted(m, key, j, S)
  <2> TAKE key
  <2> TAKE j \in Nat
  <2>1. ASSUME SomeoneGranted(l, key, j, S) PROVE SomeoneGranted(m, key, j, S)
    <3>1. PICK i \in AtIn(l, "approval/asked") :
            l[i].key = key /\ <<"approval/asked", key, "allowed-once">> \in S /\ Allowed(l, i, j)
      BY <2>1 DEF SomeoneGranted
    <3>2. i \in DOMAIN l /\ i \in AtIn(m, "approval/asked") /\ m[i] = l[i]
      BY <1>3
    <3>3. Allowed(m, i, j)
      BY <3>1, <3>2, AllowedLasts
    <3> QED  BY <3>1, <3>2, <3>3 DEF SomeoneGranted
  <2> QED  BY <2>1
<1>5. \A key, given : SomeoneAnswered(l, key, given, S) => SomeoneAnswered(m, key, given, S)
  BY <1>3 DEF SomeoneAnswered
<1>6. \A k \in AtIn(m, "approval/policy") : m[k].says \in {"ask", "never"}
  BY <1>2 DEF SaidInv
<1>7. \A k \in AtIn(m, "question/asked") : m[k].says \in QuestionSets
  BY <1>2 DEF SaidInv
<1>8. ASSUME NEW j \in AtIn(m, "approval/decided"), m[j].says = "allowed-once"
      PROVE  SomeoneGranted(m, m[j].key, j, S)
  <2>0. j \in Nat
    BY <1>1 DEF AtIn
  <2>1. CASE j \in AtIn(l, "approval/decided") /\ m[j] = l[j]
    <3>1. SomeoneGranted(l, l[j].key, j, S)
      BY <1>8, <2>1 DEF SaidInv
    <3> QED  BY <1>4, <2>0, <2>1, <3>1
  <2>2. CASE j = n + 1 /\ m[j] = e /\ e.ty = "approval/decided"
    BY <1>4, <1>8, <2>0, <2>2
  <2> QED  BY <1>2, <2>1, <2>2
<1>9. ASSUME NEW j \in AtIn(m, "question/answered"), m[j].says # Nothing
      PROVE  SomeoneAnswered(m, m[j].key, m[j].says, S)
  <2>1. CASE j \in AtIn(l, "question/answered") /\ m[j] = l[j]
    <3>1. SomeoneAnswered(l, l[j].key, l[j].says, S)
      BY <1>9, <2>1 DEF SaidInv
    <3> QED  BY <1>5, <2>1, <3>1
  <2>2. CASE j = n + 1 /\ m[j] = e /\ e.ty = "question/answered"
    BY <1>5, <1>9, <2>2
  <2> QED  BY <1>2, <2>1, <2>2
<1> QED  BY <1>6, <1>7, <1>8, <1>9 DEF SaidInv

(* What judge keeps of an answer covers what was asked.                    *)
LEMMA JudgeCovers ==
  ASSUME NEW questions \in QuestionSets, NEW given \in Given, NEW key, NEW S,
         <<"question/asked", key, given>> \in S, judge(questions, given) # Nothing
  PROVE  Covers(questions, key, judge(questions, given), S)
<1> DEFINE first == [k \in DOMAIN questions |-> For(given, questions[k])]
           d == [k \in DOMAIN questions |-> first[k][1]]
<1>1. /\ questions \in Seq(ToSet(questions)) /\ given \in Seq(ToSet(given))
      /\ \A k \in DOMAIN given :
           given[k].selected \in Seq(ToSet(given[k].selected)) /\ given[k].text \in BOOLEAN
  BY ConstantsAssumption
<1>2. /\ \A k \in DOMAIN questions : first[k] # <<>> /\ Fits(first[k][1], questions[k])
      /\ judge(questions, given) = d
  BY DEF judge
<1>3. \A k \in DOMAIN questions : \E h \in DOMAIN given :
        given[h].id = questions[k].id /\ d[k] = given[h]
  <2> TAKE k \in DOMAIN questions
  <2> DEFINE K == {h \in DOMAIN given : given[h].id = questions[k].id}
             p == Picked(given, K)
             o == InOrder(K)
  <2>1. p = first[k] /\ p # <<>> /\ d[k] = p[1]
    BY <1>2 DEF For
  <2>2. K \in SUBSET DOMAIN given
    OBVIOUS
  <2>3. /\ o \in Seq(K) /\ p \in Seq(ToSet(given)) /\ DOMAIN p = DOMAIN o
        /\ \A h \in DOMAIN o : p[h] = given[o[h]]
    <3> HIDE DEF K
    <3> QED  BY <1>1, <2>2, PickedLists
  <2> HIDE DEF p, o, d
  <2>4. 1 \in DOMAIN p
    BY <2>1, <2>3
  <2>5. o[1] \in K /\ p[1] = given[o[1]]
    BY <2>3, <2>4
  <2> QED  BY <2>1, <2>5
<1>4. Len(d) = Len(questions) /\ DOMAIN d = DOMAIN questions
  BY <1>1
<1>5. \A k \in DOMAIN questions : Fits(d[k], questions[k])
  BY <1>2
<1> HIDE DEF first, d
<1>6. ASSUME NEW k \in DOMAIN questions
      PROVE  /\ d[k].id = questions[k].id
             /\ ToSet(d[k].selected) \subseteq questions[k].options \/ questions[k].options = {}
             /\ Len(d[k].selected) > 1 => questions[k].multi \/ questions[k].options = {}
             /\ Len(d[k].selected) + (IF d[k].text THEN 1 ELSE 0) > 0
             /\ \E g \in Given : d[k] \in ToSet(g) /\ <<"question/asked", key, g>> \in S
  <2>1. PICK h \in DOMAIN given : given[h].id = questions[k].id /\ d[k] = given[h]
    BY <1>3
  <2>2. d[k] \in ToSet(given)
    BY <2>1 DEF ToSet
  <2>3. d[k].selected \in Seq(ToSet(d[k].selected)) /\ d[k].text \in BOOLEAN
    BY <1>1, <2>1
  <2> DEFINE x == d[k].selected
  <2>4. /\ x # <<>> \/ d[k].text
        /\ questions[k].options # {} =>
             /\ x # <<>> /\ ToSet(x) \subseteq questions[k].options
             /\ ~questions[k].multi => Len(x) = 1
    BY <1>5 DEF Fits
  <2>5. Len(x) \in Nat /\ (x # <<>> => Len(x) > 0)
    BY <2>3
  <2> HIDE DEF x
  <2>6. Len(x) + (IF d[k].text THEN 1 ELSE 0) > 0
    BY <2>4, <2>5
  <2>7. Len(x) > 1 => questions[k].multi \/ questions[k].options = {}
    <3> DEFINE z == Len(x)
    <3>1. z \in Nat
      BY <2>5
    <3>2. z > 1 => z # 1
      <4> HIDE DEF z
      <4> QED  BY <3>1
    <3> QED  BY <2>4, <3>2, Zenon
  <2> QED  BY <2>1, <2>2, <2>4, <2>6, <2>7 DEF x
<1> QED  BY <1>2, <1>4, <1>6 DEF Covers

(* What was granted or answered stays so, whatever comes behind it.        *)
LEMMA SomeoneLasts ==
  ASSUME NEW l, NEW m, NEW e, Grown(m, l, e), NEW S, NEW T, S \subseteq T
  PROVE  /\ \A key : SomeoneGranted(l, key, Len(l) + 1, S) => SomeoneGranted(m, key, Len(m) + 1, T)
         /\ \A key, given : SomeoneAnswered(l, key, given, S) => SomeoneAnswered(m, key, given, T)
<1>1. /\ Len(l) \in Nat /\ Len(m) = Len(l) + 1 /\ Len(l) + 1 \in Nat /\ Len(m) + 1 \in Nat
      /\ Len(l) + 1 <= Len(m) + 1
  BY DEF Grown
<1>2. \A ty : \A k \in AtIn(l, ty) : k \in AtIn(m, ty) /\ m[k] = l[k] /\ k \in DOMAIN l
  BY DEF Grown, AtIn
<1>3. ASSUME NEW key, SomeoneGranted(l, key, Len(l) + 1, S)
      PROVE  SomeoneGranted(m, key, Len(m) + 1, T)
  <2>1. PICK i \in AtIn(l, "approval/asked") :
          /\ l[i].key = key /\ <<"approval/asked", key, "allowed-once">> \in S
          /\ Allowed(l, i, Len(l) + 1)
    BY <1>3 DEF SomeoneGranted
  <2>2. i \in AtIn(m, "approval/asked") /\ m[i] = l[i] /\ i \in DOMAIN l
    BY <1>2
  <2>3. Allowed(m, i, Len(m) + 1)
    BY <1>1, <2>1, <2>2, AllowedLasts
  <2> QED  BY <2>1, <2>2, <2>3 DEF SomeoneGranted
<1>4. ASSUME NEW key, NEW given, SomeoneAnswered(l, key, given, S)
      PROVE  SomeoneAnswered(m, key, given, T)
  <2>1. PICK i \in AtIn(l, "question/asked") : l[i].key = key /\ Covers(l[i].says, key, given, S)
    BY <1>4 DEF SomeoneAnswered
  <2>2. i \in AtIn(m, "question/asked") /\ m[i] = l[i]
    BY <1>2
  <2>3. Covers(l[i].says, key, given, T)
    BY <2>1, CoversMore
  <2> QED  BY <2>1, <2>2, <2>3 DEF SomeoneAnswered
<1> QED  BY <1>3, <1>4

-----------------------------------------------------------------------------
(* The calls that wait, and what repair has yet to close. *)

Pending == {"asked", "put", "parked", "settled"}

CallsTyped ==
  /\ at \in [Calls -> {"off", "ready", "done"} \cup Pending] /\ id \in [Calls -> Nat]
  /\ DOMAIN answer = Calls /\ DOMAIN outcome = Calls /\ next \in [AskTypes -> Nat]

IsOf(c, i) == Unclosed(log, i) /\ log[i].ty = AskedType(c) /\ log[i].key = id[c]

(* The asks that nothing closes are those of the calls that wait.          *)
Matched ==
  /\ pc # "tools" => \A c \in Calls : at[c] = "off"
  /\ \A c \in Calls : at[c] \in Pending => \E i : IsOf(c, i)
  /\ \A c, d \in Calls : at[c] \in Pending /\ at[d] \in Pending
                         /\ AskedType(c) = AskedType(d) /\ id[c] = id[d] => c = d
  /\ pc \notin {"down", "repair"} =>
       \A i : Unclosed(log, i) => \E c \in Calls : at[c] \in Pending /\ IsOf(c, i)
  /\ pc \in Running => /\ \E s : OpenAt(log, s)
                       /\ \A ty \in AskTypes : next[ty] = Cardinality(AtIn(log, ty))

AnswerGiven(c) ==
  answer[c] # Nothing => /\ at[c] \in {"put", "parked", "settled"}
                         /\ <<AskedType(c), id[c], answer[c]>> \in said
                         /\ c \in Asking => answer[c] \in Given \cup {Panic}
PutAllowed(c) ==
  c \in Gated /\ at[c] \in {"put", "parked"} =>
    \A i : IsOf(c, i) => Allowed(log, i, Len(log) + 1)
OutcomeSaid(c) ==
  at[c] = "settled" =>
    /\ c \in Gated /\ outcome[c] = "allowed-once" =>
         SomeoneGranted(log, id[c], Len(log) + 1, said)
    /\ c \in Asking /\ outcome[c] # Nothing => SomeoneAnswered(log, id[c], outcome[c], said)

(* It closes each ask that is left, once, and then the turn.               *)
Closer(e, i) == /\ Unclosed(log, i) /\ e.ty = ClosedType(log[i].ty) /\ e.key = log[i].key
                /\ e.says = Withdrawn(log[i].ty)
Repairs ==
  /\ pc # "repair" => closers = <<>>
  /\ pc = "repair" /\ closers = <<>> => \A i : ~Unclosed(log, i)
  /\ closers # <<>> =>
       /\ closers[Len(closers)].ty = "turn/end"
       /\ \A k \in 1 .. Len(closers) - 1 : \E i : Closer(closers[k], i)
       /\ \A i : Unclosed(log, i) => \E k \in 1 .. Len(closers) - 1 : Closer(closers[k], i)
       /\ \A j, k \in 1 .. Len(closers) - 1 :
            closers[j].ty = closers[k].ty /\ closers[j].key = closers[k].key => j = k

WaitInv ==
  /\ CallsTyped /\ AsksInv(log) /\ SaidInv(log, said) /\ Matched /\ Repairs
  /\ \A c \in Calls : AnswerGiven(c) /\ PutAllowed(c) /\ OutcomeSaid(c)

memory == <<next, at, id, answer, outcome, said, closers>>

LEMMA UnclosedIn ==
  ASSUME NEW l, NEW i, Unclosed(l, i)
  PROVE  i \in DOMAIN l /\ l[i].ty \in AskTypes
BY DEF Unclosed

(* A step that is about nothing asked.                                     *)
LEMMA WaitIgnores ==
  ASSUME TaskTyped, WaitInv, UNCHANGED memory,
         \/ log' = log
         \/ \E e : /\ e.ty \notin AskTypes \cup ClosedTypes \cup {"turn/start", "turn/end"}
                   /\ e.ty = "approval/policy" => e.says \in {"ask", "never"}
                   /\ Write(e),
         pc' = pc \/ (pc \in Running \ {"tools"} /\ pc' \in Running \ {"tools"})
  PROVE  WaitInv'
<1>1. /\ next' = next /\ at' = at /\ id' = id /\ answer' = answer /\ outcome' = outcome
      /\ said' = said /\ closers' = closers
  BY DEF memory
<1>2. /\ pc' = "tools" <=> pc = "tools"
      /\ pc' \in Running => pc \in Running
      /\ pc' = "repair" <=> pc = "repair"
      /\ pc' = "down" <=> pc = "down"
  BY DEF Running
<1>3. CallsTyped'
  BY <1>1 DEF WaitInv, CallsTyped
<1>4. ASSUME log' = log PROVE WaitInv'
  <2>1. \A c, i : IsOf(c, i)' <=> IsOf(c, i)
    BY <1>1, <1>4 DEF IsOf
  <2>2. Matched'
    BY <1>1, <1>2, <1>4, <2>1 DEF WaitInv, Matched
  <2>3. Repairs'
    BY <1>1, <1>2, <1>4 DEF WaitInv, Repairs, Closer
  <2>4. \A c \in Calls : AnswerGiven(c)' /\ PutAllowed(c)' /\ OutcomeSaid(c)'
    BY <1>1, <1>4, <2>1 DEF WaitInv, AnswerGiven, PutAllowed, OutcomeSaid
  <2> QED  BY <1>1, <1>3, <1>4, <2>2, <2>3, <2>4 DEF WaitInv
<1>5. ASSUME NEW e, e.ty \notin AskTypes \cup ClosedTypes \cup {"turn/start", "turn/end"},
             e.ty = "approval/policy" => e.says \in {"ask", "never"}, Write(e)
      PROVE  WaitInv'
  <2>1. Grown(log', log, e)
    BY <1>5, AppendGrows DEF Write, TaskTyped
  <2>2. /\ AsksInv(log') /\ \A i : Unclosed(log', i) <=> Unclosed(log, i)
        /\ \A s : OpenAt(log', s) <=> OpenAt(log, s)
    BY <1>5, <2>1, AsksIgnore DEF WaitInv
  <2>3. SaidInv(log', said)
    BY <1>5, <2>1, SaidGrows DEF WaitInv, AskTypes, ClosedTypes
  <2>4. \A i : Unclosed(log, i) => i \in DOMAIN log /\ log'[i] = log[i]
    BY <2>1 DEF Unclosed, Grown
  <2>5. \A c, i : IsOf(c, i)' <=> IsOf(c, i)
    BY <1>1, <2>2, <2>4 DEF IsOf
  <2>6. \A ty \in AskTypes : Cardinality(AtIn(log', ty)) = Cardinality(AtIn(log, ty))
    BY <1>5, <2>1, AtGrows
  <2>7. Matched'
    BY <1>1, <1>2, <2>2, <2>5, <2>6 DEF WaitInv, Matched
  <2>8. \A f, i : Closer(f, i)' <=> Closer(f, i)
    BY <2>2, <2>4 DEF Closer
  <2>9. Repairs'
    BY <1>1, <1>2, <2>2, <2>8 DEF WaitInv, Repairs
  <2>10. ASSUME NEW c \in Calls PROVE AnswerGiven(c)' /\ PutAllowed(c)' /\ OutcomeSaid(c)'
    <3>1. AnswerGiven(c) /\ PutAllowed(c) /\ OutcomeSaid(c)
      BY DEF WaitInv
    <3>2. AnswerGiven(c)'
      BY <1>1, <3>1 DEF AnswerGiven
    <3>3. PutAllowed(c)'
      <4>1. Len(log) + 1 \in Nat /\ Len(log') + 1 \in Nat /\ Len(log) + 1 <= Len(log') + 1
        BY <2>1 DEF Grown
      <4>2. \A i : IsOf(c, i) => i \in DOMAIN log
        BY <2>4 DEF IsOf
      <4>3. \A i : IsOf(c, i) /\ Allowed(log, i, Len(log) + 1) => Allowed(log', i, Len(log') + 1)
        BY <2>1, <4>1, <4>2, AllowedLasts
      <4> QED  BY <1>1, <2>5, <3>1, <4>3 DEF PutAllowed
    <3>4. OutcomeSaid(c)'
      <4>1. /\ \A key : SomeoneGranted(log, key, Len(log) + 1, said) =>
                          SomeoneGranted(log', key, Len(log') + 1, said)
            /\ \A key, given : SomeoneAnswered(log, key, given, said) =>
                                 SomeoneAnswered(log', key, given, said)
        BY <2>1, SomeoneLasts
      <4> QED  BY <1>1, <3>1, <4>1 DEF OutcomeSaid
    <3> QED  BY <3>2, <3>3, <3>4
  <2> QED  BY <1>1, <1>3, <2>2, <2>3, <2>7, <2>9, <2>10 DEF WaitInv
<1> QED  BY <1>4, <1>5

(* A step of a call that waits: it may answer or settle, and waits on.     *)
LEMMA WaitMoves ==
  ASSUME WaitInv, NEW c \in Calls, at[c] \in Pending, NEW place \in Pending,
         at' = [at EXCEPT ![c] = place], UNCHANGED <<log, pc, next, id, closers>>,
         said \subseteq said', DOMAIN answer' = Calls, DOMAIN outcome' = Calls,
         \A d \in Calls \ {c} : answer'[d] = answer[d] /\ outcome'[d] = outcome[d],
         AnswerGiven(c)', PutAllowed(c)', OutcomeSaid(c)'
  PROVE  WaitInv'
<1>1. /\ at \in [Calls -> {"off", "ready", "done"} \cup Pending] /\ id \in [Calls -> Nat]
      /\ log' = log /\ pc' = pc /\ next' = next /\ id' = id /\ closers' = closers
  BY DEF WaitInv, CallsTyped
<1>2. /\ at'[c] = place /\ \A d \in Calls \ {c} : at'[d] = at[d]
      /\ \A d \in Calls : at'[d] \in Pending <=> at[d] \in Pending
  BY <1>1
<1>3. CallsTyped'
  BY <1>1 DEF WaitInv, CallsTyped
<1>4. \A d, i : IsOf(d, i)' <=> IsOf(d, i)
  BY <1>1 DEF IsOf
<1>5. pc = "tools"
  BY DEF WaitInv, Matched, Pending
<1>6. Matched'
  BY <1>1, <1>2, <1>4, <1>5 DEF WaitInv, Matched
<1>7. Repairs'
  <2>1. \A f, i : Closer(f, i)' <=> Closer(f, i)
    BY <1>1 DEF Closer
  <2> QED  BY <1>1, <2>1 DEF WaitInv, Repairs
<1>8. SaidInv(log, said') /\ AsksInv(log)
  BY SaidMore DEF WaitInv
<1>9. ASSUME NEW d \in Calls \ {c} PROVE AnswerGiven(d)' /\ PutAllowed(d)' /\ OutcomeSaid(d)'
  <2>1. AnswerGiven(d) /\ PutAllowed(d) /\ OutcomeSaid(d)
    BY DEF WaitInv
  <2>2. at'[d] = at[d] /\ answer'[d] = answer[d] /\ outcome'[d] = outcome[d]
    BY <1>2
  <2>3. AnswerGiven(d)'
    BY <1>1, <2>1, <2>2 DEF AnswerGiven
  <2>4. PutAllowed(d)'
    BY <1>1, <1>4, <2>1, <2>2 DEF PutAllowed
  <2>5. \A key, j : SomeoneGranted(log, key, j, said) => SomeoneGranted(log, key, j, said')
    BY DEF SomeoneGranted
  <2>6. \A key, given : SomeoneAnswered(log, key, given, said) => SomeoneAnswered(log, key, given, said')
    <3> TAKE key, given
    <3>1. ASSUME SomeoneAnswered(log, key, given, said) PROVE SomeoneAnswered(log, key, given, said')
      <4>1. PICK i \in AtIn(log, "question/asked") : log[i].key = key /\ Covers(log[i].says, key, given, said)
        BY <3>1 DEF SomeoneAnswered
      <4>2. Covers(log[i].says, key, given, said')
        BY <4>1, CoversMore
      <4> QED  BY <4>1, <4>2 DEF SomeoneAnswered
    <3> QED  BY <3>1
  <2>7. OutcomeSaid(d)'
    BY <1>1, <2>1, <2>2, <2>5, <2>6 DEF OutcomeSaid
  <2> QED  BY <2>3, <2>4, <2>7
<1> QED  BY <1>1, <1>3, <1>6, <1>7, <1>8, <1>9 DEF WaitInv

LEMMA SettleWaits ==
  ASSUME WaitInv, NEW c \in Calls, at[c] \in Pending, NEW out, Settles(c, out),
         UNCHANGED <<log, pc, next, id, answer, said, closers>>,
         c \in Gated /\ out = "allowed-once" => SomeoneGranted(log, id[c], Len(log) + 1, said),
         c \in Asking /\ out # Nothing => SomeoneAnswered(log, id[c], out, said)
  PROVE  WaitInv'
<1>1. /\ at \in [Calls -> {"off", "ready", "done"} \cup Pending]
      /\ DOMAIN answer = Calls /\ DOMAIN outcome = Calls
      /\ log' = log /\ pc' = pc /\ next' = next /\ id' = id /\ answer' = answer /\ said' = said
      /\ closers' = closers
      /\ at' = [at EXCEPT ![c] = "settled"] /\ outcome' = [outcome EXCEPT ![c] = out]
  BY DEF WaitInv, CallsTyped, Settles
<1>2. /\ at'[c] = "settled" /\ outcome'[c] = out /\ DOMAIN outcome' = Calls
      /\ \A d \in Calls \ {c} : outcome'[d] = outcome[d]
  BY <1>1
<1>3. AnswerGiven(c)
  BY DEF WaitInv
<1>4. AnswerGiven(c)' /\ PutAllowed(c)'
  BY <1>1, <1>2, <1>3 DEF AnswerGiven, PutAllowed
<1>5. OutcomeSaid(c)'
  BY <1>1, <1>2 DEF OutcomeSaid
<1> QED  BY <1>1, <1>2, <1>4, <1>5, WaitMoves DEF Pending

(* Withdrawn is nobody's word.                                             *)
LEMMA WithdrawnIs ==
  ASSUME NEW c \in Calls
  PROVE  /\ c \in Gated => Withdrawn(AskedType(c)) # "allowed-once"
         /\ c \in Asking => Withdrawn(AskedType(c)) = Nothing /\ c \notin Gated
         /\ AskedType(c) \in AskTypes
<1>1. c \in Gated => c \notin Asking
  BY ConstantsAssumption
<1> QED  BY <1>1 DEF Withdrawn, AskedType, AskTypes

LEMMA PutWaits ==
  ASSUME TaskTyped, WaitInv, NEW c \in Calls, Put(c)
  PROVE  WaitInv'
<1>1. /\ at \in [Calls -> {"off", "ready", "done"} \cup Pending] /\ at[c] = "asked"
      /\ UNCHANGED <<log, pc, next, id, answer, said, closers>>
      /\ DOMAIN answer = Calls /\ DOMAIN outcome = Calls
  BY DEF WaitInv, CallsTyped, Put
<1>2. answer[c] = Nothing
  BY <1>1 DEF WaitInv, AnswerGiven
<1>4. ASSUME at' = [at EXCEPT ![c] = "put"], outcome' = outcome, ~(c \in Gated /\ Policy = "never")
      PROVE  WaitInv'
  <2>1. at'[c] = "put" /\ answer'[c] = Nothing
    BY <1>1, <1>2, <1>4
  <2>2. AnswerGiven(c)' /\ OutcomeSaid(c)'
    BY <1>4, <2>1 DEF AnswerGiven, OutcomeSaid
  <2>3. PutAllowed(c)'
    <3> SUFFICES ASSUME c \in Gated, NEW i, IsOf(c, i)' PROVE Allowed(log', i, Len(log') + 1)
      BY DEF PutAllowed
    <3> DEFINE P == AtIn(log, "approval/policy")
               n == Len(log)
    <3>1. n \in Nat /\ i \in 1 .. n /\ P \in SUBSET (1 .. n) /\ log' = log /\ DOMAIN log = 1 .. n
      BY <1>1 DEF IsOf, Unclosed, TaskTyped, AtIn
    <3>2. At("approval/policy") = P /\ Policies(log, i) = {k \in P : k < i}
      BY DEF At, AtIn, Policies
    <3>3. /\ Policy = IF Latest(P) = 0 THEN "ask" ELSE log[Latest(P)].says
          /\ \A k \in P : log[k].says \in {"ask", "never"}
      BY <3>2 DEF Policy, WaitInv, SaidInv
    <3> HIDE DEF P
    <3>4. Latest(P) \in P \cup {0} /\ \A k \in P : k <= Latest(P)
      BY <3>1, LatestIs
    <3>5. Latest(P) = 0 \/ log[Latest(P)].says = "ask"
      BY <1>4, <3>3, <3>4
    <3> DEFINE Q == {k \in P : k < i}
    <3>6. Q \in SUBSET (1 .. n)
      BY <3>1
    <3>6a. Q = {} => Latest(Q) = 0
      <4> HIDE DEF Q
      <4> QED  BY <3>1, <3>6, LatestIs
    <3>6b. Latest(Q) \in Q \cup {0} /\ \A k \in Q : k <= Latest(Q)
      <4> HIDE DEF Q
      <4> QED  BY <3>1, <3>6, LatestIs
    <3>7. CASE Latest(P) = 0
      <4>1. P = {}
        BY <3>1, <3>4, <3>7
      <4>2. Latest(Q) = 0
        BY <3>6a, <4>1
      <4> QED  BY <3>1, <3>2, <4>2 DEF Allowed
    <3>8. CASE Latest(P) \in P /\ Latest(P) < i
      <4>1. Latest(P) \in Q
        BY <3>8
      <4>2. Latest(Q) = Latest(P)
        <5> DEFINE p == Latest(P)
                   q == Latest(Q)
        <5>1. p \in 1 .. n /\ p <= q /\ q \in Q \cup {0} /\ p \in Q
          BY <3>1, <3>6b, <3>8, <4>1
        <5>2. \A k \in Q : k \in P /\ k \in 1 .. n /\ k <= p
          BY <3>4, <3>6
        <5> HIDE DEF p, q, Q
        <5>3. q \in Q /\ q <= p /\ q \in 1 .. n
          BY <5>1, <5>2
        <5>4. q = p
          BY <5>1, <5>3
        <5> QED  BY <5>4 DEF p, q
      <4>3. Latest(P) # 0
        BY <3>1, <3>8
      <4> QED  BY <3>1, <3>2, <3>5, <4>2, <4>3 DEF Allowed
    <3>9. CASE Latest(P) \in P /\ ~(Latest(P) < i)
      <4>1. Latest(P) # i
        BY <3>1, <3>9 DEF P, AtIn, IsOf, Unclosed, AskTypes
      <4>2. Latest(P) \in 1 .. n /\ i < Latest(P) /\ Latest(P) < n + 1
        <5> DEFINE p == Latest(P)
        <5>1. p \in 1 .. n /\ i \in 1 .. n /\ ~(p < i) /\ p # i
          BY <3>1, <3>9, <4>1
        <5> HIDE DEF p, n
        <5>2. i < p /\ p < n + 1
          BY <3>1, <5>1
        <5> QED  BY <5>1, <5>2 DEF p
      <4> QED  BY <3>1, <3>9, <4>2 DEF Allowed, P
    <3> QED  BY <3>4, <3>7, <3>8, <3>9
  <2> QED  BY <1>1, <1>4, <2>2, <2>3, WaitMoves DEF Pending
<1>8. CASE stopped
  <2>1. Settles(c, Withdrawn(AskedType(c)))
    BY <1>8 DEF Put
  <2>2. c \in Gated => Withdrawn(AskedType(c)) # "allowed-once"
    BY WithdrawnIs
  <2>3. c \in Asking => Withdrawn(AskedType(c)) = Nothing
    BY WithdrawnIs
  <2> QED  BY <1>1, <2>1, <2>2, <2>3, SettleWaits DEF Pending
<1>9. CASE ~stopped /\ c \in Gated /\ Policy = "never"
  <2>1. Settles(c, "rejected") /\ c \notin Asking
    BY <1>9, WithdrawnIs DEF Put
  <2> QED  BY <1>1, <2>1, SettleWaits DEF Pending
<1>10. CASE ~stopped /\ ~(c \in Gated /\ Policy = "never")
  BY <1>4, <1>10 DEF Put
<1> QED  BY <1>8, <1>9, <1>10

LEMMA AnswerWaits ==
  ASSUME TaskTyped, WaitInv, NEW c \in Calls, NEW a, Answer(c, a),
         c \in Asking => a \in Given \cup {Panic}
  PROVE  WaitInv'
<1>1. /\ at \in [Calls -> {"off", "ready", "done"} \cup Pending] /\ at[c] \in {"put", "parked"}
      /\ UNCHANGED <<log, pc, next, at, id, outcome, closers>>
      /\ answer' = [answer EXCEPT ![c] = a] /\ said' = said \cup {<<AskedType(c), id[c], a>>}
      /\ DOMAIN answer = Calls /\ DOMAIN outcome = Calls
  BY DEF WaitInv, CallsTyped, Answer
<1>2. /\ at' = [at EXCEPT ![c] = at[c]] /\ DOMAIN answer' = Calls /\ answer'[c] = a
      /\ \A d \in Calls \ {c} : answer'[d] = answer[d] /\ outcome'[d] = outcome[d]
  BY <1>1
<1>3. AnswerGiven(c)' /\ OutcomeSaid(c)'
  BY <1>1, <1>2 DEF AnswerGiven, OutcomeSaid
<1>4. PutAllowed(c)'
  <2>1. \A i : IsOf(c, i)' <=> IsOf(c, i)
    BY <1>1 DEF IsOf
  <2> QED  BY <1>1, <2>1 DEF WaitInv, PutAllowed
<1>5. at[c] \in Pending /\ said \subseteq said'
  BY <1>1 DEF Pending
<1> QED  BY <1>1, <1>2, <1>3, <1>4, <1>5, WaitMoves

LEMMA ParkWaits ==
  ASSUME TaskTyped, WaitInv, NEW c \in Calls, Park(c)
  PROVE  WaitInv'
<1>1. /\ at \in [Calls -> {"off", "ready", "done"} \cup Pending] /\ at[c] = "put"
      /\ UNCHANGED <<log, pc, next, id, answer, said, closers>> /\ answer[c] = Nothing
      /\ DOMAIN answer = Calls /\ DOMAIN outcome = Calls
  BY DEF WaitInv, CallsTyped, Park
<1>2. CASE at' = [at EXCEPT ![c] = "parked"] /\ outcome' = outcome
  <2>1. at'[c] = "parked" /\ answer'[c] = Nothing
    BY <1>1, <1>2
  <2>2. AnswerGiven(c)' /\ OutcomeSaid(c)'
    BY <2>1 DEF AnswerGiven, OutcomeSaid
  <2>3. PutAllowed(c)'
    <3>1. \A i : IsOf(c, i)' <=> IsOf(c, i)
      BY <1>1 DEF IsOf
    <3> QED  BY <1>1, <3>1 DEF WaitInv, PutAllowed
  <2> QED  BY <1>1, <1>2, <2>2, <2>3, WaitMoves DEF Pending
<1>3. CASE Settles(c, Withdrawn(AskedType(c)))
  <2>1. /\ c \in Gated => Withdrawn(AskedType(c)) # "allowed-once"
        /\ c \in Asking => Withdrawn(AskedType(c)) = Nothing
    BY WithdrawnIs
  <2> QED  BY <1>1, <1>3, <2>1, SettleWaits DEF Pending
<1> QED  BY <1>2, <1>3 DEF Park

LEMMA WakeWaits ==
  ASSUME TaskTyped, WaitInv, NEW c \in Calls, Wake(c)
  PROVE  WaitInv'
<1>1. /\ at[c] \in {"put", "parked"} /\ at[c] \in Pending
      /\ UNCHANGED <<log, pc, next, id, answer, said, closers>>
  BY DEF Wake, Pending
<1>2. AnswerGiven(c) /\ PutAllowed(c)
  BY DEF WaitInv
<1>3. CASE Settles(c, Withdrawn(AskedType(c)))
  <2>1. /\ c \in Gated => Withdrawn(AskedType(c)) # "allowed-once"
        /\ c \in Asking => Withdrawn(AskedType(c)) = Nothing
    BY WithdrawnIs
  <2> QED  BY <1>1, <1>3, <2>1, SettleWaits
<1>4. CASE answer[c] # Nothing /\ Settles(c, Heard(c))
  <2>1. PICK i : IsOf(c, i)
    BY <1>1 DEF WaitInv, Matched
  <2>2. i \in AtIn(log, AskedType(c)) /\ log[i].key = id[c] /\ log[i].ty = AskedType(c)
    BY <2>1 DEF IsOf, Unclosed, AtIn
  <2>3. <<AskedType(c), id[c], answer[c]>> \in said /\ (c \in Asking => answer[c] \in Given \cup {Panic})
    BY <1>2, <1>4 DEF AnswerGiven
  <2>4. ASSUME c \in Gated, Heard(c) = "allowed-once"
        PROVE  SomeoneGranted(log, id[c], Len(log) + 1, said)
    <3>1. Heard(c) = IF answer[c] = Panic THEN "unavailable" ELSE answer[c]
      BY <2>4 DEF Heard
    <3>2. answer[c] = "allowed-once" /\ AskedType(c) = "approval/asked"
      BY <2>4, <3>1 DEF AskedType
    <3>3. Allowed(log, i, Len(log) + 1)
      BY <1>1, <1>2, <2>1, <2>4 DEF PutAllowed
    <3> QED  BY <2>2, <2>3, <3>2, <3>3 DEF SomeoneGranted
  <2>5. ASSUME c \in Asking, Heard(c) # Nothing
        PROVE  SomeoneAnswered(log, id[c], Heard(c), said)
    <3> DEFINE h == CHOOSE k \in At("question/asked") : log[k].key = id[c]
    <3>1. c \notin Gated /\ AskedType(c) = "question/asked"
      BY <2>5, WithdrawnIs DEF AskedType
    <3>2. Heard(c) = IF answer[c] = Panic THEN Nothing ELSE judge(log[h].says, answer[c])
      BY <3>1 DEF Heard
    <3>3. answer[c] \in Given /\ Heard(c) = judge(log[h].says, answer[c])
      BY <2>3, <2>5, <3>2
    <3>4. At("question/asked") = AtIn(log, "question/asked")
      BY DEF At, AtIn
    <3>5. h \in AtIn(log, "question/asked") /\ log[h].key = id[c]
      BY <2>2, <3>1, <3>4
    <3> HIDE DEF h
    <3>6. log[h].says \in QuestionSets
      BY <3>5 DEF WaitInv, SaidInv
    <3>7. Covers(log[h].says, id[c], Heard(c), said)
      BY <2>3, <2>5, <3>1, <3>3, <3>6, JudgeCovers
    <3> QED  BY <3>5, <3>7 DEF SomeoneAnswered
  <2> QED  BY <1>1, <1>4, <2>4, <2>5, SettleWaits
<1> QED  BY <1>3, <1>4 DEF Wake

LEMMA AskWaits ==
  ASSUME TaskTyped, WaitInv, NEW c \in Calls, Ask(c)
  PROVE  WaitInv'
<1>1. /\ pc = "tools" /\ at[c] = "ready"
      /\ pc' = pc /\ answer' = answer /\ outcome' = outcome /\ said' = said /\ closers' = closers
      /\ at \in [Calls -> {"off", "ready", "done"} \cup Pending] /\ id \in [Calls -> Nat]
      /\ DOMAIN answer = Calls /\ DOMAIN outcome = Calls /\ next \in [AskTypes -> Nat]
  BY DEF Ask, WaitInv, CallsTyped
<1>2. closers = <<>>
  BY <1>1 DEF WaitInv, Repairs
<1>3. Repairs'
  BY <1>1, <1>2 DEF Repairs
<1>4. \A d \in Calls : AnswerGiven(d) /\ PutAllowed(d) /\ OutcomeSaid(d)
  BY DEF WaitInv
<1>5. answer[c] = Nothing
  BY <1>1, <1>4 DEF AnswerGiven
<1>6. ASSUME at' = [at EXCEPT ![c] = "done"], UNCHANGED <<log, next, id>>
      PROVE  WaitInv'
  <2>1. /\ at'[c] = "done" /\ \A d \in Calls \ {c} : at'[d] = at[d]
        /\ \A d \in Calls : at'[d] \in Pending <=> at[d] \in Pending
    BY <1>1, <1>6 DEF Pending
  <2>2. CallsTyped'
    BY <1>1, <1>6 DEF CallsTyped
  <2>3. \A d, i : IsOf(d, i)' <=> IsOf(d, i)
    BY <1>6 DEF IsOf
  <2>4. Matched'
    BY <1>1, <1>6, <2>1, <2>3 DEF WaitInv, Matched
  <2>5. ASSUME NEW d \in Calls PROVE AnswerGiven(d)' /\ PutAllowed(d)' /\ OutcomeSaid(d)'
    <3>1. CASE d = c
      BY <1>1, <1>5, <2>1, <3>1 DEF AnswerGiven, PutAllowed, OutcomeSaid
    <3>2. CASE d # c
      BY <1>1, <1>4, <1>6, <2>1, <2>3, <3>2 DEF AnswerGiven, PutAllowed, OutcomeSaid
    <3> QED  BY <3>1, <3>2
  <2> QED  BY <1>1, <1>3, <1>6, <2>2, <2>4, <2>5 DEF WaitInv
<1>7. ASSUME NEW asked \in Puts(c), Write(Event(AskedType(c), next[AskedType(c)], asked)),
             next' = [next EXCEPT ![AskedType(c)] = @ + 1],
             id' = [id EXCEPT ![c] = next[AskedType(c)]], at' = [at EXCEPT ![c] = "asked"]
      PROVE  WaitInv'
  <2> DEFINE ty == AskedType(c)
             e == Event(ty, next[ty], asked)
  <2>0. PICK n : n = Len(log)
    OBVIOUS
  <2>1. Grown(log', log, e) /\ e.ty = ty /\ e.key = next[ty] /\ e.says = asked
    BY <1>7, AppendGrows DEF Write, TaskTyped, Event
  <2>2. ty \in AskTypes
    BY WithdrawnIs
  <2>3. /\ \E s : OpenAt(log, s)
        /\ \A t \in AskTypes : next[t] = Cardinality(AtIn(log, t))
    BY <1>1 DEF WaitInv, Matched, Running
  <2> HIDE DEF e, ty
  <2>4. /\ AsksInv(log') /\ \A i : Unclosed(log', i) <=> Unclosed(log, i) \/ i = n + 1
        /\ \A s : OpenAt(log', s) <=> OpenAt(log, s)
        /\ \A i \in DOMAIN log : log[i].ty = ty => log[i].key # next[ty]
    BY <2>0, <2>1, <2>2, <2>3, AsksAsk DEF WaitInv
  <2>5. ty = "question/asked" => asked \in QuestionSets
    BY <1>7 DEF ty, AskedType, Puts
  <2>6. SaidInv(log', said)
    BY <2>1, <2>2, <2>5, SaidGrows DEF WaitInv, AskTypes
  <2>7. /\ at'[c] = "asked" /\ id'[c] = next[ty] /\ next'[ty] = next[ty] + 1
        /\ \A d \in Calls \ {c} : at'[d] = at[d] /\ id'[d] = id[d]
        /\ \A d \in Calls : at'[d] \in Pending <=> at[d] \in Pending \/ d = c
        /\ \A t \in AskTypes \ {ty} : next'[t] = next[t]
    BY <1>1, <1>7, <2>2 DEF Pending, ty
  <2>8. CallsTyped'
    BY <1>1, <1>7, <2>2 DEF CallsTyped, ty, Pending
  <2>9. /\ n \in Nat /\ n + 1 \notin DOMAIN log /\ log'[n + 1] = e
        /\ \A i \in DOMAIN log : log'[i] = log[i]
    BY <2>0, <2>1 DEF Grown
  <2>10. \A t \in AskTypes : next'[t] = Cardinality(AtIn(log', t))
    BY <2>1, <2>3, <2>7, AtGrows
  <2>11. IsOf(c, n + 1)'
    BY <2>1, <2>4, <2>7, <2>9 DEF IsOf, ty
  <2>12. \A d \in Calls \ {c} : \A i : IsOf(d, i) => IsOf(d, i)' /\ i \in DOMAIN log
    BY <2>4, <2>7, <2>9, UnclosedIn DEF IsOf
  <2>13. \A d \in Calls \ {c} : at[d] \in Pending => ~(AskedType(d) = ty /\ id[d] = next[ty])
    <3> TAKE d \in Calls \ {c}
    <3>1. HAVE at[d] \in Pending
    <3>2. PICK i : IsOf(d, i)
      BY <3>1 DEF WaitInv, Matched
    <3>3. i \in DOMAIN log /\ log[i].ty = AskedType(d) /\ log[i].key = id[d]
      BY <3>2, UnclosedIn DEF IsOf
    <3> QED  BY <2>4, <3>3
  <2>14. \A d \in Calls \ {c} : at[d] \in Pending =>
           \A i : IsOf(d, i)' => IsOf(d, i) /\ i \in DOMAIN log
    <3> TAKE d \in Calls \ {c}
    <3>1. HAVE at[d] \in Pending
    <3> TAKE i
    <3>2. HAVE IsOf(d, i)'
    <3>3. Unclosed(log', i) /\ log'[i].ty = AskedType(d) /\ log'[i].key = id[d]
      BY <2>7, <3>2 DEF IsOf
    <3>4. i # n + 1
      BY <2>1, <2>9, <2>13, <3>1, <3>3
    <3> QED  BY <2>4, <2>9, <3>3, <3>4, UnclosedIn DEF IsOf
  <2>15. Matched'
    <3>1. \A d \in Calls : at'[d] \in Pending => \E i : IsOf(d, i)'
      <4>1. \A d \in Calls \ {c} : at[d] \in Pending => \E i : IsOf(d, i)'
        BY <2>12 DEF WaitInv, Matched
      <4> QED  BY <2>7, <2>11, <4>1
    <3>2. \A d, f \in Calls : at'[d] \in Pending /\ at'[f] \in Pending
            /\ AskedType(d) = AskedType(f) /\ id'[d] = id'[f] => d = f
      <4> TAKE d, f \in Calls
      <4>1. HAVE at'[d] \in Pending /\ at'[f] \in Pending
            /\ AskedType(d) = AskedType(f) /\ id'[d] = id'[f]
      <4>2. CASE d # c /\ f # c
        BY <2>7, <4>1, <4>2 DEF WaitInv, Matched
      <4>3. CASE d = c /\ f # c
        BY <2>7, <2>13, <4>1, <4>3 DEF ty
      <4>4. CASE d # c /\ f = c
        BY <2>7, <2>13, <4>1, <4>4 DEF ty
      <4> QED  BY <4>2, <4>3, <4>4
    <3>3. \A i : Unclosed(log', i) => \E d \in Calls : at'[d] \in Pending /\ IsOf(d, i)'
      <4> TAKE i
      <4>1. HAVE Unclosed(log', i)
      <4>2. CASE i = n + 1
        BY <2>7, <2>11, <4>2
      <4>3. CASE Unclosed(log, i)
        <5>1. PICK d \in Calls : at[d] \in Pending /\ IsOf(d, i)
          BY <1>1, <4>3 DEF WaitInv, Matched
        <5>2. d # c
          BY <1>1, <5>1 DEF Pending
        <5> QED  BY <2>7, <2>12, <5>1, <5>2
      <4> QED  BY <2>4, <4>1, <4>2, <4>3
    <3> QED  BY <1>1, <2>3, <2>4, <2>10, <3>1, <3>2, <3>3 DEF Matched
  <2>16. ASSUME NEW d \in Calls PROVE AnswerGiven(d)' /\ PutAllowed(d)' /\ OutcomeSaid(d)'
    <3>1. CASE d = c
      BY <1>1, <1>5, <2>7, <3>1 DEF AnswerGiven, PutAllowed, OutcomeSaid
    <3>2. CASE d # c
      <4>1. /\ at'[d] = at[d] /\ id'[d] = id[d] /\ answer'[d] = answer[d] /\ outcome'[d] = outcome[d]
            /\ AnswerGiven(d) /\ PutAllowed(d) /\ OutcomeSaid(d)
        BY <1>1, <1>4, <2>7, <3>2
      <4>2. AnswerGiven(d)'
        BY <1>1, <4>1 DEF AnswerGiven
      <4>3. PutAllowed(d)'
        <5> SUFFICES ASSUME d \in Gated, at[d] \in {"put", "parked"}, NEW i, IsOf(d, i)'
                     PROVE  Allowed(log', i, Len(log') + 1)
          BY <4>1 DEF PutAllowed
        <5>1. IsOf(d, i) /\ i \in DOMAIN log
          BY <2>14, <3>2 DEF Pending
        <5>2. Allowed(log, i, Len(log) + 1)
          BY <4>1, <5>1 DEF PutAllowed
        <5>3. Len(log) + 1 \in Nat /\ Len(log') + 1 \in Nat /\ Len(log) + 1 <= Len(log') + 1
          BY <2>1 DEF Grown
        <5> QED  BY <2>1, <5>1, <5>2, <5>3, AllowedLasts
      <4>4. OutcomeSaid(d)'
        <5>1. /\ \A key : SomeoneGranted(log, key, Len(log) + 1, said) =>
                            SomeoneGranted(log', key, Len(log') + 1, said)
              /\ \A key, given : SomeoneAnswered(log, key, given, said) =>
                                   SomeoneAnswered(log', key, given, said)
          BY <2>1, SomeoneLasts
        <5> QED  BY <1>1, <4>1, <5>1 DEF OutcomeSaid
      <4> QED  BY <4>2, <4>3, <4>4
    <3> QED  BY <3>1, <3>2
  <2> QED  BY <1>1, <1>3, <2>4, <2>6, <2>8, <2>15, <2>16 DEF WaitInv
<1> QED  BY <1>6, <1>7 DEF Ask

(* Nothing is left open while no call waits. *)
LEMMA NoneUnclosed ==
  ASSUME WaitInv, \A c \in Calls : at[c] \in {"off", "ready", "done"}
  PROVE  /\ pc \notin {"down", "repair"} => \A i : ~Unclosed(log, i)
         /\ \A c \in Calls : answer[c] = Nothing
<1>1. \A c \in Calls : at[c] \notin Pending
  BY DEF Pending
<1>2. pc \notin {"down", "repair"} =>
        \A i : Unclosed(log, i) => \E c \in Calls : at[c] \in Pending
  BY DEF WaitInv, Matched
<1>3. \A c \in Calls : answer[c] = Nothing
  BY DEF WaitInv, AnswerGiven
<1> QED  BY <1>1, <1>2, <1>3

LEMMA NobodyWaits ==
  ASSUME CallsTyped', \A c \in Calls : at'[c] \in {"off", "ready", "done"} /\ answer'[c] = Nothing,
         AsksInv(log'), SaidInv(log', said'), Repairs',
         pc' # "tools" => \A c \in Calls : at'[c] = "off",
         pc' \notin {"down", "repair"} => \A i : ~Unclosed(log', i),
         pc' \in Running => /\ \E s : OpenAt(log', s)
                            /\ \A ty \in AskTypes : next'[ty] = Cardinality(AtIn(log', ty))
  PROVE  WaitInv'
<1>1. \A c \in Calls : at'[c] \notin Pending
  BY DEF Pending
<1>2. Matched'
  BY <1>1 DEF Matched
<1>3. \A c \in Calls : AnswerGiven(c)' /\ PutAllowed(c)' /\ OutcomeSaid(c)'
  BY DEF AnswerGiven, PutAllowed, OutcomeSaid
<1> QED  BY <1>2, <1>3 DEF WaitInv

LEMMA RespondWaits ==
  ASSUME WaitInv, NEW asked \in SUBSET Calls, Respond(asked)
  PROVE  WaitInv'
<1>1. /\ pc = "sending" /\ pc' = "tools" /\ UNCHANGED <<log, next, id, answer, outcome, closers, said>>
      /\ at' = [c \in Calls |-> IF c \in asked THEN "ready" ELSE "off"]
  BY DEF Respond, Goto
<1>2. \A c \in Calls : at[c] = "off"
  BY <1>1 DEF WaitInv, Matched
<1>3. (\A i : ~Unclosed(log, i)) /\ \A c \in Calls : answer[c] = Nothing
  BY <1>1, <1>2, NoneUnclosed
<1>4. CallsTyped'
  BY <1>1 DEF WaitInv, CallsTyped
<1>5. Repairs'
  BY <1>1 DEF WaitInv, Repairs
<1>6. \A c \in Calls : at'[c] \in {"off", "ready", "done"} /\ answer'[c] = Nothing
  BY <1>1, <1>3
<1>7. /\ \E s : OpenAt(log', s)
      /\ \A ty \in AskTypes : next'[ty] = Cardinality(AtIn(log', ty))
  BY <1>1 DEF WaitInv, Matched, Running
<1> QED  BY <1>1, <1>3, <1>4, <1>5, <1>6, <1>7, NobodyWaits DEF WaitInv

LEMMA StepEndWaits ==
  ASSUME WaitInv, StepEnd
  PROVE  WaitInv'
<1>1. /\ pc = "tools" /\ pc' \in {"sending", "closing"} /\ UNCHANGED <<log, next, closers, said>>
      /\ NoCalls /\ \A c \in Calls : at[c] \in {"off", "ready", "done"}
  BY DEF StepEnd, Goto
<1>2. \A i : ~Unclosed(log, i)
  BY <1>1, NoneUnclosed
<1>3. CallsTyped'
  BY <1>1 DEF WaitInv, CallsTyped, NoCalls
<1>4. Repairs'
  BY <1>1 DEF WaitInv, Repairs
<1>5. \A c \in Calls : at'[c] = "off" /\ answer'[c] = Nothing
  BY <1>1 DEF NoCalls
<1>6. /\ \E s : OpenAt(log', s)
      /\ \A ty \in AskTypes : next'[ty] = Cardinality(AtIn(log', ty))
  BY <1>1 DEF WaitInv, Matched, Running
<1> QED  BY <1>1, <1>2, <1>3, <1>4, <1>5, <1>6, NobodyWaits DEF WaitInv

LEMMA RunTurnWaits ==
  ASSUME TaskTyped, WaitInv, RunTurn
  PROVE  WaitInv'
<1> DEFINE e == Event("turn/start", turn', Nothing)
<1>1. /\ pc = "idle" /\ pc' = "sending" /\ UNCHANGED <<at, id, answer, outcome, closers, said>>
      /\ Write(e) /\ next' = Seeded
  BY DEF RunTurn, Goto
<1>2. Grown(log', log, e) /\ e.ty = "turn/start"
  BY <1>1, AppendGrows DEF Write, TaskTyped, Event
<1> HIDE DEF e
<1>3. \A c \in Calls : at[c] = "off"
  BY <1>1 DEF WaitInv, Matched
<1>4. (\A i : ~Unclosed(log, i)) /\ \A c \in Calls : answer[c] = Nothing
  BY <1>1, <1>3, NoneUnclosed
<1>5. AsksInv(log') /\ (\A i : ~Unclosed(log', i)) /\ OpenAt(log', Len(log) + 1)
  BY <1>2, <1>4, AsksBound DEF WaitInv
<1>6. SaidInv(log', said')
  <2>1. SaidInv(log', said)
    BY <1>2, SaidGrows DEF WaitInv
  <2> QED  BY <1>1, <2>1
<1>7. Repairs'
  <2>1. closers = <<>>
    BY <1>1 DEF WaitInv, Repairs
  <2> QED  BY <1>1, <2>1 DEF Repairs
<1>8. \A ty \in AskTypes : next'[ty] = Cardinality(AtIn(log, ty))
  BY <1>1 DEF WaitInv, CallsTyped, Seeded, At, AtIn
<1>9. \A ty \in AskTypes : /\ Cardinality(AtIn(log, ty)) \in Nat
                           /\ Cardinality(AtIn(log', ty)) = Cardinality(AtIn(log, ty))
  BY <1>2, AtGrows DEF AskTypes
<1>10. CallsTyped'
  <2>1. DOMAIN next' = AskTypes /\ next' = [ty \in AskTypes |-> next'[ty]]
    BY <1>1 DEF WaitInv, CallsTyped, Seeded
  <2>2. next' \in [AskTypes -> Nat]
    BY <1>8, <1>9, <2>1
  <2> QED  BY <1>1, <2>2 DEF WaitInv, CallsTyped
<1> QED  BY <1>1, <1>3, <1>4, <1>5, <1>6, <1>7, <1>8, <1>9, <1>10, NobodyWaits

LEMMA TurnEndWaits ==
  ASSUME TaskTyped, WaitInv, TurnEnd
  PROVE  WaitInv'
<1> DEFINE e == Event("turn/end", turn, Nothing)
<1>1. /\ pc = "closing" /\ pc' = "idle" /\ UNCHANGED <<next, at, id, answer, outcome, closers, said>>
      /\ Write(e)
  BY DEF TurnEnd, Goto, asks
<1>2. Grown(log', log, e) /\ e.ty = "turn/end"
  BY <1>1, AppendGrows DEF Write, TaskTyped, Event
<1> HIDE DEF e
<1>3. \A c \in Calls : at[c] = "off"
  BY <1>1 DEF WaitInv, Matched
<1>4. (\A i : ~Unclosed(log, i)) /\ \A c \in Calls : answer[c] = Nothing
  BY <1>1, <1>3, NoneUnclosed
<1>5. AsksInv(log') /\ (\A i : ~Unclosed(log', i))
  BY <1>2, <1>4, AsksBound DEF WaitInv
<1>6. SaidInv(log', said')
  <2>1. SaidInv(log', said)
    BY <1>2, SaidGrows DEF WaitInv
  <2> QED  BY <1>1, <2>1
<1>7. Repairs'
  <2>1. closers = <<>>
    BY <1>1 DEF WaitInv, Repairs
  <2> QED  BY <1>1, <2>1 DEF Repairs
<1>8. CallsTyped'
  BY <1>1 DEF WaitInv, CallsTyped
<1>9. "idle" \notin Running
  BY DEF Running
<1> QED  BY <1>1, <1>3, <1>4, <1>5, <1>6, <1>7, <1>8, <1>9, NobodyWaits

LEMMA CrashWaits ==
  ASSUME WaitInv, Crash
  PROVE  WaitInv'
<1>1. /\ pc' = "down" /\ NoCalls /\ log' = log /\ said' = said /\ closers' = <<>>
      /\ next' = [ty \in DOMAIN next |-> 0] /\ DOMAIN next = AskTypes
  BY DEF Crash, Goto, WaitInv, CallsTyped
<1>2. CallsTyped'
  BY <1>1 DEF CallsTyped, NoCalls
<1>3. Repairs'
  BY <1>1 DEF Repairs
<1>4. \A c \in Calls : at'[c] = "off" /\ answer'[c] = Nothing
  BY <1>1 DEF NoCalls
<1>5. "down" \notin Running
  BY DEF Running
<1> QED  BY <1>1, <1>2, <1>3, <1>4, <1>5, NobodyWaits DEF WaitInv

LEMMA HasOpenIs ==
  ASSUME log \in Seq(ToSet(log))
  PROVE  /\ HasOpenTurn <=> OpenAt(log, Latest(At("turn/start")))
         /\ \A s : OpenAt(log, s) => s = Latest(At("turn/start"))
<1> DEFINE S == At("turn/start")
           E == At("turn/end")
           n == Len(log)
<1>1. n \in Nat /\ DOMAIN log = 1 .. n
  OBVIOUS
<1>2. S \in SUBSET (1 .. n) /\ E \in SUBSET (1 .. n)
  BY <1>1 DEF At
<1> DEFINE ls == Latest(S)
           le == Latest(E)
<1>3. ls \in S \cup {0} /\ ls \in 0 .. n /\ \A k \in S : k <= ls
  <2> HIDE DEF S
  <2> QED  BY <1>1, <1>2, LatestIs
<1>4. le \in E \cup {0} /\ le \in 0 .. n /\ \A k \in E : k <= le
  <2> HIDE DEF E
  <2> QED  BY <1>1, <1>2, LatestIs
<1>5. /\ \A k : k \in S <=> k \in 1 .. n /\ log[k].ty = "turn/start"
      /\ \A k : k \in E <=> k \in 1 .. n /\ log[k].ty = "turn/end"
  BY <1>1 DEF At
<1>6. HasOpenTurn <=> ls > le
  BY DEF HasOpenTurn
<1> HIDE DEF ls, le, S, E, n
<1>7. ASSUME NEW s, OpenAt(log, s) PROVE s = ls /\ ls > le
  <2>1. s \in 1 .. n /\ s \in S /\ \A k \in 1 .. n : k > s => k \notin S /\ k \notin E
    BY <1>1, <1>5, <1>7 DEF OpenAt
  <2>2. s <= ls /\ ~(ls > s)
    BY <1>2, <1>3, <2>1
  <2>3. s = ls
    BY <1>3, <2>1, <2>2
  <2>4. le = 0 \/ ~(le > s)
    BY <1>2, <1>4, <2>1
  <2>5. le # s
    BY <1>4, <1>5, <2>1
  <2> QED  BY <1>4, <2>1, <2>3, <2>4, <2>5
<1>8. ASSUME ls > le PROVE OpenAt(log, ls)
  <2>1. ls \in S /\ ls \in 1 .. n
    BY <1>2, <1>3, <1>4, <1>8
  <2>2. \A k \in 1 .. n : k > ls => k \notin S /\ k \notin E
    BY <1>3, <1>4, <1>8
  <2> QED  BY <1>1, <1>5, <2>1, <2>2 DEF OpenAt
<1> QED  BY <1>6, <1>7, <1>8 DEF ls, S

(* The asks a repair closes are those that nothing closed. *)
LEMMA LeftIs ==
  ASSUME log \in Seq(ToSet(log)), AsksInv(log), HasOpenTurn, NEW ty \in AskTypes, NEW i
  PROVE  i \in Left(ty) <=> Unclosed(log, i) /\ log[i].ty = ty
<1>1. ASSUME i \in Left(ty) PROVE Unclosed(log, i) /\ log[i].ty = ty
  BY <1>1 DEF Left, At, Unclosed
<1>2. ASSUME Unclosed(log, i), log[i].ty = ty PROVE i \in Left(ty)
  <2>1. PICK s : OpenAt(log, s) /\ s < i
    BY <1>2 DEF AsksInv, LeftInOpen
  <2>2. i > Latest(At("turn/start"))
    <3>1. s = Latest(At("turn/start")) /\ s \in DOMAIN log /\ i \in DOMAIN log
      BY <2>1, HasOpenIs, UnclosedIn, <1>2 DEF OpenAt
    <3>2. s \in Nat /\ i \in Nat
      BY <3>1
    <3> QED  BY <2>1, <3>1, <3>2
  <2> QED  BY <1>2, <2>2 DEF Left, At, Unclosed
<1> QED  BY <1>1, <1>2

LEMMA ReopenWaits ==
  ASSUME TaskTyped, WaitInv, Reopen
  PROVE  WaitInv'
<1>1. /\ pc = "down" /\ pc' = "repair" /\ closers' = Missing
      /\ UNCHANGED <<log, next, at, id, answer, outcome, said>>
  BY DEF Reopen, Goto, asks
<1>2. \A c \in Calls : at[c] = "off"
  BY <1>1 DEF WaitInv, Matched
<1>3. \A c \in Calls : answer[c] = Nothing
  BY <1>2, NoneUnclosed
<1>4. CallsTyped'
  BY <1>1 DEF WaitInv, CallsTyped
<1>5. log \in Seq(ToSet(log)) /\ AsksInv(log)
  BY DEF TaskTyped, WaitInv
<1>6. Repairs'
  <2>1. CASE ~HasOpenTurn
    <3>1. \A i : ~Unclosed(log, i)
      BY <1>5, <2>1, HasOpenIs DEF AsksInv, LeftInOpen
    <3> QED  BY <1>1, <2>1, <3>1 DEF Repairs, Missing
  <2>2. CASE HasOpenTurn
    <3> DEFINE M == Missing
               n == Len(Missing)
    <3>1. /\ M \in Seq(ToSet(M)) /\ n >= 1 /\ M[n].ty = "turn/end"
          /\ \A k \in 1 .. n - 1 : \E ty \in AskTypes : \E i \in Left(ty) : M[k] = Closing(ty, i)
          /\ \A ty \in AskTypes : \A i \in Left(ty) : \E k \in 1 .. n - 1 : M[k] = Closing(ty, i)
      BY <1>5, <2>2, MissingIs
    <3>2. \A ty \in AskTypes : \A i, j \in Left(ty) : log[i].key = log[j].key => i = j
      BY <1>5 DEF AsksInv, Numbered, Left, At
    <3>3. \A j, k \in 1 .. n - 1 : M[j].ty = M[k].ty /\ M[j].key = M[k].key => j = k
      BY <1>5, <2>2, <3>2, MissingIs
    <3>4. \A ty \in AskTypes : \A i \in Left(ty) : Closer(Closing(ty, i), i)
      BY <1>5, <2>2, LeftIs DEF Closer, Closing, Event
    <3>5. \A i : Unclosed(log, i) => log[i].ty \in AskTypes /\ i \in Left(log[i].ty)
      BY <1>5, <2>2, LeftIs, UnclosedIn
    <3>6. n = Len(M) /\ closers' = M
      BY <1>1
    <3> HIDE DEF n, M
    <3>7. \A k \in 1 .. n - 1 : \E i : Closer(M[k], i)
      BY <3>1, <3>4
    <3>8. \A i : Unclosed(log, i) => \E k \in 1 .. n - 1 : Closer(M[k], i)
      BY <3>1, <3>4, <3>5
    <3>9. M # <<>>
      BY <3>1, <3>6
    <3>10. \A e, i : Closer(e, i)' <=> Closer(e, i)
      BY <1>1 DEF Closer, Unclosed
    <3>11. \A i : Unclosed(log', i) <=> Unclosed(log, i)
      BY <1>1
    <3> QED  BY <1>1, <3>1, <3>3, <3>6, <3>7, <3>8, <3>9, <3>10, <3>11 DEF Repairs
  <2> QED  BY <2>1, <2>2
<1>7. "repair" \notin Running
  BY DEF Running
<1> QED  BY <1>1, <1>2, <1>3, <1>4, <1>6, <1>7, NobodyWaits DEF WaitInv

LEMMA RepairWaits ==
  ASSUME TaskTyped, WaitInv, Repair
  PROVE  WaitInv'
<1>1. pc = "repair" /\ UNCHANGED <<next, at, id, answer, outcome, said>>
  BY DEF Repair, asks
<1>2. \A c \in Calls : at[c] = "off"
  BY <1>1 DEF WaitInv, Matched
<1>3. \A c \in Calls : answer[c] = Nothing
  BY <1>2, NoneUnclosed
<1>4. CallsTyped'
  BY <1>1 DEF WaitInv, CallsTyped
<1>5. {"repair", "idle"} \cap Running = {}
  BY DEF Running
<1>6. AsksInv(log) /\ SaidInv(log, said) /\ Repairs
  BY DEF WaitInv
<1>7. CASE closers = <<>>
  <2>1. pc' = "idle" /\ log' = log /\ closers' = <<>>
    BY <1>7 DEF Repair, Goto
  <2>2. \A i : ~Unclosed(log, i)
    BY <1>1, <1>6, <1>7 DEF Repairs
  <2>3. Repairs'
    BY <2>1 DEF Repairs
  <2> QED  BY <1>1, <1>2, <1>3, <1>4, <1>5, <1>6, <2>1, <2>2, <2>3, NobodyWaits
<1>8. CASE closers # <<>>
  <2>0. PICK n, e, rest : n = Len(closers) /\ e = closers[1] /\ rest = Tail(closers)
    OBVIOUS
  <2>1. /\ n \in Nat /\ n >= 1 /\ DOMAIN closers = 1 .. n /\ Head(closers) = e
        /\ Len(rest) = n - 1 /\ \A k \in 1 .. n - 1 : rest[k] = closers[k + 1]
        /\ rest = <<>> <=> n = 1
    BY <1>8, <2>0 DEF TaskTyped
  <2>2. pc' = pc /\ Write(e) /\ closers' = rest
    BY <1>8, <2>0, <2>1 DEF Repair
  <2>3. Grown(log', log, e)
    BY <2>2, AppendGrows DEF Write, TaskTyped
  <2>4. /\ closers[n].ty = "turn/end"
        /\ \A k \in 1 .. n - 1 : \E i : Closer(closers[k], i)
        /\ \A i : Unclosed(log, i) => \E k \in 1 .. n - 1 : Closer(closers[k], i)
        /\ \A j, k \in 1 .. n - 1 :
             closers[j].ty = closers[k].ty /\ closers[j].key = closers[k].key => j = k
    BY <1>6, <1>8, <2>0 DEF Repairs
  <2>5. CASE n = 1
    <3>1. e.ty = "turn/end" /\ rest = <<>>
      BY <2>1, <2>4, <2>5, <2>0
    <3>2. \A i : ~Unclosed(log, i)
      BY <2>4, <2>5
    <3>3. AsksInv(log') /\ \A i : ~Unclosed(log', i)
      BY <1>6, <2>3, <3>1, <3>2, AsksBound
    <3>4. SaidInv(log', said)
      BY <1>6, <2>3, <3>1, SaidGrows
    <3>5. Repairs'
      BY <1>1, <2>2, <3>1, <3>3 DEF Repairs
    <3> QED  BY <1>1, <1>2, <1>3, <1>4, <1>5, <2>2, <3>3, <3>4, <3>5, NobodyWaits
  <2>6. CASE n > 1
    <3>1. PICK a : Closer(e, a)
      BY <2>1, <2>4, <2>6, <2>0
    <3>2. /\ Unclosed(log, a) /\ e.ty = ClosedType(log[a].ty) /\ e.key = log[a].key
          /\ e.says = Withdrawn(log[a].ty) /\ log[a].ty \in AskTypes
      BY <3>1, UnclosedIn DEF Closer
    <3>3. AsksInv(log') /\ \A i : Unclosed(log', i) <=> Unclosed(log, i) /\ i # a
      BY <1>6, <2>3, <3>2, AsksClose
    <3>4. e.ty = "approval/decided" => e.says # "allowed-once"
      BY <3>2 DEF ClosedType, Withdrawn, AskTypes
    <3>5. e.ty = "question/answered" => e.says = Nothing
      BY <3>2 DEF ClosedType, Withdrawn, AskTypes
    <3>6. e.ty \in ClosedTypes
      BY <3>2 DEF ClosedType, AskTypes, ClosedTypes
    <3>7. SaidInv(log', said)
      BY <1>6, <2>3, <3>4, <3>5, <3>6, SaidGrows DEF ClosedTypes
    <3>8. \A i \in DOMAIN log : log'[i] = log[i]
      BY <2>3 DEF Grown
    <3>9. ASSUME NEW k \in 1 .. n - 2 PROVE \E i : Closer(rest[k], i)'
      <4>1. k \in 1 .. n - 1 /\ k + 1 \in 1 .. n - 1 /\ 1 \in 1 .. n - 1 /\ k + 1 # 1
            /\ rest[k] = closers[k + 1]
        BY <2>1, <2>6
      <4>2. PICK i : Closer(closers[k + 1], i)
        BY <2>4, <4>1
      <4>3. i # a
        <5> SUFFICES ASSUME i = a PROVE FALSE
          OBVIOUS
        <5>1. closers[k + 1].ty = closers[1].ty /\ closers[k + 1].key = closers[1].key
          BY <3>2, <2>0, <4>2 DEF Closer
        <5>2. k + 1 = 1
          BY <2>4, <4>1, <5>1
        <5> QED  BY <4>1, <5>2
      <4>4. Unclosed(log', i) /\ log'[i] = log[i]
        BY <3>3, <3>8, <4>2, <4>3, UnclosedIn DEF Closer
      <4> QED  BY <4>1, <4>2, <4>4 DEF Closer
    <3>10. ASSUME NEW i, Unclosed(log', i) PROVE \E k \in 1 .. n - 2 : Closer(rest[k], i)'
      <4>1. Unclosed(log, i) /\ i # a /\ log'[i] = log[i]
        BY <3>3, <3>8, <3>10, UnclosedIn
      <4>2. PICK k \in 1 .. n - 1 : Closer(closers[k], i)
        BY <2>4, <4>1
      <4>3. k # 1
        <5> SUFFICES ASSUME k = 1 PROVE FALSE
          OBVIOUS
        <5>1. log[i].ty \in AskTypes /\ ClosedType(log[i].ty) = ClosedType(log[a].ty)
              /\ log[i].key = log[a].key
          BY <2>0, <3>2, <4>1, <4>2, UnclosedIn DEF Closer
        <5>2. log[i].ty = log[a].ty /\ i \in DOMAIN log /\ a \in DOMAIN log
          BY <3>2, <4>1, <5>1, UnclosedIn DEF ClosedType, AskTypes
        <5>3. i = a
          BY <1>6, <5>1, <5>2 DEF AsksInv, Numbered
        <5> QED  BY <4>1, <5>3
      <4>4. k - 1 \in 1 .. n - 2 /\ rest[k - 1] = closers[k]
        BY <2>1, <4>2, <4>3
      <4>5. Closer(rest[k - 1], i)'
        BY <3>10, <4>1, <4>2, <4>4 DEF Closer
      <4> QED  BY <4>4, <4>5
    <3>11. rest[n - 1].ty = "turn/end" /\ rest # <<>> /\ Len(rest) - 1 = n - 2
      BY <2>1, <2>4, <2>6
    <3>12. \A j, k \in 1 .. n - 2 :
             rest[j].ty = rest[k].ty /\ rest[j].key = rest[k].key => j = k
      <4> TAKE j, k \in 1 .. n - 2
      <4>1. /\ j + 1 \in 1 .. n - 1 /\ k + 1 \in 1 .. n - 1
            /\ rest[j] = closers[j + 1] /\ rest[k] = closers[k + 1]
        BY <2>1, <2>6
      <4>2. rest[j].ty = rest[k].ty /\ rest[j].key = rest[k].key => j + 1 = k + 1
        BY <2>4, <4>1
      <4> QED  BY <2>1, <2>6, <4>2
    <3>13. Repairs'
      BY <1>1, <2>1, <2>2, <3>9, <3>10, <3>11, <3>12 DEF Repairs
    <3> QED  BY <1>1, <1>2, <1>3, <1>4, <1>5, <2>2, <3>3, <3>7, <3>13, NobodyWaits
  <2> QED  BY <2>1, <2>5, <2>6
<1> QED  BY <1>7, <1>8

LEMMA DecidedWaits ==
  ASSUME TaskTyped, WaitInv, NEW c \in Calls, Decided(c)
  PROVE  WaitInv'
<1> DEFINE ty == AskedType(c)
           e == Event(ClosedType(ty), id[c], outcome[c])
<1>1. /\ at[c] = "settled" /\ at[c] \in Pending /\ pc' = pc /\ next' = next /\ said' = said
      /\ closers' = closers /\ Write(e)
      /\ at' = [at EXCEPT ![c] = "done"] /\ id' = [id EXCEPT ![c] = 0]
      /\ answer' = [answer EXCEPT ![c] = Nothing] /\ outcome' = [outcome EXCEPT ![c] = Nothing]
  BY DEF Decided, Pending
<1>2. /\ at \in [Calls -> {"off", "ready", "done"} \cup Pending] /\ id \in [Calls -> Nat]
      /\ DOMAIN answer = Calls /\ DOMAIN outcome = Calls /\ next \in [AskTypes -> Nat]
  BY DEF WaitInv, CallsTyped
<1>3. pc = "tools"
  BY <1>1 DEF WaitInv, Matched
<1>4. /\ Grown(log', log, e) /\ e.ty = ClosedType(ty) /\ e.key = id[c] /\ e.says = outcome[c]
  BY <1>1, AppendGrows DEF Write, TaskTyped, Event
<1>5. ty \in AskTypes /\ (ty = "approval/asked" <=> c \in Gated)
  BY DEF AskedType, AskTypes
<1>6. e.ty \in ClosedTypes /\ (e.ty = "approval/decided" <=> c \in Gated)
  BY <1>4, <1>5 DEF ClosedType, ClosedTypes, AskTypes
<1>7. PICK a : IsOf(c, a)
  BY <1>1 DEF WaitInv, Matched
<1> HIDE DEF e, ty
<1>8. Unclosed(log, a) /\ log[a].ty = ty /\ log[a].key = id[c]
  BY <1>7 DEF IsOf, ty
<1>9. /\ AsksInv(log') /\ \A i : Unclosed(log', i) <=> Unclosed(log, i) /\ i # a
      /\ \A s : OpenAt(log', s) <=> OpenAt(log, s)
  BY <1>4, <1>8, AsksClose DEF WaitInv
<1>10. SaidInv(log', said)
  <2>1. /\ c \in Gated /\ outcome[c] = "allowed-once" =>
             SomeoneGranted(log, id[c], Len(log) + 1, said)
        /\ c \in Asking /\ outcome[c] # Nothing => SomeoneAnswered(log, id[c], outcome[c], said)
    BY <1>1 DEF WaitInv, OutcomeSaid
  <2>2. c \notin Gated => c \in Asking
    BY DEF Calls
  <2>3. SaidInv(log, said)
    BY DEF WaitInv
  <2>4. e.ty \notin {"approval/policy", "question/asked"}
        /\ (e.ty = "question/answered" => c \notin Gated)
    BY <1>6 DEF ClosedTypes
  <2>5. e.ty = "approval/decided" /\ e.says = "allowed-once" =>
          SomeoneGranted(log, e.key, Len(log) + 1, said)
    BY <1>4, <1>6, <2>1
  <2>6. e.ty = "question/answered" /\ e.says # Nothing =>
          SomeoneAnswered(log, e.key, e.says, said)
    BY <1>4, <2>1, <2>2, <2>4
  <2> QED  BY <1>4, <2>3, <2>4, <2>5, <2>6, SaidGrows
<1>11. /\ at'[c] = "done" /\ answer'[c] = Nothing
       /\ \A d \in Calls \ {c} : /\ at'[d] = at[d] /\ id'[d] = id[d]
                                 /\ answer'[d] = answer[d] /\ outcome'[d] = outcome[d]
       /\ \A d \in Calls : at'[d] \in Pending => d # c /\ at[d] \in Pending
  BY <1>1, <1>2 DEF Pending
<1>12. \A i \in DOMAIN log : log'[i] = log[i]
  BY <1>4 DEF Grown
<1>13. \A d \in Calls \ {c} : \A i : IsOf(d, i)' => IsOf(d, i) /\ i \in DOMAIN log
  BY <1>9, <1>11, <1>12, UnclosedIn DEF IsOf
<1>14. \A d \in Calls \ {c} : at[d] \in Pending => ~IsOf(d, a)
  <2> TAKE d \in Calls \ {c}
  <2>1. HAVE at[d] \in Pending
  <2>2. SUFFICES ASSUME IsOf(d, a) PROVE FALSE
    OBVIOUS
  <2>3. AskedType(d) = AskedType(c) /\ id[d] = id[c]
    BY <1>7, <2>2 DEF IsOf
  <2> QED  BY <1>1, <2>1, <2>3 DEF WaitInv, Matched
<1>15. \A d \in Calls \ {c} : at[d] \in Pending => \A i : IsOf(d, i) => IsOf(d, i)'
  <2> TAKE d \in Calls \ {c}
  <2>1. HAVE at[d] \in Pending
  <2> TAKE i
  <2>2. HAVE IsOf(d, i)
  <2>3. i # a /\ Unclosed(log, i) /\ i \in DOMAIN log
    BY <1>14, <2>1, <2>2, UnclosedIn DEF IsOf
  <2> QED  BY <1>9, <1>11, <1>12, <2>2, <2>3 DEF IsOf
<1>16. CallsTyped'
  BY <1>1, <1>2 DEF CallsTyped
<1>17. Repairs'
  BY <1>1, <1>3 DEF WaitInv, Repairs
<1>18. Matched'
  <2>1. \A d \in Calls : at'[d] \in Pending => \E i : IsOf(d, i)'
    <3> TAKE d \in Calls
    <3>1. HAVE at'[d] \in Pending
    <3>2. d \in Calls \ {c} /\ at[d] \in Pending
      BY <1>11, <3>1
    <3>3. PICK i : IsOf(d, i)
      BY <3>2 DEF WaitInv, Matched
    <3> QED  BY <1>15, <3>2, <3>3
  <2>2. \A d, f \in Calls : at'[d] \in Pending /\ at'[f] \in Pending
          /\ AskedType(d) = AskedType(f) /\ id'[d] = id'[f] => d = f
    BY <1>11 DEF WaitInv, Matched
  <2>3. \A i : Unclosed(log', i) => \E d \in Calls : at'[d] \in Pending /\ IsOf(d, i)'
    <3> TAKE i
    <3>1. HAVE Unclosed(log', i)
    <3>2. Unclosed(log, i) /\ i # a
      BY <1>9, <3>1
    <3>3. PICK d \in Calls : at[d] \in Pending /\ IsOf(d, i)
      BY <1>3, <3>2 DEF WaitInv, Matched
    <3>4. d # c
      <4> SUFFICES ASSUME d = c PROVE FALSE
        OBVIOUS
      <4>1. /\ i \in DOMAIN log /\ a \in DOMAIN log /\ log[i].ty \in AskTypes
            /\ log[i].ty = log[a].ty /\ log[i].key = log[a].key
        BY <1>7, <3>3, UnclosedIn DEF IsOf
      <4>2. i = a
        BY <4>1 DEF WaitInv, AsksInv, Numbered
      <4> QED  BY <3>2, <4>2
    <3> QED  BY <1>11, <1>15, <3>3, <3>4
  <2>4. \A t \in AskTypes : next'[t] = Cardinality(AtIn(log', t))
    <3> TAKE t \in AskTypes
    <3>1. e.ty # t
      BY <1>6 DEF ClosedTypes, AskTypes
    <3>2. Cardinality(AtIn(log', t)) = Cardinality(AtIn(log, t))
      BY <1>4, <3>1, AtGrows
    <3>3. next[t] = Cardinality(AtIn(log, t))
      BY <1>3 DEF WaitInv, Matched, Running
    <3> QED  BY <1>1, <3>2, <3>3
  <2>5. \E s : OpenAt(log', s)
    BY <1>3, <1>9 DEF WaitInv, Matched, Running
  <2> QED  BY <1>1, <1>3, <2>1, <2>2, <2>3, <2>4, <2>5 DEF Matched
<1>19. ASSUME NEW d \in Calls PROVE AnswerGiven(d)' /\ PutAllowed(d)' /\ OutcomeSaid(d)'
  <2>1. CASE d = c
    BY <1>11, <2>1 DEF AnswerGiven, PutAllowed, OutcomeSaid
  <2>2. CASE d # c
    <3>1. /\ at'[d] = at[d] /\ id'[d] = id[d] /\ answer'[d] = answer[d] /\ outcome'[d] = outcome[d]
          /\ AnswerGiven(d) /\ PutAllowed(d) /\ OutcomeSaid(d)
      BY <1>11, <2>2 DEF WaitInv
    <3>2. AnswerGiven(d)'
      BY <1>1, <3>1 DEF AnswerGiven
    <3>3. PutAllowed(d)'
      <4> SUFFICES ASSUME d \in Gated, at[d] \in {"put", "parked"}, NEW i, IsOf(d, i)'
                   PROVE  Allowed(log', i, Len(log') + 1)
        BY <3>1 DEF PutAllowed
      <4>1. IsOf(d, i) /\ i \in DOMAIN log
        BY <1>13, <2>2
      <4>2. Allowed(log, i, Len(log) + 1)
        BY <3>1, <4>1 DEF PutAllowed
      <4>3. Len(log) + 1 \in Nat /\ Len(log') + 1 \in Nat /\ Len(log) + 1 <= Len(log') + 1
        BY <1>4 DEF Grown
      <4> QED  BY <1>4, <4>1, <4>2, <4>3, AllowedLasts
    <3>4. OutcomeSaid(d)'
      <4>1. /\ \A key : SomeoneGranted(log, key, Len(log) + 1, said) =>
                          SomeoneGranted(log', key, Len(log') + 1, said)
            /\ \A key, given : SomeoneAnswered(log, key, given, said) =>
                                 SomeoneAnswered(log', key, given, said)
        BY <1>4, SomeoneLasts
      <4> QED  BY <1>1, <3>1, <4>1 DEF OutcomeSaid
    <3> QED  BY <3>2, <3>3, <3>4
  <2> QED  BY <2>1, <2>2
<1> QED  BY <1>1, <1>9, <1>10, <1>16, <1>17, <1>18, <1>19 DEF WaitInv

LEMMA WaitStep ==
  ASSUME TaskTyped, WaitInv, [Next]_vars
  PROVE  WaitInv'
<1>1. CASE UNCHANGED vars
  BY <1>1, WaitIgnores DEF vars, memory
<1>2. CASE Reopen
  BY <1>2, ReopenWaits
<1>3. CASE Repair
  BY <1>3, RepairWaits
<1>4. CASE RunTurn
  BY <1>4, RunTurnWaits
<1>5. CASE Elapse
  BY <1>5, WaitIgnores DEF Elapse, Goto, Running, asks, memory
<1>6. CASE Crash
  BY <1>6, CrashWaits
<1>7. CASE Stop
  BY <1>7, WaitIgnores DEF Stop, asks, memory
<1>8. CASE \E asked \in SUBSET Calls : Respond(asked)
  BY <1>8, RespondWaits
<1>9. CASE \E f \in Failures : RequestFails(f)
  <2>1. PICK f \in Failures : RequestFails(f)
    BY <1>9
  <2>2. /\ log' = log /\ UNCHANGED memory /\ pc = "sending" /\ pc' \in {"closing", "failed"}
    BY <2>1 DEF RequestFails, Goto, asks, memory
  <2>3. pc \in Running \ {"tools"} /\ pc' \in Running \ {"tools"}
    BY <2>2 DEF Running
  <2> QED  BY <2>2, <2>3, WaitIgnores
<1>10. CASE \E p \in {"ask", "never"} : SetPolicy(p)
  <2>1. PICK p \in {"ask", "never"} : SetPolicy(p)
    BY <1>10
  <2>2. PICK e : e = Event("approval/policy", 0, p)
    OBVIOUS
  <2>3. e.ty = "approval/policy" /\ e.says = p
    BY <2>2 DEF Event
  <2>4. Write(e) /\ UNCHANGED memory /\ pc' = pc
    BY <2>1, <2>2 DEF SetPolicy, asks, memory
  <2>5. e.ty \notin AskTypes \cup ClosedTypes \cup {"turn/start", "turn/end"}
    BY <2>3 DEF AskTypes, ClosedTypes
  <2> QED  BY <2>1, <2>3, <2>4, <2>5, WaitIgnores
<1>11. CASE \E c \in Gated, a \in Words \cup {Panic} : Answer(c, a)
  <2>1. PICK c \in Gated, a \in Words \cup {Panic} : Answer(c, a)
    BY <1>11
  <2>2. c \in Calls /\ c \notin Asking
    BY ConstantsAssumption DEF Calls
  <2> QED  BY <2>1, <2>2, AnswerWaits
<1>12. CASE \E c \in Asking, a \in Given \cup {Panic} : Answer(c, a)
  BY <1>12, AnswerWaits DEF Calls
<1>13. CASE StepEnd
  BY <1>13, StepEndWaits
<1>14. CASE TurnEnd
  BY <1>14, TurnEndWaits
<1>15. CASE Schedule
  <2>1. pc = "failed" /\ pc' \in {"scheduled", "closing"} /\ UNCHANGED memory
    BY <1>15 DEF Schedule, Goto, asks, memory
  <2>2. PICK e : e = Event("llm/retry", Here, PriorRetries + 1)
    OBVIOUS
  <2>3. log' = log \/ Write(e)
    BY <1>15, <2>2 DEF Schedule
  <2>4. e.ty = "llm/retry"
    BY <2>2 DEF Event
  <2>5. e.ty \notin AskTypes \cup ClosedTypes \cup {"turn/start", "turn/end", "approval/policy"}
    BY <2>4 DEF AskTypes, ClosedTypes
  <2>6. pc \in Running \ {"tools"} /\ pc' \in Running \ {"tools"}
    BY <2>1 DEF Running
  <2> QED  BY <2>1, <2>3, <2>5, <2>6, WaitIgnores
<1>16. CASE Backoff
  <2>1. pc = "scheduled" /\ pc' \in {"backoff", "closing"} /\ UNCHANGED memory /\ log' = log
    BY <1>16 DEF Backoff, Goto, asks, memory
  <2>2. pc \in Running \ {"tools"} /\ pc' \in Running \ {"tools"}
    BY <2>1 DEF Running
  <2> QED  BY <2>1, <2>2, WaitIgnores
<1>17. CASE CutShort
  BY <1>17, WaitIgnores DEF CutShort, Goto, Running, asks, memory
<1>18. CASE Retry
  <2>1. pc = "elapsed" /\ pc' \in {"retry", "closing"} /\ UNCHANGED memory
    BY <1>18 DEF Retry, Goto, asks, memory
  <2>2. PICK e : e = Event("llm/retry-started", Here, PriorRetries)
    OBVIOUS
  <2>3. log' = log \/ Write(e)
    BY <1>18, <2>2 DEF Retry
  <2>4. e.ty = "llm/retry-started"
    BY <2>2 DEF Event
  <2>5. e.ty \notin AskTypes \cup ClosedTypes \cup {"turn/start", "turn/end", "approval/policy"}
    BY <2>4 DEF AskTypes, ClosedTypes
  <2>6. pc \in Running \ {"tools"} /\ pc' \in Running \ {"tools"}
    BY <2>1 DEF Running
  <2> QED  BY <2>1, <2>3, <2>5, <2>6, WaitIgnores
<1>19. CASE Resend
  <2>1. pc = "retry" /\ pc' \in {"sending", "closing"} /\ UNCHANGED memory /\ log' = log
    BY <1>19 DEF Resend, Goto, asks, memory
  <2>2. pc \in Running \ {"tools"} /\ pc' \in Running \ {"tools"}
    BY <2>1 DEF Running
  <2> QED  BY <2>1, <2>2, WaitIgnores
<1>20. ASSUME NEW c \in Calls, Ask(c) \/ Put(c) \/ Park(c) \/ Wake(c) \/ Decided(c)
       PROVE  WaitInv'
  BY <1>20, AskWaits, PutWaits, ParkWaits, WakeWaits, DecidedWaits
<1>21. CASE Task
  BY <1>21, <1>13, <1>14, <1>15, <1>16, <1>17, <1>18, <1>19, <1>20 DEF Task
<1> QED
  BY <1>1, <1>2, <1>3, <1>4, <1>5, <1>6, <1>7, <1>8, <1>9, <1>10, <1>11, <1>12, <1>21 DEF Next

LEMMA WaitStarts ==
  ASSUME Init
  PROVE  WaitInv
<1>1. /\ log = <<>> /\ pc = "down" /\ closers = <<>> /\ said = {}
      /\ next = [ty \in AskTypes |-> 0]
      /\ at = [c \in Calls |-> "off"] /\ id = [c \in Calls |-> 0]
      /\ answer = [c \in Calls |-> Nothing] /\ outcome = [c \in Calls |-> Nothing]
  BY DEF Init, AskTypes
<1>2. DOMAIN log = {}
  BY <1>1
<1>3. CallsTyped
  BY <1>1 DEF CallsTyped
<1>4. AsksInv(log)
  BY <1>2 DEF AsksInv, Numbered, ClosedOnce, ClosedWithin, LeftInOpen, Unclosed
<1>5. SaidInv(log, said)
  BY <1>2 DEF SaidInv, AtIn
<1>6. Matched
  BY <1>1 DEF Matched, Pending, Running
<1>7. Repairs
  BY <1>1 DEF Repairs
<1>8. \A c \in Calls : AnswerGiven(c) /\ PutAllowed(c) /\ OutcomeSaid(c)
  BY <1>1 DEF AnswerGiven, PutAllowed, OutcomeSaid
<1> QED  BY <1>3, <1>4, <1>5, <1>6, <1>7, <1>8 DEF WaitInv

LEMMA PairsFollow ==
  ASSUME TaskTyped, WaitInv
  PROVE  PairsClosed
<1> SUFFICES ASSUME pc = "idle", NEW i \in Asks
             PROVE  /\ Cardinality(Decisions(i)) = 1
                    /\ \A j \in Decisions(i) :
                         i < j /\ \A k \in i .. j : log[k].ty # "turn/end"
  BY DEF PairsClosed
<1>1. i \in DOMAIN log /\ log[i].ty \in AskTypes
  BY DEF Asks, At, AskTypes
<1>2. \A c \in Calls : at[c] = "off"
  BY DEF WaitInv, Matched
<1>3. ~Unclosed(log, i)
  BY <1>2, NoneUnclosed
<1>4. \A j : j \in Decisions(i) <=> /\ j \in DOMAIN log /\ log[j].ty = ClosedType(log[i].ty)
                                    /\ log[j].key = log[i].key
  BY DEF Decisions, At
<1>5. PICK j : j \in Decisions(i)
  BY <1>1, <1>3, <1>4 DEF Unclosed
<1>6. ClosedType(log[i].ty) \in ClosedTypes
  BY <1>1 DEF ClosedType, ClosedTypes, AskTypes
<1>7. \A k \in Decisions(i) : k = j
  <2> TAKE k \in Decisions(i)
  <2>1. /\ j \in DOMAIN log /\ k \in DOMAIN log /\ log[k].ty \in ClosedTypes
        /\ log[j].ty = log[k].ty /\ log[j].key = log[k].key
    BY <1>4, <1>5, <1>6
  <2>2. \A f, g \in DOMAIN log :
          log[f].ty \in ClosedTypes /\ log[g].ty = log[f].ty /\ log[g].key = log[f].key => f = g
    BY DEF WaitInv, AsksInv, ClosedOnce
  <2> QED  BY <2>1, <2>2
<1>8. Decisions(i) = {j}
  BY <1>5, <1>7
<1>9. Cardinality(Decisions(i)) = 1
  BY <1>8, FS_Singleton
<1>10. ClosesIn(log, i, j)
  <2>1. j \in DOMAIN log /\ log[j].ty = ClosedType(log[i].ty) /\ log[j].key = log[i].key
    BY <1>4, <1>5
  <2>2. PICK a \in DOMAIN log : ClosesIn(log, a, j)
    BY <1>6, <2>1 DEF WaitInv, AsksInv, ClosedWithin
  <2>3. log[a].ty \in AskTypes /\ ClosedType(log[a].ty) = ClosedType(log[i].ty)
        /\ log[a].key = log[i].key
    BY <2>1, <2>2 DEF ClosesIn
  <2>4. log[a].ty = log[i].ty
    BY <1>1, <2>3 DEF ClosedType, AskTypes
  <2>5. a = i
    BY <1>1, <2>3, <2>4 DEF WaitInv, AsksInv, Numbered
  <2> QED  BY <2>2, <2>5
<1> QED  BY <1>8, <1>9, <1>10 DEF ClosesIn

LEMMA WordsFollow ==
  ASSUME WaitInv
  PROVE  NothingInvented
<1>1. \A ty : At(ty) = AtIn(log, ty)
  BY DEF At, AtIn
<1>2. ASSUME NEW j \in At("approval/decided"), log[j].says = "allowed-once"
      PROVE  \E i \in At("approval/asked") :
               /\ log[i].key = log[j].key
               /\ <<"approval/asked", log[i].key, "allowed-once">> \in said
               /\ LET p == Latest({k \in At("approval/policy") : k < i})
                  IN  \/ p = 0 \/ log[p].says = "ask"
                      \/ \E k \in At("approval/policy") : i < k /\ k < j
  <2>1. SomeoneGranted(log, log[j].key, j, said)
    BY <1>1, <1>2 DEF WaitInv, SaidInv
  <2>2. PICK i \in AtIn(log, "approval/asked") :
          /\ log[i].key = log[j].key
          /\ <<"approval/asked", log[j].key, "allowed-once">> \in said /\ Allowed(log, i, j)
    BY <2>1 DEF SomeoneGranted
  <2> QED  BY <1>1, <2>2 DEF Allowed, Policies
<1>3. ASSUME NEW j \in At("question/answered"), log[j].says # Nothing
      PROVE  \E i \in At("question/asked") :
               log[i].key = log[j].key /\ Covers(log[i].says, log[i].key, log[j].says, said)
  <2>1. SomeoneAnswered(log, log[j].key, log[j].says, said)
    BY <1>1, <1>3 DEF WaitInv, SaidInv
  <2> QED  BY <1>1, <2>1 DEF SomeoneAnswered
<1> QED  BY <1>2, <1>3 DEF NothingInvented, Covers

(* In every reachable state each ask of a turn that ended is closed once,  *)
(* in its own turn and under its own id, and whatever closes an ask is the *)
(* word of one of its answerers: over any calls, answers, panics, turns,   *)
(* switches of the policy, interrupts and deaths, of repair too (request,  *)
(* decide, ask, judge, and the repair of an interrupted turn).             *)
THEOREM AsksAreAnswered == Spec => []AsksAnswered
<1>1. Init => RetryInv /\ WaitInv
  BY RetryStarts, WaitStarts
<1>2. RetryInv /\ WaitInv /\ [Next]_vars => (RetryInv /\ WaitInv)'
  BY RetryStep, WaitStep DEF RetryInv
<1>3. RetryInv /\ WaitInv => AsksAnswered
  BY PairsFollow, WordsFollow DEF AsksAnswered, RetryInv
<1> QED  BY <1>1, <1>2, <1>3, PTL DEF Spec

=============================================================================
