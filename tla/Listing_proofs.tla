--------------------------- MODULE Listing_proofs ---------------------------
(***************************************************************************)
(* What InOrder and Picked return, for every set and sequence: the facts   *)
(* that the proofs about queues, closers and filters rest on.              *)
(***************************************************************************)
EXTENDS Listing, Integers, SequenceTheorems, FiniteSetTheorems,
        WellFoundedInduction, TLAPS

(* A set of numbers that is not empty has a least one. *)
LEMMA Least ==
  ASSUME NEW S \in SUBSET Nat, S # {}
  PROVE  \E x \in S : \A y \in S : x <= y
<1>1. PICK x \in S : \A y \in S : ~(<<y, x>> \in OpToRel(<, Nat))
  BY WFMin, NatLessThanWellFounded
<1>2. x \in S /\ \A y \in S : ~(y < x)
  BY <1>1 DEF OpToRel
<1>3. \A y \in S : y \in Nat
  OBVIOUS
<1> QED  BY <1>2, <1>3

-----------------------------------------------------------------------------
(* InOrder lists a set of numbers, each once and from the least on. *)
LEMMA InOrderLists ==
  ASSUME NEW n \in Nat, NEW S \in SUBSET (1 .. n)
  PROVE  /\ InOrder(S) \in Seq(S) /\ DOMAIN InOrder(S) = 1 .. Len(InOrder(S))
         /\ \A i \in S : \E k \in DOMAIN InOrder(S) : InOrder(S)[k] = i
         /\ \A j, k \in DOMAIN InOrder(S) : j < k => InOrder(S)[j] < InOrder(S)[k]
<1> DEFINE Below(i) == {j \in S : j < i}
           N == Cardinality(S)
           rank == [i \in S |-> Cardinality(Below(i))]
<1>0. \A i \in S : i \in Nat
  OBVIOUS
<1>1. IsFiniteSet(S) /\ N \in Nat
  <2>1. IsFiniteSet(1 .. n)
    BY FS_Interval
  <2> QED  BY <2>1, FS_Subset, FS_CardinalityType
<1>2. \A i \in S : IsFiniteSet(Below(i)) /\ rank[i] \in Nat
  BY <1>1, FS_Subset, FS_CardinalityType
<1>3. ASSUME NEW i \in S, NEW j \in S, i < j
      PROVE  rank[i] < rank[j]
  <2>1. i \notin Below(i)
    OBVIOUS
  <2>2. Cardinality(Below(i) \cup {i}) = rank[i] + 1 /\ IsFiniteSet(Below(i) \cup {i})
    <3> HIDE DEF Below
    <3> QED  BY <1>2, <2>1, FS_AddElement
  <2>3. (Below(i) \cup {i}) \subseteq Below(j)
    <3> SUFFICES ASSUME NEW h \in Below(i) \cup {i} PROVE h \in S /\ h < j
      OBVIOUS
    <3>1. h \in S /\ (h < i \/ h = i)
      OBVIOUS
    <3> HIDE DEF Below
    <3> QED  BY <1>0, <1>3, <3>1
  <2>4. Cardinality(Below(i) \cup {i}) <= Cardinality(Below(j))
    <3> HIDE DEF Below
    <3> QED  BY <1>2, <2>2, <2>3, FS_Subset
  <2> HIDE DEF Below
  <2> QED  BY <1>2, <2>2, <2>4
<1>4. ASSUME NEW i \in S
      PROVE  rank[i] \in 0 .. N - 1
  <2>1. Below(i) \in SUBSET (S \ {i})
    OBVIOUS
  <2>2. IsFiniteSet(S \ {i}) /\ Cardinality(S \ {i}) = N - 1
    BY <1>1, FS_RemoveElement
  <2>3. Cardinality(Below(i)) <= N - 1
    <3> HIDE DEF Below
    <3> QED  BY <2>1, <2>2, FS_Subset
  <2> HIDE DEF Below
  <2> QED  BY <1>1, <1>2, <2>3
<1>5. rank \in Injection(S, 0 .. N - 1)
  <2>1. rank \in [S -> 0 .. N - 1]
    BY <1>4
  <2>2. \A i, j \in S : rank[i] = rank[j] => i = j
    <3> SUFFICES ASSUME NEW i \in S, NEW j \in S, i # j
                 PROVE  rank[i] # rank[j]
      OBVIOUS
    <3>1. i < j \/ j < i
      BY <1>0
    <3>2. rank[i] \in Nat /\ rank[j] \in Nat /\ (rank[i] < rank[j] \/ rank[j] < rank[i])
      BY <1>2, <1>3, <3>1
    <3> HIDE DEF rank
    <3> QED  BY <3>2
  <2> HIDE DEF rank
  <2> QED  BY <2>1, <2>2 DEF Injection, IsInjective
<1>6. IsFiniteSet(0 .. N - 1) /\ Cardinality(0 .. N - 1) = N
  BY <1>1, FS_Interval
<1>7. rank \in Surjection(S, 0 .. N - 1)
  <2> HIDE DEF rank
  <2> QED  BY <1>1, <1>5, <1>6, FS_Injection
<1> HIDE DEF Below
<1>8. ASSUME NEW k \in 1 .. N
      PROVE  InOrder(S)[k] \in S /\ rank[InOrder(S)[k]] = k - 1
  <2>1. \E i \in S : rank[i] = k - 1
    <3>1. k - 1 \in 0 .. N - 1
      BY <1>1
    <3> HIDE DEF rank
    <3> QED  BY <1>7, <3>1 DEF Surjection
  <2>2. \E i \in S : Cardinality({j \in S : j < i}) = k - 1
    BY <2>1 DEF Below
  <2>3. InOrder(S)[k] = CHOOSE i \in S : Cardinality({j \in S : j < i}) = k - 1
    BY DEF InOrder
  <2>4. /\ InOrder(S)[k] \in S
        /\ Cardinality({j \in S : j < InOrder(S)[k]}) = k - 1
    BY <2>2, <2>3
  <2> QED  BY <2>4 DEF Below
<1> DEFINE kth(k) == CHOOSE i \in S : Cardinality({j \in S : j < i}) = k - 1
<1>9. InOrder(S) = [k \in 1 .. N |-> kth(k)]
  BY DEF InOrder
<1> HIDE DEF kth
<1>10. InOrder(S) \in Seq(S) /\ Len(InOrder(S)) = N
  <2>2. \A k \in 1 .. N : kth(k) \in S
    BY <1>8, <1>9
  <2> DEFINE s == InOrder(S)
  <2>3. s \in [1 .. N -> S]
    BY <1>9, <2>2
  <2> HIDE DEF s
  <2>4. s \in Seq(S) /\ Len(s) = N
    BY <1>1, <2>3
  <2> QED  BY <2>4 DEF s
<1>11. ASSUME NEW i \in S
       PROVE  \E k \in 1 .. N : InOrder(S)[k] = i
  <2> DEFINE k == rank[i] + 1
  <2>1. k \in 1 .. N /\ rank[i] = k - 1
    <3> HIDE DEF rank
    <3> QED  BY <1>1, <1>4
  <2>2. InOrder(S)[k] \in S /\ rank[InOrder(S)[k]] = rank[i]
    <3> HIDE DEF k
    <3> QED  BY <1>8, <2>1
  <2>3. InOrder(S)[k] = i
    <3> HIDE DEF rank, k
    <3> QED  BY <1>5, <2>2 DEF Injection, IsInjective
  <2> QED  BY <2>1, <2>3
<1>12. ASSUME NEW j \in 1 .. N, NEW k \in 1 .. N, j < k
       PROVE  InOrder(S)[j] < InOrder(S)[k]
  <2>1. /\ InOrder(S)[j] \in S /\ InOrder(S)[k] \in S
        /\ rank[InOrder(S)[j]] < rank[InOrder(S)[k]]
    <3> HIDE DEF rank
    <3> QED  BY <1>1, <1>8, <1>12
  <2>2. InOrder(S)[j] \in Nat /\ InOrder(S)[k] \in Nat
    BY <1>0, <2>1
  <2>3. InOrder(S)[j] = InOrder(S)[k] \/ InOrder(S)[k] < InOrder(S)[j]
          \/ InOrder(S)[j] < InOrder(S)[k]
    BY <2>2
  <2>4. InOrder(S)[k] < InOrder(S)[j] => rank[InOrder(S)[k]] < rank[InOrder(S)[j]]
    BY <1>3, <2>1
  <2>5. rank[InOrder(S)[k]] \in Nat /\ rank[InOrder(S)[j]] \in Nat
    BY <1>2, <2>1
  <2> HIDE DEF rank
  <2> QED  BY <2>1, <2>3, <2>4, <2>5
<1> HIDE DEF N
<1> QED  BY <1>9, <1>10, <1>11, <1>12

-----------------------------------------------------------------------------
(* There is one such list. *)

Increasing(p) == \A j, k \in DOMAIN p : j < k => p[j] < p[k]
Lists(p, S) == /\ \A k \in DOMAIN p : p[k] \in S
               /\ \A i \in S : \E k \in DOMAIN p : p[k] = i

LEMMA NotBehind ==
  ASSUME NEW S, NEW p \in Seq(Nat), NEW q \in Seq(Nat), Increasing(p), Increasing(q),
         Lists(p, S), Lists(q, S), NEW k \in DOMAIN p, k \in DOMAIN q,
         \A j \in 1 .. k - 1 : p[j] = q[j]
  PROVE  ~(p[k] < q[k])
<1> SUFFICES ASSUME p[k] < q[k] PROVE FALSE
  OBVIOUS
<1>1. PICK j \in DOMAIN q : q[j] = p[k]
  BY DEF Lists
<1>2. /\ j \in Nat /\ k \in Nat /\ p[k] \in Nat /\ q[k] \in Nat /\ q[j] \in Nat /\ j >= 1
      /\ k <= Len(p) /\ Len(p) \in Nat /\ DOMAIN p = 1 .. Len(p)
  OBVIOUS
<1>3. CASE j < k
  <2>1. j \in 1 .. k - 1 /\ j \in 1 .. Len(p)
    BY <1>2, <1>3
  <2>2. p[j] = q[j] /\ j \in DOMAIN p
    BY <1>2, <2>1
  <2> QED  BY <1>1, <1>2, <1>3, <2>2 DEF Increasing
<1>4. CASE j = k
  BY <1>1, <1>2, <1>4
<1>5. CASE k < j
  BY <1>1, <1>2, <1>5 DEF Increasing
<1> QED  BY <1>2, <1>3, <1>4, <1>5

LEMMA NotShorter ==
  ASSUME NEW S, NEW p \in Seq(Nat), NEW q \in Seq(Nat), Increasing(q),
         Lists(p, S), Lists(q, S),
         \A j \in DOMAIN p : j \in DOMAIN q => p[j] = q[j]
  PROVE  Len(q) <= Len(p)
<1> SUFFICES ASSUME Len(p) < Len(q) PROVE FALSE
  OBVIOUS
<1> DEFINE k == Len(p) + 1
<1>1. k \in DOMAIN q
  OBVIOUS
<1>2. PICK j \in DOMAIN p : p[j] = q[k]
  BY <1>1 DEF Lists
<1>3. j \in DOMAIN q /\ j < k
  OBVIOUS
<1>4. q[j] < q[k]
  BY <1>1, <1>3 DEF Increasing
<1>5. q[j] = q[k]
  BY <1>2, <1>3
<1>6. q[k] \in Nat
  BY <1>1
<1> HIDE DEF k
<1> QED  BY <1>4, <1>5, <1>6

LEMMA OneListing ==
  ASSUME NEW S, NEW p \in Seq(Nat), NEW q \in Seq(Nat), Increasing(p), Increasing(q),
         Lists(p, S), Lists(q, S)
  PROVE  p = q
<1> DEFINE Bad == {k \in DOMAIN p : k \in DOMAIN q /\ p[k] # q[k]}
<1>1. Bad = {}
  <2> SUFFICES ASSUME Bad # {} PROVE FALSE
    OBVIOUS
  <2>1. Bad \in SUBSET Nat
    OBVIOUS
  <2>2. PICK k \in Bad : \A j \in Bad : k <= j
    <3> HIDE DEF Bad
    <3> QED  BY <2>1, Least
  <2>3. /\ k \in DOMAIN p /\ k \in DOMAIN q /\ p[k] # q[k] /\ k \in Nat
        /\ DOMAIN p = 1 .. Len(p) /\ DOMAIN q = 1 .. Len(q) /\ Len(p) \in Nat /\ Len(q) \in Nat
    OBVIOUS
  <2>4. \A j \in 1 .. k - 1 : p[j] = q[j]
    <3> SUFFICES ASSUME NEW j \in 1 .. k - 1, p[j] # q[j] PROVE FALSE
      OBVIOUS
    <3>1. j \in DOMAIN p /\ j \in DOMAIN q
      BY <2>3
    <3>2. j \in Bad /\ j < k
      BY <2>3, <3>1
    <3> QED  BY <2>2, <2>3, <3>2
  <2>5. p[k] \in Nat /\ q[k] \in Nat
    BY <2>3
  <2> HIDE DEF Bad
  <2>6. ~(p[k] < q[k])
    BY <2>3, <2>4, NotBehind
  <2>7. ~(q[k] < p[k])
    BY <2>3, <2>4, NotBehind
  <2> QED  BY <2>3, <2>5, <2>6, <2>7
<1>2. \A j \in DOMAIN p : j \in DOMAIN q => p[j] = q[j]
  BY <1>1
<1> HIDE DEF Bad
<1>3. Len(q) <= Len(p)
  BY <1>2, NotShorter
<1>4. Len(p) <= Len(q)
  BY <1>2, NotShorter
<1>5. Len(p) = Len(q) /\ DOMAIN p = DOMAIN q
  BY <1>3, <1>4
<1> QED  BY <1>2, <1>5

LEMMA NumbersSeq ==
  ASSUME NEW S \in SUBSET Nat, NEW o \in Seq(S)
  PROVE  o \in Seq(Nat)
<1>0. DOMAIN o = 1 .. Len(o) /\ Len(o) \in Nat /\ o = [k \in 1 .. Len(o) |-> o[k]]
      /\ \A k \in 1 .. Len(o) : o[k] \in S
  OBVIOUS
<1>1. o \in [1 .. Len(o) -> Nat] /\ Len(o) \in Nat
  BY <1>0
<1> QED  BY <1>1

LEMMA InOrderIs ==
  ASSUME NEW n \in Nat, NEW S \in SUBSET (1 .. n), NEW p \in Seq(Nat), Increasing(p),
         Lists(p, S)
  PROVE  InOrder(S) = p
<1> DEFINE o == InOrder(S)
<1>1. /\ o \in Seq(S) /\ \A i \in S : \E k \in DOMAIN o : o[k] = i
      /\ Increasing(o)
  BY InOrderLists DEF Increasing
<1>2. S \subseteq Nat
  OBVIOUS
<1> HIDE DEF o
<1>3. o \in Seq(Nat)
  BY <1>1, <1>2, NumbersSeq
<1>4. Lists(o, S)
  <2>1. \A k \in DOMAIN o : o[k] \in S
    BY <1>1
  <2> QED  BY <1>1, <2>1 DEF Lists
<1> QED  BY <1>1, <1>3, <1>4, OneListing DEF o

(* A number beyond them all comes last. *)
LEMMA InOrderGrows ==
  ASSUME NEW n \in Nat, NEW S \in SUBSET (1 .. n)
  PROVE  InOrder(S \cup {n + 1}) = Append(InOrder(S), n + 1)
<1> DEFINE o == InOrder(S)
           p == Append(o, n + 1)
           T == S \cup {n + 1}
<1>1. /\ o \in Seq(S) /\ \A i \in S : \E k \in DOMAIN o : o[k] = i
      /\ Increasing(o)
  BY InOrderLists DEF Increasing
<1>2. S \subseteq Nat /\ T \in SUBSET (1 .. n + 1) /\ n + 1 \in Nat /\ \A i \in S : i < n + 1
  OBVIOUS
<1> HIDE DEF o
<1>0. o \in Seq(Nat)
  BY <1>1, <1>2, NumbersSeq
<1>3. /\ o \in Seq(Nat) /\ p \in Seq(Nat) /\ DOMAIN p = 1 .. Len(o) + 1 /\ p[Len(o) + 1] = n + 1
      /\ \A k \in DOMAIN o : p[k] = o[k] /\ o[k] \in S /\ k \in DOMAIN p /\ k \in 1 .. Len(o)
  BY <1>0, <1>1, <1>2
<1>4. Increasing(p)
  <2> SUFFICES ASSUME NEW j \in DOMAIN p, NEW k \in DOMAIN p, j < k PROVE p[j] < p[k]
    BY DEF Increasing
  <2>1. j \in DOMAIN o
    BY <1>1, <1>3
  <2>2. CASE k \in DOMAIN o
    BY <1>1, <1>3, <2>1, <2>2 DEF Increasing
  <2>3. CASE k = Len(o) + 1
    BY <1>2, <1>3, <2>1, <2>3
  <2> QED  BY <1>1, <1>3, <2>2, <2>3
<1>5. Lists(p, T)
  <2>1. \A k \in DOMAIN p : p[k] \in T
    BY <1>1, <1>3
  <2>2. ASSUME NEW i \in T PROVE \E k \in DOMAIN p : p[k] = i
    <3>1. CASE i \in S
      BY <1>1, <1>3, <3>1
    <3>2. CASE i = n + 1
      BY <1>1, <1>3, <3>2
    <3> QED  BY <2>2, <3>1, <3>2
  <2> QED  BY <2>1, <2>2 DEF Lists
<1> HIDE DEF p, T
<1>6. InOrder(T) = p
  BY <1>2, <1>3, <1>4, <1>5, InOrderIs
<1> QED  BY <1>6 DEF p, T, o

(* Numbers without a gap come one after the other. *)
LEMMA InOrderRun ==
  ASSUME NEW a \in Nat \ {0}, NEW b \in Nat, a <= b + 1
  PROVE  InOrder(a .. b) = [k \in 1 .. b + 1 - a |-> a + k - 1]
<1> DEFINE p == [k \in 1 .. b + 1 - a |-> a + k - 1]
           S == a .. b
<1>1. p \in Seq(Nat) /\ DOMAIN p = 1 .. b + 1 - a /\ S \in SUBSET (1 .. b)
  OBVIOUS
<1>2. Increasing(p)
  BY DEF Increasing
<1>3. Lists(p, S)
  <2>1. \A k \in DOMAIN p : p[k] \in S
    OBVIOUS
  <2>2. ASSUME NEW i \in S PROVE \E k \in DOMAIN p : p[k] = i
    <3>1. i - a + 1 \in DOMAIN p /\ p[i - a + 1] = i
      OBVIOUS
    <3> QED  BY <3>1
  <2> QED  BY <2>1, <2>2 DEF Lists
<1> HIDE DEF p, S
<1>4. InOrder(S) = p
  BY <1>1, <1>2, <1>3, InOrderIs
<1> QED  BY <1>4 DEF p, S

-----------------------------------------------------------------------------
(* What is picked of a sequence. *)

LEMMA PickedLists ==
  ASSUME NEW T, NEW s \in Seq(T), NEW S \in SUBSET DOMAIN s
  PROVE  /\ InOrder(S) \in Seq(S) /\ Increasing(InOrder(S)) /\ Lists(InOrder(S), S)
         /\ Picked(s, S) \in Seq(T) /\ Len(Picked(s, S)) = Len(InOrder(S))
         /\ DOMAIN Picked(s, S) = DOMAIN InOrder(S)
         /\ \A k \in DOMAIN InOrder(S) : Picked(s, S)[k] = s[InOrder(S)[k]]
<1> DEFINE o == InOrder(S)
           m == Picked(s, S)
<1>1. S \in SUBSET (1 .. Len(s)) /\ Len(s) \in Nat
  OBVIOUS
<1>2. o \in Seq(S) /\ DOMAIN o = 1 .. Len(o) /\ Increasing(o) /\ Lists(o, S)
  <2>1. /\ o \in Seq(S) /\ DOMAIN o = 1 .. Len(o)
        /\ \A i \in S : \E k \in DOMAIN o : o[k] = i
        /\ \A j, k \in DOMAIN o : j < k => o[j] < o[k]
    BY <1>1, InOrderLists
  <2> HIDE DEF o
  <2> QED  BY <2>1 DEF Increasing, Lists
<1>3. m = [k \in DOMAIN o |-> s[o[k]]]
  BY DEF Picked
<1> HIDE DEF o, m
<1>4. \A k \in DOMAIN o : s[o[k]] \in T
  BY <1>1, <1>2
<1>5. m \in [1 .. Len(o) -> T] /\ Len(o) \in Nat
  BY <1>2, <1>3, <1>4
<1>6. m \in Seq(T) /\ Len(m) = Len(o) /\ DOMAIN m = DOMAIN o
  BY <1>2, <1>5
<1> QED  BY <1>2, <1>3, <1>6 DEF o, m

(* What is put at the end is picked last, or not at all. *)
LEMMA PickedGrows ==
  ASSUME NEW T, NEW s \in Seq(T), NEW e \in T, NEW S \in SUBSET DOMAIN s
  PROVE  /\ Picked(Append(s, e), S) = Picked(s, S)
         /\ Picked(Append(s, e), S \cup {Len(s) + 1}) = Append(Picked(s, S), e)
<1> DEFINE o == InOrder(S)
           t == Append(s, e)
           w == InOrder(S \cup {Len(s) + 1})
<1>1. S \in SUBSET (1 .. Len(s)) /\ Len(s) \in Nat
  OBVIOUS
<1>2. o \in Seq(S)
  BY <1>1, InOrderLists
<1>3. w = Append(o, Len(s) + 1)
  BY <1>1, InOrderGrows
<1>4. Picked(t, S) = [k \in DOMAIN o |-> t[o[k]]] /\ Picked(s, S) = [k \in DOMAIN o |-> s[o[k]]]
      /\ Picked(t, S \cup {Len(s) + 1}) = [k \in DOMAIN w |-> t[w[k]]]
  BY DEF Picked
<1> HIDE DEF o, w
<1>5. \A k \in DOMAIN o : o[k] \in 1 .. Len(s) /\ t[o[k]] = s[o[k]]
  BY <1>1, <1>2
<1>6. Picked(t, S) = Picked(s, S)
  <2> HIDE DEF t
  <2> QED  BY <1>4, <1>5
<1>7. DOMAIN w = 1 .. Len(o) + 1 /\ w[Len(o) + 1] = Len(s) + 1
      /\ \A k \in DOMAIN o : w[k] = o[k]
  BY <1>2, <1>3
<1>8. Picked(s, S) \in Seq(T) /\ Len(Picked(s, S)) = Len(o) /\ DOMAIN Picked(s, S) = 1 .. Len(o)
      /\ DOMAIN o = 1 .. Len(o)
  BY PickedLists DEF o
<1> DEFINE m == Picked(s, S)
           v == Picked(t, S \cup {Len(s) + 1})
<1>9. DOMAIN Append(m, e) = 1 .. Len(o) + 1 /\ Append(m, e)[Len(o) + 1] = e
      /\ \A k \in 1 .. Len(o) : Append(m, e)[k] = m[k]
  <2> HIDE DEF m
  <2> QED  BY <1>8 DEF m
<1>10. t[Len(s) + 1] = e
  OBVIOUS
<1> HIDE DEF t
<1>11. DOMAIN v = 1 .. Len(o) + 1 /\ v[Len(o) + 1] = e /\ \A k \in 1 .. Len(o) : v[k] = m[k]
  <2>1. Len(o) \in Nat /\ Len(o) + 1 \in 1 .. Len(o) + 1
        /\ \A k \in 1 .. Len(o) : k \in 1 .. Len(o) + 1
    BY <1>2
  <2>2. DOMAIN v = DOMAIN w /\ \A k \in DOMAIN w : v[k] = t[w[k]]
    BY <1>4
  <2>3. \A k \in DOMAIN o : m[k] = s[o[k]]
    BY <1>4
  <2> HIDE DEF v, m
  <2>4. DOMAIN v = 1 .. Len(o) + 1
    BY <1>7, <2>2
  <2>5. v[Len(o) + 1] = e
    BY <1>7, <1>10, <2>1, <2>2
  <2>6. ASSUME NEW k \in 1 .. Len(o) PROVE v[k] = m[k]
    <3>1. k \in DOMAIN w /\ w[k] = o[k] /\ k \in DOMAIN o
      BY <1>7, <1>8, <2>1
    <3>2. v[k] = t[o[k]]
      BY <2>2, <3>1
    <3> QED  BY <1>5, <2>3, <3>1, <3>2
  <2> QED  BY <2>4, <2>5, <2>6
<1>12. v = Append(m, e)
  <2>1. Len(o) \in Nat
    BY <1>2
  <2>2. v = [k \in 1 .. Len(o) + 1 |-> v[k]]
    BY <1>4, <1>7
  <2> HIDE DEF v
  <2>3. \A k \in 1 .. Len(o) + 1 : v[k] = Append(m, e)[k]
    <3> HIDE DEF m
    <3> QED  BY <1>9, <1>11, <2>1
  <2>4. Append(m, e) = [k \in 1 .. Len(o) + 1 |-> Append(m, e)[k]]
    <3>1. Append(m, e) \in Seq(T)
      BY <1>8
    <3> DEFINE ap == Append(m, e)
    <3>2. ap \in Seq(T) /\ DOMAIN ap = 1 .. Len(o) + 1
      BY <1>9, <3>1
    <3> HIDE DEF ap
    <3>3. ap = [k \in 1 .. Len(o) + 1 |-> ap[k]]
      BY <3>2
    <3> QED  BY <3>3 DEF ap
  <2> HIDE DEF m
  <2> QED  BY <2>2, <2>3, <2>4
<1> QED  BY <1>6, <1>12 DEF t

-----------------------------------------------------------------------------
(* What stands in two sequences put together stands in one of them.        *)
Joined(j, p, q) == j = p \o q

LEMMA JoinedIs ==
  ASSUME NEW T, NEW p \in Seq(T), NEW q \in Seq(T), NEW j, Joined(j, p, q)
  PROVE  /\ j \in Seq(T)
         /\ \A i \in DOMAIN j : \/ \E k \in DOMAIN p : j[i] = p[k]
                               \/ \E k \in DOMAIN q : j[i] = q[k]
         /\ \A k \in DOMAIN p : \E i \in DOMAIN j : j[i] = p[k]
         /\ \A k \in DOMAIN q : \E i \in DOMAIN j : j[i] = q[k]
<1>1. /\ j \in Seq(T) /\ Len(p) \in Nat /\ Len(q) \in Nat /\ Len(j) = Len(p) + Len(q)
      /\ DOMAIN p = 1 .. Len(p) /\ DOMAIN q = 1 .. Len(q) /\ DOMAIN j = 1 .. Len(j)
      /\ \A i \in 1 .. Len(p) + Len(q) : j[i] = IF i <= Len(p) THEN p[i] ELSE q[i - Len(p)]
  BY DEF Joined
<1>2. ASSUME NEW i \in DOMAIN j
      PROVE  (\E k \in DOMAIN p : j[i] = p[k]) \/ (\E k \in DOMAIN q : j[i] = q[k])
  <2>1. CASE i <= Len(p)
    BY <1>1, <2>1
  <2>2. CASE ~(i <= Len(p))
    <3>1. i - Len(p) \in DOMAIN q
      BY <1>1, <2>2
    <3> QED  BY <1>1, <2>2, <3>1
  <2> QED  BY <2>1, <2>2
<1>3. ASSUME NEW k \in DOMAIN p PROVE \E i \in DOMAIN j : j[i] = p[k]
  <2>1. k \in DOMAIN j /\ k <= Len(p)
    BY <1>1
  <2> QED  BY <1>1, <2>1
<1>4. ASSUME NEW k \in DOMAIN q PROVE \E i \in DOMAIN j : j[i] = q[k]
  <2>1. k + Len(p) \in DOMAIN j /\ ~(k + Len(p) <= Len(p)) /\ (k + Len(p)) - Len(p) = k
    BY <1>1
  <2>2. j[k + Len(p)] = q[k]
    BY <1>1, <2>1
  <2> QED  BY <2>1, <2>2
<1> QED  BY <1>1, <1>2, <1>3, <1>4

(* All but the last.                                                       *)
LEMMA FrontIs ==
  ASSUME NEW T, NEW s \in Seq(T), s # <<>>
  PROVE  /\ SubSeq(s, 1, Len(s) - 1) \in Seq(T) /\ Len(SubSeq(s, 1, Len(s) - 1)) = Len(s) - 1
         /\ DOMAIN SubSeq(s, 1, Len(s) - 1) = 1 .. Len(s) - 1
         /\ \A i \in 1 .. Len(s) - 1 : SubSeq(s, 1, Len(s) - 1)[i] = s[i] /\ i \in DOMAIN s
<1>1. Len(s) \in Nat /\ Len(s) >= 1 /\ DOMAIN s = 1 .. Len(s)
  OBVIOUS
<1> DEFINE n == Len(s) - 1
<1>2. n \in Nat /\ n <= Len(s)
  BY <1>1
<1>3. /\ SubSeq(s, 1, n) \in Seq(T) /\ Len(SubSeq(s, 1, n)) = n
      /\ DOMAIN SubSeq(s, 1, n) = 1 .. n /\ \A i \in 1 .. n : SubSeq(s, 1, n)[i] = s[i]
  <2> HIDE DEF n
  <2> QED  BY <1>1, <1>2
<1> QED  BY <1>1, <1>2, <1>3

-----------------------------------------------------------------------------
(* A value that is carried along a sequence: f is what each place of it     *)
(* leaves, and there is one such f.                                        *)
Carries(f, n, b, step) == /\ DOMAIN f = 0 .. n /\ f[0] = b
                          /\ \A k \in 1 .. n : f[k] = step[k][f[k - 1]]

LEMMA CarriedExists ==
  ASSUME NEW n \in Nat, NEW V, NEW b \in V, NEW step \in [1 .. n -> [V -> V]]
  PROVE  \E f \in [0 .. n -> V] : Carries(f, n, b, step)
<1> DEFINE UpTo(f, m) == /\ f \in [0 .. m -> V] /\ f[0] = b
                         /\ \A k \in 1 .. m : f[k] = step[k][f[k - 1]]
           Bad == {m \in 0 .. n : ~\E f : UpTo(f, m)}
<1>1. \E f : UpTo(f, 0)
  <2> DEFINE f == [k \in 0 .. 0 |-> b]
  <2>1. UpTo(f, 0)
    OBVIOUS
  <2> QED  BY <2>1
<1>2. ASSUME NEW m \in 0 .. n - 1, NEW f, UpTo(f, m)
      PROVE  \E g : UpTo(g, m + 1)
  <2> DEFINE g == [k \in 0 .. m + 1 |-> IF k = m + 1 THEN step[m + 1][f[m]] ELSE f[k]]
  <2>1. f[m] \in V /\ m + 1 \in 1 .. n /\ step[m + 1] \in [V -> V]
    BY <1>2
  <2>2. step[m + 1][f[m]] \in V
    BY <2>1
  <2>3. g \in [0 .. m + 1 -> V] /\ g[0] = b
    BY <1>2, <2>2
  <2>4. ASSUME NEW k \in 1 .. m + 1
        PROVE  g[k] = step[k][g[k - 1]]
    <3>1. k - 1 \in 0 .. m /\ k - 1 # m + 1 /\ k \in 0 .. m + 1 /\ k - 1 \in 0 .. m + 1
      OBVIOUS
    <3>2. g[k - 1] = f[k - 1]
      BY <3>1
    <3>3. CASE k = m + 1
      <4>1. k - 1 = m /\ g[k] = step[m + 1][f[m]]
        BY <3>1, <3>3
      <4> HIDE DEF g
      <4> QED  BY <3>2, <3>3, <4>1
    <3>4. CASE k # m + 1
      <4>1. k \in 1 .. m /\ g[k] = f[k]
        BY <3>1, <3>4
      <4> HIDE DEF g
      <4> QED  BY <1>2, <3>2, <4>1
    <3> QED  BY <3>3, <3>4
  <2> HIDE DEF g
  <2>5. UpTo(g, m + 1)
    BY <2>3, <2>4
  <2> QED  BY <2>5
<1> HIDE DEF UpTo
<1>3. Bad = {}
  <2> SUFFICES ASSUME Bad # {} PROVE FALSE
    OBVIOUS
  <2>1. Bad \in SUBSET Nat
    OBVIOUS
  <2>2. PICK m \in Bad : \A k \in Bad : m <= k
    <3> HIDE DEF Bad
    <3> QED  BY <2>1, Least
  <2>3. m # 0
    BY <1>1, <2>2
  <2>4. m - 1 \in 0 .. n - 1 /\ m - 1 \in 0 .. n /\ ~(m <= m - 1) /\ (m - 1) + 1 = m
    BY <2>2, <2>3
  <2>5. \E f : UpTo(f, m - 1)
    BY <2>2, <2>4
  <2>6. \E g : UpTo(g, m)
    BY <1>2, <2>4, <2>5
  <2> QED  BY <2>2, <2>6
<1>4. PICK f : UpTo(f, n)
  BY <1>3
<1> QED  BY <1>4 DEF UpTo, Carries

LEMMA CarriedIsOne ==
  ASSUME NEW n \in Nat, NEW m \in Nat, n <= m, NEW b, NEW step, NEW next,
         NEW f, NEW g, Carries(f, n, b, step), Carries(g, m, b, next),
         \A k \in 1 .. n : step[k] = next[k]
  PROVE  \A k \in 0 .. n : f[k] = g[k]
<1> DEFINE Bad == {k \in 0 .. n : f[k] # g[k]}
<1> SUFFICES ASSUME Bad # {} PROVE FALSE
  OBVIOUS
<1>1. Bad \in SUBSET Nat
  OBVIOUS
<1>2. PICK k \in Bad : \A j \in Bad : k <= j
  <2> HIDE DEF Bad
  <2> QED  BY <1>1, Least
<1>3. k # 0
  BY <1>2 DEF Carries
<1>4. k \in 1 .. n /\ k \in 1 .. m /\ k - 1 \in 0 .. n /\ ~(k <= k - 1)
  BY <1>2, <1>3
<1>5. f[k - 1] = g[k - 1]
  BY <1>2, <1>4
<1> QED  BY <1>2, <1>4, <1>5 DEF Carries
-----------------------------------------------------------------------------
(* What stands together among all stands together among some.              *)

LEMMA InOrderTogether ==
  ASSUME NEW n \in Nat, NEW S \in SUBSET (1 .. n), NEW x \in DOMAIN InOrder(S), NEW m \in Nat,
         \A j \in 0 .. m : InOrder(S)[x] + j \in S
  PROVE  \A j \in 0 .. m : x + j \in DOMAIN InOrder(S) /\ InOrder(S)[x + j] = InOrder(S)[x] + j
<1> DEFINE o == InOrder(S)
           Bad == {j \in 0 .. m : ~(x + j \in DOMAIN o /\ o[x + j] = o[x] + j)}
<1>1. /\ o \in Seq(S) /\ DOMAIN o = 1 .. Len(o)
      /\ \A i \in S : \E k \in DOMAIN o : o[k] = i
      /\ \A j, k \in DOMAIN o : j < k => o[j] < o[k]
  BY InOrderLists
<1> HIDE DEF o
<1>2. x \in DOMAIN o /\ \A j \in 0 .. m : o[x] + j \in S
  BY DEF o
<1>3. Len(o) \in Nat /\ x \in Nat /\ \A k \in DOMAIN o : k \in Nat /\ o[k] \in Nat
  <2>1. \A k \in DOMAIN o : o[k] \in S
    BY <1>1
  <2>2. Len(o) \in Nat
    BY <1>1
  <2>3. \A i \in S : i \in Nat
    OBVIOUS
  <2>4. \A k \in DOMAIN o : k \in Nat
    BY <1>1, <2>2
  <2> QED  BY <1>2, <2>1, <2>2, <2>3, <2>4
<1>4. Bad = {}
  <2> SUFFICES ASSUME Bad # {} PROVE FALSE
    OBVIOUS
  <2>1. Bad \in SUBSET Nat
    OBVIOUS
  <2>2. PICK j \in Bad : \A k \in Bad : j <= k
    <3> HIDE DEF Bad
    <3> QED  BY <2>1, Least
  <2>3. j # 0
    BY <1>2, <1>3, <2>2
  <2>4. j - 1 \in 0 .. m /\ ~(j <= j - 1) /\ j \in 0 .. m
    BY <2>2, <2>3
  <2>5. x + (j - 1) \in DOMAIN o /\ o[x + (j - 1)] = o[x] + (j - 1)
    BY <2>2, <2>4
  <2>6. PICK y \in DOMAIN o : o[y] = o[x] + j
    BY <1>1, <1>2, <2>4
  <2>7. PICK u : u = x + (j - 1)
    OBVIOUS
  <2>8. u \in DOMAIN o /\ u \in Nat /\ y \in Nat /\ o[u] \in Nat /\ o[y] = o[u] + 1 /\ x + j = u + 1 /\ j \in Nat
    <3>1. u \in DOMAIN o /\ o[u] = o[x] + (j - 1)
      BY <2>5, <2>7
    <3>2. j \in Nat /\ x \in Nat /\ o[x] \in Nat /\ u \in Nat /\ o[u] \in Nat /\ y \in Nat
      BY <1>2, <1>3, <2>4, <2>6, <3>1
    <3> QED  BY <2>6, <2>7, <3>1, <3>2
  <2>9. u < y
    <3>1. ~(y < u) /\ y # u
      BY <1>1, <2>8
    <3> QED  BY <2>8, <3>1
  <2>10. u + 1 \in DOMAIN o /\ u < u + 1
    BY <1>1, <1>3, <2>8, <2>9
  <2>11. o[u] < o[u + 1] /\ o[u + 1] \in Nat
    BY <1>1, <1>3, <2>8, <2>10
  <2>12. ~(u + 1 < y)
    BY <1>1, <2>8, <2>10, <2>11
  <2>13. y = u + 1
    BY <2>8, <2>9, <2>12
  <2> QED  BY <2>2, <2>6, <2>8, <2>10, <2>13
<1>5. \A j \in 0 .. m : x + j \in DOMAIN o /\ o[x + j] = o[x] + j
  BY <1>4
<1> QED  BY <1>5 DEF o

(* The greatest is the last. *)
LEMMA InOrderEnds ==
  ASSUME NEW n \in Nat, NEW S \in SUBSET (1 .. n), n \in S
  PROVE  Len(InOrder(S)) \in DOMAIN InOrder(S) /\ InOrder(S)[Len(InOrder(S))] = n
<1> DEFINE o == InOrder(S)
<1>1. /\ o \in Seq(S) /\ DOMAIN o = 1 .. Len(o)
      /\ \A i \in S : \E k \in DOMAIN o : o[k] = i
      /\ \A j, k \in DOMAIN o : j < k => o[j] < o[k]
  BY InOrderLists
<1> HIDE DEF o
<1>2. PICK y \in DOMAIN o : o[y] = n
  BY <1>1
<1>3. Len(o) \in Nat /\ y \in Nat /\ Len(o) \in DOMAIN o /\ \A k \in DOMAIN o : o[k] \in 1 .. n
  <2>1. \A k \in DOMAIN o : o[k] \in 1 .. n
    <3>1. \A k \in DOMAIN o : o[k] \in S
      BY <1>1
    <3> QED  BY <3>1
  <2>2. Len(o) \in Nat
    BY <1>1
  <2>3. y \in Nat /\ Len(o) \in DOMAIN o
    BY <1>1, <1>2, <2>2
  <2> QED  BY <2>1, <2>2, <2>3
<1>4. ~(y < Len(o))
  BY <1>1, <1>2, <1>3
<1>5. y = Len(o)
  BY <1>1, <1>2, <1>3, <1>4
<1> QED  BY <1>2, <1>5 DEF o

(* Fewer are fewer. *)
LEMMA InOrderFewer ==
  ASSUME NEW n \in Nat, NEW T \in SUBSET (1 .. n), NEW S \in SUBSET T, NEW y \in T, y \notin S
  PROVE  Len(InOrder(S)) < Len(InOrder(T))
<1>1. IsFiniteSet(T)
  <2>1. IsFiniteSet(1 .. n)
    BY FS_Interval
  <2> QED  BY <2>1, FS_Subset
<1>2. IsFiniteSet(S) /\ Cardinality(S) \in Nat /\ Cardinality(T) \in Nat
  BY <1>1, FS_Subset, FS_CardinalityType
<1>3. Cardinality(S) < Cardinality(T)
  <2>1. Cardinality(S) <= Cardinality(T) /\ (Cardinality(T) = Cardinality(S) => T = S)
    BY <1>1, FS_Subset
  <2> QED  BY <1>2, <2>1
<1>4. Len(InOrder(S)) = Cardinality(S) /\ Len(InOrder(T)) = Cardinality(T)
  BY <1>2 DEF InOrder
<1> QED  BY <1>3, <1>4
=============================================================================
