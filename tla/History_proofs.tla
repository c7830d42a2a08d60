--------------------------- MODULE History_proofs ---------------------------
(***************************************************************************)
(* Theorems about what a request says of the past, for any window, prices, *)
(* batches and number of turns: nothing said is lost, repeated or moved by *)
(* the records that prune and compact it, and what a request is made of    *)
(* splits no call from its result and ends in what was asked.              *)
(***************************************************************************)
EXTENDS History, Listing_proofs

-----------------------------------------------------------------------------
(* Logs, and what each of their places stands for.                         *)

Types == {"turn/start", "turn/end", "step/start", "step/end", "context/snapshot",
          "user/message", "assistant/message", "tool/result",
          "compaction/start", "compaction/end", "compaction/summary", "compaction/prune"}
LogEvents == [ty : Types, n : Nat, shadows : SUBSET Nat, size : Nat]

Replaces(L, i) == i > 1 /\ IsSurface(L[i]) /\ IsRecord(L[i - 1])

(* Covers, of any log. *)
Stands(L, n, f) ==
  f = [i \in 1 .. n |-> IF Replaces(L, i) THEN UNION {f[j] : j \in L[i - 1].shadows} ELSE {i}]
CoversOf(L) == CHOOSE f : Stands(L, Len(L), f)

(* A record shadows something, and only what is behind it. *)
LooksBack(L) ==
  \A i \in DOMAIN L : IsRecord(L[i]) => L[i].shadows # {} /\ L[i].shadows \subseteq 1 .. i - 1

LEMMA StandsMore ==
  ASSUME NEW L \in Seq(LogEvents), LooksBack(L), NEW n \in Nat, n + 1 <= Len(L),
         NEW f, Stands(L, n, f)
  PROVE  \E g : Stands(L, n + 1, g)
<1> DEFINE v == IF Replaces(L, n + 1) THEN UNION {f[j] : j \in L[n].shadows} ELSE {n + 1}
           g == [i \in 1 .. n + 1 |-> IF i = n + 1 THEN v ELSE f[i]]
           rule(h, i) == IF Replaces(L, i) THEN UNION {h[j] : j \in L[i - 1].shadows} ELSE {i}
<1>1. DOMAIN L = 1 .. Len(L) /\ Len(L) \in Nat
  OBVIOUS
<1>2. \A i \in 1 .. n + 1 : Replaces(L, i) => \A j \in L[i - 1].shadows : j \in 1 .. n /\ g[j] = f[j]
  <2> TAKE i \in 1 .. n + 1
  <2> SUFFICES ASSUME Replaces(L, i), NEW j \in L[i - 1].shadows PROVE j \in 1 .. n /\ g[j] = f[j]
    OBVIOUS
  <2>1. i > 1 /\ IsRecord(L[i - 1]) /\ i - 1 \in DOMAIN L
    BY <1>1 DEF Replaces
  <2>2. j \in 1 .. (i - 1) - 1
    BY <2>1 DEF LooksBack
  <2>3. j \in 1 .. n /\ j \in 1 .. n + 1 /\ j # n + 1
    BY <2>2
  <2> QED  BY <2>3
<1>3. \A i \in 1 .. n + 1 : rule(g, i) = rule(f, i)
  <2> TAKE i \in 1 .. n + 1
  <2> HIDE DEF g
  <2>1. CASE Replaces(L, i)
    <3>1. {g[j] : j \in L[i - 1].shadows} = {f[j] : j \in L[i - 1].shadows}
      BY <1>2, <2>1
    <3> QED  BY <2>1, <3>1
  <2> QED  BY <2>1
<1>4. \A i \in 1 .. n : f[i] = rule(f, i)
  BY DEF Stands
<1>5. \A i \in 1 .. n + 1 : g[i] = rule(f, i)
  <2> TAKE i \in 1 .. n + 1
  <2>1. CASE i = n + 1
    <3>1. i - 1 = n
      BY <2>1
    <3> QED  BY <2>1, <3>1
  <2>2. CASE i # n + 1
    <3>1. i \in 1 .. n /\ g[i] = f[i]
      BY <2>2
    <3> HIDE DEF g
    <3> QED  BY <1>4, <3>1
  <2> QED  BY <2>1, <2>2
<1>6. g = [i \in 1 .. n + 1 |-> rule(g, i)]
  <2>1. DOMAIN g = 1 .. n + 1 /\ g = [i \in 1 .. n + 1 |-> g[i]]
    OBVIOUS
  <2> HIDE DEF g, rule
  <2> QED  BY <1>3, <1>5, <2>1
<1> HIDE DEF g
<1>7. Stands(L, n + 1, g)
  BY <1>6 DEF Stands
<1> QED  BY <1>7

LEMMA StandsExists ==
  ASSUME NEW L \in Seq(LogEvents), LooksBack(L)
  PROVE  Stands(L, Len(L), CoversOf(L))
<1> DEFINE Bad == {m \in 0 .. Len(L) : ~\E f : Stands(L, m, f)}
<1>1. Len(L) \in Nat
  OBVIOUS
<1>2. \E f : Stands(L, 0, f)
  <2> DEFINE f == [i \in 1 .. 0 |-> {}]
  <2>1. f = [i \in 1 .. 0 |-> IF Replaces(L, i) THEN UNION {f[j] : j \in L[i - 1].shadows} ELSE {i}]
    OBVIOUS
  <2> HIDE DEF f
  <2>2. Stands(L, 0, f)
    BY <2>1 DEF Stands
  <2> QED  BY <2>2
<1>3. Bad = {}
  <2> SUFFICES ASSUME Bad # {} PROVE FALSE
    OBVIOUS
  <2>1. Bad \in SUBSET Nat
    OBVIOUS
  <2>2. PICK m \in Bad : \A k \in Bad : m <= k
    <3> HIDE DEF Bad
    <3> QED  BY <2>1, Least
  <2>3. m # 0
    BY <1>2, <2>2
  <2>4. m - 1 \in Nat /\ (m - 1) + 1 = m /\ m - 1 \in 0 .. Len(L) /\ ~(m <= m - 1) /\ (m - 1) + 1 <= Len(L)
    BY <1>1, <2>2, <2>3
  <2>5. PICK f : Stands(L, m - 1, f)
    BY <2>2, <2>4
  <2>6. \E g : Stands(L, (m - 1) + 1, g)
    BY <2>4, <2>5, StandsMore
  <2> QED  BY <2>2, <2>4, <2>6
<1>4. \E f : Stands(L, Len(L), f)
  BY <1>1, <1>3
<1> QED  BY <1>4 DEF CoversOf

(* What a place stands for does not change as the log grows. *)
CoversKept(L, M) ==
  /\ \A i \in DOMAIN L : CoversOf(M)[i] = CoversOf(L)[i]
  /\ CoversOf(M)[Len(L) + 1] = IF Replaces(M, Len(L) + 1)
                               THEN UNION {CoversOf(L)[j] : j \in L[Len(L)].shadows}
                               ELSE {Len(L) + 1}

LEMMA CoversGrow ==
  ASSUME NEW L \in Seq(LogEvents), NEW e \in LogEvents, NEW M, M = Append(L, e), LooksBack(L), LooksBack(M)
  PROVE  CoversKept(L, M)
<1>1. /\ M \in Seq(LogEvents) /\ Len(M) = Len(L) + 1 /\ Len(L) \in Nat
      /\ DOMAIN L = 1 .. Len(L) /\ DOMAIN M = 1 .. Len(L) + 1
      /\ \A i \in 1 .. Len(L) : M[i] = L[i]
  OBVIOUS
<1>2. PICK f : f = CoversOf(L)
  OBVIOUS
<1>3. PICK g : g = CoversOf(M)
  OBVIOUS
<1>4. Stands(L, Len(L), f) /\ Stands(M, Len(L) + 1, g)
  BY <1>1, <1>2, <1>3, StandsExists
<1>5. \A i \in 1 .. Len(L) : f[i] = IF Replaces(L, i) THEN UNION {f[j] : j \in L[i - 1].shadows} ELSE {i}
  BY <1>4 DEF Stands
<1>6. \A i \in 1 .. Len(L) + 1 : g[i] = IF Replaces(M, i) THEN UNION {g[j] : j \in M[i - 1].shadows} ELSE {i}
  BY <1>4 DEF Stands
<1>7. \A i \in 1 .. Len(L) : (Replaces(M, i) <=> Replaces(L, i)) /\ (Replaces(L, i) => M[i - 1] = L[i - 1])
  <2> TAKE i \in 1 .. Len(L)
  <2>1. i > 1 => i - 1 \in 1 .. Len(L)
    BY <1>1
  <2> QED  BY <1>1, <2>1 DEF Replaces
<1>8. \A i \in 1 .. Len(L) + 1 : Replaces(M, i) => i - 1 \in 1 .. Len(L) /\ \A j \in M[i - 1].shadows : j \in 1 .. i - 1
  <2> TAKE i \in 1 .. Len(L) + 1
  <2> SUFFICES ASSUME Replaces(M, i) PROVE i - 1 \in 1 .. Len(L) /\ \A j \in M[i - 1].shadows : j \in 1 .. i - 1
    OBVIOUS
  <2>1. i - 1 \in 1 .. Len(L) /\ i - 1 \in DOMAIN M /\ IsRecord(M[i - 1])
    BY <1>1 DEF Replaces
  <2>2. M[i - 1].shadows \subseteq 1 .. (i - 1) - 1
    BY <2>1 DEF LooksBack
  <2>3. \A j \in 1 .. (i - 1) - 1 : j \in 1 .. i - 1
    BY <2>1
  <2> QED  BY <2>1, <2>2, <2>3
<1> DEFINE Bad == {i \in 1 .. Len(L) : g[i] # f[i]}
<1>9. Bad = {}
  <2> SUFFICES ASSUME Bad # {} PROVE FALSE
    OBVIOUS
  <2>1. Bad \in SUBSET Nat
    OBVIOUS
  <2>2. PICK i \in Bad : \A k \in Bad : i <= k
    <3> HIDE DEF Bad
    <3> QED  BY <2>1, Least
  <2>3. i \in 1 .. Len(L) /\ i \in 1 .. Len(L) + 1 /\ g[i] # f[i]
    BY <1>1, <2>2
  <2>4. CASE ~Replaces(M, i)
    BY <1>5, <1>6, <1>7, <2>3, <2>4
  <2>5. CASE Replaces(M, i)
    <3>1. Replaces(L, i) /\ M[i - 1] = L[i - 1]
      BY <1>7, <2>3, <2>5
    <3>2. ASSUME NEW j \in M[i - 1].shadows PROVE g[j] = f[j]
      <4>1. j \in 1 .. i - 1
        BY <1>8, <2>3, <2>5
      <4>2. j \in 1 .. Len(L) /\ ~(i <= j)
        BY <1>1, <2>3, <4>1
      <4> QED  BY <2>2, <4>2
    <3>3. {g[j] : j \in M[i - 1].shadows} = {f[j] : j \in L[i - 1].shadows}
      BY <3>1, <3>2
    <3>4. g[i] = UNION {g[j] : j \in M[i - 1].shadows} /\ f[i] = UNION {f[j] : j \in L[i - 1].shadows}
      BY <1>5, <1>6, <2>3, <2>5, <3>1
    <3> QED  BY <2>3, <3>3, <3>4
  <2> QED  BY <2>4, <2>5
<1>10. \A i \in 1 .. Len(L) : g[i] = f[i]
  BY <1>9
<1>11. g[Len(L) + 1] = IF Replaces(M, Len(L) + 1) THEN UNION {f[j] : j \in L[Len(L)].shadows} ELSE {Len(L) + 1}
  <2>1. Len(L) + 1 \in 1 .. Len(L) + 1 /\ (Len(L) + 1) - 1 = Len(L)
    BY <1>1
  <2>2. CASE ~Replaces(M, Len(L) + 1)
    BY <1>6, <2>1, <2>2
  <2>3. CASE Replaces(M, Len(L) + 1)
    <3>1. Len(L) \in 1 .. Len(L) /\ \A j \in M[Len(L)].shadows : j \in 1 .. Len(L)
      BY <1>8, <2>1, <2>3
    <3>2. M[Len(L)] = L[Len(L)]
      BY <1>1, <3>1
    <3>3. {g[j] : j \in M[Len(L)].shadows} = {f[j] : j \in L[Len(L)].shadows}
      BY <1>10, <3>1, <3>2
    <3>4. g[Len(L) + 1] = UNION {g[j] : j \in M[Len(L)].shadows}
      BY <1>6, <2>1, <2>3
    <3> QED  BY <2>3, <3>3, <3>4
  <2> QED  BY <2>2, <2>3
<1> QED  BY <1>1, <1>2, <1>3, <1>10, <1>11 DEF CoversKept

LEMMA CoversIs ==
  ASSUME log \in Seq(LogEvents), LooksBack(log)
  PROVE  \A i \in DOMAIN log : Covers[i] = CoversOf(log)[i]
<1>1. DOMAIN log = 1 .. Len(log)
  OBVIOUS
<1> DEFINE F == CHOOSE f : f = [i \in DOMAIN log |->
                  IF Replacement(i) THEN UNION {f[j] : j \in log[i - 1].shadows} ELSE {i}]
<1>2. Covers = [i \in DOMAIN log |-> F[i]]
  BY DEF Covers
<1>3. F = CoversOf(log)
  BY <1>1 DEF CoversOf, Stands, Replacement, Replaces
<1> HIDE DEF F
<1> QED  BY <1>2, <1>3

-----------------------------------------------------------------------------
(* Where a replacement stands.                                             *)

(* One run of the surface, from one of its nodes to another. *)
RunOf(ns, a, b) == {ns[k] : k \in a .. b}
Distinct(ns) == \A j, k \in DOMAIN ns : ns[j] = ns[k] => j = k

LEMMA NothingReplaced ==
  ASSUME NEW ns \in Seq(Nat), NEW i \in Nat
  PROVE  Replaced(ns, {}, i) = Append(ns, i)
<1>1. DOMAIN ns = 1 .. Len(ns) /\ Len(ns) \in Nat
  OBVIOUS
<1>2. {k \in DOMAIN ns : ns[k] \in {}} = {} /\ DOMAIN ns \ {} = 1 .. Len(ns)
  BY <1>1
<1>3. InOrder(1 .. Len(ns)) = [k \in 1 .. Len(ns) |-> k]
  <2>1. 1 <= Len(ns) + 1 /\ 1 \in Nat \ {0}
    BY <1>1
  <2>2. InOrder(1 .. Len(ns)) = [k \in 1 .. Len(ns) + 1 - 1 |-> 1 + k - 1]
    BY <1>1, <2>1, InOrderRun
  <2>3. Len(ns) + 1 - 1 = Len(ns) /\ \A k \in 1 .. Len(ns) : 1 + k - 1 = k
    BY <1>1
  <2> QED  BY <2>2, <2>3
<1>4. Picked(ns, 1 .. Len(ns)) = [k \in 1 .. Len(ns) |-> ns[k]]
  BY <1>3 DEF Picked
<1>5. Picked(ns, 1 .. Len(ns)) = ns
  BY <1>1, <1>4
<1> QED  BY <1>2, <1>5 DEF Replaced

RunGone(ns, a, b, i, R) ==
  /\ R \in Seq(Nat) /\ Len(R) = Len(ns) - (b - a)
  /\ \A k \in 1 .. a - 1 : R[k] = ns[k]
  /\ R[a] = i
  /\ \A k \in a + 1 .. Len(ns) - (b - a) : R[k] = ns[k + (b - a)]

LEMMA RunReplaced ==
  ASSUME NEW ns \in Seq(Nat), Distinct(ns), NEW i \in Nat,
         NEW a \in Nat, NEW b \in Nat, 1 <= a, a <= b, b <= Len(ns)
  PROVE  RunGone(ns, a, b, i, Replaced(ns, RunOf(ns, a, b), i))
<1> DEFINE T == RunOf(ns, a, b)
           n == Len(ns)
           w == b - a
           taken == {k \in DOMAIN ns : ns[k] \in T}
           K == DOMAIN ns \ taken
           m == n - (w + 1)
           p == [k \in 1 .. m |-> IF k < a THEN k ELSE k + (w + 1)]
<1>1. DOMAIN ns = 1 .. n /\ n \in Nat /\ w \in Nat /\ m \in Nat /\ a - 1 \in Nat /\ a - 1 <= m
  OBVIOUS
<1>2. taken = a .. b
  <2>1. ASSUME NEW k \in taken PROVE k \in a .. b
    <3>1. PICK j \in a .. b : ns[k] = ns[j]
      BY DEF RunOf
    <3>2. j \in DOMAIN ns
      BY <1>1
    <3> QED  BY <3>1, <3>2 DEF Distinct
  <2>2. \A k \in a .. b : k \in taken
    BY <1>1 DEF RunOf
  <2> QED  BY <2>1, <2>2
<1>3. Min(taken) = a /\ taken # {}
  <2>1. a \in a .. b /\ \A y \in a .. b : a <= y
    OBVIOUS
  <2>2. \A x \in a .. b : (\A y \in a .. b : x <= y) => x = a
    BY <2>1
  <2>3. Min(a .. b) = a
    BY <2>1, <2>2 DEF Min
  <2> QED  BY <1>2, <2>1, <2>3
<1>4. K = {k \in 1 .. n : k < a \/ k > b}
  BY <1>1, <1>2
<1> HIDE DEF taken, K
<1>5. InOrder(K) = p
  <2>1. p \in Seq(Nat) /\ DOMAIN p = 1 .. m
    BY <1>1
  <2>2. Increasing(p)
    BY <1>1 DEF Increasing
  <2>3. Lists(p, K)
    <3>1. \A k \in DOMAIN p : p[k] \in K
      BY <1>1, <1>4
    <3>2. ASSUME NEW x \in K PROVE \E k \in DOMAIN p : p[k] = x
      <4>1. x \in 1 .. n /\ (x < a \/ x > b)
        BY <1>4
      <4>2. CASE x < a
        <5>1. x \in 1 .. m /\ p[x] = x
          BY <1>1, <4>1, <4>2
        <5> QED  BY <2>1, <5>1
      <4>3. CASE x > b
        <5>1. x - (w + 1) \in 1 .. m /\ ~(x - (w + 1) < a) /\ x - (w + 1) + (w + 1) = x
          BY <1>1, <4>1, <4>3
        <5>2. p[x - (w + 1)] = x
          BY <5>1
        <5> QED  BY <2>1, <5>1, <5>2
      <4> QED  BY <4>1, <4>2, <4>3
    <3> QED  BY <3>1, <3>2 DEF Lists
  <2>4. K \in SUBSET (1 .. n)
    BY <1>4
  <2> HIDE DEF p
  <2> QED  BY <1>1, <2>1, <2>2, <2>3, <2>4, InOrderIs
<1>6. PICK kept : kept = Picked(ns, K)
  OBVIOUS
<1>7. /\ kept \in Seq(Nat) /\ Len(kept) = m /\ DOMAIN kept = 1 .. m
      /\ \A k \in 1 .. m : kept[k] = ns[p[k]]
  <2>1. K \in SUBSET DOMAIN ns
    BY <1>1, <1>4
  <2>2. /\ Picked(ns, K) \in Seq(Nat) /\ DOMAIN Picked(ns, K) = DOMAIN InOrder(K)
        /\ \A k \in DOMAIN InOrder(K) : Picked(ns, K)[k] = ns[InOrder(K)[k]]
    BY <2>1, PickedLists
  <2>3. DOMAIN p = 1 .. m
    OBVIOUS
  <2>4. kept \in Seq(Nat) /\ DOMAIN kept = 1 .. m /\ \A k \in 1 .. m : kept[k] = ns[p[k]]
    BY <1>5, <1>6, <2>2, <2>3
  <2>5. Len(kept) = m
    <3> HIDE DEF m
    <3> QED  BY <1>1, <2>4
  <2> QED  BY <2>4, <2>5
<1>8. \A k \in 1 .. m : (k < a => kept[k] = ns[k]) /\ (k >= a => kept[k] = ns[k + (w + 1)])
  <2> TAKE k \in 1 .. m
  <2>1. p[k] = IF k < a THEN k ELSE k + (w + 1)
    OBVIOUS
  <2>2. k \in Nat /\ (k >= a => ~(k < a))
    OBVIOUS
  <2> HIDE DEF p, m, w
  <2> QED  BY <1>7, <2>1, <2>2
<1>9. PICK R : R = Replaced(ns, T, i)
  OBVIOUS
<1>10. R = SubSeq(kept, 1, a - 1) \o <<i>> \o SubSeq(kept, a, Len(kept))
  BY <1>3, <1>6, <1>9 DEF Replaced, InsertAt, taken, K
<1> HIDE DEF p, T, m, w, n
<1>11. PICK u : u = SubSeq(kept, 1, a - 1)
  OBVIOUS
<1>12. PICK v : v = SubSeq(kept, a, m)
  OBVIOUS
<1>13. u \in Seq(Nat) /\ Len(u) = a - 1 /\ \A k \in 1 .. a - 1 : u[k] = kept[k]
  BY SMTT(20), <1>1, <1>7, <1>11
<1>14. v \in Seq(Nat) /\ Len(v) = m - a + 1 /\ \A k \in 1 .. m - a + 1 : v[k] = kept[a + k - 1]
  <2>1. \A k \in a .. m : kept[k] \in Nat
    BY <1>1, <1>7
  <2>2. /\ v \in Seq(Nat) /\ Len(v) = IF a <= m THEN m - a + 1 ELSE 0
        /\ \A k \in 1 .. m - a + 1 : v[k] = kept[a + k - 1]
    BY SMTT(20), <1>1, <1>12, <2>1, SubSeqProperties
  <2> QED  BY <1>1, <2>2
<1>15. PICK x : x = u \o <<i>>
  OBVIOUS
<1>16. /\ x \in Seq(Nat) /\ Len(x) = a /\ x[a] = i /\ \A k \in 1 .. a - 1 : x[k] = u[k]
  <2>1. u \o <<i>> = Append(u, i)
    BY <1>13
  <2> QED  BY SMTT(20), <1>1, <1>13, <1>15, <2>1
<1>17. R = x \o v
  BY <1>7, <1>10, <1>11, <1>12, <1>15
<1>18. /\ R \in Seq(Nat) /\ Len(R) = a + (m - a + 1)
       /\ \A k \in 1 .. a : R[k] = x[k]
       /\ \A k \in a + 1 .. a + (m - a + 1) : R[k] = v[k - a]
  <2>1. /\ R \in Seq(Nat) /\ Len(R) = Len(x) + Len(v)
        /\ \A k \in 1 .. Len(x) : R[k] = x[k]
        /\ \A k \in Len(x) + 1 .. Len(x) + Len(v) : R[k] = v[k - Len(x)]
    <3>1. x \in Seq(Nat) /\ v \in Seq(Nat)
      BY <1>14, <1>16
    <3> QED  BY <1>17, <3>1
  <2> QED  BY <1>14, <1>16, <2>1
<1>19. a + (m - a + 1) = n - w /\ n - w = m + 1
  BY <1>1 DEF m
<1>20. \A k \in a + 1 .. n - w : R[k] = ns[k + w]
  <2> TAKE k \in a + 1 .. n - w
  <2>1. k \in a + 1 .. a + (m - a + 1) /\ k - a \in 1 .. m - a + 1 /\ k - 1 \in 1 .. m /\ k - 1 >= a
        /\ a + (k - a) - 1 = k - 1 /\ (k - 1) + (w + 1) = k + w
    BY <1>1, <1>19
  <2>2. R[k] = kept[a + (k - a) - 1]
    BY <1>14, <1>18, <2>1
  <2>3. kept[k - 1] = ns[(k - 1) + (w + 1)]
    BY <1>8, <2>1
  <2> QED  BY <2>1, <2>2, <2>3
<1>21. \A k \in 1 .. a - 1 : R[k] = ns[k]
  BY <1>1, <1>8, <1>13, <1>16, <1>18
<1>22. R[a] = i
  BY <1>16, <1>18
<1>23. RunGone(ns, a, b, i, R)
  BY <1>18, <1>19, <1>20, <1>21, <1>22 DEF RunGone, w, n
<1> QED  BY <1>9, <1>23 DEF T

-----------------------------------------------------------------------------
(* The surface of a log.                                                   *)

Surfaces == [nodes : Seq(Nat), claim : SUBSET Nat]

Claimed(L) == IF L # <<>> /\ IsRecord(L[Len(L)]) THEN L[Len(L)].shadows ELSE {}

(* Its nodes stand for everything said, once and in order, and what is     *)
(* claimed is what the record shadows that was written last.               *)
Faithful(L, s) ==
  /\ LooksBack(L) /\ s \in Surfaces /\ s.claim = Claimed(L)
  /\ Distinct(s.nodes) /\ \A k \in DOMAIN s.nodes : s.nodes[k] \in DOMAIN L
  /\ \A i \in DOMAIN L : CoversOf(L)[i] \subseteq 1 .. i
  /\ \A i \in DOMAIN L : IsSurface(L[i]) /\ ~Replaces(L, i) =>
       \E k \in DOMAIN s.nodes : i \in CoversOf(L)[s.nodes[k]]
  /\ \A k \in DOMAIN s.nodes : \A i \in CoversOf(L)[s.nodes[k]] :
       i \in DOMAIN L /\ IsSurface(L[i]) /\ ~Replaces(L, i)
  /\ \A j, k \in DOMAIN s.nodes : j < k =>
       \A x \in CoversOf(L)[s.nodes[j]], y \in CoversOf(L)[s.nodes[k]] : x < y

(* What may be written next: a record shadows what there is, and a message *)
(* that is claimed takes the place of one run.                             *)
Fits(L, s, e) ==
  /\ IsRecord(e) => e.shadows # {} /\ e.shadows \subseteq DOMAIN L
  /\ IsSurface(e) => s.claim = {} \/ \E a, b \in DOMAIN s.nodes : a <= b /\ s.claim = RunOf(s.nodes, a, b)

(* The log with one event more. *)
Grown(L, e, M) ==
  /\ M \in Seq(LogEvents) /\ Len(M) = Len(L) + 1 /\ Len(L) \in Nat /\ M[Len(L) + 1] = e
  /\ DOMAIN L = 1 .. Len(L) /\ DOMAIN M = 1 .. Len(L) + 1
  /\ LooksBack(M) /\ Claimed(M) = (IF IsRecord(e) THEN e.shadows ELSE {})
  /\ \A i \in DOMAIN L : /\ M[i] = L[i] /\ CoversOf(M)[i] = CoversOf(L)[i]
                         /\ Replaces(M, i) <=> Replaces(L, i)
  /\ Replaces(M, Len(L) + 1) <=> IsSurface(e) /\ Claimed(L) # {}
  /\ CoversOf(M)[Len(L) + 1] = IF IsSurface(e) /\ Claimed(L) # {}
                               THEN UNION {CoversOf(L)[j] : j \in Claimed(L)} ELSE {Len(L) + 1}
  /\ \A i \in DOMAIN M : CoversOf(M)[i] \subseteq 1 .. i

LEMMA LogGrows ==
  ASSUME NEW L \in Seq(LogEvents), NEW e \in LogEvents, NEW M, M = Append(L, e), LooksBack(L),
         IsRecord(e) => e.shadows # {} /\ e.shadows \subseteq DOMAIN L,
         \A i \in DOMAIN L : CoversOf(L)[i] \subseteq 1 .. i
  PROVE  Grown(L, e, M)
<1>1. /\ M \in Seq(LogEvents) /\ Len(M) = Len(L) + 1 /\ Len(L) \in Nat /\ M[Len(L) + 1] = e
      /\ DOMAIN L = 1 .. Len(L) /\ DOMAIN M = 1 .. Len(L) + 1
      /\ \A i \in 1 .. Len(L) : M[i] = L[i]
  OBVIOUS
<1>2. LooksBack(M)
  <2> SUFFICES ASSUME NEW i \in DOMAIN M, IsRecord(M[i])
               PROVE  M[i].shadows # {} /\ M[i].shadows \subseteq 1 .. i - 1
    BY DEF LooksBack
  <2>1. CASE i \in 1 .. Len(L)
    BY <1>1, <2>1 DEF LooksBack
  <2>2. CASE i = Len(L) + 1
    <3>1. i - 1 = Len(L)
      BY <1>1, <2>2
    <3> QED  BY <1>1, <2>2, <3>1
  <2> QED  BY <1>1, <2>1, <2>2
<1>3. Claimed(M) = (IF IsRecord(e) THEN e.shadows ELSE {})
  <2>1. M # <<>> /\ M[Len(M)] = e
    BY <1>1
  <2> QED  BY <2>1 DEF Claimed
<1>4. \A i \in 1 .. Len(L) : Replaces(M, i) <=> Replaces(L, i)
  <2> TAKE i \in 1 .. Len(L)
  <2>1. i > 1 => i - 1 \in 1 .. Len(L)
    BY <1>1
  <2> QED  BY <1>1, <2>1 DEF Replaces
<1>5. /\ \A i \in DOMAIN L : CoversOf(M)[i] = CoversOf(L)[i]
      /\ CoversOf(M)[Len(L) + 1] = IF Replaces(M, Len(L) + 1)
                                   THEN UNION {CoversOf(L)[j] : j \in L[Len(L)].shadows}
                                   ELSE {Len(L) + 1}
  <2>1. CoversKept(L, M)
    BY <1>2, CoversGrow
  <2> QED  BY <2>1 DEF CoversKept
<1>6. /\ Replaces(M, Len(L) + 1) <=> IsSurface(e) /\ Claimed(L) # {}
      /\ Replaces(M, Len(L) + 1) => L[Len(L)].shadows = Claimed(L)
  <2>1. (Len(L) + 1) - 1 = Len(L) /\ (L = <<>> <=> Len(L) = 0) /\ (Len(L) + 1 > 1 <=> Len(L) # 0)
    BY <1>1
  <2>2. CASE L = <<>>
    BY <1>1, <2>1, <2>2 DEF Replaces, Claimed
  <2>3. CASE L # <<>>
    <3>1. Len(L) \in DOMAIN L /\ M[Len(L)] = L[Len(L)]
      <4>1. Len(L) # 0
        BY <2>1, <2>3
      <4>2. Len(L) \in 1 .. Len(L)
        BY <1>1, <4>1
      <4> QED  BY <1>1, <4>2
    <3>2. IsRecord(L[Len(L)]) => L[Len(L)].shadows # {}
      BY <3>1 DEF LooksBack
    <3> QED  BY <1>1, <2>1, <2>3, <3>1, <3>2 DEF Replaces, Claimed
  <2> QED  BY <2>2, <2>3
<1>7. CoversOf(M)[Len(L) + 1] = IF IsSurface(e) /\ Claimed(L) # {}
                                THEN UNION {CoversOf(L)[j] : j \in Claimed(L)} ELSE {Len(L) + 1}
  <2>1. CASE Replaces(M, Len(L) + 1)
    <3>1. L[Len(L)].shadows = Claimed(L)
      BY <1>6, <2>1
    <3> QED  BY <1>5, <1>6, <2>1, <3>1
  <2>2. CASE ~Replaces(M, Len(L) + 1)
    BY <1>5, <1>6, <2>2
  <2> QED  BY <2>1, <2>2
<1>8. \A j \in Claimed(L) : j \in DOMAIN L
  <2> SUFFICES ASSUME L # <<>>, IsRecord(L[Len(L)]), NEW j \in L[Len(L)].shadows PROVE j \in DOMAIN L
    BY DEF Claimed
  <2>1. Len(L) \in DOMAIN L
    BY <1>1
  <2>2. j \in 1 .. Len(L) - 1
    BY <2>1 DEF LooksBack
  <2> QED  BY <1>1, <2>2
<1>9. \A i \in DOMAIN M : CoversOf(M)[i] \subseteq 1 .. i
  <2> TAKE i \in DOMAIN M
  <2>1. CASE i \in DOMAIN L
    BY <1>5, <2>1
  <2>2. CASE i = Len(L) + 1 /\ IsSurface(e) /\ Claimed(L) # {}
    <3>1. CoversOf(M)[i] = UNION {CoversOf(L)[j] : j \in Claimed(L)}
      BY <1>7, <2>2
    <3>2. ASSUME NEW j \in Claimed(L), NEW x \in CoversOf(L)[j] PROVE x \in 1 .. i
      <4>1. j \in 1 .. Len(L) /\ x \in 1 .. j
        BY <1>1, <1>8
      <4> QED  BY <1>1, <2>2, <4>1
    <3> QED  BY <3>1, <3>2
  <2>3. CASE i = Len(L) + 1 /\ ~(IsSurface(e) /\ Claimed(L) # {})
    <3>1. CoversOf(M)[i] = {i}
      BY <1>7, <2>3
    <3>2. i \in 1 .. i
      BY <1>1, <2>3
    <3> QED  BY <3>1, <3>2
  <2> QED  BY <1>1, <2>1, <2>2, <2>3
<1> QED  BY <1>1, <1>2, <1>3, <1>4, <1>5, <1>6, <1>7, <1>9 DEF Grown

LEMMA PlaceGrows ==
  ASSUME NEW L \in Seq(LogEvents), NEW s, NEW e \in LogEvents, NEW M, M = Append(L, e),
         Faithful(L, s), Fits(L, s, e)
  PROVE  Grown(L, e, M)
<1>1. /\ LooksBack(L) /\ (IsRecord(e) => e.shadows # {} /\ e.shadows \subseteq DOMAIN L)
      /\ \A i \in DOMAIN L : CoversOf(L)[i] \subseteq 1 .. i
  BY DEF Faithful, Fits
<1> QED  BY <1>1, LogGrows

(* An event that is no message leaves the nodes as they were. *)
LEMMA PlaceOther ==
  ASSUME NEW L \in Seq(LogEvents), NEW s, NEW e \in LogEvents, NEW M, M = Append(L, e),
         Faithful(L, s), Fits(L, s, e), ~IsSurface(e), NEW t, t = Place(s, Len(L) + 1, e)
  PROVE  Faithful(M, t) /\ t.nodes = s.nodes
<1>1. /\ DOMAIN L = 1 .. Len(L) /\ DOMAIN M = 1 .. Len(L) + 1 /\ Len(L) \in Nat /\ M[Len(L) + 1] = e
      /\ LooksBack(M) /\ Claimed(M) = (IF IsRecord(e) THEN e.shadows ELSE {})
      /\ \A i \in DOMAIN L : /\ M[i] = L[i] /\ CoversOf(M)[i] = CoversOf(L)[i]
                             /\ Replaces(M, i) <=> Replaces(L, i)
      /\ \A i \in DOMAIN M : CoversOf(M)[i] \subseteq 1 .. i
  <2>1. Grown(L, e, M)
    BY PlaceGrows
  <2> QED  BY <2>1 DEF Grown
<1>2. s \in Surfaces
  BY DEF Faithful
<1>3. t = [s EXCEPT !.claim = Claimed(M)]
  BY <1>1 DEF Place
<1>4. Claimed(M) \in SUBSET Nat
  <2>1. e.shadows \in SUBSET Nat
    BY DEF LogEvents
  <2> QED  BY <1>1, <2>1
<1>5. t \in Surfaces /\ t.nodes = s.nodes /\ t.claim = Claimed(M)
  BY <1>2, <1>3, <1>4 DEF Surfaces
<1>6. \A k \in DOMAIN t.nodes : t.nodes[k] \in DOMAIN L /\ t.nodes[k] \in DOMAIN M
  BY <1>1, <1>5 DEF Faithful
<1>7. \A i \in DOMAIN M : IsSurface(M[i]) /\ ~Replaces(M, i) =>
        \E k \in DOMAIN t.nodes : i \in CoversOf(M)[t.nodes[k]]
  <2> SUFFICES ASSUME NEW i \in DOMAIN M, IsSurface(M[i]), ~Replaces(M, i)
               PROVE  \E k \in DOMAIN t.nodes : i \in CoversOf(M)[t.nodes[k]]
    OBVIOUS
  <2>1. i \in DOMAIN L
    BY <1>1
  <2>2. PICK k \in DOMAIN s.nodes : i \in CoversOf(L)[s.nodes[k]]
    BY <1>1, <2>1 DEF Faithful
  <2> QED  BY <1>1, <1>5, <1>6, <2>2
<1>8. \A k \in DOMAIN t.nodes : \A i \in CoversOf(M)[t.nodes[k]] :
        i \in DOMAIN M /\ IsSurface(M[i]) /\ ~Replaces(M, i)
  <2> TAKE k \in DOMAIN t.nodes
  <2> TAKE i \in CoversOf(M)[t.nodes[k]]
  <2>1. i \in CoversOf(L)[s.nodes[k]] /\ k \in DOMAIN s.nodes
    BY <1>1, <1>5, <1>6
  <2>2. i \in DOMAIN L /\ IsSurface(L[i]) /\ ~Replaces(L, i)
    BY <2>1 DEF Faithful
  <2> QED  BY <1>1, <2>2
<1>9. \A j, k \in DOMAIN t.nodes : j < k =>
        \A x \in CoversOf(M)[t.nodes[j]], y \in CoversOf(M)[t.nodes[k]] : x < y
  <2>1. \A k \in DOMAIN t.nodes : CoversOf(M)[t.nodes[k]] = CoversOf(L)[s.nodes[k]]
    BY <1>1, <1>5, <1>6
  <2> QED  BY <1>5, <2>1 DEF Faithful
<1>10. Distinct(t.nodes)
  BY <1>5 DEF Faithful
<1> QED  BY <1>1, <1>5, <1>6, <1>7, <1>8, <1>9, <1>10 DEF Faithful

(* A message that replaces nothing stands at the end. *)
LEMMA PlaceLast ==
  ASSUME NEW L \in Seq(LogEvents), NEW s, NEW e \in LogEvents, NEW M, M = Append(L, e),
         Faithful(L, s), Fits(L, s, e), IsSurface(e), s.claim = {}, NEW t, t = Place(s, Len(L) + 1, e)
  PROVE  Faithful(M, t) /\ t.nodes = Append(s.nodes, Len(L) + 1)
<1> DEFINE i == Len(L) + 1
<1>1. /\ DOMAIN L = 1 .. Len(L) /\ DOMAIN M = 1 .. i /\ Len(L) \in Nat /\ M[i] = e /\ i \in Nat
      /\ LooksBack(M) /\ Claimed(M) = (IF IsRecord(e) THEN e.shadows ELSE {})
      /\ \A x \in DOMAIN L : /\ M[x] = L[x] /\ CoversOf(M)[x] = CoversOf(L)[x]
                             /\ Replaces(M, x) <=> Replaces(L, x)
      /\ \A x \in DOMAIN M : CoversOf(M)[x] \subseteq 1 .. x
      /\ ~Replaces(M, i) /\ CoversOf(M)[i] = {i}
  <2>1. Grown(L, e, M)
    BY PlaceGrows
  <2>2. Claimed(L) = {}
    BY DEF Faithful
  <2>3. Len(L) + 1 \in Nat
    BY <2>1 DEF Grown
  <2> QED  BY <2>1, <2>2, <2>3 DEF Grown
<1>2. s \in Surfaces /\ ~IsRecord(e)
  BY DEF Faithful, IsSurface, IsRecord
<1>3. t = [nodes |-> Replaced(s.nodes, {}, i), claim |-> {}]
  BY <1>2 DEF Place
<1>4. PICK ns : ns = s.nodes
  OBVIOUS
<1>5. ns \in Seq(Nat) /\ DOMAIN ns = 1 .. Len(ns) /\ Len(ns) \in Nat
  BY <1>2, <1>4 DEF Surfaces
<1>6. PICK R : R = Append(ns, i)
  OBVIOUS
<1>7. /\ R \in Seq(Nat) /\ DOMAIN R = 1 .. Len(ns) + 1 /\ R[Len(ns) + 1] = i
      /\ \A k \in 1 .. Len(ns) : R[k] = ns[k]
  BY <1>1, <1>5, <1>6
<1>8. t.nodes = R /\ t.claim = Claimed(M) /\ t \in Surfaces
  <2>1. Replaced(ns, {}, i) = R
    BY <1>1, <1>5, <1>6, NothingReplaced
  <2> QED  BY <1>1, <1>2, <1>3, <1>4, <1>7, <2>1 DEF Surfaces
<1>9. \A k \in 1 .. Len(ns) : R[k] \in DOMAIN L /\ R[k] # i /\ CoversOf(M)[R[k]] = CoversOf(L)[ns[k]]
  <2> TAKE k \in 1 .. Len(ns)
  <2>1. ns[k] \in DOMAIN L
    BY <1>4, <1>5 DEF Faithful
  <2> QED  BY <1>1, <1>7, <2>1
<1>10. Distinct(R)
  <2>1. Distinct(ns)
    BY <1>4 DEF Faithful
  <2> SUFFICES ASSUME NEW j \in DOMAIN R, NEW k \in DOMAIN R, R[j] = R[k] PROVE j = k
    BY DEF Distinct
  <2>2. j \in 1 .. Len(ns) \/ j = Len(ns) + 1
    BY <1>5, <1>7
  <2>3. k \in 1 .. Len(ns) \/ k = Len(ns) + 1
    BY <1>5, <1>7
  <2>4. CASE j \in 1 .. Len(ns) /\ k \in 1 .. Len(ns)
    <3>1. ns[j] = ns[k]
      BY <1>7, <2>4
    <3> QED  BY <1>5, <2>1, <2>4, <3>1 DEF Distinct
  <2> QED  BY <1>7, <1>9, <2>2, <2>3, <2>4
<1>11. \A k \in DOMAIN R : R[k] \in DOMAIN M
  BY <1>1, <1>5, <1>7, <1>9
<1>12. \A x \in DOMAIN M : IsSurface(M[x]) /\ ~Replaces(M, x) => \E k \in DOMAIN R : x \in CoversOf(M)[R[k]]
  <2> SUFFICES ASSUME NEW x \in DOMAIN M, IsSurface(M[x]), ~Replaces(M, x)
               PROVE  \E k \in DOMAIN R : x \in CoversOf(M)[R[k]]
    OBVIOUS
  <2>1. CASE x = i
    BY <1>1, <1>5, <1>7, <2>1
  <2>2. CASE x \in DOMAIN L
    <3>1. PICK k \in DOMAIN ns : x \in CoversOf(L)[ns[k]]
      BY <1>1, <1>4, <2>2 DEF Faithful
    <3> QED  BY SMTT(20), <1>5, <1>7, <1>9, <3>1
  <2> QED  BY <1>1, <2>1, <2>2
<1>13. \A k \in DOMAIN R : \A x \in CoversOf(M)[R[k]] : x \in DOMAIN M /\ IsSurface(M[x]) /\ ~Replaces(M, x)
  <2> TAKE k \in DOMAIN R
  <2> TAKE x \in CoversOf(M)[R[k]]
  <2>1. CASE k = Len(ns) + 1
    BY <1>1, <1>7, <2>1
  <2>2. CASE k \in 1 .. Len(ns)
    <3>1. x \in CoversOf(L)[ns[k]] /\ k \in DOMAIN ns
      BY <1>5, <1>9, <2>2
    <3>2. x \in DOMAIN L /\ IsSurface(L[x]) /\ ~Replaces(L, x)
      BY <1>4, <3>1 DEF Faithful
    <3> QED  BY <1>1, <3>2
  <2> QED  BY <1>5, <1>7, <2>1, <2>2
<1>14. \A j, k \in DOMAIN R : j < k => \A x \in CoversOf(M)[R[j]], y \in CoversOf(M)[R[k]] : x < y
  <2> SUFFICES ASSUME NEW j \in DOMAIN R, NEW k \in DOMAIN R, j < k,
                      NEW x \in CoversOf(M)[R[j]], NEW y \in CoversOf(M)[R[k]]
               PROVE  x < y
    OBVIOUS
  <2>1. j \in 1 .. Len(ns) /\ x \in CoversOf(L)[ns[j]]
    <3>1. j \in 1 .. Len(ns)
      BY <1>5, <1>7
    <3> QED  BY <1>9, <3>1
  <2>2. CASE k = Len(ns) + 1
    <3>1. y = i
      BY <1>1, <1>7, <2>2
    <3>2. x \in DOMAIN L
      BY <1>4, <1>5, <2>1 DEF Faithful
    <3> QED  BY <1>1, <3>1, <3>2
  <2>3. CASE k \in 1 .. Len(ns)
    <3>1. y \in CoversOf(L)[ns[k]]
      BY <1>9, <2>3
    <3> QED  BY <1>4, <1>5, <2>1, <2>3, <3>1 DEF Faithful
  <2> QED  BY <1>5, <1>7, <2>2, <2>3
<1> HIDE DEF i
<1>15. Faithful(M, t)
  BY <1>1, <1>8, <1>10, <1>11, <1>12, <1>13, <1>14 DEF Faithful
<1> QED  BY <1>4, <1>6, <1>8, <1>15 DEF i

(* What was claimed is gone, and whatever else stood there still does. *)
RunPlaced(s, t) ==
  /\ t.claim = {}
  /\ \A k \in DOMAIN s.nodes : s.nodes[k] \notin s.claim =>
       \E j \in DOMAIN t.nodes : t.nodes[j] = s.nodes[k]

(* A replacement stands where the run it replaces stood. *)
LEMMA PlaceRun ==
  ASSUME NEW L \in Seq(LogEvents), NEW s, NEW e \in LogEvents, NEW M, M = Append(L, e),
         Faithful(L, s), Fits(L, s, e), IsSurface(e), s.claim # {}, NEW t, t = Place(s, Len(L) + 1, e)
  PROVE  Faithful(M, t) /\ RunPlaced(s, t)
<1> DEFINE i == Len(L) + 1
<1>1. s \in Surfaces /\ ~IsRecord(e) /\ s.claim = Claimed(L)
  BY DEF Faithful, IsSurface, IsRecord
<1>2. /\ DOMAIN L = 1 .. Len(L) /\ DOMAIN M = 1 .. i /\ Len(L) \in Nat /\ M[i] = e /\ i \in Nat
      /\ LooksBack(M) /\ Claimed(M) = {}
      /\ \A x \in DOMAIN L : /\ M[x] = L[x] /\ CoversOf(M)[x] = CoversOf(L)[x]
                             /\ Replaces(M, x) <=> Replaces(L, x)
      /\ \A x \in DOMAIN M : CoversOf(M)[x] \subseteq 1 .. x
      /\ Replaces(M, i) /\ CoversOf(M)[i] = UNION {CoversOf(L)[j] : j \in s.claim}
  <2>1. Grown(L, e, M)
    BY PlaceGrows
  <2>2. Claimed(L) = s.claim /\ Len(L) + 1 \in Nat
    BY <1>1, <2>1 DEF Grown
  <2> QED  BY <1>1, <2>1, <2>2 DEF Grown
<1>3. PICK ns : ns = s.nodes
  OBVIOUS
<1>4. ns \in Seq(Nat) /\ DOMAIN ns = 1 .. Len(ns) /\ Len(ns) \in Nat /\ Distinct(ns)
  BY <1>1, <1>3 DEF Surfaces, Faithful
<1>5. PICK a \in DOMAIN ns, b \in DOMAIN ns : a <= b /\ s.claim = RunOf(ns, a, b)
  BY <1>3 DEF Fits
<1>6. PICK w \in Nat : w = b - a
  BY <1>4, <1>5
<1>7. a \in Nat /\ b \in Nat /\ 1 <= a /\ b <= Len(ns) /\ b = a + w
  BY SMTT(20), <1>4, <1>5, <1>6
<1>8. PICK R : R = Replaced(ns, RunOf(ns, a, b), i)
  OBVIOUS
<1>9. /\ R \in Seq(Nat) /\ Len(R) = Len(ns) - w /\ R[a] = i
      /\ \A k \in 1 .. a - 1 : R[k] = ns[k]
      /\ \A k \in a + 1 .. Len(ns) - w : R[k] = ns[k + w]
  <2>1. RunGone(ns, a, b, i, R)
    BY <1>2, <1>4, <1>5, <1>7, <1>8, RunReplaced
  <2>2. b - a = w
    BY <1>6
  <2> QED  BY <2>1, <2>2 DEF RunGone
<1>10. DOMAIN R = 1 .. Len(ns) - w
  BY <1>9
<1>11. t.nodes = R /\ t.claim = {} /\ t \in Surfaces
  <2>1. t = [nodes |-> Replaced(s.nodes, s.claim, i), claim |-> {}]
    BY <1>1 DEF Place
  <2> QED  BY <1>3, <1>5, <1>8, <1>9, <2>1 DEF Surfaces
<1> HIDE DEF i
<1>12. \A k \in DOMAIN ns : ns[k] \in DOMAIN L /\ ns[k] \in Nat /\ ns[k] # i /\ ns[k] \in DOMAIN M
  <2> TAKE k \in DOMAIN ns
  <2>1. ns[k] \in DOMAIN L
    BY <1>3 DEF Faithful
  <2> QED  BY <1>2, <2>1 DEF i
(* From which places of the surface before is what stands at k. *)
<1> DEFINE From(q, k) == (k < a /\ q = k) \/ (k = a /\ q \in a .. b) \/ (k > a /\ q = k + w)
<1>13. \A k \in DOMAIN R : \A x \in CoversOf(M)[R[k]] : \E q \in DOMAIN ns : From(q, k) /\ x \in CoversOf(L)[ns[q]]
  <2> TAKE k \in DOMAIN R
  <2> TAKE x \in CoversOf(M)[R[k]]
  <2>1. CASE k < a
    <3>1. k \in 1 .. a - 1 /\ k \in DOMAIN ns
      BY SMTT(20), <1>4, <1>7, <1>10, <2>1
    <3>2. x \in CoversOf(L)[ns[k]]
      BY <1>2, <1>9, <1>12, <3>1
    <3> QED  BY <2>1, <3>1, <3>2
  <2>2. CASE k = a
    <3>1. PICK j \in RunOf(ns, a, b) : x \in CoversOf(L)[j]
      BY <1>2, <1>5, <1>9, <2>2
    <3>2. PICK q \in a .. b : j = ns[q]
      BY <3>1 DEF RunOf
    <3>3. q \in DOMAIN ns
      BY SMTT(20), <1>4, <1>7
    <3> QED  BY <2>2, <3>1, <3>2, <3>3
  <2>3. CASE k > a
    <3>1. k \in a + 1 .. Len(ns) - w /\ k + w \in DOMAIN ns
      BY SMTT(20), <1>4, <1>7, <1>10, <2>3
    <3>2. x \in CoversOf(L)[ns[k + w]]
      BY <1>2, <1>9, <1>12, <3>1
    <3> QED  BY <2>3, <3>1, <3>2
  <2>4. k < a \/ k = a \/ k > a
    BY <1>7, <1>10
  <2> QED  BY <2>1, <2>2, <2>3, <2>4
<1>14. \A q \in DOMAIN ns : \E k \in DOMAIN R : /\ CoversOf(L)[ns[q]] \subseteq CoversOf(M)[R[k]]
                                                /\ ns[q] \notin s.claim => R[k] = ns[q]
  <2> TAKE q \in DOMAIN ns
  <2>1. CASE q < a
    <3>1. q \in 1 .. a - 1 /\ q \in DOMAIN R
      BY SMTT(20), <1>4, <1>7, <1>10, <2>1
    <3>2. R[q] = ns[q] /\ CoversOf(M)[R[q]] = CoversOf(L)[ns[q]]
      BY SMTT(20), <1>2, <1>9, <1>12, <3>1
    <3> QED  BY <3>1, <3>2
  <2>2. CASE q \in a .. b
    <3>1. ns[q] \in RunOf(ns, a, b) /\ a \in DOMAIN R
      BY SMTT(20), <1>4, <1>7, <1>10, <2>2 DEF RunOf
    <3>2. CoversOf(L)[ns[q]] \subseteq CoversOf(M)[R[a]]
      BY <1>2, <1>5, <1>9, <3>1
    <3> QED  BY <1>5, <3>1, <3>2
  <2>3. CASE q > b
    <3>1. q - w \in a + 1 .. Len(ns) - w /\ q - w \in DOMAIN R /\ q - w + w = q
      BY SMTT(20), <1>4, <1>7, <1>10, <2>3
    <3>2. R[q - w] = ns[q]
      BY <1>9, <3>1
    <3>3. CoversOf(M)[ns[q]] = CoversOf(L)[ns[q]]
      BY <1>2, <1>12
    <3> QED  BY <3>1, <3>2, <3>3
  <2>4. q < a \/ q \in a .. b \/ q > b
    BY SMTT(20), <1>4, <1>7
  <2> QED  BY <2>1, <2>2, <2>3, <2>4
<1>15. \A j, k \in DOMAIN R : j < k => \A q, r \in DOMAIN ns : From(q, j) /\ From(r, k) => q < r
  <2> SUFFICES ASSUME NEW j \in DOMAIN R, NEW k \in DOMAIN R, j < k,
                      NEW q \in DOMAIN ns, NEW r \in DOMAIN ns, From(q, j), From(r, k)
               PROVE  q < r
    OBVIOUS
  <2>1. j \in Nat /\ k \in Nat /\ q \in Nat /\ r \in Nat /\ a \in Nat /\ b \in Nat /\ w \in Nat
    <3>1. \A x \in DOMAIN ns : x \in Nat
      BY <1>4
    <3>2. \A x \in DOMAIN R : x \in Nat
      BY <1>10
    <3> QED  BY <1>7, <3>1, <3>2
  <2>2. CASE k < a
    BY <2>1, <2>2
  <2>3. CASE k = a
    BY <2>1, <2>3
  <2>4. CASE k > a
    BY SMTT(20), <1>7, <2>1, <2>4
  <2> QED  BY <2>1, <2>2, <2>3, <2>4
<1>16. Distinct(R)
  <2>1. \A k \in DOMAIN R : k # a => \E q \in DOMAIN ns : From(q, k) /\ R[k] = ns[q] /\ R[k] # i
    <3> TAKE k \in DOMAIN R
    <3>1. CASE k < a
      <4>1. k \in 1 .. a - 1 /\ k \in DOMAIN ns
        BY SMTT(20), <1>4, <1>7, <1>10, <3>1
      <4> QED  BY <1>9, <1>12, <3>1, <4>1
    <3>2. CASE k > a
      <4>1. k \in a + 1 .. Len(ns) - w /\ k + w \in DOMAIN ns
        BY SMTT(20), <1>4, <1>7, <1>10, <3>2
      <4> QED  BY <1>9, <1>12, <3>2, <4>1
    <3> QED  BY <1>7, <1>10, <3>1, <3>2
  <2>2. ASSUME NEW j \in DOMAIN R, NEW k \in DOMAIN R, j < k PROVE R[j] # R[k]
    <3>1. CASE j = a
      <4>1. k # a
        BY <1>7, <1>10, <2>2, <3>1
      <4> QED  BY <1>9, <2>1, <3>1, <4>1
    <3>2. CASE k = a
      <4>1. j # a
        BY <1>7, <1>10, <2>2, <3>2
      <4> QED  BY <1>9, <2>1, <3>2, <4>1
    <3>3. CASE j # a /\ k # a
      <4>1. PICK q \in DOMAIN ns : From(q, j) /\ R[j] = ns[q]
        BY <2>1, <3>3
      <4>2. PICK r \in DOMAIN ns : From(r, k) /\ R[k] = ns[r]
        BY <2>1, <3>3
      <4>3. q < r
        BY <1>15, <2>2, <4>1, <4>2
      <4>4. q # r
        BY <1>4, <4>3
      <4> QED  BY <1>4, <4>1, <4>2, <4>4 DEF Distinct
    <3> QED  BY <3>1, <3>2, <3>3
  <2>3. \A j, k \in DOMAIN R : j < k \/ k < j \/ j = k
    BY <1>10
  <2> QED  BY <2>2, <2>3 DEF Distinct
<1>17. \A k \in DOMAIN R : R[k] \in DOMAIN M
  <2> TAKE k \in DOMAIN R
  <2>1. CASE k < a
    <3>1. k \in 1 .. a - 1 /\ k \in DOMAIN ns
      BY SMTT(20), <1>4, <1>7, <1>10, <2>1
    <3> QED  BY <1>9, <1>12, <3>1
  <2>2. CASE k = a
    BY <1>2, <1>9, <2>2 DEF i
  <2>3. CASE k > a
    <3>1. k \in a + 1 .. Len(ns) - w /\ k + w \in DOMAIN ns
      BY <1>4, <1>7, <1>10, <2>3
    <3> QED  BY <1>9, <1>12, <3>1
  <2> QED  BY <1>7, <1>10, <2>1, <2>2, <2>3
<1> HIDE DEF From
<1>18. \A x \in DOMAIN M : IsSurface(M[x]) /\ ~Replaces(M, x) => \E k \in DOMAIN R : x \in CoversOf(M)[R[k]]
  <2> SUFFICES ASSUME NEW x \in DOMAIN M, IsSurface(M[x]), ~Replaces(M, x)
               PROVE  \E k \in DOMAIN R : x \in CoversOf(M)[R[k]]
    OBVIOUS
  <2>1. x \in DOMAIN L
    BY <1>2 DEF i
  <2>2. PICK q \in DOMAIN ns : x \in CoversOf(L)[ns[q]]
    BY <1>2, <1>3, <2>1 DEF Faithful
  <2> QED  BY <1>14, <2>2
<1>19. \A k \in DOMAIN R : \A x \in CoversOf(M)[R[k]] : x \in DOMAIN M /\ IsSurface(M[x]) /\ ~Replaces(M, x)
  <2> TAKE k \in DOMAIN R
  <2> TAKE x \in CoversOf(M)[R[k]]
  <2>1. PICK q \in DOMAIN ns : x \in CoversOf(L)[ns[q]]
    BY <1>13
  <2>2. x \in DOMAIN L /\ IsSurface(L[x]) /\ ~Replaces(L, x)
    BY <1>3, <2>1 DEF Faithful
  <2> QED  BY <1>2, <2>2 DEF i
<1>20. \A j, k \in DOMAIN R : j < k => \A x \in CoversOf(M)[R[j]], y \in CoversOf(M)[R[k]] : x < y
  <2> SUFFICES ASSUME NEW j \in DOMAIN R, NEW k \in DOMAIN R, j < k,
                      NEW x \in CoversOf(M)[R[j]], NEW y \in CoversOf(M)[R[k]]
               PROVE  x < y
    OBVIOUS
  <2>1. PICK q \in DOMAIN ns : From(q, j) /\ x \in CoversOf(L)[ns[q]]
    BY <1>13
  <2>2. PICK r \in DOMAIN ns : From(r, k) /\ y \in CoversOf(L)[ns[r]]
    BY <1>13
  <2>3. q < r
    BY <1>15, <2>1, <2>2
  <2> QED  BY <1>3, <2>1, <2>2, <2>3 DEF Faithful
<1>21. Faithful(M, t)
  BY <1>2, <1>11, <1>16, <1>17, <1>18, <1>19, <1>20 DEF Faithful
<1>22. \A k \in DOMAIN ns : ns[k] \notin s.claim => \E j \in DOMAIN R : R[j] = ns[k]
  BY <1>14
<1>23. RunPlaced(s, t)
  BY <1>3, <1>11, <1>22 DEF RunPlaced
<1> QED  BY <1>21, <1>23

-----------------------------------------------------------------------------
(* What writing several events comes to.                                   *)

FoldRule(L, s, es, n, f) ==
  f = [k \in 0 .. n |-> IF k = 0 THEN s ELSE Place(f[k - 1], Len(L) + k, es[k])]
SurfaceAfter(L, s, es) == (CHOOSE f : FoldRule(L, s, es, Len(es), f))[Len(es)]

(* A batch rewrites nothing: no record, and no message that is claimed.    *)
Plain(es) == es \in Seq(LogEvents) /\ \A k \in DOMAIN es : ~IsRecord(es[k])
Opens(es) == es # <<>> /\ ~IsSurface(es[1])
Silent(es) == \A k \in DOMAIN es : es[k].ty # "assistant/message"

(* A step began that has not answered yet. *)
Fitted(L) == \E p \in DOMAIN L : /\ L[p].ty = "step/start"
                                 /\ \A q \in DOMAIN L : q > p => L[q].ty # "assistant/message"

LEMMA WriteIs ==
  ASSUME NEW es, Write(es)
  PROVE  log' = log \o es /\ surface' = SurfaceAfter(log, surface, es)
BY DEF Write, SurfaceAfter, FoldRule

LEMMA FoldMore ==
  ASSUME NEW L, NEW s, NEW es, NEW n \in Nat, NEW f, FoldRule(L, s, es, n, f)
  PROVE  \E g : FoldRule(L, s, es, n + 1, g)
<1> DEFINE rule(h, k) == IF k = 0 THEN s ELSE Place(h[k - 1], Len(L) + k, es[k])
           g == [k \in 0 .. n + 1 |-> IF k = n + 1 THEN rule(f, k) ELSE f[k]]
<1>1. \A k \in 0 .. n : f[k] = rule(f, k)
  BY DEF FoldRule
<1>2. \A k \in 0 .. n + 1 : k # 0 => k - 1 \in 0 .. n + 1 /\ k - 1 # n + 1
  OBVIOUS
<1>3. \A k \in 0 .. n + 1 : k # 0 => g[k - 1] = f[k - 1]
  BY <1>2
<1>4. \A k \in 0 .. n + 1 : rule(g, k) = rule(f, k)
  <2> HIDE DEF g
  <2> QED  BY <1>3
<1>5. \A k \in 0 .. n + 1 : g[k] = rule(f, k)
  <2> TAKE k \in 0 .. n + 1
  <2>1. CASE k = n + 1
    BY <2>1
  <2>2. CASE k # n + 1
    <3>1. k \in 0 .. n /\ g[k] = f[k]
      BY <2>2
    <3> HIDE DEF g, rule
    <3> QED  BY <1>1, <3>1
  <2> QED  BY <2>1, <2>2
<1>6. g = [k \in 0 .. n + 1 |-> rule(g, k)]
  <2>1. g = [k \in 0 .. n + 1 |-> g[k]]
    OBVIOUS
  <2> HIDE DEF g, rule
  <2> QED  BY <1>4, <1>5, <2>1
<1> HIDE DEF g
<1>7. FoldRule(L, s, es, n + 1, g)
  BY <1>6 DEF FoldRule
<1> QED  BY <1>7

LEMMA FoldExists ==
  ASSUME NEW L, NEW s, NEW es, NEW n \in Nat
  PROVE  \E f : FoldRule(L, s, es, n, f)
<1> DEFINE Bad == {m \in 0 .. n : ~\E f : FoldRule(L, s, es, m, f)}
<1>1. \E f : FoldRule(L, s, es, 0, f)
  <2> DEFINE f == [k \in 0 .. 0 |-> s]
  <2>1. f = [k \in 0 .. 0 |-> IF k = 0 THEN s ELSE Place(f[k - 1], Len(L) + k, es[k])]
    OBVIOUS
  <2> HIDE DEF f
  <2>2. FoldRule(L, s, es, 0, f)
    BY <2>1 DEF FoldRule
  <2> QED  BY <2>2
<1>2. Bad = {}
  <2> SUFFICES ASSUME Bad # {} PROVE FALSE
    OBVIOUS
  <2>1. Bad \in SUBSET Nat
    OBVIOUS
  <2>2. PICK m \in Bad : \A k \in Bad : m <= k
    <3> HIDE DEF Bad
    <3> QED  BY <2>1, Least
  <2>3. m # 0
    BY <1>1, <2>2
  <2>4. m - 1 \in Nat /\ (m - 1) + 1 = m /\ m - 1 \in 0 .. n /\ ~(m <= m - 1)
    BY <2>2, <2>3
  <2>5. PICK f : FoldRule(L, s, es, m - 1, f)
    BY <2>2, <2>4
  <2>6. \E g : FoldRule(L, s, es, (m - 1) + 1, g)
    BY <2>4, <2>5, FoldMore
  <2> QED  BY <2>2, <2>4, <2>6
<1> QED  BY <1>2

LEMMA FoldIs ==
  ASSUME NEW L, NEW s, NEW es \in Seq(LogEvents)
  PROVE  \E f : /\ SurfaceAfter(L, s, es) = f[Len(es)] /\ f[0] = s
                /\ \A k \in 1 .. Len(es) : f[k] = Place(f[k - 1], Len(L) + k, es[k])
<1>1. Len(es) \in Nat
  OBVIOUS
<1>2. PICK f : f = CHOOSE g : FoldRule(L, s, es, Len(es), g)
  OBVIOUS
<1>3. FoldRule(L, s, es, Len(es), f)
  BY <1>1, <1>2, FoldExists
<1>4. \A k \in 0 .. Len(es) : f[k] = IF k = 0 THEN s ELSE Place(f[k - 1], Len(L) + k, es[k])
  BY <1>3 DEF FoldRule
<1>5. 0 \in 0 .. Len(es) /\ \A k \in 1 .. Len(es) : k \in 0 .. Len(es) /\ k # 0
  BY <1>1
<1>6. f[0] = s /\ \A k \in 1 .. Len(es) : f[k] = Place(f[k - 1], Len(L) + k, es[k])
  BY <1>4, <1>5
<1>7. SurfaceAfter(L, s, es) = f[Len(es)]
  BY <1>2 DEF SurfaceAfter
<1> QED  BY <1>6, <1>7

LEMMA WriteOne ==
  ASSUME NEW e, e \in LogEvents, log \in Seq(LogEvents), Write(<<e>>)
  PROVE  log' = Append(log, e) /\ surface' = Place(surface, Len(log) + 1, e)
<1>1. PICK es : es = <<e>>
  OBVIOUS
<1>2. es \in Seq(LogEvents) /\ Len(es) = 1 /\ es[1] = e
  BY <1>1
<1>3. log' = log \o es /\ surface' = SurfaceAfter(log, surface, es)
  BY <1>1, WriteIs
<1>4. PICK f : /\ SurfaceAfter(log, surface, es) = f[Len(es)] /\ f[0] = surface
               /\ \A k \in 1 .. Len(es) : f[k] = Place(f[k - 1], Len(log) + k, es[k])
  BY <1>2, FoldIs
<1>5. f[1] = Place(f[1 - 1], Len(log) + 1, es[1]) /\ 1 - 1 = 0
  BY <1>2, <1>4
<1>6. log \o <<e>> = Append(log, e)
  OBVIOUS
<1> QED  BY <1>1, <1>2, <1>3, <1>4, <1>5, <1>6

LEMMA NoneClaimed ==
  ASSUME NEW L \in Seq(LogEvents), NEW e \in LogEvents, NEW M, M = Append(L, e),
         NEW t, Faithful(M, t), ~IsRecord(e)
  PROVE  t.claim = {}
<1>1. M # <<>> /\ M[Len(M)] = e
  OBVIOUS
<1> QED  BY <1>1 DEF Faithful, Claimed

(* One event that rewrites nothing. *)
LEMMA PlacePlain ==
  ASSUME NEW L \in Seq(LogEvents), NEW s, NEW e \in LogEvents, NEW M, M = Append(L, e),
         Faithful(L, s), ~IsRecord(e), IsSurface(e) => s.claim = {}, NEW t, t = Place(s, Len(L) + 1, e)
  PROVE  Faithful(M, t) /\ t.claim = {}
<1>1. Fits(L, s, e)
  BY DEF Fits
<1>2. Faithful(M, t)
  <2>1. CASE IsSurface(e)
    BY <1>1, <2>1, PlaceLast
  <2>2. CASE ~IsSurface(e)
    BY <1>1, <2>2, PlaceOther
  <2> QED  BY <2>1, <2>2
<1> QED  BY <1>2, NoneClaimed

LEMMA SeqIs ==
  ASSUME NEW S, NEW q \in Seq(S)
  PROVE  q = [i \in 1 .. Len(q) |-> q[i]]
OBVIOUS

Stays(L, s, es, M, t) ==
  /\ M \in Seq(LogEvents) /\ Faithful(M, t)
  /\ es = <<>> => M = L /\ t = s
  /\ es # <<>> => t.claim = {}

LEMMA PlainWritten ==
  ASSUME NEW L \in Seq(LogEvents), NEW s, Faithful(L, s), NEW es, Plain(es),
         es = <<>> \/ s.claim = {} \/ Opens(es),
         NEW M, M = L \o es, NEW t, t = SurfaceAfter(L, s, es)
  PROVE  Stays(L, s, es, M, t)
<1> DEFINE n == Len(es)
           Upto(k) == [i \in 1 .. Len(L) + k |-> M[i]]
<1>1. /\ es \in Seq(LogEvents) /\ n \in Nat /\ Len(L) \in Nat /\ DOMAIN es = 1 .. n
      /\ DOMAIN L = 1 .. Len(L)
  BY DEF Plain
<1>2. /\ M \in Seq(LogEvents) /\ Len(M) = Len(L) + n /\ DOMAIN M = 1 .. Len(L) + n
      /\ \A i \in 1 .. Len(L) : M[i] = L[i]
      /\ \A k \in 1 .. n : M[Len(L) + k] = es[k]
  BY <1>1
<1>3. PICK f : /\ t = f[n] /\ f[0] = s
               /\ \A k \in 1 .. n : f[k] = Place(f[k - 1], Len(L) + k, es[k])
  BY SMTT(20), <1>1, FoldIs
<1>4. \A k \in 0 .. n : Upto(k) \in Seq(LogEvents) /\ Len(Upto(k)) = Len(L) + k
  <2> TAKE k \in 0 .. n
  <2>1. Len(L) + k \in Nat /\ \A i \in 1 .. Len(L) + k : i \in 1 .. Len(L) + n
    BY <1>1
  <2>2. \A i \in 1 .. Len(L) + k : M[i] \in LogEvents
    BY <1>2, <2>1
  <2> QED  BY <2>1, <2>2
<1>5. Upto(0) = L /\ Upto(n) = M
  <2>1. Len(L) + 0 = Len(L) /\ L = [i \in 1 .. Len(L) |-> L[i]]
    BY <1>1
  <2>2. M = [i \in 1 .. Len(L) + n |-> M[i]]
    <3>1. M = [i \in 1 .. Len(M) |-> M[i]]
      BY <1>2, SeqIs
    <3> QED  BY <1>2, <3>1
  <2> HIDE DEF n
  <2> QED  BY <1>2, <2>1, <2>2
<1>6. \A k \in 0 .. n - 1 : Upto(k + 1) = Append(Upto(k), es[k + 1])
  <2> TAKE k \in 0 .. n - 1
  <2>1. PICK u : u = Upto(k)
    OBVIOUS
  <2>2. PICK v : v = Upto(k + 1)
    OBVIOUS
  <2>3. k + 1 \in 1 .. n /\ k \in 0 .. n /\ k + 1 \in 0 .. n /\ Len(L) + k \in Nat
        /\ Len(L) + (k + 1) = (Len(L) + k) + 1
    BY <1>1
  <2>4. u \in Seq(LogEvents) /\ v \in Seq(LogEvents) /\ Len(u) = Len(L) + k /\ Len(v) = (Len(L) + k) + 1
    BY <1>4, <2>1, <2>2, <2>3
  <2>5. \A i \in 1 .. Len(L) + k : u[i] = M[i] /\ v[i] = M[i]
    BY SMTT(20), <2>1, <2>2, <2>3
  <2>6. v[(Len(L) + k) + 1] = es[k + 1]
    <3>1. (Len(L) + k) + 1 \in 1 .. Len(L) + (k + 1)
      BY <2>3
    <3>2. v[(Len(L) + k) + 1] = M[(Len(L) + k) + 1]
      BY <2>2, <3>1
    <3> QED  BY <1>2, <2>3, <3>2
  <2>7. es[k + 1] \in LogEvents
    BY <1>1, <2>3
  <2> HIDE DEF Upto, n
  <2>8. PICK w : w = Append(u, es[k + 1])
    OBVIOUS
  <2>9. /\ w \in Seq(LogEvents) /\ Len(w) = (Len(L) + k) + 1 /\ w[(Len(L) + k) + 1] = es[k + 1]
        /\ \A i \in 1 .. Len(L) + k : w[i] = u[i]
    BY <2>3, <2>4, <2>7, <2>8
  <2>10. v = w
    <3>1. DOMAIN v = 1 .. (Len(L) + k) + 1 /\ DOMAIN w = 1 .. (Len(L) + k) + 1
      BY <2>4, <2>9
    <3>2. \A i \in 1 .. (Len(L) + k) + 1 : i = (Len(L) + k) + 1 \/ i \in 1 .. Len(L) + k
      BY <2>3
    <3>3. \A i \in 1 .. (Len(L) + k) + 1 : v[i] = w[i]
      BY <2>5, <2>6, <2>9, <3>2
    <3>4. v = [i \in DOMAIN v |-> v[i]] /\ w = [i \in DOMAIN w |-> w[i]]
      BY <2>4, <2>9
    <3> QED  BY <3>1, <3>3, <3>4
  <2> QED  BY <2>1, <2>2, <2>8, <2>10
<1> DEFINE Good(k) == Faithful(Upto(k), f[k]) /\ (k # 0 => f[k].claim = {})
           Bad == {k \in 0 .. n : ~Good(k)}
<1> HIDE DEF Upto
<1>7. Good(0)
  BY <1>3, <1>5
<1>8. \A k \in 0 .. n - 1 : Good(k) => Good(k + 1)
  <2> TAKE k \in 0 .. n - 1
  <2> SUFFICES ASSUME Good(k) PROVE Good(k + 1)
    OBVIOUS
  <2>1. k + 1 \in 1 .. n /\ k \in 0 .. n /\ (k + 1) - 1 = k /\ Len(L) + (k + 1) = (Len(L) + k) + 1 /\ k + 1 # 0
    BY <1>1
  <2>2. PICK e : e = es[k + 1]
    OBVIOUS
  <2>3. e \in LogEvents /\ ~IsRecord(e)
    <3>1. k + 1 \in DOMAIN es
      BY <1>1, <2>1
    <3>2. es[k + 1] \in LogEvents /\ ~IsRecord(es[k + 1])
      BY <1>1, <3>1 DEF Plain
    <3> QED  BY <2>2, <3>2
  <2>4. IsSurface(e) => f[k].claim = {}
    <3>1. CASE k = 0
      <4>1. es # <<>>
        BY <1>1, <2>1
      <4>2. e = es[1]
        BY <2>2, <3>1
      <4> QED  BY <1>3, <3>1, <4>1, <4>2 DEF Opens
    <3>2. CASE k # 0
      BY <3>2
    <3> QED  BY <3>1, <3>2
  <2>5. PICK u : u = Upto(k)
    OBVIOUS
  <2>6. u \in Seq(LogEvents) /\ Len(u) = Len(L) + k /\ Faithful(u, f[k])
    BY <1>4, <2>1, <2>5
  <2>7. f[k + 1] = Place(f[k], Len(u) + 1, e)
    BY <1>3, <2>1, <2>2, <2>6
  <2>8. Upto(k + 1) = Append(u, e)
    BY <1>6, <2>2, <2>5
  <2>9. Faithful(Append(u, e), f[k + 1]) /\ f[k + 1].claim = {}
    <3>1. PICK v : v = Append(u, e)
      OBVIOUS
    <3>2. PICK x : x = f[k]
      OBVIOUS
    <3>3. PICK y : y = f[k + 1]
      OBVIOUS
    <3> HIDE DEF Good
    <3>4. y = Place(x, Len(u) + 1, e) /\ Faithful(u, x) /\ (IsSurface(e) => x.claim = {})
      BY <2>4, <2>6, <2>7, <3>2, <3>3
    <3>5. Faithful(v, y) /\ y.claim = {}
      BY <2>3, <2>6, <3>1, <3>4, PlacePlain
    <3> QED  BY <3>1, <3>3, <3>5
  <2> QED  BY <2>8, <2>9
<1>9. Bad = {}
  <2> SUFFICES ASSUME Bad # {} PROVE FALSE
    OBVIOUS
  <2>1. Bad \in SUBSET Nat
    OBVIOUS
  <2>2. PICK m \in Bad : \A k \in Bad : m <= k
    <3> HIDE DEF Bad
    <3> QED  BY <2>1, Least
  <2> HIDE DEF Good
  <2>3. m # 0
    BY <1>7, <2>2
  <2>4. (m - 1) + 1 = m /\ m - 1 \in 0 .. n /\ m - 1 \in 0 .. n - 1 /\ ~(m <= m - 1)
    BY <1>1, <2>2, <2>3
  <2>5. Good(m - 1)
    BY <2>2, <2>4
  <2>6. Good((m - 1) + 1)
    BY <1>8, <2>4, <2>5
  <2> QED  BY <2>2, <2>4, <2>6
<1>10. Good(n)
  BY <1>1, <1>9
<1>11. es = <<>> <=> n = 0
  BY <1>1
<1>12. M \in Seq(LogEvents) /\ Faithful(M, t)
  BY <1>2, <1>3, <1>5, <1>10
<1>13. n = 0 => M = L /\ t = s
  BY <1>3, <1>5
<1>14. n # 0 => t.claim = {}
  BY <1>3, <1>10
<1> QED  BY <1>11, <1>12, <1>13, <1>14 DEF Stays

-----------------------------------------------------------------------------
(* The batches the turn writes.                                            *)

Marks == {"turn/start", "turn/end", "step/start", "step/end", "context/snapshot",
          "compaction/start", "compaction/end"}

LEMMA PlainJoined ==
  ASSUME NEW a, NEW b, Plain(a), Plain(b), NEW c, c = a \o b
  PROVE  /\ Plain(c) /\ (Opens(a) => Opens(c)) /\ (a = <<>> => c = b)
         /\ (a # <<>> => c # <<>>) /\ (b # <<>> => c # <<>>)
         /\ (Silent(a) /\ Silent(b) => Silent(c))
<1>1. /\ a \in Seq(LogEvents) /\ b \in Seq(LogEvents) /\ Len(a) \in Nat /\ Len(b) \in Nat
      /\ DOMAIN a = 1 .. Len(a) /\ DOMAIN b = 1 .. Len(b)
  BY DEF Plain
<1>2. /\ c \in Seq(LogEvents) /\ Len(c) = Len(a) + Len(b)
      /\ \A i \in 1 .. Len(a) : c[i] = a[i]
      /\ \A i \in Len(a) + 1 .. Len(a) + Len(b) : c[i] = b[i - Len(a)]
  BY <1>1
<1>3. \A i \in DOMAIN c : \/ i \in DOMAIN a /\ c[i] = a[i]
                          \/ i - Len(a) \in DOMAIN b /\ c[i] = b[i - Len(a)]
  <2> TAKE i \in DOMAIN c
  <2>1. i \in 1 .. Len(a) + Len(b)
    BY <1>2
  <2>2. CASE i \in 1 .. Len(a)
    BY <1>1, <1>2, <2>2
  <2>3. CASE i \in Len(a) + 1 .. Len(a) + Len(b)
    <3>1. i - Len(a) \in 1 .. Len(b)
      BY <1>1, <2>3
    <3> QED  BY <1>1, <1>2, <2>3, <3>1
  <2>4. i \in 1 .. Len(a) \/ i \in Len(a) + 1 .. Len(a) + Len(b)
    BY <1>1, <2>1
  <2> QED  BY <2>2, <2>3, <2>4
<1>4. Plain(c)
  BY <1>2, <1>3 DEF Plain
<1>5. Silent(a) /\ Silent(b) => Silent(c)
  BY <1>3 DEF Silent
<1>6. (a # <<>> => c # <<>>) /\ (b # <<>> => c # <<>>)
  BY <1>1, <1>2
<1>7. Opens(a) => Opens(c)
  <2> SUFFICES ASSUME Opens(a) PROVE Opens(c)
    OBVIOUS
  <2>1. a # <<>> /\ 1 \in 1 .. Len(a)
    BY <1>1 DEF Opens
  <2>2. c[1] = a[1]
    BY <1>2, <2>1
  <2> QED  BY <1>6, <2>1, <2>2 DEF Opens
<1>8. a = <<>> => c = b
  BY <1>1
<1> QED  BY <1>4, <1>5, <1>6, <1>7, <1>8

LEMMA OneIs ==
  ASSUME NEW e, e \in LogEvents, ~IsRecord(e)
  PROVE  /\ Plain(<<e>>) /\ <<e>> # <<>>
         /\ (~IsSurface(e) => Opens(<<e>>)) /\ (e.ty # "assistant/message" => Silent(<<e>>))
<1>1. PICK es : es = <<e>>
  OBVIOUS
<1>2. es \in Seq(LogEvents) /\ es # <<>> /\ es[1] = e /\ \A k \in DOMAIN es : es[k] = e
  BY <1>1
<1> QED  BY <1>1, <1>2 DEF Plain, Opens, Silent

LEMMA NothingIs == Plain(<<>>) /\ Silent(<<>>)
<1>1. PICK es : es = <<>>
  OBVIOUS
<1>2. es \in Seq(LogEvents) /\ DOMAIN es = {}
  BY <1>1
<1> QED  BY <1>1, <1>2 DEF Plain, Silent

LEMMA MarkIs ==
  ASSUME NEW ty \in Marks
  PROVE  /\ Mark(ty) \in LogEvents /\ ~IsRecord(Mark(ty)) /\ ~IsSurface(Mark(ty)) /\ Mark(ty).ty = ty
         /\ Plain(<<Mark(ty)>>) /\ Opens(<<Mark(ty)>>) /\ Silent(<<Mark(ty)>>)
<1>1. PICK e : e = Mark(ty)
  OBVIOUS
<1>2. e.ty = ty /\ e \in LogEvents
  BY <1>1 DEF Mark, Event, LogEvents, Types, Marks
<1>3. ~IsRecord(e) /\ ~IsSurface(e) /\ ty # "assistant/message"
  BY <1>2 DEF IsRecord, IsSurface, Marks
<1> QED  BY <1>1, <1>2, <1>3, OneIs

LEMMA MarksIs ==
  ASSUME NEW x \in Marks, NEW y \in Marks
  PROVE  Plain(<<Mark(x), Mark(y)>>) /\ Opens(<<Mark(x), Mark(y)>>) /\ Silent(<<Mark(x), Mark(y)>>)
<1>1. PICK c : c = <<Mark(x)>> \o <<Mark(y)>>
  OBVIOUS
<1>2. Plain(c) /\ Opens(c) /\ Silent(c)
  <2>1. PICK a : a = <<Mark(x)>>
    OBVIOUS
  <2>2. PICK b : b = <<Mark(y)>>
    OBVIOUS
  <2>3. Plain(a) /\ Plain(b) /\ Opens(a) /\ Silent(a) /\ Silent(b)
    BY <2>1, <2>2, MarkIs
  <2>4. c = a \o b
    BY <1>1, <2>1, <2>2
  <2> QED  BY <2>3, <2>4, PlainJoined
<1>3. c = <<Mark(x), Mark(y)>>
  <2>1. PICK u : u = Mark(x)
    OBVIOUS
  <2>2. PICK v : v = Mark(y)
    OBVIOUS
  <2>3. u \in LogEvents /\ v \in LogEvents
    BY <2>1, <2>2, MarkIs
  <2>4. PICK d : d = <<u, v>>
    OBVIOUS
  <2>5. d \in Seq(LogEvents) /\ Len(d) = 2 /\ d[1] = u /\ d[2] = v
    BY <2>3, <2>4
  <2>6. c \in Seq(LogEvents) /\ Len(c) = 2 /\ c[1] = u /\ c[2] = v
    <3>1. PICK y1 : y1 = <<u>>
      OBVIOUS
    <3>2. PICK y2 : y2 = <<v>>
      OBVIOUS
    <3>3. y1 \in Seq(LogEvents) /\ y2 \in Seq(LogEvents) /\ Len(y1) = 1 /\ Len(y2) = 1 /\ y1[1] = u /\ y2[1] = v
      BY <2>3, <3>1, <3>2
    <3>4. c = y1 \o y2
      BY <1>1, <2>1, <2>2, <3>1, <3>2
    <3>5. /\ c \in Seq(LogEvents) /\ Len(c) = Len(y1) + Len(y2)
          /\ \A i \in 1 .. Len(y1) : c[i] = y1[i]
          /\ \A i \in Len(y1) + 1 .. Len(y1) + Len(y2) : c[i] = y2[i - Len(y1)]
      <4>1. y1 \in Seq(LogEvents) /\ y2 \in Seq(LogEvents)
        BY <3>3
      <4> QED  BY <3>4, <4>1
    <3>6. 1 \in 1 .. 1 /\ 2 \in 1 + 1 .. 1 + 1 /\ 2 - 1 = 1 /\ 1 + 1 = 2
      OBVIOUS
    <3> QED  BY <3>3, <3>5, <3>6
  <2>7. \A i \in 1 .. 2 : c[i] = d[i]
    BY <2>5, <2>6
  <2>8. c = [i \in 1 .. 2 |-> c[i]] /\ d = [i \in 1 .. 2 |-> d[i]]
    BY <2>5, <2>6, SeqIs
  <2>9. c = d
    BY <2>7, <2>8
  <2> QED  BY <2>1, <2>2, <2>4, <2>9
<1> QED  BY <1>2, <1>3

LEMMA ResultIs ==
  ASSUME NEW of \in Nat, NEW size \in Nat
  PROVE  /\ Result(of, size) \in LogEvents /\ ~IsRecord(Result(of, size)) /\ IsSurface(Result(of, size))
         /\ Result(of, size).ty # "assistant/message"
<1>1. PICK e : e = Result(of, size)
  OBVIOUS
<1>2. e.ty = "tool/result" /\ e \in LogEvents
  BY <1>1 DEF Result, Event, LogEvents, Types
<1> QED  BY <1>1, <1>2 DEF IsRecord, IsSurface

LEMMA FittedKept ==
  ASSUME NEW L \in Seq(LogEvents), Fitted(L), NEW es, Plain(es), Silent(es), NEW M, M = L \o es
  PROVE  Fitted(M)
<1>1. es \in Seq(LogEvents) /\ DOMAIN es = 1 .. Len(es) /\ Len(es) \in Nat /\ Len(L) \in Nat
      /\ DOMAIN L = 1 .. Len(L)
  BY DEF Plain
<1>2. /\ DOMAIN M = 1 .. Len(L) + Len(es) /\ \A i \in 1 .. Len(L) : M[i] = L[i]
      /\ \A i \in Len(L) + 1 .. Len(L) + Len(es) : M[i] = es[i - Len(L)]
  BY <1>1
<1>3. PICK p \in DOMAIN L : L[p].ty = "step/start" /\ \A q \in DOMAIN L : q > p => L[q].ty # "assistant/message"
  BY DEF Fitted
<1>4. p \in DOMAIN M /\ M[p].ty = "step/start"
  BY <1>1, <1>2, <1>3
<1>5. ASSUME NEW q \in DOMAIN M, q > p PROVE M[q].ty # "assistant/message"
  <2>1. CASE q \in 1 .. Len(L)
    BY <1>1, <1>2, <1>3, <1>5, <2>1
  <2>2. CASE q \in Len(L) + 1 .. Len(L) + Len(es)
    <3>1. q - Len(L) \in DOMAIN es
      BY <1>1, <2>2
    <3> QED  BY <1>2, <2>2, <3>1 DEF Silent
  <2>3. q \in 1 .. Len(L) \/ q \in Len(L) + 1 .. Len(L) + Len(es)
    BY <1>1, <1>2
  <2> QED  BY <2>1, <2>2, <2>3
<1> QED  BY <1>4, <1>5 DEF Fitted

LEMMA MaxIn ==
  ASSUME NEW n \in Nat, NEW S \in SUBSET (0 .. n), S # {}
  PROVE  Max(S) \in S /\ \A y \in S : Max(S) >= y
<1> DEFINE R == {n - x : x \in S}
<1>1. R \in SUBSET Nat /\ R # {}
  <2>1. \A x \in S : n - x \in Nat
    OBVIOUS
  <2> QED  BY <2>1
<1>2. PICK z \in R : \A y \in R : z <= y
  <2> HIDE DEF R
  <2> QED  BY <1>1, Least
<1>3. PICK x \in S : z = n - x
  OBVIOUS
<1>4. \A y \in S : x >= y
  <2> TAKE y \in S
  <2>1. n - x <= n - y
    BY <1>2, <1>3
  <2> QED  BY <2>1
<1>5. \E m \in S : \A y \in S : m >= y
  BY <1>3, <1>4
<1> QED  BY <1>5 DEF Max

LEMMA LatestIs ==
  ASSUME log \in Seq(LogEvents), NEW tys
  PROVE  /\ Latest(tys) \in 0 .. Len(log) /\ Latest(tys) \in Nat
         /\ Latest(tys) # 0 => Latest(tys) \in DOMAIN log /\ log[Latest(tys)].ty \in tys
         /\ \A i \in DOMAIN log : log[i].ty \in tys => i <= Latest(tys)
<1> DEFINE S == {i \in DOMAIN log : log[i].ty \in tys} \cup {0}
<1>1. DOMAIN log = 1 .. Len(log) /\ Len(log) \in Nat
  OBVIOUS
<1>2. S \in SUBSET (0 .. Len(log)) /\ 0 \in S /\ \A i \in S : i \in 0 .. Len(log)
  BY <1>1
<1>3. PICK m : m = Latest(tys)
  OBVIOUS
<1>4. m = Max(S)
  BY <1>3 DEF Latest
<1>5. m \in S /\ \A y \in S : m >= y
  <2> HIDE DEF S
  <2> QED  BY <1>1, <1>2, <1>4, MaxIn
<1>6. m \in 0 .. Len(log) /\ m \in Nat
  BY <1>2, <1>5
<1>7. m # 0 => m \in DOMAIN log /\ log[m].ty \in tys
  BY <1>5
<1>8. \A i \in DOMAIN log : log[i].ty \in tys => i <= m
  <2> TAKE i \in DOMAIN log
  <2> SUFFICES ASSUME log[i].ty \in tys PROVE i <= m
    OBVIOUS
  <2>1. i \in S
    OBVIOUS
  <2>2. m >= i
    <3> HIDE DEF S
    <3> QED  BY <1>5, <2>1
  <2>3. i \in Nat
    BY <1>1
  <2> QED  BY <1>6, <2>2, <2>3
<1> QED  BY <1>3, <1>6, <1>7, <1>8

LEMMA OwedIs ==
  ASSUME log \in Seq(LogEvents)
  PROVE  Owed \in Int /\ (Fitted(log) => Owed = 0)
<1>1. PICK a : a = Latest({"assistant/message"})
  OBVIOUS
<1>2. PICK p : p = Latest({"step/start"})
  OBVIOUS
<1>3. /\ a \in Nat /\ p \in Nat
      /\ a # 0 => a \in DOMAIN log /\ log[a].ty \in {"assistant/message"}
      /\ \A i \in DOMAIN log : log[i].ty \in {"step/start"} => i <= p
  BY <1>1, <1>2, LatestIs
<1> DEFINE R == {i \in DOMAIN log : log[i].ty = "tool/result" /\ log[i].n = a}
<1>4. IsFiniteSet(R) /\ Cardinality(R) \in Nat
  <2>1. Len(log) \in Int /\ 1 \in Int /\ R \in SUBSET (1 .. Len(log))
    OBVIOUS
  <2> HIDE DEF R
  <2>2. IsFiniteSet(1 .. Len(log))
    BY <2>1, FS_Interval
  <2> QED  BY <2>1, <2>2, FS_Subset, FS_CardinalityType
<1>5. Owed = IF a = 0 \/ a < p THEN 0 ELSE log[a].n - Cardinality(R)
  BY <1>1, <1>2 DEF Owed
<1>6. a # 0 => log[a].n \in Nat
  <2>1. a # 0 => log[a] \in LogEvents
    BY <1>3
  <2> QED  BY <2>1 DEF LogEvents
<1>7. Owed \in Int
  <2> HIDE DEF R
  <2>1. \A x, y \in Nat : x - y \in Int
    OBVIOUS
  <2> QED  BY <1>4, <1>5, <1>6, <2>1
<1>8. Fitted(log) => a = 0 \/ a < p
  <2> SUFFICES ASSUME Fitted(log), a # 0 PROVE a < p
    OBVIOUS
  <2>1. PICK q \in DOMAIN log : log[q].ty = "step/start" /\ \A x \in DOMAIN log : x > q => log[x].ty # "assistant/message"
    BY DEF Fitted
  <2>2. a \in DOMAIN log /\ log[a].ty = "assistant/message"
    BY <1>3
  <2>3. ~(a > q) /\ a # q /\ q <= p
    BY <1>3, <2>1, <2>2
  <2>4. q \in Nat
    BY <2>1
  <2> QED  BY <1>3, <2>3, <2>4
<1> QED  BY <1>5, <1>7, <1>8

LEMMA ClosersIs ==
  ASSUME log \in Seq(LogEvents)
  PROVE  Plain(Closers) /\ Closers # <<>> /\ (Fitted(log) => Opens(Closers))
<1>1. PICK w : w = Owed
  OBVIOUS
<1>2. PICK a : a = Latest({"assistant/message"})
  OBVIOUS
<1>3. w \in Int /\ (Fitted(log) => w = 0) /\ a \in Nat
  BY <1>1, <1>2, OwedIs, LatestIs
<1>4. PICK e : e = Result(a, 1)
  OBVIOUS
<1>5. e \in LogEvents /\ ~IsRecord(e)
  BY <1>3, <1>4, ResultIs
<1>6. PICK r : r = [k \in 1 .. w |-> e]
  OBVIOUS
<1>7. Plain(r) /\ (Fitted(log) => r = <<>>)
  <2>1. r \in Seq(LogEvents)
    <3>1. CASE w \in Nat
      BY <1>5, <1>6, <3>1
    <3>2. CASE w < 0
      <4>1. 1 .. w = {} /\ 1 .. 0 = {}
        BY <1>3, <3>2
      <4>2. r = [k \in 1 .. 0 |-> e]
        BY <1>6, <4>1
      <4> QED  BY <1>5, <4>2
    <3> QED  BY <1>3, <3>1, <3>2
  <2>2. \A k \in DOMAIN r : r[k] = e
    BY <1>6
  <2>3. Fitted(log) => r = <<>>
    <3> SUFFICES ASSUME w = 0 PROVE r = <<>>
      BY <1>3
    <3>1. Len(r) = 0
      BY <1>6
    <3> QED  BY <2>1, <3>1
  <2> QED  BY <1>5, <2>1, <2>2, <2>3 DEF Plain
<1>8. PICK x : x = <<Mark("step/end")>>
  OBVIOUS
<1>9. PICK y : y = <<Mark("turn/end")>>
  OBVIOUS
<1>10. Plain(x) /\ Opens(x) /\ Plain(y) /\ Opens(y) /\ x # <<>> /\ y # <<>>
  <2>1. "step/end" \in Marks /\ "turn/end" \in Marks
    BY DEF Marks
  <2> QED  BY <1>8, <1>9, <2>1, MarkIs DEF Opens
<1>11. PICK z : z = IF Latest({"step/start"}) <= Latest({"step/end"}) THEN <<>> ELSE r \o x
  OBVIOUS
<1>12. Plain(z) /\ (Fitted(log) => z = <<>> \/ Opens(z))
  <2>1. CASE Latest({"step/start"}) <= Latest({"step/end"})
    BY <1>11, <2>1, NothingIs
  <2>2. CASE ~(Latest({"step/start"}) <= Latest({"step/end"}))
    BY <1>7, <1>10, <1>11, <2>2, PlainJoined
  <2> QED  BY <2>1, <2>2
<1>13. Closers = z \o y
  BY <1>1, <1>2, <1>4, <1>6, <1>8, <1>9, <1>11 DEF Closers
<1> QED  BY <1>10, <1>12, <1>13, PlainJoined

-----------------------------------------------------------------------------
(* The invariant of the turn, and its steps.                               *)

(* Where the turn is tells what may be claimed: only between a record and  *)
(* its replacement, or after a turn that stopped there, and then no answer *)
(* came since the step began, so what is written next replaces nothing.    *)
Phase ==
  /\ pc \in {"fit", "prune", "pruned", "compact", "summarize", "record", "replace", "closing", "request"}
       => Fitted(log)
  /\ surface.claim # {} => Fitted(log) /\ pc \in {"pruned", "replace", "down", "idle"}
  /\ pc \in {"prune", "pruned"} =>
       /\ Distinct(todo)
       /\ \A k \in DOMAIN todo : \E j \in DOMAIN surface.nodes : surface.nodes[j] = todo[k]
  /\ pc = "pruned" => todo # <<>> /\ surface.claim = {Head(todo)}
  /\ pc \in {"summarize", "record", "replace"} =>
       \E m \in DOMAIN surface.nodes : shadowed = SubSeq(surface.nodes, 1, m)
  /\ pc = "replace" => surface.claim = ToSet(shadowed)

HistInv ==
  /\ log \in Seq(LogEvents) /\ todo \in Seq(Nat) /\ summary \in Nat
  /\ Faithful(log, surface)
  /\ Phase

LEMMA Written ==
  ASSUME HistInv, NEW es, Write(es), Plain(es), es = <<>> \/ surface.claim = {} \/ Opens(es)
  PROVE  /\ log' \in Seq(LogEvents) /\ Faithful(log', surface')
         /\ es = <<>> => log' = log /\ surface' = surface
         /\ es # <<>> => surface'.claim = {}
         /\ Silent(es) /\ Fitted(log) => Fitted(log')
<1>1. log' = log \o es /\ surface' = SurfaceAfter(log, surface, es)
  BY WriteIs
<1>2. log \in Seq(LogEvents) /\ Faithful(log, surface)
  BY DEF HistInv
<1>3. /\ log' \in Seq(LogEvents) /\ Faithful(log', surface')
      /\ es = <<>> => log' = log /\ surface' = surface
      /\ es # <<>> => surface'.claim = {}
  <2>1. Stays(log, surface, es, log', surface')
    BY <1>1, <1>2, PlainWritten
  <2> QED  BY <2>1 DEF Stays
<1>4. Silent(es) /\ Fitted(log) => Fitted(log')
  BY <1>1, <1>2, FittedKept
<1> QED  BY <1>3, <1>4

(* The steps that leave nothing claimed and no rewrite under way.          *)
Quiet == {"idle", "boundary", "tools", "close", "stop"}

LEMMA QuietStep ==
  ASSUME HistInv, NEW es, Write(es), Plain(es), es # <<>>, surface.claim = {} \/ Opens(es),
         pc' \in Quiet, todo' \in Seq(Nat), summary' \in Nat
  PROVE  HistInv'
<1>1. log' \in Seq(LogEvents) /\ Faithful(log', surface') /\ surface'.claim = {}
  BY Written
<1>2. pc' \notin {"fit", "prune", "pruned", "compact", "summarize", "record", "replace", "closing", "request"}
  BY DEF Quiet
<1>3. Phase'
  BY <1>1, <1>2 DEF Phase
<1> QED  BY <1>1, <1>3 DEF HistInv

LEMMA FailsHolds ==
  ASSUME HistInv, NEW es, Plain(es), es = <<>> \/ Opens(es), Fails(es)
  PROVE  HistInv'
<1>1. PICK x : x = <<Mark("step/end"), Mark("turn/end")>>
  OBVIOUS
<1>2. Plain(x) /\ Opens(x) /\ x # <<>>
  <2>1. "step/end" \in Marks /\ "turn/end" \in Marks
    BY DEF Marks
  <2> QED  BY <1>1, <2>1, MarksIs DEF Opens
<1>3. PICK y : y = es \o x
  OBVIOUS
<1>4. Plain(y) /\ Opens(y) /\ y # <<>>
  BY <1>2, <1>3, PlainJoined
<1>5. Write(y) /\ pc' = "idle" /\ todo' = <<>> /\ summary' = 0
  BY <1>1, <1>3 DEF Fails, Goto
<1>6. pc' \in Quiet /\ todo' \in Seq(Nat) /\ summary' \in Nat
  BY <1>5 DEF Quiet
<1> QED  BY <1>4, <1>5, <1>6, QuietStep

LEMMA FailsAtOnce ==
  ASSUME HistInv, Fails(<<>>)
  PROVE  HistInv'
BY NothingIs, FailsHolds

LEMMA FailsCompactingHolds ==
  ASSUME HistInv, FailsCompacting
  PROVE  HistInv'
<1>1. PICK ended \in {<<>>, <<Mark("compaction/end")>>} : Fails(ended)
  BY DEF FailsCompacting
<1>2. "compaction/end" \in Marks
  BY DEF Marks
<1>3. Plain(ended) /\ (ended = <<>> \/ Opens(ended))
  BY <1>1, <1>2, NothingIs, MarkIs
<1> QED  BY <1>1, <1>3, FailsHolds

LEMMA CrashHolds ==
  ASSUME HistInv, Crash
  PROVE  HistInv'
<1>1. pc' = "down" /\ todo' = <<>> /\ summary' = 0 /\ log' = log /\ surface' = surface
  BY DEF Crash, Goto, history
<1>2. log' \in Seq(LogEvents) /\ Faithful(log', surface') /\ todo' \in Seq(Nat) /\ summary' \in Nat
  BY <1>1 DEF HistInv
<1>3. Phase'
  BY <1>1 DEF HistInv, Phase
<1> QED  BY <1>2, <1>3 DEF HistInv

LEMMA RepairHolds ==
  ASSUME HistInv, Repair
  PROVE  HistInv'
<1>1. PICK es : /\ es = IF Latest({"turn/start"}) > Latest({"turn/end"}) THEN Closers ELSE <<>>
                /\ Write(es)
  BY DEF Repair
<1>2. pc = "down" /\ pc' = "idle" /\ todo' = todo /\ summary' = summary
  BY DEF Repair, Goto, rewrite
<1>3. log \in Seq(LogEvents) /\ todo \in Seq(Nat) /\ summary \in Nat
      /\ (surface.claim # {} => Fitted(log))
  BY DEF HistInv, Phase
<1>4. CASE Latest({"turn/start"}) > Latest({"turn/end"})
  <2>1. Plain(es) /\ es # <<>> /\ (Fitted(log) => Opens(es))
    BY <1>1, <1>3, <1>4, ClosersIs
  <2>2. pc' \in Quiet
    BY <1>2 DEF Quiet
  <2> QED  BY <1>1, <1>2, <1>3, <2>1, <2>2, QuietStep
<1>5. CASE ~(Latest({"turn/start"}) > Latest({"turn/end"}))
  <2>1. log' = log /\ surface' = surface
    BY <1>1, <1>5, NothingIs, Written
  <2>2. Faithful(log', surface')
    BY <2>1 DEF HistInv
  <2>3. Phase'
    BY <1>2, <1>3, <2>1 DEF Phase
  <2> QED  BY <1>2, <1>3, <2>1, <2>2, <2>3 DEF HistInv
<1> QED  BY <1>4, <1>5

LEMMA RunTurnHolds ==
  ASSUME HistInv, RunTurn
  PROVE  HistInv'
<1>1. PICK says \in {<<>>, <<Mark("context/snapshot")>>} : Write(<<Mark("turn/start")>> \o says)
  BY DEF RunTurn
<1>2. pc' \in Quiet /\ todo' \in Seq(Nat) /\ summary' \in Nat
  BY DEF RunTurn, Goto, rewrite, HistInv, Quiet
<1>3. "turn/start" \in Marks /\ "context/snapshot" \in Marks
  BY DEF Marks
<1>4. PICK x : x = <<Mark("turn/start")>>
  OBVIOUS
<1>5. Plain(x) /\ Opens(x) /\ x # <<>> /\ Plain(says)
  BY <1>1, <1>3, <1>4, MarkIs, NothingIs DEF Opens
<1>6. PICK y : y = x \o says
  OBVIOUS
<1>7. Plain(y) /\ Opens(y) /\ y # <<>>
  BY <1>5, <1>6, PlainJoined
<1> QED  BY <1>1, <1>2, <1>4, <1>6, <1>7, QuietStep

LEMMA NothingClaimed ==
  ASSUME HistInv, pc \notin {"pruned", "replace", "down", "idle"}
  PROVE  surface.claim = {}
BY DEF HistInv, Phase

LEMMA StepStartHolds ==
  ASSUME HistInv, NEW claimed \in 0 .. 1, StepStart(claimed)
  PROVE  HistInv'
<1>1. PICK x : x = <<Mark("step/start")>>
  OBVIOUS
<1>2. PICK y : y = [k \in 1 .. claimed |-> User]
  OBVIOUS
<1>3. PICK u : u = User
  OBVIOUS
<1>4. u \in LogEvents /\ ~IsRecord(u) /\ u.ty # "assistant/message"
  BY <1>3 DEF User, Event, LogEvents, Types, IsRecord
<1>5. Plain(y) /\ Silent(y)
  <2>1. y \in Seq(LogEvents) /\ \A k \in DOMAIN y : y[k] = u
    BY <1>2, <1>3, <1>4
  <2> QED  BY <1>4, <2>1 DEF Plain, Silent
<1>6. Plain(x) /\ Opens(x) /\ Silent(x) /\ x # <<>>
  <2>1. "step/start" \in Marks
    BY DEF Marks
  <2> QED  BY <1>1, <2>1, MarkIs DEF Opens
<1>7. PICK z : z = x \o y
  OBVIOUS
<1>8. Plain(z) /\ Opens(z) /\ z # <<>>
  BY <1>5, <1>6, <1>7, PlainJoined
<1>9. Write(z) /\ pc' = "fit" /\ todo' = todo /\ summary' = summary
  BY <1>1, <1>2, <1>7 DEF StepStart, Goto, rewrite
<1>10. log' \in Seq(LogEvents) /\ Faithful(log', surface') /\ surface'.claim = {} /\ log' = log \o z
  BY <1>8, <1>9, Written, WriteIs
<1>11. Fitted(log')
  <2>1. log \in Seq(LogEvents) /\ x \in Seq(LogEvents) /\ Len(x) = 1 /\ x[1].ty = "step/start"
    <3>1. "step/start" \in Marks
      BY DEF Marks
    <3> QED  BY <1>1, <1>6, <3>1, MarkIs DEF HistInv, Plain
  <2>2. PICK L : L = log \o x
    OBVIOUS
  <2>3. /\ L \in Seq(LogEvents) /\ DOMAIN L = 1 .. Len(log) + 1 /\ Len(log) \in Nat
        /\ L[Len(log) + 1] = x[1]
    <3>1. log \in Seq(LogEvents) /\ x \in Seq(LogEvents)
      BY <2>1
    <3>2. /\ L \in Seq(LogEvents) /\ Len(L) = Len(log) + Len(x) /\ Len(log) \in Nat
          /\ \A i \in Len(log) + 1 .. Len(log) + Len(x) : L[i] = x[i - Len(log)]
      BY <2>2, <3>1
    <3>3. \A n \in Nat : n + 1 \in n + 1 .. n + 1 /\ n + 1 - n = 1
      OBVIOUS
    <3> QED  BY <2>1, <3>2, <3>3
  <2>4. Fitted(L)
    <3>1. Len(log) + 1 \in DOMAIN L /\ \A q \in DOMAIN L : ~(q > Len(log) + 1)
      BY <2>3
    <3> QED  BY <2>1, <2>3, <3>1 DEF Fitted
  <2>5. log' = L \o y
    <3>1. y \in Seq(LogEvents)
      BY <1>5 DEF Plain
    <3> QED  BY SMTT(20), <1>7, <1>10, <2>1, <2>2, <3>1
  <2> QED  BY <1>5, <2>3, <2>4, <2>5, FittedKept
<1>12. Phase'
  BY <1>9, <1>10, <1>11 DEF Phase
<1> QED  BY <1>9, <1>10, <1>12 DEF HistInv

LEMMA RespondHolds ==
  ASSUME HistInv, NEW n \in Batches, NEW size \in {0, 1}, Respond(n, size)
  PROVE  HistInv'
<1>1. PICK e : e = Event("assistant/message", n, {}, size)
  OBVIOUS
<1>2. n \in Nat
  BY ConstantsAssumption
<1>3. e \in LogEvents /\ ~IsRecord(e)
  BY <1>1, <1>2 DEF Event, LogEvents, Types, IsRecord
<1>4. Write(<<e>>) /\ pc' \in Quiet /\ todo' \in Seq(Nat) /\ summary' \in Nat /\ pc = "request"
  BY <1>1 DEF Respond, Goto, rewrite, HistInv, Quiet
<1>5. surface.claim = {}
  BY <1>4, NothingClaimed
<1>6. Plain(<<e>>) /\ <<e>> # <<>>
  BY <1>3, OneIs
<1> QED  BY <1>4, <1>5, <1>6, QuietStep

LEMMA ToolResultHolds ==
  ASSUME HistInv, NEW size \in {1, Long}, ToolResult(size)
  PROVE  HistInv'
<1>1. PICK e : e = Result(Latest({"assistant/message"}), size)
  OBVIOUS
<1>2. size \in Nat /\ Latest({"assistant/message"}) \in Nat
  BY ConstantsAssumption, LatestIs DEF HistInv
<1>3. e \in LogEvents /\ ~IsRecord(e)
  BY <1>1, <1>2, ResultIs
<1>4. Write(<<e>>) /\ pc' \in Quiet /\ todo' \in Seq(Nat) /\ summary' \in Nat /\ pc = "tools"
  BY <1>1 DEF ToolResult, rewrite, HistInv, Quiet
<1>5. surface.claim = {}
  BY <1>4, NothingClaimed
<1>6. Plain(<<e>>) /\ <<e>> # <<>>
  BY <1>3, OneIs
<1> QED  BY <1>4, <1>5, <1>6, QuietStep

LEMMA StepEndHolds ==
  ASSUME HistInv, StepEnd
  PROVE  HistInv'
<1>1. Write(<<Mark("step/end")>>) /\ pc' \in Quiet /\ todo' \in Seq(Nat) /\ summary' \in Nat
  BY DEF StepEnd, Goto, rewrite, HistInv, Quiet
<1>2. "step/end" \in Marks
  BY DEF Marks
<1>3. Plain(<<Mark("step/end")>>) /\ Opens(<<Mark("step/end")>>) /\ <<Mark("step/end")>> # <<>>
  BY <1>2, MarkIs DEF Opens
<1> QED  BY <1>1, <1>3, QuietStep

LEMMA TurnEndHolds ==
  ASSUME HistInv, TurnEnd
  PROVE  HistInv'
<1>1. PICK x : x = IF pc = "close" THEN <<Mark("step/end")>> ELSE <<>>
  OBVIOUS
<1>2. PICK y : y = <<Mark("turn/end")>>
  OBVIOUS
<1>3. "step/end" \in Marks /\ "turn/end" \in Marks
  BY DEF Marks
<1>4. Plain(x) /\ (x = <<>> \/ Opens(x)) /\ Plain(y) /\ Opens(y) /\ y # <<>>
  BY <1>1, <1>2, <1>3, MarkIs, NothingIs DEF Opens
<1>5. PICK z : z = x \o y
  OBVIOUS
<1>6. Plain(z) /\ Opens(z) /\ z # <<>>
  BY <1>4, <1>5, PlainJoined
<1>7. Write(z) /\ pc' \in Quiet /\ todo' \in Seq(Nat) /\ summary' \in Nat
  BY <1>1, <1>2, <1>5 DEF TurnEnd, Goto, rewrite, HistInv, Quiet
<1> QED  BY <1>6, <1>7, QuietStep

-----------------------------------------------------------------------------
(* What is pruned and what is compacted.                                   *)

LEMMA NodesAre ==
  ASSUME HistInv
  PROVE  /\ nodes \in Seq(Nat) /\ DOMAIN nodes = 1 .. Len(nodes) /\ Len(nodes) \in Nat
         /\ Distinct(nodes) /\ \A k \in DOMAIN nodes : nodes[k] \in DOMAIN log
         /\ surface.claim \in SUBSET Nat
<1>1. surface \in Surfaces /\ Distinct(nodes) /\ \A k \in DOMAIN nodes : nodes[k] \in DOMAIN log
  BY DEF HistInv, Faithful, nodes
<1>2. nodes \in Seq(Nat) /\ surface.claim \in SUBSET Nat
  BY <1>1 DEF Surfaces, nodes
<1>3. DOMAIN nodes = 1 .. Len(nodes) /\ Len(nodes) \in Nat
  BY <1>2
<1> QED  BY <1>1, <1>2, <1>3

LEMMA OverLongIs ==
  ASSUME HistInv
  PROVE  /\ OverLong \in Seq(Nat) /\ Distinct(OverLong)
         /\ \A k \in DOMAIN OverLong : /\ \E j \in DOMAIN nodes : nodes[j] = OverLong[k]
                                       /\ log[OverLong[k]].ty = "tool/result"
<1> DEFINE K == {k \in DOMAIN nodes : log[nodes[k]].ty = "tool/result" /\ log[nodes[k]].size = Long}
<1>1. PICK ns : ns = nodes
  OBVIOUS
<1>2. ns \in Seq(Nat) /\ DOMAIN ns = 1 .. Len(ns) /\ Len(ns) \in Nat /\ Distinct(ns)
  BY <1>1, NodesAre
<1>3. K \in SUBSET DOMAIN ns /\ \A k \in K : log[ns[k]].ty = "tool/result"
  BY <1>1
<1>4. PICK q : q = OverLong
  OBVIOUS
<1>5. q = Picked(ns, K)
  BY <1>1, <1>4 DEF OverLong
<1> HIDE DEF K
<1>6. /\ q \in Seq(Nat) /\ DOMAIN q = DOMAIN InOrder(K)
      /\ \A k \in DOMAIN InOrder(K) : q[k] = ns[InOrder(K)[k]]
  BY <1>2, <1>3, <1>5, PickedLists
<1>7. /\ InOrder(K) \in Seq(K)
      /\ \A j, k \in DOMAIN InOrder(K) : j < k => InOrder(K)[j] < InOrder(K)[k]
  <2>1. K \in SUBSET (1 .. Len(ns))
    BY <1>2, <1>3
  <2> QED  BY <1>2, <2>1, InOrderLists
<1>8. \A k \in DOMAIN q : /\ k \in Nat /\ InOrder(K)[k] \in DOMAIN ns /\ InOrder(K)[k] \in Nat
                         /\ q[k] = ns[InOrder(K)[k]] /\ log[ns[InOrder(K)[k]]].ty = "tool/result"
  <2> TAKE k \in DOMAIN q
  <2>1. InOrder(K)[k] \in K /\ k \in Nat
    BY <1>6, <1>7
  <2>2. InOrder(K)[k] \in DOMAIN ns /\ log[ns[InOrder(K)[k]]].ty = "tool/result"
    BY <1>3, <2>1
  <2> QED  BY <1>2, <1>6, <2>1, <2>2
<1>9. Distinct(q)
  <2> SUFFICES ASSUME NEW j \in DOMAIN q, NEW k \in DOMAIN q, q[j] = q[k] PROVE j = k
    BY DEF Distinct
  <2>1. InOrder(K)[j] = InOrder(K)[k]
    BY <1>2, <1>8 DEF Distinct
  <2>2. ~(j < k) /\ ~(k < j)
    BY <1>6, <1>7, <1>8, <2>1
  <2> QED  BY <1>8, <2>2
<1>10. \A k \in DOMAIN q : (\E j \in DOMAIN ns : ns[j] = q[k]) /\ log[q[k]].ty = "tool/result"
  BY <1>8
<1> QED  BY <1>1, <1>4, <1>6, <1>9, <1>10

(* A range never reaches the last message. *)
LEMMA SelectRangeIs ==
  ASSUME HistInv, select_range # <<>>
  PROVE  \E m \in DOMAIN nodes : /\ select_range = SubSeq(nodes, 1, m)
                                 /\ m < Len(nodes) /\ tool_pairing_balanced_before(m + 1)
<1>1. PICK ns : ns = nodes
  OBVIOUS
<1>2. ns \in Seq(Nat) /\ DOMAIN ns = 1 .. Len(ns) /\ Len(ns) \in Nat
  BY <1>1, NodesAre
<1> DEFINE T == {at \in DOMAIN nodes : Price(SubSeq(nodes, at, Len(nodes))) >= RetainTokens} \cup {1}
           S == {at \in 1 .. KeepFrom : tool_pairing_balanced_before(at)}
<1>3. PICK g : g = KeepFrom
  OBVIOUS
<1>4. g = 1 \/ g \in DOMAIN ns
  <2>1. T \in SUBSET (0 .. Len(ns) + 1) /\ 1 \in T /\ \A x \in T : x = 1 \/ x \in DOMAIN ns
    BY <1>1, <1>2
  <2>2. g = Max(T)
    BY <1>3 DEF KeepFrom
  <2> HIDE DEF T
  <2>3. g \in T
    <3>1. PICK u \in Nat : u = Len(ns) + 1
      BY <1>2
    <3>2. T \in SUBSET (0 .. u) /\ T # {}
      BY <2>1, <3>1
    <3> QED  BY <2>2, <3>1, <3>2, MaxIn
  <2> QED  BY <2>1, <2>3
<1>5. g \in Nat /\ g >= 1
  BY <1>2, <1>4
<1>6. tool_pairing_balanced_before(1)
  <2> DEFINE Rule(f) == f = [k \in 0 .. (1 - 1) |->
                IF k = 0 THEN 0
                ELSE f[k - 1] + (CASE log[nodes[k]].ty = "assistant/message" -> log[nodes[k]].n
                                   [] log[nodes[k]].ty = "tool/result" -> -1
                                   [] OTHER -> 0)]
             Open == CHOOSE f : Rule(f)
  <2>1. open_calls_before(1) = Open[1 - 1]
    BY DEF open_calls_before
  <2>2. \E f : Rule(f)
    <3> DEFINE f == [k \in 0 .. (1 - 1) |-> 0]
    <3>1. \A k \in 0 .. (1 - 1) : k = 0
      OBVIOUS
    <3>2. Rule(f)
      BY <3>1
    <3> HIDE DEF Rule, f
    <3> QED  BY <3>2
  <2>3. Rule(Open)
    <3> HIDE DEF Rule
    <3> QED  BY <2>2
  <2> HIDE DEF Open
  <2>4. 1 - 1 = 0 /\ 0 \in 0 .. (1 - 1)
    OBVIOUS
  <2>5. Open[1 - 1] = 0
    BY <2>3, <2>4
  <2> QED  BY <2>1, <2>5 DEF tool_pairing_balanced_before
<1>7. PICK x : x = Max(S)
  OBVIOUS
<1>8. x \in 1 .. g /\ tool_pairing_balanced_before(x)
  <2>1. S \in SUBSET (0 .. g) /\ 1 \in S /\ S \in SUBSET (1 .. g) /\ \A y \in S : tool_pairing_balanced_before(y)
    BY <1>3, <1>5, <1>6
  <2> HIDE DEF S
  <2>2. x \in S
    BY <1>5, <1>7, <2>1, MaxIn
  <2> QED  BY <2>1, <2>2
<1>9. select_range = SubSeq(ns, 1, x - 1)
  BY <1>1, <1>7 DEF select_range
<1>10. x # 1
  <2>1. SubSeq(ns, 1, 0) = <<>>
    BY <1>2
  <2>2. x = 1 => x - 1 = 0
    OBVIOUS
  <2> QED  BY <1>9, <2>1, <2>2
<1>11. PICK m : m = x - 1
  OBVIOUS
<1>12. m \in DOMAIN ns /\ m < Len(ns) /\ m + 1 = x
  BY <1>2, <1>4, <1>5, <1>8, <1>10, <1>11
<1> QED  BY <1>1, <1>8, <1>9, <1>11, <1>12

LEMMA RunIs ==
  ASSUME NEW ns \in Seq(Nat), NEW m \in DOMAIN ns
  PROVE  ToSet(SubSeq(ns, 1, m)) = RunOf(ns, 1, m) /\ RunOf(ns, 1, m) # {}
<1>1. m \in 1 .. Len(ns) /\ Len(ns) \in Nat
  OBVIOUS
<1>2. PICK q : q = SubSeq(ns, 1, m)
  OBVIOUS
<1>3. DOMAIN q = 1 .. m /\ \A k \in 1 .. m : q[k] = ns[k]
  BY <1>1, <1>2
<1>4. ToSet(q) = RunOf(ns, 1, m)
  BY <1>3 DEF ToSet, RunOf
<1>5. ns[m] \in RunOf(ns, 1, m)
  BY <1>1 DEF RunOf
<1> QED  BY <1>2, <1>4, <1>5

-----------------------------------------------------------------------------
(* The steps of a rewrite.                                                 *)

LEMMA FitContextHolds ==
  ASSUME HistInv, FitContext
  PROVE  HistInv'
<1>1. /\ pc = "fit" /\ pc' \in {"request", "prune"} /\ log' = log /\ surface' = surface
      /\ summary' = summary /\ surface.claim = {}
      /\ (pc' = "prune" => todo' \in {OverLong, <<>>}) /\ todo' \in {todo, OverLong, <<>>}
  BY NothingClaimed DEF FitContext, Goto, history
<1>2. todo' \in Seq(Nat)
  <2>1. todo \in Seq(Nat) /\ OverLong \in Seq(Nat)
    BY OverLongIs DEF HistInv
  <2>2. <<>> \in Seq(Nat)
    OBVIOUS
  <2> QED  BY <1>1, <2>1, <2>2
<1>3. Fitted(log)
  BY <1>1 DEF HistInv, Phase
<1>4. pc' = "prune" => /\ Distinct(todo')
                       /\ \A k \in DOMAIN todo' : \E j \in DOMAIN surface.nodes : surface.nodes[j] = todo'[k]
  <2> SUFFICES ASSUME pc' = "prune"
               PROVE  /\ Distinct(todo')
                      /\ \A k \in DOMAIN todo' : \E j \in DOMAIN surface.nodes : surface.nodes[j] = todo'[k]
    OBVIOUS
  <2>1. CASE todo' = OverLong
    BY <2>1, OverLongIs DEF nodes
  <2>2. CASE todo' = <<>>
    BY <2>2 DEF Distinct
  <2> QED  BY <1>1, <2>1, <2>2
<1>5. Phase'
  BY <1>1, <1>3, <1>4 DEF Phase
<1>6. Faithful(log', surface')
  BY <1>1 DEF HistInv
<1> QED  BY <1>1, <1>2, <1>5, <1>6 DEF HistInv

(* A record of what stands on the surface claims it.                       *)
LEMMA RecordWritten ==
  ASSUME HistInv, NEW e, e \in LogEvents, IsRecord(e), e.shadows # {},
         \A x \in e.shadows : \E j \in DOMAIN nodes : nodes[j] = x, Write(<<e>>), Fitted(log)
  PROVE  /\ log' \in Seq(LogEvents) /\ Faithful(log', surface') /\ Fitted(log')
         /\ surface'.nodes = nodes /\ surface'.claim = e.shadows
<1>1. log \in Seq(LogEvents) /\ Faithful(log, surface)
  BY DEF HistInv
<1>2. log' = Append(log, e) /\ surface' = Place(surface, Len(log) + 1, e)
  BY <1>1, WriteOne
<1>3. ~IsSurface(e) /\ e.ty # "assistant/message"
  BY DEF IsRecord, IsSurface
<1>4. e.shadows \subseteq DOMAIN log
  BY NodesAre
<1>5. Fits(log, surface, e)
  BY <1>3, <1>4 DEF Fits
<1>6. Faithful(log', surface') /\ surface'.nodes = nodes
  <2>1. PICK s : s = surface
    OBVIOUS
  <2>2. PICK t : t = surface'
    OBVIOUS
  <2>3. PICK M : M = log'
    OBVIOUS
  <2>4. M = Append(log, e) /\ t = Place(s, Len(log) + 1, e) /\ Faithful(log, s) /\ Fits(log, s, e)
    BY <1>1, <1>2, <1>5, <2>1, <2>2, <2>3
  <2>5. Faithful(M, t)
    BY <1>1, <1>3, <2>4, PlaceOther
  <2>6. t.nodes = s.nodes
    BY <1>1, <1>3, <2>4, PlaceOther
  <2> QED  BY <2>1, <2>2, <2>3, <2>5, <2>6 DEF nodes
<1>7. log' \in Seq(LogEvents) /\ log' # <<>> /\ log'[Len(log')] = e
  BY <1>1, <1>2
<1>8. surface'.claim = e.shadows
  BY <1>6, <1>7 DEF Faithful, Claimed
<1>9. Fitted(log')
  <2>1. PICK p \in DOMAIN log : log[p].ty = "step/start" /\ \A q \in DOMAIN log : q > p => log[q].ty # "assistant/message"
    BY DEF Fitted
  <2>2. /\ DOMAIN log = 1 .. Len(log) /\ DOMAIN log' = 1 .. Len(log) + 1 /\ Len(log) \in Nat
        /\ log'[Len(log) + 1] = e /\ \A q \in 1 .. Len(log) : log'[q] = log[q]
    BY <1>1, <1>2
  <2>3. \A q \in DOMAIN log' : q = Len(log) + 1 \/ q \in DOMAIN log
    BY <2>2
  <2>4. p \in DOMAIN log' /\ log'[p] = log[p]
    BY <2>2
  <2>5. \A q \in DOMAIN log' : q > p => log'[q].ty # "assistant/message"
    BY <1>3, <2>1, <2>2, <2>3
  <2> QED  BY <2>1, <2>4, <2>5 DEF Fitted
<1> QED  BY <1>6, <1>7, <1>8, <1>9

(* A message takes the place of what is claimed.                           *)
LEMMA MessageWritten ==
  ASSUME HistInv, NEW e, e \in LogEvents, IsSurface(e), e.ty # "assistant/message",
         surface.claim # {}, NEW a \in DOMAIN nodes, NEW b \in DOMAIN nodes, a <= b,
         surface.claim = RunOf(nodes, a, b), Write(<<e>>), Fitted(log)
  PROVE  /\ log' \in Seq(LogEvents) /\ Faithful(log', surface') /\ Fitted(log') /\ surface'.claim = {}
         /\ \A k \in DOMAIN nodes : nodes[k] \notin surface.claim =>
              \E j \in DOMAIN surface'.nodes : surface'.nodes[j] = nodes[k]
<1>1. log \in Seq(LogEvents) /\ Faithful(log, surface)
  BY DEF HistInv
<1>2. log' = Append(log, e) /\ surface' = Place(surface, Len(log) + 1, e)
  BY <1>1, WriteOne
<1>3. ~IsRecord(e)
  BY DEF IsRecord, IsSurface
<1>4. Fits(log, surface, e)
  BY <1>3 DEF Fits, nodes
<1>5. /\ Faithful(log', surface') /\ surface'.claim = {}
      /\ \A k \in DOMAIN nodes : nodes[k] \notin surface.claim =>
           \E j \in DOMAIN surface'.nodes : surface'.nodes[j] = nodes[k]
  <2>1. PICK s : s = surface
    OBVIOUS
  <2>2. PICK t : t = surface'
    OBVIOUS
  <2>3. PICK M : M = log'
    OBVIOUS
  <2>4. M = Append(log, e) /\ t = Place(s, Len(log) + 1, e) /\ Faithful(log, s) /\ Fits(log, s, e)
        /\ s.claim # {}
    BY <1>1, <1>2, <1>4, <2>1, <2>2, <2>3
  <2>5. Faithful(M, t) /\ RunPlaced(s, t)
    BY <1>1, <2>4, PlaceRun
  <2> QED  BY <2>1, <2>2, <2>3, <2>5 DEF nodes, RunPlaced
<1>6. log' \in Seq(LogEvents)
  BY <1>1, <1>2
<1>7. Fitted(log')
  <2>1. Plain(<<e>>) /\ Silent(<<e>>)
    BY <1>3, OneIs
  <2>2. log' = log \o <<e>>
    BY WriteIs
  <2> QED  BY <1>1, <2>1, <2>2, FittedKept
<1> QED  BY <1>5, <1>6, <1>7

LEMMA PruneHolds ==
  ASSUME HistInv, Prune
  PROVE  HistInv'
<1>1. CASE Fails(<<>>)
  BY <1>1, FailsAtOnce
<1>2. CASE /\ Write(<<Event("compaction/prune", 0, {Head(todo)}, 0)>>)
           /\ Goto("pruned") /\ UNCHANGED <<step, rewrite>>
  <2>1. PICK h : h = Head(todo)
    OBVIOUS
  <2>2. PICK e : e = Event("compaction/prune", 0, {h}, 0)
    OBVIOUS
  <2>3. pc = "prune" /\ todo # <<>> /\ todo \in Seq(Nat) /\ Fitted(log) /\ summary \in Nat
        /\ Distinct(todo) /\ \A k \in DOMAIN todo : \E j \in DOMAIN nodes : nodes[j] = todo[k]
    BY DEF Prune, HistInv, Phase, nodes
  <2>4. 1 \in DOMAIN todo /\ h = todo[1] /\ h \in Nat
    BY <2>1, <2>3
  <2>5. e \in LogEvents /\ IsRecord(e) /\ e.shadows = {h}
    BY <2>2, <2>4 DEF Event, LogEvents, Types, IsRecord
  <2>6. \A x \in e.shadows : \E j \in DOMAIN nodes : nodes[j] = x
    BY <2>3, <2>4, <2>5
  <2>7. Write(<<e>>) /\ pc' = "pruned" /\ todo' = todo /\ summary' = summary
    BY <1>2, <2>1, <2>2 DEF Goto, rewrite
  <2>8. /\ log' \in Seq(LogEvents) /\ Faithful(log', surface') /\ Fitted(log')
        /\ surface'.nodes = nodes /\ surface'.claim = {h}
    BY <2>3, <2>5, <2>6, <2>7, RecordWritten
  <2>9. Phase'
    BY <2>1, <2>3, <2>7, <2>8 DEF Phase
  <2> QED  BY <2>3, <2>7, <2>8, <2>9 DEF HistInv
<1> QED  BY <1>1, <1>2 DEF Prune

LEMMA PrunedHolds ==
  ASSUME HistInv, Pruned
  PROVE  HistInv'
<1>1. CASE Fails(<<>>)
  BY <1>1, FailsAtOnce
<1>2. CASE /\ Write(<<Result(log[Head(todo)].n, Short)>>)
           /\ todo' = Tail(todo) /\ Goto("prune") /\ UNCHANGED <<step, shadowed, summary, failed>>
  <2>1. PICK h : h = Head(todo)
    OBVIOUS
  <2>2. /\ pc = "pruned" /\ todo # <<>> /\ todo \in Seq(Nat) /\ Fitted(log) /\ summary \in Nat
        /\ surface.claim = {h} /\ log \in Seq(LogEvents)
        /\ Distinct(todo) /\ \A k \in DOMAIN todo : \E j \in DOMAIN nodes : nodes[j] = todo[k]
    BY <2>1 DEF Pruned, HistInv, Phase, nodes
  <2>3. 1 \in DOMAIN todo /\ h = todo[1]
    BY <2>1, <2>2
  <2>4. PICK j \in DOMAIN nodes : nodes[j] = h
    BY <2>2, <2>3
  <2>5. log[h] \in LogEvents
    BY <2>2, <2>4, NodesAre
  <2>6. PICK e : e = Result(log[h].n, Short)
    OBVIOUS
  <2>7. e \in LogEvents /\ IsSurface(e) /\ e.ty # "assistant/message"
    <3>1. log[h].n \in Nat /\ Short \in Nat
      BY <2>5, ConstantsAssumption DEF LogEvents
    <3> QED  BY <2>6, <3>1, ResultIs
  <2>8. surface.claim = RunOf(nodes, j, j) /\ j <= j
    <3>1. j \in Nat
      BY NodesAre
    <3>2. j .. j = {j}
      BY <3>1
    <3> QED  BY <2>2, <2>4, <3>1, <3>2 DEF RunOf
  <2>9. Write(<<e>>) /\ pc' = "prune" /\ todo' = Tail(todo) /\ summary' = summary
    BY <1>2, <2>1, <2>6 DEF Goto
  <2>10. /\ log' \in Seq(LogEvents) /\ Faithful(log', surface') /\ Fitted(log') /\ surface'.claim = {}
         /\ \A k \in DOMAIN nodes : nodes[k] \notin surface.claim =>
              \E i \in DOMAIN surface'.nodes : surface'.nodes[i] = nodes[k]
    <3>1. surface.claim # {}
      BY <2>2
    <3> QED  BY <2>2, <2>7, <2>8, <2>9, <3>1, MessageWritten
  <2>11. PICK rest : rest = Tail(todo)
    OBVIOUS
  <2>12. /\ rest \in Seq(Nat)
         /\ \A k \in DOMAIN rest : k \in Nat /\ k + 1 \in DOMAIN todo /\ k + 1 # 1 /\ rest[k] = todo[k + 1]
    BY <2>2, <2>11
  <2>13. Distinct(rest)
    <3> SUFFICES ASSUME NEW x \in DOMAIN rest, NEW y \in DOMAIN rest, rest[x] = rest[y] PROVE x = y
      BY DEF Distinct
    <3>1. x + 1 = y + 1
      BY <2>2, <2>12 DEF Distinct
    <3> QED  BY <2>12, <3>1
  <2>14. \A k \in DOMAIN rest : \E i \in DOMAIN surface'.nodes : surface'.nodes[i] = rest[k]
    <3> TAKE k \in DOMAIN rest
    <3>1. PICK i \in DOMAIN nodes : nodes[i] = todo[k + 1]
      BY <2>2, <2>12
    <3>2. todo[k + 1] # h
      BY <2>2, <2>3, <2>12 DEF Distinct
    <3> QED  BY <2>2, <2>10, <2>12, <3>1, <3>2
  <2>15. Phase'
    BY <2>9, <2>10, <2>11, <2>13, <2>14 DEF Phase
  <2> QED  BY <2>2, <2>9, <2>10, <2>11, <2>12, <2>15 DEF HistInv
<1> QED  BY <1>1, <1>2 DEF Pruned

(* A step that writes nothing and starts no rewrite.                       *)
LEMMA StillStep ==
  ASSUME HistInv, pc \in {"prune", "compact", "summarize", "closing"}, UNCHANGED <<log, surface, todo>>,
         summary' \in Nat, pc' \in {"request", "compact", "closing"}
  PROVE  HistInv'
<1>1. surface.claim = {} /\ Fitted(log)
  BY NothingClaimed DEF HistInv, Phase
<1>2. Phase'
  BY <1>1 DEF Phase
<1>3. Faithful(log', surface')
  BY DEF HistInv
<1> QED  BY <1>2, <1>3 DEF HistInv

LEMMA RecheckHolds ==
  ASSUME HistInv, Recheck
  PROVE  HistInv'
<1>1. /\ pc = "prune" /\ UNCHANGED <<log, surface, todo>> /\ summary' = summary
      /\ pc' \in {"request", "compact", "closing"}
  BY DEF Recheck, Goto, history, rewrite
<1>2. summary' \in Nat
  BY <1>1 DEF HistInv
<1> QED  BY <1>1, <1>2, StillStep

LEMMA CompactHolds ==
  ASSUME HistInv, Compact
  PROVE  HistInv'
<1>1. pc = "compact" /\ Fitted(log) /\ surface.claim = {} /\ log \in Seq(LogEvents)
      /\ todo \in Seq(Nat) /\ summary \in Nat
  <2>1. pc = "compact"
    BY DEF Compact
  <2> QED  BY <2>1, NothingClaimed DEF HistInv, Phase
<1>2. CASE Helpless /\ Goto("request") /\ UNCHANGED <<history, step, rewrite>>
  <2>1. UNCHANGED <<log, surface, todo>> /\ summary' \in Nat /\ pc' \in {"request", "compact", "closing"}
    BY <1>1, <1>2 DEF Goto, history, rewrite
  <2> QED  BY <1>1, <2>1, StillStep
<1>3. CASE ~Helpless /\ Fails(<<>>)
  BY <1>3, FailsAtOnce
<1>4. CASE /\ ~Helpless /\ shadowed' = select_range
           /\ Write(<<Mark("compaction/start")>>) /\ Goto("summarize")
           /\ UNCHANGED <<step, todo, summary, failed>>
  <2>1. PICK e : e = Mark("compaction/start")
    OBVIOUS
  <2>2. e \in LogEvents /\ ~IsRecord(e) /\ ~IsSurface(e) /\ Plain(<<e>>) /\ Silent(<<e>>) /\ <<e>> # <<>>
    <3>1. "compaction/start" \in Marks
      BY DEF Marks
    <3> QED  BY <2>1, <3>1, MarkIs DEF Opens
  <2>3. Write(<<e>>) /\ pc' = "summarize" /\ todo' = todo /\ summary' = summary /\ shadowed' = select_range
    BY <1>4, <2>1 DEF Goto
  <2>4. /\ log' \in Seq(LogEvents) /\ Faithful(log', surface') /\ surface'.claim = {} /\ Fitted(log')
    BY <1>1, <2>2, <2>3, Written
  <2>5. log' = Append(log, e) /\ surface' = Place(surface, Len(log) + 1, e)
    BY <1>1, <2>2, <2>3, WriteOne
  <2>6. Faithful(log, surface) /\ Fits(log, surface, e)
    BY <2>2 DEF HistInv, Fits
  <2>7. surface'.nodes = nodes
    BY <1>1, <2>2, <2>5, <2>6, PlaceOther DEF nodes
  <2>8. \E m \in DOMAIN nodes : select_range = SubSeq(nodes, 1, m)
    BY <1>4, SelectRangeIs DEF Helpless
  <2>9. Phase'
    BY <2>3, <2>4, <2>7, <2>8 DEF Phase
  <2> QED  BY <1>1, <2>3, <2>4, <2>9 DEF HistInv
<1> QED  BY <1>2, <1>3, <1>4 DEF Compact

LEMMA SummarizeHolds ==
  ASSUME HistInv, Summarize
  PROVE  HistInv'
<1>1. pc = "summarize" /\ UNCHANGED <<log, surface, todo, shadowed>> /\ pc' \in {"closing", "record"}
  BY DEF Summarize, Goto, history
<1>2. summary' \in Nat
  <2>1. summary' = summary \/ summary' \in SummaryCosts
    BY DEF Summarize
  <2> QED  BY <2>1, ConstantsAssumption DEF HistInv
<1>3. CASE pc' = "closing"
  BY <1>1, <1>2, <1>3, StillStep
<1>4. CASE pc' = "record"
  <2>1. /\ surface.claim = {} /\ Fitted(log)
        /\ \E m \in DOMAIN surface.nodes : shadowed = SubSeq(surface.nodes, 1, m)
    BY <1>1, NothingClaimed DEF HistInv, Phase
  <2>2. Phase'
    BY <1>1, <1>4, <2>1 DEF Phase
  <2>3. Faithful(log', surface')
    BY <1>1 DEF HistInv
  <2> QED  BY <1>1, <1>2, <2>2, <2>3 DEF HistInv
<1> QED  BY <1>1, <1>3, <1>4

LEMMA RecordHolds ==
  ASSUME HistInv, Record
  PROVE  HistInv'
<1>1. CASE FailsCompacting
  BY <1>1, FailsCompactingHolds
<1>2. CASE /\ Write(<<Event("compaction/summary", 0, ToSet(shadowed), 0)>>)
           /\ Goto("replace") /\ UNCHANGED <<step, rewrite>>
  <2>1. /\ pc = "record" /\ Fitted(log) /\ todo \in Seq(Nat) /\ summary \in Nat
    BY DEF Record, HistInv, Phase
  <2>2. PICK m \in DOMAIN nodes : shadowed = SubSeq(nodes, 1, m)
    BY <2>1 DEF HistInv, Phase, nodes
  <2>3. PICK run : run = ToSet(shadowed)
    OBVIOUS
  <2>4. run = RunOf(nodes, 1, m) /\ run # {}
    BY <2>2, <2>3, NodesAre, RunIs
  <2>5. \A x \in run : \E j \in DOMAIN nodes : nodes[j] = x
    <3>1. \A k \in 1 .. m : k \in DOMAIN nodes
      BY NodesAre
    <3> QED  BY <2>4, <3>1 DEF RunOf
  <2>6. run \in SUBSET Nat
    BY <2>5, NodesAre
  <2>7. PICK e : e = Event("compaction/summary", 0, run, 0)
    OBVIOUS
  <2>8. e \in LogEvents /\ IsRecord(e) /\ e.shadows = run
    BY <2>6, <2>7 DEF Event, LogEvents, Types, IsRecord
  <2>9. /\ Write(<<e>>) /\ pc' = "replace" /\ todo' = todo /\ summary' = summary /\ shadowed' = shadowed
    BY <1>2, <2>3, <2>7 DEF Goto, rewrite
  <2>10. /\ log' \in Seq(LogEvents) /\ Faithful(log', surface') /\ Fitted(log')
         /\ surface'.nodes = nodes /\ surface'.claim = run
    BY <2>1, <2>4, <2>5, <2>8, <2>9, RecordWritten
  <2>11. Phase'
    BY <2>2, <2>3, <2>9, <2>10 DEF Phase
  <2> QED  BY <2>1, <2>9, <2>10, <2>11 DEF HistInv
<1> QED  BY <1>1, <1>2 DEF Record

LEMMA ReplaceHolds ==
  ASSUME HistInv, Replace
  PROVE  HistInv'
<1>1. CASE FailsCompacting
  BY <1>1, FailsCompactingHolds
<1>2. CASE /\ Write(<<Event("user/message", 0, {}, summary)>>)
           /\ Goto("closing") /\ UNCHANGED <<step, rewrite>>
  <2>1. /\ pc = "replace" /\ Fitted(log) /\ todo \in Seq(Nat) /\ summary \in Nat
        /\ surface.claim = ToSet(shadowed)
    BY DEF Replace, HistInv, Phase
  <2>2. PICK m \in DOMAIN nodes : shadowed = SubSeq(nodes, 1, m)
    BY <2>1 DEF HistInv, Phase, nodes
  <2>3. surface.claim = RunOf(nodes, 1, m) /\ surface.claim # {}
    BY <2>1, <2>2, NodesAre, RunIs
  <2>4. 1 \in DOMAIN nodes /\ 1 <= m
    BY NodesAre
  <2>5. PICK e : e = Event("user/message", 0, {}, summary)
    OBVIOUS
  <2>6. e \in LogEvents /\ IsSurface(e) /\ e.ty # "assistant/message"
    BY <2>1, <2>5 DEF Event, LogEvents, Types, IsSurface
  <2>7. Write(<<e>>) /\ pc' = "closing" /\ todo' = todo /\ summary' = summary
    BY <1>2, <2>5 DEF Goto, rewrite
  <2>8. /\ log' \in Seq(LogEvents) /\ Faithful(log', surface') /\ Fitted(log') /\ surface'.claim = {}
    BY <2>1, <2>3, <2>4, <2>6, <2>7, MessageWritten
  <2>9. Phase'
    BY <2>7, <2>8 DEF Phase
  <2> QED  BY <2>1, <2>7, <2>8, <2>9 DEF HistInv
<1> QED  BY <1>1, <1>2 DEF Replace

LEMMA CompactEndHolds ==
  ASSUME HistInv, CompactEnd
  PROVE  HistInv'
<1>1. CASE ~failed /\ Fails(<<>>)
  BY <1>1, FailsAtOnce
<1>2. ASSUME NEW ended \in {<<>>, <<Mark("compaction/end")>>},
             Write(ended), Goto("request"), summary' = 0, UNCHANGED <<step, todo>>
      PROVE  HistInv'
  <2>1. "compaction/end" \in Marks
    BY DEF Marks
  <2>2. Plain(ended) /\ Silent(ended) /\ (ended = <<>> \/ Opens(ended))
    BY <2>1, NothingIs, MarkIs
  <2>3. pc = "closing" /\ Fitted(log) /\ surface.claim = {} /\ todo \in Seq(Nat)
    <3>1. pc = "closing"
      BY DEF CompactEnd
    <3> QED  BY <3>1, NothingClaimed DEF HistInv, Phase
  <2>4. /\ log' \in Seq(LogEvents) /\ Faithful(log', surface') /\ surface'.claim = {} /\ Fitted(log')
    BY <1>2, <2>2, <2>3, Written
  <2>5. pc' = "request" /\ todo' \in Seq(Nat) /\ summary' \in Nat
    BY <1>2, <2>3 DEF Goto
  <2>6. Phase'
    BY <2>4, <2>5 DEF Phase
  <2> QED  BY <2>4, <2>5, <2>6 DEF HistInv
<1> QED  BY <1>1, <1>2 DEF CompactEnd

-----------------------------------------------------------------------------

LEMMA HistInitially == Init => HistInv
<1> SUFFICES ASSUME Init PROVE HistInv
  OBVIOUS
<1>1. PICK L : L = log
  OBVIOUS
<1>2. PICK s : s = surface
  OBVIOUS
<1>3. PICK ns : ns = s.nodes
  OBVIOUS
<1>4. L = <<>> /\ ns = <<>> /\ s.claim = {} /\ s = [nodes |-> <<>>, claim |-> {}]
  BY <1>1, <1>2, <1>3 DEF Init
<1>5. L \in Seq(LogEvents) /\ DOMAIN L = {} /\ ns \in Seq(Nat) /\ DOMAIN ns = {}
  BY <1>4
<1>6. s \in Surfaces
  BY <1>4, <1>5 DEF Surfaces
<1>7. Faithful(L, s)
  BY <1>3, <1>4, <1>5, <1>6 DEF Faithful, LooksBack, Distinct, Claimed
<1>8. pc = "idle" /\ todo = <<>> /\ summary = 0
  BY DEF Init
<1>9. Phase
  BY <1>2, <1>4, <1>8 DEF Phase
<1> QED  BY <1>1, <1>2, <1>5, <1>7, <1>8, <1>9 DEF HistInv

LEMMA HistHolds == HistInv /\ [Next]_vars => HistInv'
<1> SUFFICES ASSUME HistInv, [Next]_vars PROVE HistInv'
  OBVIOUS
<1>1. CASE UNCHANGED vars
  <2>1. UNCHANGED <<log, surface, pc, todo, shadowed, summary>>
    BY <1>1 DEF vars
  <2> QED  BY <2>1 DEF HistInv, Phase
<1>2. CASE RequestFails
  BY <1>2, FailsAtOnce DEF RequestFails
<1>3. CASE \E claimed \in 0 .. 1 : StepStart(claimed)
  BY <1>3, StepStartHolds
<1>4. CASE \E n \in Batches, size \in {0, 1} : Respond(n, size)
  BY <1>4, RespondHolds
<1>5. CASE \E size \in {1, Long} : ToolResult(size)
  BY <1>5, ToolResultHolds
<1>6. CASE Crash \/ Repair \/ RunTurn \/ StepEnd \/ TurnEnd
  BY <1>6, CrashHolds, RepairHolds, RunTurnHolds, StepEndHolds, TurnEndHolds
<1>7. CASE FitContext \/ Prune \/ Pruned \/ Recheck
  BY <1>7, FitContextHolds, PruneHolds, PrunedHolds, RecheckHolds
<1>8. CASE Compact \/ Summarize \/ Record \/ Replace \/ CompactEnd
  BY <1>8, CompactHolds, SummarizeHolds, RecordHolds, ReplaceHolds, CompactEndHolds
<1> QED  BY <1>1, <1>2, <1>3, <1>4, <1>5, <1>6, <1>7, <1>8 DEF Next

LEMMA HistCovers == HistInv => SurfaceCovers
<1> SUFFICES ASSUME HistInv PROVE SurfaceCovers
  OBVIOUS
<1>1. PICK C : C = CoversOf(log)
  OBVIOUS
<1>2. log \in Seq(LogEvents) /\ LooksBack(log) /\ Faithful(log, surface)
  BY DEF HistInv, Faithful
<1>3. \A k \in DOMAIN nodes : nodes[k] \in DOMAIN log /\ Covers[nodes[k]] = C[nodes[k]]
  BY <1>1, <1>2, NodesAre, CoversIs
<1>4. \A i \in DOMAIN log : Replacement(i) <=> Replaces(log, i)
  BY DEF Replacement, Replaces
<1>5. UNION {Covers[nodes[k]] : k \in DOMAIN nodes} = {i \in DOMAIN log : IsSurface(log[i]) /\ ~Replacement(i)}
  <2>1. \A i \in DOMAIN log : IsSurface(log[i]) /\ ~Replaces(log, i) => \E k \in DOMAIN nodes : i \in C[nodes[k]]
    BY <1>1, <1>2 DEF Faithful, nodes
  <2>2. \A k \in DOMAIN nodes : \A i \in C[nodes[k]] : i \in DOMAIN log /\ IsSurface(log[i]) /\ ~Replaces(log, i)
    BY <1>1, <1>2 DEF Faithful, nodes
  <2> QED  BY <1>3, <1>4, <2>1, <2>2
<1>6. ASSUME NEW k \in 2 .. Len(nodes), NEW a \in Covers[nodes[k - 1]], NEW b \in Covers[nodes[k]]
      PROVE  a < b
  <2>1. k - 1 \in DOMAIN nodes /\ k \in DOMAIN nodes /\ k - 1 < k
    BY NodesAre
  <2>2. a \in C[nodes[k - 1]] /\ b \in C[nodes[k]]
    BY <1>3, <2>1
  <2> QED  BY <1>1, <1>2, <2>1, <2>2 DEF Faithful, nodes
<1> HIDE DEF Covers
<1> QED  BY <1>5, <1>6 DEF SurfaceCovers

(* Nothing said is lost, repeated or moved, however often and wherever the *)
(* past is pruned and compacted, a rewrite is cut short or a turn dies     *)
(* (Surface::place, prune_results, compact).                               *)
THEOREM NothingIsLost == Spec => []SurfaceCovers
<1>1. Init => HistInv
  BY HistInitially
<1>2. HistInv /\ [Next]_vars => HistInv'
  BY HistHolds
<1>3. HistInv => SurfaceCovers
  BY HistCovers
<1> QED  BY <1>1, <1>2, <1>3, PTL DEF Spec

-----------------------------------------------------------------------------
(* A request answers what it asks for, and ends in what was asked.         *)

(* What an event is to the pairs.                                         *)
Asks(L, i) == L[i].ty = "assistant/message"
Tells(L, i) == L[i].ty = "tool/result"

(* The place k is one of those the answer at j asks to be told at.         *)
Reaches(L, ns, j, k) == Asks(L, ns[j]) /\ j < k /\ k <= j + L[ns[j]].n

(* Where an answer asks to be told stands what it is told, and no result   *)
(* stands anywhere else.  An answer that asks for something says so.       *)
Paired(L, ns) ==
  /\ \A j, k \in DOMAIN ns : Reaches(L, ns, j, k) => Tells(L, ns[k]) /\ L[ns[k]].n = ns[j]
  /\ \A k \in DOMAIN ns : Tells(L, ns[k]) => \E j \in DOMAIN ns : Reaches(L, ns, j, k)
  /\ \A k \in DOMAIN ns : Asks(L, ns[k]) /\ L[ns[k]].n > 0 => L[ns[k]].size > 0

(* Of the first m nodes none asks for what stands behind them. *)
CutAt(L, ns, m) == \A j \in 1 .. m : Asks(L, ns[j]) => j + L[ns[j]].n <= m
Whole(L, ns) == CutAt(L, ns, Len(ns))

Told(L, a) == {i \in DOMAIN L : L[i].ty = "tool/result" /\ L[i].n = a}

(* Something that began and has not ended. *)
IsOpen(L, s, e) == \E p \in DOMAIN L : L[p].ty = s /\ \A q \in DOMAIN L : q > p => L[q].ty # e
StepOpen(L) == IsOpen(L, "step/start", "step/end")
TurnOpen(L) == IsOpen(L, "turn/start", "turn/end")

(* Later than any snapshot. *)
Fresh(L, i) == \A q \in DOMAIN L : L[q].ty = "context/snapshot" => q < i

(* The last answer, at k, was told as much as stands behind it. *)
Owing(L, ns, k) ==
  /\ Asks(L, ns[k]) /\ k + Cardinality(Told(L, ns[k])) = Len(ns) /\ Len(ns) <= k + L[ns[k]].n
  /\ \A q \in DOMAIN L : q > ns[k] => L[q].ty \notin {"assistant/message", "step/start"}
  /\ \A j \in DOMAIN ns : Asks(L, ns[j]) => j = k \/ j + L[ns[j]].n <= Len(ns)
  /\ \A j \in k .. Len(ns) : Fresh(L, ns[j])

(* What the nodes end in is what was asked, or a result of this turn.      *)
Verbatim(L, i) == Tells(L, i) \/ (L[i].ty = "user/message" /\ (i > 1 => ~IsRecord(L[i - 1])))
Asked(L, ns) == ns # <<>> /\ Verbatim(L, ns[Len(ns)]) /\ Fresh(L, ns[Len(ns)])

(* A result is one of an answer before it, and replaces no summary. *)
ResultsOf(L) == \A i \in DOMAIN L : Tells(L, i) =>
                  L[i].n \in 1 .. i - 1 /\ L[i - 1].ty # "compaction/summary"

Fitting == {"fit", "prune", "pruned", "compact", "summarize", "record", "replace", "closing", "request"}

(* What the turn has to find, and to leave, at each of its places: between *)
(* steps no answer is owed anything; what rewrites the log finds it so, and*)
(* ending in what was asked; a turn cut short left what a repair can close.*)
Stage ==
  /\ pc \in Fitting \cup Quiet \cup {"down"}
  /\ pc \in {"idle", "boundary", "stop"} => ~StepOpen(log) /\ Whole(log, nodes)
  /\ pc \in Fitting => StepOpen(log) /\ Whole(log, nodes) /\ Asked(log, nodes)
  /\ pc \in {"tools", "close"} =>
       StepOpen(log) /\ \E k \in DOMAIN nodes : Owing(log, nodes, k) /\ (log[nodes[k]].n = 0 <=> pc = "close")
  /\ pc \notin {"idle", "down"} => TurnOpen(log)
  /\ pc = "boundary" => step = 1 \/ Asked(log, nodes)
  /\ pc = "down" => \/ ~StepOpen(log) /\ Whole(log, nodes)
                    \/ TurnOpen(log) /\ Fitted(log) /\ Whole(log, nodes)
                    \/ TurnOpen(log) /\ StepOpen(log) /\ \E k \in DOMAIN nodes : Owing(log, nodes, k)
  /\ pc \in {"prune", "pruned"} => \A k \in DOMAIN todo : Tells(log, todo[k])
  /\ pc = "pruned" => log[Len(log)].ty = "compaction/prune"
  /\ pc \in {"summarize", "record", "replace"} =>
       \E m \in DOMAIN nodes : shadowed = SubSeq(nodes, 1, m) /\ m < Len(nodes) /\ CutAt(log, nodes, m)

PairInv == Paired(log, nodes) /\ ResultsOf(log) /\ Stage

-----------------------------------------------------------------------------
(* What a request says: its calls and results stand together.              *)

LEMMA RequestIsPaired ==
  ASSUME HistInv, Paired(log, nodes), Whole(log, nodes)
  PROVE  RequestPaired
<1> DEFINE K == {k \in DOMAIN nodes : log[nodes[k]].ty = "assistant/message" => log[nodes[k]].size > 0}
<1>1. PICK ns : ns = nodes
  OBVIOUS
<1>2. /\ ns \in Seq(Nat) /\ DOMAIN ns = 1 .. Len(ns) /\ Len(ns) \in Nat
      /\ \A k \in DOMAIN ns : k \in Nat /\ ns[k] \in DOMAIN log /\ log[ns[k]].n \in Nat
  <2>1. /\ ns \in Seq(Nat) /\ DOMAIN ns = 1 .. Len(ns) /\ Len(ns) \in Nat
        /\ \A k \in DOMAIN ns : ns[k] \in DOMAIN log
    BY <1>1, NodesAre
  <2>2. log \in Seq(LogEvents)
    BY DEF HistInv
  <2>3. \A k \in DOMAIN ns : log[ns[k]] \in LogEvents
    BY <2>1, <2>2
  <2> QED  BY <2>1, <2>3 DEF LogEvents
<1>3. /\ \A k \in K : k \in DOMAIN ns
      /\ \A k \in DOMAIN ns : k \in K <=> (Asks(log, ns[k]) => log[ns[k]].size > 0)
  BY <1>1 DEF Asks
<1>4. K \in SUBSET DOMAIN ns /\ K \in SUBSET (1 .. Len(ns))
  BY <1>2, <1>3
<1>5. PICK sp : sp = Spoken(nodes)
  OBVIOUS
<1>6. sp = Picked(ns, K)
  BY <1>1, <1>5 DEF Spoken
<1> HIDE DEF K
<1>7. PICK o : o = InOrder(K)
  OBVIOUS
<1>8. DOMAIN sp = DOMAIN o /\ \A k \in DOMAIN o : sp[k] = ns[o[k]]
  BY <1>2, <1>4, <1>6, <1>7, PickedLists
<1>9. /\ o \in Seq(K) /\ DOMAIN o = 1 .. Len(o)
      /\ \A i \in K : \E k \in DOMAIN o : o[k] = i
      /\ \A j, k \in DOMAIN o : j < k => o[j] < o[k]
  BY <1>2, <1>4, <1>7, InOrderLists
<1>10. \A x \in DOMAIN o : x \in Nat /\ o[x] \in K /\ o[x] \in DOMAIN ns
  <2>1. \A x \in DOMAIN o : x \in Nat /\ o[x] \in K
    BY <1>9
  <2> QED  BY <1>3, <2>1
<1>11. ASSUME NEW x \in DOMAIN o, NEW m \in Nat, \A j \in 1 .. m : o[x] + j \in K
       PROVE  \A j \in 0 .. m : x + j \in DOMAIN o /\ o[x + j] = o[x] + j
  <2>1. \A j \in 0 .. m : o[x] + j \in K
    <3>1. o[x] + 0 = o[x] /\ o[x] \in K
      BY <1>2, <1>10
    <3>2. \A j \in 0 .. m : j = 0 \/ j \in 1 .. m
      OBVIOUS
    <3> QED  BY <1>11, <3>1, <3>2
  <2> QED  BY <1>2, <1>4, <1>7, <2>1, InOrderTogether
<1>12. ASSUME NEW i \in DOMAIN ns, Asks(log, ns[i]), NEW m \in Nat, m <= log[ns[i]].n, i + m <= Len(ns)
       PROVE  \A j \in 1 .. m : i + j \in K /\ Tells(log, ns[i + j]) /\ log[ns[i + j]].n = ns[i]
  <2> TAKE j \in 1 .. m
  <2>1. i + j \in DOMAIN ns /\ Reaches(log, ns, i, i + j)
    BY SMTT(20), <1>2, <1>12 DEF Reaches
  <2>2. Tells(log, ns[i + j]) /\ log[ns[i + j]].n = ns[i]
    BY <1>1, <2>1 DEF Paired
  <2>3. ~Asks(log, ns[i + j])
    BY <2>2 DEF Asks, Tells
  <2> QED  BY <1>3, <2>1, <2>2, <2>3
<1>13. ASSUME NEW x \in DOMAIN sp, Asks(log, sp[x])
       PROVE  \A j \in 1 .. log[sp[x]].n : /\ x + j \in DOMAIN sp /\ log[sp[x + j]].ty = "tool/result"
                                           /\ log[sp[x + j]].n = sp[x]
  <2>1. PICK k : k = o[x]
    OBVIOUS
  <2>2. x \in DOMAIN o /\ k \in DOMAIN ns /\ sp[x] = ns[k] /\ Asks(log, ns[k])
    BY <1>8, <1>10, <1>13, <2>1
  <2>3. PICK m : m = log[ns[k]].n
    OBVIOUS
  <2>4. m \in Nat /\ k + m <= Len(ns)
    BY <1>1, <1>2, <2>2, <2>3 DEF Whole, CutAt
  <2>5. \A j \in 1 .. m : k + j \in K /\ Tells(log, ns[k + j]) /\ log[ns[k + j]].n = ns[k]
    BY <1>12, <2>2, <2>3, <2>4
  <2>6. \A j \in 0 .. m : x + j \in DOMAIN o /\ o[x + j] = k + j
    BY <1>11, <2>1, <2>2, <2>4, <2>5
  <2>7. \A j \in 1 .. m : j \in 0 .. m
    BY <2>4
  <2> QED  BY <1>8, <2>2, <2>3, <2>5, <2>6, <2>7 DEF Tells
<1>14. ASSUME NEW x \in DOMAIN sp, Tells(log, sp[x])
       PROVE  \E j \in 1 .. (x - 1) : sp[j] = log[sp[x]].n /\ x <= j + log[sp[j]].n
  <2>1. PICK k : k = o[x]
    OBVIOUS
  <2>2. x \in DOMAIN o /\ k \in DOMAIN ns /\ sp[x] = ns[k] /\ Tells(log, ns[k])
    BY <1>8, <1>10, <1>14, <2>1
  <2>3. PICK i \in DOMAIN ns : Reaches(log, ns, i, k)
    BY <1>1, <2>2 DEF Paired
  <2>4. Asks(log, ns[i]) /\ i \in Nat /\ k \in Nat /\ i < k /\ k <= i + log[ns[i]].n /\ log[ns[i]].n \in Nat
        /\ log[ns[k]].n = ns[i]
    BY <1>1, <1>2, <2>2, <2>3 DEF Reaches, Paired
  <2>5. PICK m : m = k - i
    OBVIOUS
  <2>6. m \in Nat /\ m >= 1 /\ i + m = k /\ m <= log[ns[i]].n
    BY <2>4, <2>5
  <2>7. i \in K
    <3>1. log[ns[i]].size > 0
      BY <1>1, <2>4, <2>6 DEF Paired
    <3> QED  BY <1>3, <3>1
  <2>8. PICK y \in DOMAIN o : o[y] = i
    BY <1>9, <2>7
  <2>9. \A j \in 1 .. m : i + j \in K
    <3>1. i + m <= Len(ns)
      BY <1>2, <2>2, <2>6
    <3> QED  BY <1>12, <2>4, <2>6, <3>1
  <2>10. y + m \in DOMAIN o /\ o[y + m] = k
    <3>1. \A j \in 0 .. m : y + j \in DOMAIN o /\ o[y + j] = i + j
      BY <1>11, <2>6, <2>8, <2>9
    <3>2. m \in 0 .. m
      BY <2>6
    <3> QED  BY <2>6, <3>1, <3>2
  <2>11. y + m = x
    <3>1. PICK u : u = y + m
      OBVIOUS
    <3>2. u \in DOMAIN o /\ x \in DOMAIN o /\ o[u] = o[x] /\ o[x] \in Nat /\ u \in Nat /\ x \in Nat
      BY <1>2, <1>10, <2>1, <2>2, <2>10, <3>1
    <3>3. ~(u < x) /\ ~(x < u)
      BY <1>9, <3>2
    <3> QED  BY <3>1, <3>2, <3>3
  <2>12. y \in 1 .. (x - 1) /\ x <= y + log[ns[i]].n
    BY SMTT(20), <1>9, <1>10, <2>2, <2>4, <2>6, <2>8, <2>11
  <2> QED  BY <1>8, <2>2, <2>4, <2>8, <2>12
<1> QED  BY <1>5, <1>13, <1>14 DEF RequestPaired, Asks, Tells

(* What is put in before the end leaves the end. *)
LEMMA InsertedBefore ==
  ASSUME NEW q \in Seq(Nat), NEW e \in Nat, NEW i \in 1 .. Len(q)
  PROVE  Len(InsertAt(q, i, e)) = Len(q) + 1 /\ InsertAt(q, i, e)[Len(q) + 1] = q[Len(q)]
<1>1. Len(q) \in Nat /\ i \in Nat
  OBVIOUS
<1>2. PICK a : a = SubSeq(q, 1, i - 1)
  OBVIOUS
<1>3. PICK b : b = SubSeq(q, i, Len(q))
  OBVIOUS
<1>4. a \in Seq(Nat) /\ Len(a) = i - 1 /\ b \in Seq(Nat) /\ Len(b) = Len(q) - i + 1 /\ b[Len(q) - i + 1] = q[Len(q)]
  <2>1. a \in Seq(Nat) /\ Len(a) = i - 1
    BY <1>1, <1>2
  <2>2. b \in Seq(Nat) /\ Len(b) = Len(q) - i + 1
    BY <1>1, <1>3
  <2>3. b[Len(q) - i + 1] = q[i + (Len(q) - i + 1) - 1] /\ i + (Len(q) - i + 1) - 1 = Len(q)
    BY <1>1, <1>3
  <2> QED  BY <2>1, <2>2, <2>3
<1>5. PICK d : d = <<e>>
  OBVIOUS
<1>6. d \in Seq(Nat) /\ Len(d) = 1
  BY <1>5
<1>7. PICK c : c = a \o d
  OBVIOUS
<1>8. c \in Seq(Nat) /\ Len(c) = i
  <2>1. c \in Seq(Nat) /\ Len(c) = Len(a) + Len(d)
    BY <1>4, <1>6, <1>7, ConcatProperties
  <2> QED  BY <1>1, <1>4, <1>6, <2>1
<1>9. InsertAt(q, i, e) = c \o b
  BY <1>2, <1>3, <1>5, <1>7 DEF InsertAt
<1>10. PICK r : r = c \o b
  OBVIOUS
<1>11. Len(r) = Len(c) + Len(b) /\ \A x \in Len(c) + 1 .. Len(c) + Len(b) : r[x] = b[x - Len(c)]
  <2>1. Len(r) = Len(c) + Len(b) /\ \A x \in 1 .. Len(c) + Len(b) : r[x] = IF x <= Len(c) THEN c[x] ELSE b[x - Len(c)]
    BY <1>4, <1>8, <1>10, ConcatProperties
  <2>2. Len(c) \in Nat /\ Len(b) \in Nat
    BY <1>4, <1>8
  <2>3. \A x \in Len(c) + 1 .. Len(c) + Len(b) : x \in 1 .. Len(c) + Len(b) /\ ~(x <= Len(c))
    BY <2>2
  <2> QED  BY <2>1, <2>3
<1>12. Len(q) + 1 \in Len(c) + 1 .. Len(c) + Len(b) /\ Len(q) + 1 - Len(c) = Len(q) - i + 1 /\ Len(c) + Len(b) = Len(q) + 1
  BY <1>1, <1>4, <1>8
<1>13. Len(r) = Len(q) + 1 /\ r[Len(q) + 1] = q[Len(q)]
  <2>1. r[Len(q) + 1] = b[Len(q) + 1 - Len(c)]
    BY <1>11, <1>12
  <2>2. b[Len(q) + 1 - Len(c)] = q[Len(q)]
    BY <1>4, <1>12
  <2>3. Len(r) = Len(q) + 1
    BY <1>11, <1>12
  <2> QED  BY <2>1, <2>2, <2>3
<1> QED  BY <1>9, <1>10, <1>13

(* The last node ends the request, and the standing context stands before. *)
LEMMA EndsAsAsked ==
  ASSUME HistInv, ResultsOf(log), Asked(log, nodes)
  PROVE  EndsInWhatWasAsked
<1> DEFINE K == {k \in DOMAIN nodes : log[nodes[k]].ty = "assistant/message" => log[nodes[k]].size > 0}
           last == nodes[Len(nodes)]
<1>1. PICK ns : ns = nodes
  OBVIOUS
<1>2. /\ ns \in Seq(Nat) /\ DOMAIN ns = 1 .. Len(ns) /\ Len(ns) \in Nat /\ ns # <<>>
      /\ log \in Seq(LogEvents)
  BY <1>1, NodesAre DEF HistInv, Asked
<1>3. Len(ns) \in DOMAIN ns /\ Len(ns) >= 1
  BY <1>2
<1>4. Verbatim(log, ns[Len(ns)]) /\ Fresh(log, ns[Len(ns)])
  BY <1>1 DEF Asked
<1>5. log[ns[Len(ns)]].ty # "assistant/message"
  BY <1>4 DEF Verbatim, Tells
<1>6. K \in SUBSET DOMAIN ns /\ K \in SUBSET (1 .. Len(ns)) /\ Len(ns) \in K
  BY <1>1, <1>2, <1>3, <1>5
<1>7. PICK sp : sp = Spoken(nodes)
  OBVIOUS
<1>8. sp = Picked(ns, K)
  BY <1>1, <1>7 DEF Spoken
<1>9. \A f \in DOMAIN ns : Len(Spoken(SubSeq(nodes, 1, f - 1))) + 1 \in 1 .. Len(sp)
  <2> TAKE f \in DOMAIN ns
  <2> DEFINE q == SubSeq(nodes, 1, f - 1)
             J == {k \in DOMAIN q : log[q[k]].ty = "assistant/message" => log[q[k]].size > 0}
  <2>1. f \in 1 .. Len(ns) /\ q = SubSeq(ns, 1, f - 1)
    BY <1>1, <1>2
  <2>2. q \in Seq(Nat) /\ DOMAIN q = 1 .. f - 1 /\ \A k \in 1 .. f - 1 : q[k] = ns[k] /\ k \in DOMAIN ns
    <3> HIDE DEF q
    <3> QED  BY <1>2, <2>1
  <2>3. Spoken(q) = Picked(q, J)
    BY DEF Spoken
  <2>4. J \in SUBSET K /\ Len(ns) \notin J /\ J \in SUBSET DOMAIN q
    <3>1. \A k \in J : k \in 1 .. f - 1 /\ (log[ns[k]].ty = "assistant/message" => log[ns[k]].size > 0) /\ k \in DOMAIN ns
      <4> HIDE DEF q
      <4> QED  BY <2>2
    <3>2. Len(ns) \notin 1 .. f - 1
      BY <1>2, <2>1
    <3>3. J \in SUBSET DOMAIN q
      OBVIOUS
    <3> HIDE DEF J, q
    <3> QED  BY <1>1, <3>1, <3>2, <3>3
  <2> HIDE DEF J, K, q
  <2>5. Len(Picked(q, J)) = Len(InOrder(J)) /\ Len(InOrder(J)) \in Nat
    <3>1. InOrder(J) \in Seq(J) /\ Len(Picked(q, J)) = Len(InOrder(J))
      BY <2>2, <2>4, PickedLists
    <3> QED  BY <3>1
  <2>6. Len(Picked(ns, K)) = Len(InOrder(K)) /\ Len(InOrder(K)) \in Nat
    <3>1. InOrder(K) \in Seq(K) /\ Len(Picked(ns, K)) = Len(InOrder(K))
      BY <1>2, <1>6, PickedLists
    <3> QED  BY <3>1
  <2>7. Len(InOrder(J)) < Len(InOrder(K))
    BY <1>2, <1>6, <2>4, InOrderFewer
  <2>8. Len(Spoken(q)) + 1 \in 1 .. Len(sp)
    BY <1>8, <2>3, <2>5, <2>6, <2>7
  <2> QED  BY <2>8 DEF q
<1> HIDE DEF K
<1>10. sp \in Seq(Nat) /\ Len(sp) \in Nat /\ sp[Len(sp)] = ns[Len(ns)] /\ Len(sp) >= 1
  <2>1. PICK o : o = InOrder(K)
    OBVIOUS
  <2>2. o \in Seq(K) /\ sp \in Seq(Nat) /\ Len(sp) = Len(o) /\ \A k \in DOMAIN o : sp[k] = ns[o[k]]
    BY <1>2, <1>6, <1>8, <2>1, PickedLists
  <2>3. Len(o) \in DOMAIN o /\ o[Len(o)] = Len(ns)
    BY <1>2, <1>6, <2>1, InOrderEnds
  <2>4. Len(o) \in Nat /\ Len(o) >= 1
    BY <2>2, <2>3
  <2> QED  BY <2>2, <2>3, <2>4
<1>11. PICK c : c = ContextAt
  OBVIOUS
<1>12. PICK s : s = Latest({"context/snapshot"})
  OBVIOUS
<1>13. s \in Nat /\ (s # 0 => s \in DOMAIN log /\ log[s].ty = "context/snapshot")
  BY <1>2, <1>12, LatestIs
<1>14. s = 0 => c = 0
  BY <1>11, <1>12 DEF ContextAt
<1>15. s # 0 => c \in 1 .. Len(sp)
  <2> SUFFICES ASSUME s # 0 PROVE c \in 1 .. Len(sp)
    OBVIOUS
  <2> DEFINE I == {i \in 1 .. Len(nodes) : nodes[i] > s}
  <2>1. PICK f : f = SelectInSeq(nodes, LAMBDA i : i > s)
    OBVIOUS
  <2>2. f = IF I # {} THEN Min(I) ELSE 0
    BY <2>1 DEF SelectInSeq
  <2>3. Len(ns) \in I
    <3>1. s < ns[Len(ns)]
      BY <1>4, <1>13 DEF Fresh
    <3>2. ns[Len(ns)] \in Nat
      BY <1>2, <1>3
    <3>3. ns[Len(ns)] > s
      BY <1>13, <3>1, <3>2
    <3>4. Len(ns) \in 1 .. Len(ns)
      BY <1>2, <1>3
    <3> QED  BY <1>1, <3>3, <3>4
  <2>4. I \in SUBSET Nat /\ \A i \in I : i \in DOMAIN ns
    BY <1>1, <1>2
  <2>5. f \in I
    <3>1. \E i \in I : \A j \in I : i <= j
      <4> HIDE DEF I
      <4> QED  BY <2>3, <2>4, Least
    <3>2. f = Min(I)
      BY <2>2, <2>3
    <3> HIDE DEF I
    <3> QED  BY <3>1, <3>2 DEF Min
  <2>6. f \in DOMAIN ns /\ f # 0 /\ s > 0
    BY <1>2, <1>13, <2>4, <2>5
  <2>7. c = Len(Spoken(SubSeq(nodes, 1, f - 1))) + 1
    BY <1>11, <1>12, <2>1, <2>6 DEF ContextAt
  <2> QED  BY <1>9, <2>6, <2>7
<1>16. PICK d : d = derive_messages
  OBVIOUS
<1>17. d[Len(d)] = ns[Len(ns)]
  <2>1. CASE c = 0
    <3>1. d = sp
      BY <1>7, <1>11, <1>16, <2>1 DEF derive_messages
    <3> QED  BY <1>10, <3>1
  <2>2. CASE c # 0
    <3>1. c \in 1 .. Len(sp)
      BY <1>14, <1>15, <2>2
    <3>2. d = InsertAt(sp, c, s)
      BY <1>7, <1>11, <1>12, <1>16, <2>2 DEF derive_messages
    <3>3. Len(d) = Len(sp) + 1 /\ d[Len(sp) + 1] = sp[Len(sp)]
      BY <1>10, <1>13, <3>1, <3>2, InsertedBefore
    <3> QED  BY <1>10, <3>3
  <2> QED  BY <2>1, <2>2
<1>18. PICK z : z = ns[Len(ns)]
  OBVIOUS
<1>19. log[z].ty \in {"user/message", "tool/result"}
  BY <1>4, <1>18 DEF Verbatim, Tells
<1>20. ~(Replacement(z) /\ log[z - 1].ty = "compaction/summary")
  <2>1. z \in DOMAIN log
    BY <1>1, <1>3, <1>18, NodesAre
  <2>2. Tells(log, z) => log[z - 1].ty # "compaction/summary"
    BY <2>1 DEF ResultsOf
  <2> QED  BY <1>4, <1>18, <2>2 DEF Verbatim, Replacement
<1> QED  BY <1>16, <1>17, <1>18, <1>19, <1>20 DEF EndsInWhatWasAsked

-----------------------------------------------------------------------------
(* A cut where no call is open splits no answer from what it is told.      *)

LEMMA BalancedCut ==
  ASSUME HistInv, Paired(log, nodes), NEW at \in Nat, 1 <= at, at <= Len(nodes) + 1,
         tool_pairing_balanced_before(at)
  PROVE  CutAt(log, nodes, at - 1)
<1> DEFINE c(k) == CASE log[nodes[k]].ty = "assistant/message" -> log[nodes[k]].n
                     [] log[nodes[k]].ty = "tool/result" -> -1
                     [] OTHER -> 0
           Rule(f) == f = [k \in 0 .. (at - 1) |-> IF k = 0 THEN 0 ELSE f[k - 1] + c(k)]
           Open == CHOOSE f : Rule(f)
<1>1. PICK ns : ns = nodes
  OBVIOUS
<1>2. /\ ns \in Seq(Nat) /\ DOMAIN ns = 1 .. Len(ns) /\ Len(ns) \in Nat /\ Distinct(ns)
      /\ \A k \in DOMAIN ns : k \in Nat /\ ns[k] \in DOMAIN log /\ log[ns[k]].n \in Nat
  <2>1. /\ ns \in Seq(Nat) /\ DOMAIN ns = 1 .. Len(ns) /\ Len(ns) \in Nat /\ Distinct(ns)
        /\ \A k \in DOMAIN ns : ns[k] \in DOMAIN log
    BY <1>1, NodesAre
  <2>2. log \in Seq(LogEvents)
    BY DEF HistInv
  <2>3. \A k \in DOMAIN ns : log[ns[k]] \in LogEvents
    BY <2>1, <2>2
  <2> QED  BY <2>1, <2>3 DEF LogEvents
<1>3. PICK n : n = at - 1
  OBVIOUS
<1>4. n \in Nat /\ n <= Len(ns) /\ \A k \in 1 .. n : k \in DOMAIN ns /\ k \in Nat
  BY <1>1, <1>2, <1>3
<1>5. /\ \A k \in DOMAIN ns : Asks(log, ns[k]) => c(k) = log[ns[k]].n
      /\ \A k \in DOMAIN ns : Tells(log, ns[k]) => c(k) = -1
      /\ \A k \in DOMAIN ns : ~Asks(log, ns[k]) /\ ~Tells(log, ns[k]) => c(k) = 0
  BY <1>1 DEF Asks, Tells
<1>6. \A k \in DOMAIN ns : c(k) \in Int
  <2> HIDE DEF c
  <2> QED  BY <1>2, <1>5
<1>7. open_calls_before(at) = Open[at - 1]
  BY DEF open_calls_before
<1> HIDE DEF c
<1>8. \E f : Rule(f)
  <2> DEFINE next == [k \in 1 .. n |-> [x \in Int |-> x + c(k)]]
  <2>1. next \in [1 .. n -> [Int -> Int]]
    <3>1. \A k \in 1 .. n : \A x \in Int : x + c(k) \in Int
      BY <1>4, <1>6
    <3> QED  BY <3>1
  <2> HIDE DEF next
  <2>2. PICK f \in [0 .. n -> Int] : Carries(f, n, 0, next)
    <3>1. 0 \in Int
      OBVIOUS
    <3> QED  BY <1>4, <2>1, <3>1, CarriedExists
  <2>3. \A k \in 1 .. n : f[k] = f[k - 1] + c(k)
    <3> TAKE k \in 1 .. n
    <3>1. f[k] = next[k][f[k - 1]] /\ k - 1 \in 0 .. n
      BY <1>4, <2>2 DEF Carries
    <3>2. f[k - 1] \in Int
      BY <2>2, <3>1
    <3> QED  BY <3>1, <3>2 DEF next
  <2>4. f[0] = 0 /\ f = [k \in 0 .. n |-> f[k]]
    BY <2>2 DEF Carries
  <2>5. \A k \in 0 .. n : f[k] = IF k = 0 THEN 0 ELSE f[k - 1] + c(k)
    <3> TAKE k \in 0 .. n
    <3>1. k = 0 \/ k \in 1 .. n
      BY <1>4
    <3> QED  BY <2>3, <2>4, <3>1
  <2>6. f = [k \in 0 .. n |-> IF k = 0 THEN 0 ELSE f[k - 1] + c(k)]
    BY <2>4, <2>5
  <2>7. Rule(f)
    BY <1>3, <2>6
  <2> QED  BY <2>7
<1>9. PICK f : f = Open
  OBVIOUS
<1>10. \A k \in 0 .. n : f[k] = IF k = 0 THEN 0 ELSE f[k - 1] + c(k)
  <2>1. Rule(Open)
    <3> HIDE DEF Rule
    <3> QED  BY <1>8
  <2>2. f = [k \in 0 .. n |-> IF k = 0 THEN 0 ELSE f[k - 1] + c(k)]
    <3> HIDE DEF Open
    <3> QED  BY <1>3, <1>9, <2>1
  <2> HIDE DEF Open
  <2> QED  BY <2>2
<1>11. f[n] = 0
  <2> HIDE DEF Open
  <2> QED  BY <1>3, <1>7, <1>9 DEF tool_pairing_balanced_before
<1> HIDE DEF Rule, Open
<1> DEFINE Due(m) == \E j \in 1 .. m : Asks(log, ns[j]) /\ j + log[ns[j]].n > m /\ f[m] = j + log[ns[j]].n - m
           Good(m) == (f[m] = 0 /\ CutAt(log, ns, m)) \/ Due(m)
<1>12. Good(0)
  <2>1. f[0] = 0 /\ 1 .. 0 = {}
    BY <1>4, <1>10
  <2> QED  BY <2>1 DEF CutAt
<1>13. ASSUME NEW m \in Nat, m + 1 \in 1 .. n, Good(m) PROVE Good(m + 1)
  <2>1. PICK k : k = m + 1
    OBVIOUS
  <2>2. /\ k \in DOMAIN ns /\ k \in Nat /\ f[k] = f[m] + c(k) /\ 1 .. k = (1 .. m) \cup {k} /\ k > m
        /\ \A j \in 1 .. m : j \in DOMAIN ns /\ j \in Nat /\ j < k
    <3>1. k \in 1 .. n /\ k \in 0 .. n /\ k # 0 /\ k - 1 = m /\ k > m /\ k \in Nat
      BY <1>4, <1>13, <2>1
    <3>2. f[k] = f[m] + c(k)
      BY <1>10, <3>1
    <3>3. 1 .. k = (1 .. m) \cup {k} /\ \A j \in 1 .. m : j \in 1 .. n /\ j \in Nat /\ j < k
      BY <1>4, <1>13, <2>1
    <3> QED  BY <1>4, <3>1, <3>2, <3>3
  <2>3. \A j \in 1 .. m : Asks(log, ns[j]) /\ j + log[ns[j]].n > m => Reaches(log, ns, j, k)
    BY SMTT(20), <1>2, <2>1, <2>2 DEF Reaches
  <2>4. CASE f[m] = 0 /\ CutAt(log, ns, m)
    <3>1. \A j \in 1 .. m : Asks(log, ns[j]) => j + log[ns[j]].n <= k
      <4> TAKE j \in 1 .. m
      <4> SUFFICES ASSUME Asks(log, ns[j]) PROVE j + log[ns[j]].n <= k
        OBVIOUS
      <4>1. j + log[ns[j]].n <= m
        BY <2>4 DEF CutAt
      <4>2. j \in Nat /\ log[ns[j]].n \in Nat
        BY <1>2, <2>2
      <4> QED  BY <1>13, <2>1, <4>1, <4>2
    <3>2. CASE Tells(log, ns[k])
      <4>1. PICK j \in DOMAIN ns : Reaches(log, ns, j, k)
        BY <1>1, <2>2, <3>2 DEF Paired
      <4>2. j \in 1 .. m /\ Asks(log, ns[j]) /\ j + log[ns[j]].n >= k
        BY <1>2, <2>1, <2>2, <4>1 DEF Reaches
      <4>3. j + log[ns[j]].n <= m
        BY <2>4, <4>2 DEF CutAt
      <4> QED  BY SMTT(20), <1>2, <2>1, <2>2, <4>2, <4>3
    <3>3. CASE Asks(log, ns[k])
      <4>1. f[k] = log[ns[k]].n /\ log[ns[k]].n \in Nat
        BY <1>2, <1>5, <2>2, <2>4, <3>3
      <4>2. CASE log[ns[k]].n = 0
        <5>1. CutAt(log, ns, k)
          BY <2>2, <3>1, <4>2 DEF CutAt
        <5> QED  BY <2>1, <4>1, <4>2, <5>1
      <4>3. CASE log[ns[k]].n > 0
        <5>1. Due(k)
          BY <2>2, <3>3, <4>1, <4>3
        <5> QED  BY <2>1, <5>1
      <4> QED  BY <4>1, <4>2, <4>3
    <3>4. CASE ~Asks(log, ns[k]) /\ ~Tells(log, ns[k])
      <4>1. f[k] = 0
        BY <1>5, <2>2, <2>4, <3>4
      <4>2. CutAt(log, ns, k)
        BY <2>2, <3>1, <3>4 DEF CutAt
      <4> QED  BY <2>1, <4>1, <4>2
    <3> QED  BY <3>2, <3>3, <3>4
  <2>5. CASE Due(m)
    <3>1. PICK j \in 1 .. m : Asks(log, ns[j]) /\ j + log[ns[j]].n > m /\ f[m] = j + log[ns[j]].n - m
      BY <2>5
    <3>2. Reaches(log, ns, j, k) /\ j \in DOMAIN ns
      BY <2>2, <2>3, <3>1
    <3>3. Tells(log, ns[k]) /\ log[ns[k]].n = ns[j]
      BY <1>1, <2>2, <3>2 DEF Paired
    <3>4. PICK w : w = log[ns[j]].n
      OBVIOUS
    <3>5. w \in Nat /\ j \in Nat /\ j + w > m /\ f[m] = j + w - m
      BY <1>2, <2>2, <3>1, <3>4
    <3>6. f[k] = j + w - k
      BY <1>5, <2>1, <2>2, <3>3, <3>5
    <3>7. CASE j + w > k
      <4>1. Due(k)
        BY <2>2, <3>1, <3>4, <3>6, <3>7
      <4> QED  BY <2>1, <4>1
    <3>8. CASE j + w = k
      <4>1. f[k] = 0
        BY <2>2, <3>5, <3>6, <3>8
      <4>2. ASSUME NEW i \in 1 .. k, Asks(log, ns[i]) PROVE i + log[ns[i]].n <= k
        <5>1. i # k
          BY <3>3, <4>2 DEF Asks, Tells
        <5>2. i \in 1 .. m /\ i \in DOMAIN ns /\ i \in Nat /\ log[ns[i]].n \in Nat
          BY <1>2, <2>2, <5>1
        <5>3. CASE i + log[ns[i]].n > m
          <6>1. Reaches(log, ns, i, k)
            BY <2>3, <4>2, <5>2, <5>3
          <6>2. ns[i] = ns[j]
            BY <1>1, <2>2, <3>2, <3>3, <5>2, <6>1 DEF Paired
          <6>3. i = j
            BY <1>2, <3>2, <5>2, <6>2 DEF Distinct
          <6> QED  BY <2>2, <3>4, <3>8, <6>3
        <5>4. CASE ~(i + log[ns[i]].n > m)
          BY <2>1, <5>2, <5>4
        <5> QED  BY <5>3, <5>4
      <4>3. CutAt(log, ns, k)
        BY <4>2 DEF CutAt
      <4> QED  BY <2>1, <4>1, <4>3
    <3> QED  BY <2>1, <2>2, <3>5, <3>7, <3>8
  <2> QED  BY <1>13, <2>4, <2>5
<1> HIDE DEF Good
<1>14. Good(n)
  <2> DEFINE Bad == {m \in 0 .. n : ~Good(m)}
  <2> SUFFICES ASSUME ~Good(n) PROVE FALSE
    OBVIOUS
  <2>1. Bad \in SUBSET Nat /\ n \in Bad
    BY <1>4
  <2>2. PICK m \in Bad : \A k \in Bad : m <= k
    <3> HIDE DEF Bad
    <3> QED  BY <2>1, Least
  <2>3. m # 0
    BY <1>12, <2>2
  <2>4. m - 1 \in Nat /\ (m - 1) + 1 = m /\ m - 1 \in 0 .. n /\ m \in 1 .. n /\ ~(m <= m - 1)
    BY <1>4, <2>2, <2>3
  <2>5. Good(m - 1)
    BY <2>2, <2>4
  <2> QED  BY <1>13, <2>2, <2>4, <2>5
<1>15. CutAt(log, ns, n)
  <2>1. ~Due(n)
    <3> SUFFICES ASSUME Due(n) PROVE FALSE
      OBVIOUS
    <3>1. PICK j \in 1 .. n : j + log[ns[j]].n > n /\ f[n] = j + log[ns[j]].n - n
      OBVIOUS
    <3>2. log[ns[j]].n \in Nat /\ j \in Nat
      BY <1>2, <1>4
    <3> QED  BY <1>4, <1>11, <3>1, <3>2
  <2> HIDE DEF Due
  <2> QED  BY <1>14, <2>1 DEF Good
<1> QED  BY <1>1, <1>3, <1>15

-----------------------------------------------------------------------------
(* A log and what is appended to it.                                       *)

Appended(L, es, M) ==
  /\ L \in Seq(LogEvents) /\ es \in Seq(LogEvents) /\ M \in Seq(LogEvents)
  /\ Len(L) \in Nat /\ Len(es) \in Nat /\ Len(M) = Len(L) + Len(es)
  /\ DOMAIN L = 1 .. Len(L) /\ DOMAIN es = 1 .. Len(es) /\ DOMAIN M = 1 .. Len(L) + Len(es)
  /\ \A i \in DOMAIN L : i \in DOMAIN M /\ M[i] = L[i]
  /\ \A k \in DOMAIN es : Len(L) + k \in DOMAIN M /\ M[Len(L) + k] = es[k]

LEMMA AppendedIs ==
  ASSUME NEW L \in Seq(LogEvents), NEW es \in Seq(LogEvents), NEW M, M = L \o es
  PROVE  Appended(L, es, M)
<1>1. Len(L) \in Nat /\ Len(es) \in Nat /\ DOMAIN L = 1 .. Len(L) /\ DOMAIN es = 1 .. Len(es)
  OBVIOUS
<1>2. /\ M \in Seq(LogEvents) /\ Len(M) = Len(L) + Len(es)
      /\ \A i \in 1 .. Len(L) + Len(es) : M[i] = IF i <= Len(L) THEN L[i] ELSE es[i - Len(L)]
  BY ConcatProperties
<1>3. DOMAIN M = 1 .. Len(L) + Len(es)
  BY <1>2
<1>4. \A i \in DOMAIN L : i \in 1 .. Len(L) + Len(es) /\ i <= Len(L)
  BY <1>1
<1>5. \A k \in DOMAIN es : Len(L) + k \in 1 .. Len(L) + Len(es) /\ ~(Len(L) + k <= Len(L)) /\ Len(L) + k - Len(L) = k
  BY <1>1
<1> QED  BY <1>1, <1>2, <1>3, <1>4, <1>5 DEF Appended

(* Each place is one of the old log or of what was appended.               *)
LEMMA AppendedPlace ==
  ASSUME NEW L, NEW es, NEW M, Appended(L, es, M), NEW i \in DOMAIN M
  PROVE  \/ i \in DOMAIN L /\ M[i] = L[i]
         \/ \E k \in DOMAIN es : i = Len(L) + k /\ M[i] = es[k]
<1>1. Len(L) \in Nat /\ Len(es) \in Nat /\ DOMAIN L = 1 .. Len(L) /\ DOMAIN es = 1 .. Len(es) /\ i \in 1 .. Len(L) + Len(es)
  BY DEF Appended
<1>2. CASE i <= Len(L)
  <2>1. i \in DOMAIN L
    BY <1>1, <1>2
  <2> QED  BY <2>1 DEF Appended
<1>3. CASE ~(i <= Len(L))
  <2>1. PICK k : k = i - Len(L)
    OBVIOUS
  <2>2. k \in DOMAIN es /\ i = Len(L) + k
    BY <1>1, <1>3, <2>1
  <2>3. M[i] = es[k]
    BY <2>2 DEF Appended
  <2> QED  BY <2>2, <2>3
<1> QED  BY <1>2, <1>3

LEMMA OpenKept ==
  ASSUME NEW L, NEW es, NEW M, Appended(L, es, M), NEW s, NEW e, IsOpen(L, s, e),
         \A k \in DOMAIN es : es[k].ty # e
  PROVE  IsOpen(M, s, e)
<1>1. PICK p \in DOMAIN L : L[p].ty = s /\ \A q \in DOMAIN L : q > p => L[q].ty # e
  BY DEF IsOpen
<1>2. p \in DOMAIN M /\ M[p].ty = s
  BY <1>1 DEF Appended
<1>3. \A q \in DOMAIN M : q > p => M[q].ty # e
  BY <1>1, AppendedPlace
<1> QED  BY <1>2, <1>3 DEF IsOpen

LEMMA ClosedKept ==
  ASSUME NEW L, NEW es, NEW M, Appended(L, es, M), NEW s, NEW e, ~IsOpen(L, s, e),
         \A k \in DOMAIN es : es[k].ty # s
  PROVE  ~IsOpen(M, s, e)
<1> SUFFICES ASSUME NEW p \in DOMAIN M, M[p].ty = s, \A q \in DOMAIN M : q > p => M[q].ty # e
             PROVE  FALSE
  BY DEF IsOpen
<1>1. p \in DOMAIN L /\ L[p].ty = s
  BY AppendedPlace
<1>2. \A q \in DOMAIN L : q > p => L[q].ty # e
  BY DEF Appended
<1> QED  BY <1>1, <1>2 DEF IsOpen

LEMMA Begins ==
  ASSUME NEW L, NEW es, NEW M, Appended(L, es, M), NEW s, NEW e, NEW c \in DOMAIN es, es[c].ty = s,
         \A k \in DOMAIN es : k > c => es[k].ty # e
  PROVE  IsOpen(M, s, e)
<1>1. Len(L) \in Nat /\ DOMAIN L = 1 .. Len(L) /\ c \in Nat /\ \A k \in DOMAIN es : k \in Nat
  BY DEF Appended
<1>2. Len(L) + c \in DOMAIN M /\ M[Len(L) + c].ty = s
  BY DEF Appended
<1>3. ASSUME NEW q \in DOMAIN M, q > Len(L) + c PROVE M[q].ty # e
  <2>1. q \notin DOMAIN L
    BY <1>1, <1>3
  <2>2. PICK k \in DOMAIN es : q = Len(L) + k /\ M[q] = es[k]
    BY <2>1, AppendedPlace
  <2>3. k > c
    BY <1>1, <1>3, <2>2
  <2> QED  BY <2>2, <2>3
<1> QED  BY <1>2, <1>3 DEF IsOpen

LEMMA Closes ==
  ASSUME NEW L, NEW es, NEW M, Appended(L, es, M), NEW s, NEW e, s # e, NEW c \in DOMAIN es, es[c].ty = e,
         \A k \in DOMAIN es : k > c => es[k].ty # s
  PROVE  ~IsOpen(M, s, e)
<1> SUFFICES ASSUME NEW p \in DOMAIN M, M[p].ty = s, \A q \in DOMAIN M : q > p => M[q].ty # e
             PROVE  FALSE
  BY DEF IsOpen
<1>1. Len(L) \in Nat /\ DOMAIN L = 1 .. Len(L) /\ c \in Nat /\ c >= 1 /\ \A k \in DOMAIN es : k \in Nat
  BY DEF Appended
<1>2. Len(L) + c \in DOMAIN M /\ M[Len(L) + c].ty = e
  BY DEF Appended
<1>3. ~(Len(L) + c > p) /\ Len(L) + c # p /\ p \in Nat
  <2>1. p \in Nat
    BY DEF Appended
  <2> QED  BY <1>2, <2>1
<1>4. p \notin DOMAIN L
  BY <1>1, <1>3
<1>5. PICK k \in DOMAIN es : p = Len(L) + k /\ M[p] = es[k]
  BY <1>4, AppendedPlace
<1>6. k > c
  BY <1>1, <1>3, <1>5
<1> QED  BY <1>5, <1>6

LEMMA FreshKept ==
  ASSUME NEW L, NEW es, NEW M, Appended(L, es, M), NEW i, Fresh(L, i),
         \A k \in DOMAIN es : es[k].ty # "context/snapshot"
  PROVE  Fresh(M, i)
BY AppendedPlace DEF Fresh

LEMMA ResultsKept ==
  ASSUME NEW L, NEW es, NEW M, Appended(L, es, M), ResultsOf(L),
         \A k \in DOMAIN es : es[k].ty = "tool/result" =>
            /\ es[k].n \in DOMAIN L
            /\ IF k = 1 THEN L[Len(L)].ty # "compaction/summary" ELSE es[k - 1].ty # "compaction/summary"
  PROVE  ResultsOf(M)
<1>1. Len(L) \in Nat /\ Len(es) \in Nat /\ DOMAIN L = 1 .. Len(L) /\ DOMAIN es = 1 .. Len(es)
  BY DEF Appended
<1> SUFFICES ASSUME NEW i \in DOMAIN M, Tells(M, i)
             PROVE  M[i].n \in 1 .. i - 1 /\ M[i - 1].ty # "compaction/summary"
  BY DEF ResultsOf
<1>2. CASE i \in DOMAIN L /\ M[i] = L[i]
  <2>1. L[i].n \in 1 .. i - 1 /\ L[i - 1].ty # "compaction/summary"
    BY <1>2 DEF ResultsOf, Tells
  <2>2. i - 1 \in DOMAIN L
    BY <1>1, <1>2, <2>1
  <2>3. M[i - 1] = L[i - 1]
    BY <2>2 DEF Appended
  <2> QED  BY <1>2, <2>1, <2>3
<1>3. CASE \E k \in DOMAIN es : i = Len(L) + k /\ M[i] = es[k]
  <2>1. PICK k \in DOMAIN es : i = Len(L) + k /\ M[i] = es[k]
    BY <1>3
  <2>2. /\ es[k].n \in DOMAIN L
        /\ IF k = 1 THEN L[Len(L)].ty # "compaction/summary" ELSE es[k - 1].ty # "compaction/summary"
    BY <2>1 DEF Tells
  <2>3. k \in Nat /\ k >= 1 /\ es[k].n \in 1 .. i - 1
    BY <1>1, <2>1, <2>2
  <2>4. CASE k = 1
    <3>1. i - 1 = Len(L) /\ Len(L) \in DOMAIN L
      BY <1>1, <2>1, <2>2, <2>4
    <3>2. M[i - 1] = L[Len(L)]
      BY <3>1 DEF Appended
    <3> QED  BY <2>1, <2>2, <2>3, <2>4, <3>2
  <2>5. CASE k # 1
    <3>1. i - 1 = Len(L) + (k - 1) /\ k - 1 \in DOMAIN es
      BY <1>1, <2>1, <2>3, <2>5
    <3>2. M[i - 1] = es[k - 1]
      BY <3>1 DEF Appended
    <3> QED  BY <2>1, <2>2, <2>3, <2>5, <3>2
  <2> QED  BY <2>4, <2>5
<1> QED  BY <1>2, <1>3, AppendedPlace

LEMMA LatestOpen ==
  ASSUME log \in Seq(LogEvents), NEW s, NEW e, s # e
  PROVE  Latest({s}) > Latest({e}) <=> IsOpen(log, s, e)
<1>1. PICK x : x = Latest({s})
  OBVIOUS
<1>2. PICK y : y = Latest({e})
  OBVIOUS
<1>3. /\ x \in Nat /\ y \in Nat
      /\ x # 0 => x \in DOMAIN log /\ log[x].ty \in {s}
      /\ y # 0 => y \in DOMAIN log /\ log[y].ty \in {e}
      /\ \A i \in DOMAIN log : log[i].ty \in {s} => i <= x
      /\ \A i \in DOMAIN log : log[i].ty \in {e} => i <= y
  BY <1>1, <1>2, LatestIs
<1>4. \A i \in DOMAIN log : i \in Nat /\ i >= 1
  OBVIOUS
<1>5. ASSUME x > y PROVE IsOpen(log, s, e)
  <2>1. x \in DOMAIN log /\ log[x].ty = s
    BY <1>3, <1>5
  <2>2. \A q \in DOMAIN log : q > x => log[q].ty # e
    BY <1>3, <1>4, <1>5
  <2> QED  BY <2>1, <2>2 DEF IsOpen
<1>6. ASSUME IsOpen(log, s, e) PROVE x > y
  <2>1. PICK p \in DOMAIN log : log[p].ty = s /\ \A q \in DOMAIN log : q > p => log[q].ty # e
    BY <1>6 DEF IsOpen
  <2>2. p <= x /\ p \in Nat /\ p >= 1
    BY <1>3, <1>4, <2>1
  <2>3. y = 0 \/ (~(y > p) /\ y # p)
    BY <1>3, <2>1
  <2> QED  BY <1>3, <2>2, <2>3
<1> QED  BY <1>1, <1>2, <1>5, <1>6

-----------------------------------------------------------------------------
(* Where a batch that replaces nothing puts its messages.                  *)

(* ms is ns with c places more: those of the log behind b.                 *)
Extended(ns, c, b, ms) ==
  /\ ms \in Seq(Nat) /\ Len(ms) = Len(ns) + c /\ DOMAIN ms = 1 .. Len(ns) + c
  /\ \A k \in DOMAIN ns : ms[k] = ns[k]
  /\ \A k \in 1 .. c : ms[Len(ns) + k] = b + k

LEMMA ExtendedMore ==
  ASSUME NEW ns \in Seq(Nat), NEW c \in Nat, NEW b \in Nat, NEW ms, Extended(ns, c, b, ms),
         NEW i, i = b + c + 1, NEW ks, ks = Append(ms, i)
  PROVE  Extended(ns, c + 1, b, ks)
<1>1. /\ ms \in Seq(Nat) /\ Len(ms) = Len(ns) + c /\ DOMAIN ms = 1 .. Len(ns) + c
      /\ Len(ns) \in Nat /\ DOMAIN ns = 1 .. Len(ns) /\ i \in Nat
  BY DEF Extended
<1>2. /\ ks \in Seq(Nat) /\ Len(ks) = Len(ms) + 1 /\ ks[Len(ms) + 1] = i
      /\ \A k \in 1 .. Len(ms) : ks[k] = ms[k]
  BY <1>1, AppendProperties
<1>3. ks \in Seq(Nat) /\ Len(ks) = Len(ns) + (c + 1) /\ DOMAIN ks = 1 .. Len(ns) + (c + 1)
  BY <1>1, <1>2
<1>4. \A k \in DOMAIN ns : ks[k] = ns[k]
  <2> TAKE k \in DOMAIN ns
  <2>1. k \in 1 .. Len(ms)
    BY <1>1
  <2> QED  BY <1>2, <2>1 DEF Extended
<1>5. \A k \in 1 .. c + 1 : ks[Len(ns) + k] = b + k
  <2> TAKE k \in 1 .. c + 1
  <2>1. CASE k = c + 1
    <3>1. Len(ns) + k = Len(ms) + 1 /\ b + k = i
      BY <1>1, <2>1
    <3> QED  BY <1>2, <3>1
  <2>2. CASE k # c + 1
    <3>1. k \in 1 .. c /\ Len(ns) + k \in 1 .. Len(ms)
      BY <1>1, <2>2
    <3>2. ms[Len(ns) + k] = b + k
      BY <3>1 DEF Extended
    <3> QED  BY <1>2, <3>1, <3>2
  <2> QED  BY <2>1, <2>2
<1> QED  BY <1>3, <1>4, <1>5 DEF Extended

LEMMA SaidIs ==
  ASSUME NEW L \in Seq(LogEvents), NEW s \in Surfaces, NEW es \in Seq(LogEvents),
         \A k \in DOMAIN es : ~IsRecord(es[k]),
         NEW a \in Nat, NEW c \in Nat, a + c <= Len(es),
         \A k \in DOMAIN es : IsSurface(es[k]) <=> k \in a + 1 .. a + c,
         a > 0 \/ c = 0 \/ s.claim = {}, NEW t, t = SurfaceAfter(L, s, es)
  PROVE  Extended(s.nodes, c, Len(L) + a, t.nodes)
<1>1. PICK n : n = Len(es)
  OBVIOUS
<1>2. n \in Nat /\ DOMAIN es = 1 .. n /\ Len(L) \in Nat /\ a + c <= n
  BY <1>1
<1>3. PICK f : /\ t = f[n] /\ f[0] = s
               /\ \A k \in 1 .. n : f[k] = Place(f[k - 1], Len(L) + k, es[k])
  BY SMTT(20), <1>1, FoldIs
<1>4. PICK ns : ns = s.nodes
  OBVIOUS
<1>5. ns \in Seq(Nat) /\ Len(ns) \in Nat /\ DOMAIN ns = 1 .. Len(ns)
  BY <1>4 DEF Surfaces
<1>6. PICK b \in Nat : b = Len(L) + a
  BY <1>2
<1> DEFINE cnt(k) == IF k <= a THEN 0 ELSE IF k <= a + c THEN k - a ELSE c
           Good(k) == /\ f[k] \in Surfaces /\ (k > 0 => f[k].claim = {})
                      /\ Extended(ns, cnt(k), b, f[k].nodes)
<1>7. Good(0)
  <2>1. cnt(0) = 0 /\ 1 .. 0 = {} /\ Len(ns) + 0 = Len(ns)
    BY <1>5
  <2>2. Extended(ns, 0, b, ns)
    BY <1>5, <2>1 DEF Extended
  <2> QED  BY <1>3, <1>4, <2>1, <2>2
<1>8. ASSUME NEW m \in Nat, m + 1 \in 1 .. n, Good(m) PROVE Good(m + 1)
  <2>1. PICK k : k = m + 1
    OBVIOUS
  <2>2. PICK e : e = es[k]
    OBVIOUS
  <2>3. PICK g : g = f[m]
    OBVIOUS
  <2>4. PICK h : h = f[k]
    OBVIOUS
  <2>5. k \in DOMAIN es /\ k \in 1 .. n /\ k - 1 = m /\ k \in Nat /\ k > 0
    BY <1>2, <1>8, <2>1
  <2>6. /\ h = Place(g, Len(L) + k, e) /\ ~IsRecord(e) /\ e \in LogEvents
        /\ IsSurface(e) <=> k \in a + 1 .. a + c
    BY <1>3, <2>2, <2>3, <2>4, <2>5
  <2>7. g \in Surfaces /\ (m > 0 => g.claim = {}) /\ Extended(ns, cnt(m), b, g.nodes)
    BY <1>8, <2>3
  <2>8. g.nodes \in Seq(Nat)
    BY <2>7 DEF Surfaces
  <2> HIDE DEF cnt
  <2>9. CASE ~IsSurface(e)
    <3>1. h = [g EXCEPT !.claim = {}]
      BY <2>6, <2>9 DEF Place
    <3>2. h \in Surfaces /\ h.claim = {} /\ h.nodes = g.nodes
      BY <2>7, <3>1 DEF Surfaces
    <3>3. cnt(k) = cnt(m)
      <4>1. ~(k \in a + 1 .. a + c)
        BY <2>6, <2>9
      <4> QED  BY <1>2, <1>8, <2>1, <4>1 DEF cnt
    <3>4. Good(k)
      BY <2>4, <2>7, <3>2, <3>3
    <3> QED  BY <2>1, <3>4
  <2>10. CASE IsSurface(e)
    <3>1. k \in a + 1 .. a + c
      BY <2>6, <2>10
    <3>2. g.claim = {}
      <4>1. CASE m > 0
        BY <2>7, <4>1
      <4>2. CASE m = 0
        <5>1. a = 0 /\ c # 0
          BY <2>1, <3>1, <4>2
        <5>2. g = s
          BY <1>3, <2>3, <4>2
        <5> QED  BY <5>1, <5>2
      <4> QED  BY <1>8, <4>1, <4>2
    <3>3. PICK i : i = Len(L) + k
      OBVIOUS
    <3>4. i \in Nat
      BY <1>2, <2>5, <3>3
    <3>5. h = [nodes |-> Append(g.nodes, i), claim |-> {}]
      <4>1. h = [nodes |-> Replaced(g.nodes, {}, i), claim |-> {}]
        BY <2>6, <2>10, <3>2, <3>3 DEF Place
      <4> QED  BY <2>8, <3>4, <4>1, NothingReplaced
    <3>6. PICK ks : ks = Append(g.nodes, i)
      OBVIOUS
    <3>7. ks \in Seq(Nat)
      BY <2>8, <3>4, <3>6
    <3>8. h \in Surfaces /\ h.claim = {} /\ h.nodes = ks
      BY <3>5, <3>6, <3>7 DEF Surfaces
    <3>9. cnt(m) \in Nat /\ cnt(k) = cnt(m) + 1 /\ i = b + cnt(m) + 1
      <4>1. m >= a /\ m <= a + c /\ m - a \in Nat /\ k <= a + c /\ ~(k <= a)
        BY <1>8, <2>1, <3>1
      <4>2. cnt(m) = m - a
        <5>1. CASE m <= a
          <6>1. m = a
            BY <1>8, <4>1, <5>1
          <6> QED  BY <1>8, <6>1 DEF cnt
        <5>2. CASE ~(m <= a)
          BY <4>1, <5>2 DEF cnt
        <5> QED  BY <5>1, <5>2
      <4>3. cnt(k) = k - a
        BY <4>1 DEF cnt
      <4> QED  BY <1>2, <1>6, <1>8, <2>1, <3>3, <4>1, <4>2, <4>3
    <3>10. Extended(ns, cnt(k), b, ks)
      <4>1. Extended(ns, cnt(m) + 1, b, ks)
        BY <1>5, <2>7, <3>6, <3>9, ExtendedMore
      <4> QED  BY <3>9, <4>1
    <3>11. Good(k)
      BY <2>4, <3>8, <3>10
    <3> QED  BY <2>1, <3>11
  <2> QED  BY <2>9, <2>10
<1>9. Good(n)
  <2> DEFINE Bad == {m \in 0 .. n : ~Good(m)}
  <2> HIDE DEF Good
  <2> SUFFICES ASSUME ~Good(n) PROVE FALSE
    OBVIOUS
  <2>1. Bad \in SUBSET Nat /\ n \in Bad
    BY <1>2
  <2>2. PICK m \in Bad : \A k \in Bad : m <= k
    <3> HIDE DEF Bad
    <3> QED  BY <2>1, Least
  <2>3. m # 0
    BY <1>7, <2>2
  <2>4. m - 1 \in Nat /\ (m - 1) + 1 = m /\ m - 1 \in 0 .. n /\ m \in 1 .. n /\ ~(m <= m - 1)
    BY <1>2, <2>2, <2>3
  <2>5. Good(m - 1)
    BY <2>2, <2>4
  <2> QED  BY <1>8, <2>2, <2>4, <2>5
<1>10. cnt(n) = c
  BY <1>2
<1> HIDE DEF cnt
<1> QED  BY <1>3, <1>4, <1>6, <1>9, <1>10

-----------------------------------------------------------------------------
(* What pairs calls and results, as the nodes change.                      *)

Seen(L, ns) ==
  /\ ns \in Seq(Nat) /\ DOMAIN ns = 1 .. Len(ns) /\ Len(ns) \in Nat /\ Distinct(ns)
  /\ \A k \in DOMAIN ns : k \in Nat /\ ns[k] \in DOMAIN L /\ L[ns[k]].n \in Nat
Agrees(L, M) == \A i \in DOMAIN L : M[i] = L[i]

LEMMA PairedKept ==
  ASSUME NEW L, NEW M, NEW ns, Seen(L, ns), Agrees(L, M), Paired(L, ns)
  PROVE  Paired(M, ns) /\ \A m \in 0 .. Len(ns) : CutAt(L, ns, m) => CutAt(M, ns, m)
<1>1. \A k \in DOMAIN ns : M[ns[k]] = L[ns[k]]
  BY DEF Seen, Agrees
<1>2. \A j, k \in DOMAIN ns : Reaches(M, ns, j, k) <=> Reaches(L, ns, j, k)
  BY <1>1 DEF Reaches, Asks
<1>3. Paired(M, ns)
  BY <1>1, <1>2 DEF Paired, Asks, Tells
<1>4. \A m \in 0 .. Len(ns) : \A j \in 1 .. m : j \in DOMAIN ns
  BY DEF Seen
<1>5. \A m \in 0 .. Len(ns) : CutAt(L, ns, m) => CutAt(M, ns, m)
  BY <1>1, <1>4 DEF CutAt, Asks
<1> QED  BY <1>3, <1>5

LEMMA ExtendedPlaces ==
  ASSUME NEW L, NEW M, NEW ns, Seen(L, ns), Agrees(L, M), NEW c \in Nat, NEW b \in Nat, NEW ms,
         Extended(ns, c, b, ms)
  PROVE  /\ \A k \in DOMAIN ns : k \in DOMAIN ms /\ ms[k] = ns[k] /\ M[ms[k]] = L[ns[k]] /\ k <= Len(ns)
         /\ \A k \in DOMAIN ms : k \in DOMAIN ns \/ \E x \in 1 .. c : k = Len(ns) + x /\ ms[k] = b + x
         /\ Len(ms) = Len(ns) + c /\ \A k \in DOMAIN ms : k \in 1 .. Len(ms) /\ k \in Nat
<1>1. Len(ns) \in Nat /\ DOMAIN ns = 1 .. Len(ns) /\ DOMAIN ms = 1 .. Len(ns) + c /\ Len(ms) = Len(ns) + c
  BY DEF Seen, Extended
<1>2. \A k \in DOMAIN ns : k \in DOMAIN ms /\ ms[k] = ns[k] /\ M[ms[k]] = L[ns[k]] /\ k <= Len(ns)
  <2>1. \A k \in DOMAIN ns : k \in DOMAIN ms /\ k <= Len(ns)
    BY <1>1
  <2> QED  BY <2>1 DEF Seen, Agrees, Extended
<1>3. \A k \in DOMAIN ms : k \in DOMAIN ns \/ \E x \in 1 .. c : k = Len(ns) + x /\ ms[k] = b + x
  <2> SUFFICES ASSUME NEW k \in DOMAIN ms, k \notin DOMAIN ns
               PROVE  \E x \in 1 .. c : k = Len(ns) + x /\ ms[k] = b + x
    OBVIOUS
  <2>1. PICK x : x = k - Len(ns)
    OBVIOUS
  <2>2. x \in 1 .. c /\ k = Len(ns) + x
    BY <1>1, <2>1
  <2> QED  BY <2>2 DEF Extended
<1> QED  BY <1>1, <1>2, <1>3

LEMMA UsersAppended ==
  ASSUME NEW L, NEW M, NEW ns, Seen(L, ns), Agrees(L, M), Paired(L, ns), Whole(L, ns),
         NEW c \in Nat, NEW b \in Nat, NEW ms, Extended(ns, c, b, ms),
         \A x \in 1 .. c : M[b + x].ty = "user/message"
  PROVE  Paired(M, ms) /\ Whole(M, ms)
<1>1. /\ \A k \in DOMAIN ns : k \in DOMAIN ms /\ ms[k] = ns[k] /\ M[ms[k]] = L[ns[k]] /\ k <= Len(ns)
      /\ \A k \in DOMAIN ms : k \in DOMAIN ns \/ \E x \in 1 .. c : k = Len(ns) + x /\ ms[k] = b + x
      /\ Len(ms) = Len(ns) + c /\ \A k \in DOMAIN ms : k \in 1 .. Len(ms) /\ k \in Nat
  BY ExtendedPlaces
<1>2. \A k \in DOMAIN ms : Asks(M, ms[k]) \/ Tells(M, ms[k]) => k \in DOMAIN ns
  BY <1>1 DEF Asks, Tells
<1>3. \A k \in DOMAIN ns : k \in Nat /\ L[ns[k]].n \in Nat /\ (Asks(L, ns[k]) => k + L[ns[k]].n <= Len(ns))
  BY DEF Seen, Whole, CutAt
<1>4. Len(ns) \in Nat /\ DOMAIN ns = 1 .. Len(ns)
  BY DEF Seen
<1>5. ASSUME NEW j \in DOMAIN ms, NEW k \in DOMAIN ms, Reaches(M, ms, j, k)
      PROVE  j \in DOMAIN ns /\ k \in DOMAIN ns /\ Reaches(L, ns, j, k)
  <2>1. j \in DOMAIN ns /\ Asks(L, ns[j]) /\ j < k /\ k <= j + L[ns[j]].n
    BY <1>1, <1>2, <1>5 DEF Reaches, Asks
  <2>2. j + L[ns[j]].n <= Len(ns) /\ k \in Nat /\ k >= 1 /\ L[ns[j]].n \in Nat /\ j \in Nat
    BY <1>1, <1>3, <2>1
  <2>3. k \in DOMAIN ns
    BY <1>4, <2>1, <2>2
  <2> QED  BY <2>1, <2>3 DEF Reaches
<1>6. \A j, k \in DOMAIN ns : Reaches(L, ns, j, k) => Reaches(M, ms, j, k)
  BY <1>1 DEF Reaches, Asks
<1>7. Paired(M, ms)
  BY <1>1, <1>2, <1>5, <1>6 DEF Paired, Asks, Tells
<1>8. ASSUME NEW j \in 1 .. Len(ms), Asks(M, ms[j]) PROVE j + M[ms[j]].n <= Len(ms)
  <2>1. j \in DOMAIN ms
    BY DEF Extended
  <2>2. j \in DOMAIN ns /\ M[ms[j]] = L[ns[j]] /\ Asks(L, ns[j])
    BY <1>1, <1>2, <1>8, <2>1 DEF Asks
  <2> QED  BY <1>1, <1>3, <1>4, <2>2
<1>9. Whole(M, ms)
  BY <1>8 DEF Whole, CutAt
<1> QED  BY <1>7, <1>9

LEMMA AnswerAppended ==
  ASSUME NEW L, NEW M, NEW ns, Seen(L, ns), Agrees(L, M), Paired(L, ns), Whole(L, ns),
         NEW b \in Nat, NEW ms, Extended(ns, 1, b, ms), Asks(M, b + 1),
         M[b + 1].n \in Nat, M[b + 1].n > 0 => M[b + 1].size > 0
  PROVE  /\ Paired(M, ms) /\ Len(ms) = Len(ns) + 1 /\ ms[Len(ms)] = b + 1 /\ Len(ms) \in DOMAIN ms
         /\ \A j \in DOMAIN ms : Asks(M, ms[j]) => j = Len(ms) \/ j + M[ms[j]].n <= Len(ms)
<1>1. /\ \A k \in DOMAIN ns : k \in DOMAIN ms /\ ms[k] = ns[k] /\ M[ms[k]] = L[ns[k]] /\ k <= Len(ns)
      /\ \A k \in DOMAIN ms : k \in DOMAIN ns \/ \E x \in 1 .. 1 : k = Len(ns) + x /\ ms[k] = b + x
      /\ Len(ms) = Len(ns) + 1 /\ \A k \in DOMAIN ms : k \in 1 .. Len(ms) /\ k \in Nat
  BY ExtendedPlaces
<1>2. Len(ns) \in Nat /\ DOMAIN ns = 1 .. Len(ns) /\ Len(ns) + 1 \in DOMAIN ms /\ ms[Len(ns) + 1] = b + 1
  <2>1. Len(ns) \in Nat /\ DOMAIN ns = 1 .. Len(ns) /\ DOMAIN ms = 1 .. Len(ns) + 1 /\ 1 \in 1 .. 1
    BY DEF Seen, Extended
  <2>2. ms[Len(ns) + 1] = b + 1
    BY <2>1 DEF Extended
  <2> QED  BY <2>1, <2>2
<1>3. \A k \in DOMAIN ms : k \in DOMAIN ns \/ k = Len(ns) + 1
  BY <1>1
<1>4. \A k \in DOMAIN ns : k \in Nat /\ L[ns[k]].n \in Nat /\ (Asks(L, ns[k]) => k + L[ns[k]].n <= Len(ns))
  BY <1>2 DEF Seen, Whole, CutAt
<1>5. ASSUME NEW j \in DOMAIN ms, NEW k \in DOMAIN ms, Reaches(M, ms, j, k)
      PROVE  j \in DOMAIN ns /\ k \in DOMAIN ns /\ Reaches(L, ns, j, k)
  <2>1. j < k /\ j \in Nat /\ k \in Nat /\ k \in 1 .. Len(ns) + 1
    BY <1>1, <1>5 DEF Reaches
  <2>2. j \in DOMAIN ns
    BY <1>2, <1>3, <2>1
  <2>3. Asks(L, ns[j]) /\ k <= j + L[ns[j]].n
    BY <1>1, <1>5, <2>2 DEF Reaches, Asks
  <2>4. j + L[ns[j]].n <= Len(ns) /\ L[ns[j]].n \in Nat
    BY <1>4, <2>2, <2>3
  <2>5. k \in DOMAIN ns
    BY <1>2, <2>1, <2>3, <2>4
  <2> QED  BY <2>1, <2>2, <2>3, <2>5 DEF Reaches
<1>6. \A j, k \in DOMAIN ns : Reaches(L, ns, j, k) => Reaches(M, ms, j, k)
  BY <1>1 DEF Reaches, Asks
<1>7. ~Tells(M, ms[Len(ns) + 1])
  BY <1>2 DEF Asks, Tells
<1>8. Paired(M, ms)
  <2>1. \A j, k \in DOMAIN ms : Reaches(M, ms, j, k) => Tells(M, ms[k]) /\ M[ms[k]].n = ms[j]
    BY <1>1, <1>5 DEF Paired, Tells
  <2>2. \A k \in DOMAIN ms : Tells(M, ms[k]) => \E j \in DOMAIN ms : Reaches(M, ms, j, k)
    <3> SUFFICES ASSUME NEW k \in DOMAIN ms, Tells(M, ms[k]) PROVE \E j \in DOMAIN ms : Reaches(M, ms, j, k)
      OBVIOUS
    <3>1. k \in DOMAIN ns /\ Tells(L, ns[k])
      BY <1>1, <1>3, <1>7 DEF Tells
    <3>2. PICK j \in DOMAIN ns : Reaches(L, ns, j, k)
      BY <3>1 DEF Paired
    <3> QED  BY <1>1, <1>6, <3>1, <3>2
  <2>3. \A k \in DOMAIN ms : Asks(M, ms[k]) /\ M[ms[k]].n > 0 => M[ms[k]].size > 0
    BY <1>1, <1>2, <1>3 DEF Paired, Asks
  <2> QED  BY <2>1, <2>2, <2>3 DEF Paired
<1>9. \A j \in DOMAIN ms : Asks(M, ms[j]) => j = Len(ms) \/ j + M[ms[j]].n <= Len(ms)
  <2> SUFFICES ASSUME NEW j \in DOMAIN ms, Asks(M, ms[j]), j # Len(ms) PROVE j + M[ms[j]].n <= Len(ms)
    OBVIOUS
  <2>1. j \in DOMAIN ns /\ Asks(L, ns[j]) /\ M[ms[j]] = L[ns[j]]
    BY <1>1, <1>3 DEF Asks
  <2> QED  BY <1>1, <1>2, <1>4, <2>1
<1> QED  BY <1>1, <1>2, <1>8, <1>9

(* Results of the answer at k, no more than it still asks for.             *)
LEMMA ResultsAppended ==
  ASSUME NEW L, NEW M, NEW ns, Seen(L, ns), Agrees(L, M), Paired(L, ns), NEW k \in DOMAIN ns,
         Asks(L, ns[k]), \A j \in DOMAIN ns : Asks(L, ns[j]) => j = k \/ j + L[ns[j]].n <= Len(ns),
         NEW c \in Nat, NEW b \in Nat, NEW ms, Extended(ns, c, b, ms), Len(ns) + c <= k + L[ns[k]].n,
         \A x \in 1 .. c : Tells(M, b + x) /\ M[b + x].n = ns[k]
  PROVE  /\ Paired(M, ms)
         /\ \A j \in DOMAIN ms : Asks(M, ms[j]) => j = k \/ j + M[ms[j]].n <= Len(ms)
<1>1. /\ \A i \in DOMAIN ns : i \in DOMAIN ms /\ ms[i] = ns[i] /\ M[ms[i]] = L[ns[i]] /\ i <= Len(ns)
      /\ \A i \in DOMAIN ms : i \in DOMAIN ns \/ \E x \in 1 .. c : i = Len(ns) + x /\ ms[i] = b + x
      /\ Len(ms) = Len(ns) + c /\ \A i \in DOMAIN ms : i \in 1 .. Len(ms) /\ i \in Nat
  BY ExtendedPlaces
<1>2. \A i \in DOMAIN ns : i \in Nat /\ L[ns[i]].n \in Nat
  BY DEF Seen
<1>3. Len(ns) \in Nat /\ DOMAIN ns = 1 .. Len(ns)
  BY DEF Seen
<1>4. \A i \in DOMAIN ms : i \notin DOMAIN ns => Tells(M, ms[i]) /\ M[ms[i]].n = ns[k] /\ ~Asks(M, ms[i])
  <2> SUFFICES ASSUME NEW i \in DOMAIN ms, i \notin DOMAIN ns
               PROVE  Tells(M, ms[i]) /\ M[ms[i]].n = ns[k] /\ ~Asks(M, ms[i])
    OBVIOUS
  <2>1. PICK x \in 1 .. c : ms[i] = b + x
    BY <1>1
  <2>2. Tells(M, ms[i]) /\ M[ms[i]].n = ns[k]
    BY <2>1
  <2> QED  BY <2>2 DEF Asks, Tells
<1>5. \A j, i \in DOMAIN ns : Reaches(L, ns, j, i) <=> Reaches(M, ms, j, i)
  BY <1>1 DEF Reaches, Asks
<1>6. ASSUME NEW j \in DOMAIN ms, NEW i \in DOMAIN ms, Reaches(M, ms, j, i)
      PROVE  Tells(M, ms[i]) /\ M[ms[i]].n = ms[j]
  <2>1. j \in DOMAIN ns /\ Asks(L, ns[j]) /\ j < i /\ i <= j + L[ns[j]].n
    BY <1>1, <1>4, <1>6 DEF Reaches, Asks
  <2>2. CASE i \in DOMAIN ns
    <3>1. Tells(L, ns[i]) /\ L[ns[i]].n = ns[j]
      BY <1>5, <1>6, <2>1, <2>2 DEF Paired
    <3> QED  BY <1>1, <2>1, <2>2, <3>1 DEF Tells
  <2>3. CASE i \notin DOMAIN ns
    <3>1. j = k
      <4>1. ~(i <= Len(ns)) /\ i \in Nat
        BY <1>1, <1>3, <2>3
      <4> QED  BY <1>2, <1>3, <2>1, <4>1
    <3> QED  BY <1>1, <1>4, <2>3, <3>1
  <2> QED  BY <2>2, <2>3
<1>7. ASSUME NEW i \in DOMAIN ms, Tells(M, ms[i]) PROVE \E j \in DOMAIN ms : Reaches(M, ms, j, i)
  <2>1. CASE i \in DOMAIN ns
    <3>1. Tells(L, ns[i])
      BY <1>1, <1>7, <2>1 DEF Tells
    <3>2. PICK j \in DOMAIN ns : Reaches(L, ns, j, i)
      BY <2>1, <3>1 DEF Paired
    <3> QED  BY <1>1, <1>5, <2>1, <3>2
  <2>2. CASE i \notin DOMAIN ns
    <3>1. i \in 1 .. Len(ns) + c /\ ~(i <= Len(ns))
      BY <1>1, <1>3, <2>2
    <3>2. k < i /\ i <= k + L[ns[k]].n
      BY <1>2, <1>3, <3>1
    <3>3. Reaches(M, ms, k, i)
      BY <1>1, <3>2 DEF Reaches, Asks
    <3> QED  BY <1>1, <3>3
  <2> QED  BY <2>1, <2>2
<1>8. \A i \in DOMAIN ms : Asks(M, ms[i]) /\ M[ms[i]].n > 0 => M[ms[i]].size > 0
  BY <1>1, <1>4 DEF Paired, Asks
<1>9. \A j \in DOMAIN ms : Asks(M, ms[j]) => j = k \/ j + M[ms[j]].n <= Len(ms)
  <2> SUFFICES ASSUME NEW j \in DOMAIN ms, Asks(M, ms[j]), j # k PROVE j + M[ms[j]].n <= Len(ms)
    OBVIOUS
  <2>1. j \in DOMAIN ns /\ Asks(L, ns[j]) /\ M[ms[j]] = L[ns[j]]
    BY <1>1, <1>4 DEF Asks
  <2> QED  BY <1>1, <1>2, <1>3, <2>1
<1> QED  BY <1>6, <1>7, <1>8, <1>9 DEF Paired

(* A result in the place of one result: the pairs are the same.            *)
LEMMA OneReplaced ==
  ASSUME NEW L, NEW M, NEW ns, Seen(L, ns), Agrees(L, M), Paired(L, ns), Whole(L, ns),
         NEW a \in DOMAIN ns, NEW i, NEW ms, RunGone(ns, a, a, i, ms),
         Tells(L, ns[a]), Tells(M, i), M[i].n = L[ns[a]].n
  PROVE  /\ Paired(M, ms) /\ Whole(M, ms) /\ Len(ms) = Len(ns) /\ DOMAIN ms = DOMAIN ns
         /\ ms[a] = i /\ \A k \in DOMAIN ns : k # a => ms[k] = ns[k]
<1>1. Len(ns) \in Nat /\ DOMAIN ns = 1 .. Len(ns) /\ a \in Nat /\ \A k \in DOMAIN ns : k \in Nat /\ L[ns[k]].n \in Nat
  BY DEF Seen
<1>2. /\ ms \in Seq(Nat) /\ Len(ms) = Len(ns) - (a - a) /\ ms[a] = i
      /\ \A k \in 1 .. a - 1 : ms[k] = ns[k]
      /\ \A k \in a + 1 .. Len(ns) - (a - a) : ms[k] = ns[k + (a - a)]
  BY DEF RunGone
<1>3. a - a = 0 /\ Len(ns) - 0 = Len(ns)
  BY <1>1
<1>4. Len(ms) = Len(ns) /\ DOMAIN ms = DOMAIN ns
  BY <1>1, <1>2, <1>3
<1>5. \A k \in DOMAIN ns : k # a => ms[k] = ns[k]
  <2> SUFFICES ASSUME NEW k \in DOMAIN ns, k # a PROVE ms[k] = ns[k]
    OBVIOUS
  <2>1. CASE k < a
    <3>1. k \in 1 .. a - 1
      BY <1>1, <2>1
    <3> QED  BY <1>2, <3>1
  <2>2. CASE k > a
    <3>1. k \in a + 1 .. Len(ns) - (a - a) /\ k + (a - a) = k
      BY <1>1, <1>3, <2>2
    <3> QED  BY <1>2, <3>1
  <2> QED  BY <1>1, <2>1, <2>2
<1>6. \A k \in DOMAIN ns : k # a => M[ms[k]] = L[ns[k]]
  BY <1>5 DEF Seen, Agrees
<1>7. \A k \in DOMAIN ns : /\ Asks(M, ms[k]) <=> Asks(L, ns[k])
                           /\ Tells(M, ms[k]) <=> Tells(L, ns[k])
                           /\ M[ms[k]].n = L[ns[k]].n
                           /\ Asks(L, ns[k]) => k # a /\ ms[k] = ns[k] /\ M[ms[k]] = L[ns[k]]
  <2> TAKE k \in DOMAIN ns
  <2>1. CASE k = a
    BY <1>2, <2>1 DEF Asks, Tells
  <2>2. CASE k # a
    BY <1>5, <1>6, <2>2 DEF Asks, Tells
  <2> QED  BY <2>1, <2>2
<1>8. \A j, k \in DOMAIN ns : Reaches(M, ms, j, k) <=> Reaches(L, ns, j, k)
  BY <1>7 DEF Reaches
<1>9. Paired(M, ms)
  <2>1. \A j, k \in DOMAIN ms : Reaches(M, ms, j, k) => Tells(M, ms[k]) /\ M[ms[k]].n = ms[j]
    <3> SUFFICES ASSUME NEW j \in DOMAIN ns, NEW k \in DOMAIN ns, Reaches(L, ns, j, k)
                 PROVE  Tells(M, ms[k]) /\ M[ms[k]].n = ms[j]
      BY <1>4, <1>8
    <3>1. Tells(L, ns[k]) /\ L[ns[k]].n = ns[j] /\ Asks(L, ns[j])
      BY DEF Paired, Reaches
    <3> QED  BY <1>7, <3>1
  <2>2. \A k \in DOMAIN ms : Tells(M, ms[k]) => \E j \in DOMAIN ms : Reaches(M, ms, j, k)
    BY <1>4, <1>7, <1>8 DEF Paired
  <2>3. \A k \in DOMAIN ms : Asks(M, ms[k]) /\ M[ms[k]].n > 0 => M[ms[k]].size > 0
    BY <1>4, <1>7 DEF Paired
  <2> QED  BY <2>1, <2>2, <2>3 DEF Paired
<1>10. Whole(M, ms)
  <2>1. \A j \in 1 .. Len(ns) : Asks(L, ns[j]) => j + L[ns[j]].n <= Len(ns)
    BY DEF Whole, CutAt
  <2> QED  BY <1>1, <1>4, <1>7, <2>1 DEF Whole, CutAt
<1> QED  BY <1>2, <1>4, <1>5, <1>9, <1>10

(* A message in the place of a beginning that splits no pair.              *)
LEMMA BeginningReplaced ==
  ASSUME NEW L, NEW M, NEW ns, Seen(L, ns), Agrees(L, M), Paired(L, ns), Whole(L, ns),
         NEW m \in DOMAIN ns, CutAt(L, ns, m), NEW i, NEW ms, RunGone(ns, 1, m, i, ms),
         M[i].ty = "user/message"
  PROVE  /\ Paired(M, ms) /\ Whole(M, ms) /\ Len(ms) \in Nat
         /\ m < Len(ns) => Len(ms) \in DOMAIN ms /\ ms[Len(ms)] = ns[Len(ns)]
<1>1. Len(ns) \in Nat /\ DOMAIN ns = 1 .. Len(ns) /\ m \in Nat /\ \A k \in DOMAIN ns : k \in Nat /\ L[ns[k]].n \in Nat
  BY DEF Seen
<1>2. PICK w : w = m - 1
  OBVIOUS
<1>3. w \in Nat /\ m = w + 1 /\ w < Len(ns)
  BY <1>1, <1>2
<1>4. /\ ms \in Seq(Nat) /\ Len(ms) = Len(ns) - w /\ ms[1] = i
      /\ \A k \in 1 + 1 .. Len(ns) - w : ms[k] = ns[k + w]
  BY <1>2 DEF RunGone
<1>5. DOMAIN ms = 1 .. Len(ns) - w /\ Len(ms) \in Nat /\ \A k \in DOMAIN ms : k \in Nat /\ k >= 1
  BY <1>1, <1>3, <1>4
<1>6. \A k \in DOMAIN ms : k # 1 => k + w \in DOMAIN ns /\ ms[k] = ns[k + w] /\ M[ms[k]] = L[ns[k + w]] /\ k + w > m
  <2> SUFFICES ASSUME NEW k \in DOMAIN ms, k # 1
               PROVE  k + w \in DOMAIN ns /\ ms[k] = ns[k + w] /\ M[ms[k]] = L[ns[k + w]] /\ k + w > m
    OBVIOUS
  <2>1. k \in 1 + 1 .. Len(ns) - w /\ k + w \in DOMAIN ns /\ k + w > m
    BY <1>1, <1>3, <1>5
  <2> QED  BY <1>4, <2>1 DEF Seen, Agrees
<1>7. ~Asks(M, ms[1]) /\ ~Tells(M, ms[1])
  BY <1>4 DEF Asks, Tells
<1>8. \A j, k \in DOMAIN ms : Reaches(M, ms, j, k) =>
        j # 1 /\ k # 1 /\ Reaches(L, ns, j + w, k + w)
  <2> SUFFICES ASSUME NEW j \in DOMAIN ms, NEW k \in DOMAIN ms, Reaches(M, ms, j, k)
               PROVE  j # 1 /\ k # 1 /\ Reaches(L, ns, j + w, k + w)
    OBVIOUS
  <2>1. j # 1 /\ j < k /\ k <= j + M[ms[j]].n /\ Asks(M, ms[j])
    BY <1>7 DEF Reaches
  <2>2. k # 1
    BY <1>5, <2>1
  <2>3. Asks(L, ns[j + w]) /\ k <= j + L[ns[j + w]].n /\ L[ns[j + w]].n \in Nat
    BY <1>1, <1>6, <2>1 DEF Asks
  <2>4. j + w < k + w /\ k + w <= j + w + L[ns[j + w]].n
    BY SMTT(20), <1>3, <1>5, <2>1, <2>3
  <2> QED  BY <2>1, <2>2, <2>3, <2>4 DEF Reaches
<1>9. Paired(M, ms)
  <2>1. \A j, k \in DOMAIN ms : Reaches(M, ms, j, k) => Tells(M, ms[k]) /\ M[ms[k]].n = ms[j]
    <3> SUFFICES ASSUME NEW j \in DOMAIN ms, NEW k \in DOMAIN ms, Reaches(M, ms, j, k)
                 PROVE  Tells(M, ms[k]) /\ M[ms[k]].n = ms[j]
      OBVIOUS
    <3>1. j # 1 /\ k # 1 /\ Reaches(L, ns, j + w, k + w) /\ j + w \in DOMAIN ns /\ k + w \in DOMAIN ns
      BY <1>6, <1>8
    <3>2. Tells(L, ns[k + w]) /\ L[ns[k + w]].n = ns[j + w]
      BY <3>1 DEF Paired
    <3> QED  BY <1>6, <3>1, <3>2 DEF Tells
  <2>2. ASSUME NEW k \in DOMAIN ms, Tells(M, ms[k]) PROVE \E j \in DOMAIN ms : Reaches(M, ms, j, k)
    <3>1. k # 1
      BY <1>7, <2>2
    <3>2. k + w \in DOMAIN ns /\ Tells(L, ns[k + w]) /\ k + w > m
      BY <1>6, <2>2, <3>1 DEF Tells
    <3>3. PICK q \in DOMAIN ns : Reaches(L, ns, q, k + w)
      BY <3>2 DEF Paired
    <3>4. q \in Nat /\ q >= 1 /\ Asks(L, ns[q]) /\ q < k + w /\ k + w <= q + L[ns[q]].n /\ L[ns[q]].n \in Nat
      BY <1>1, <3>3 DEF Reaches
    <3>5. q > m
      <4> SUFFICES ASSUME q <= m PROVE FALSE
        BY <1>1, <3>4
      <4>1. q \in 1 .. m
        BY <1>1, <3>4
      <4>2. q + L[ns[q]].n <= m
        BY <3>4, <4>1 DEF CutAt
      <4> QED  BY <1>1, <1>3, <1>5, <3>2, <3>4, <4>2
    <3>6. PICK j : j = q - w
      OBVIOUS
    <3>7. j \in DOMAIN ms /\ j # 1 /\ j + w = q /\ j < k /\ k <= j + L[ns[q]].n
      <4>1. q <= Len(ns)
        BY <1>1
      <4>2. m \in Nat /\ w \in Nat /\ m = w + 1 /\ q \in Nat /\ k \in Nat /\ Len(ns) \in Nat /\ L[ns[q]].n \in Nat
        BY <1>1, <1>3, <1>5, <3>4
      <4>3. j \in Nat /\ j + w = q /\ j >= 2
        BY SMTT(20), <3>5, <3>6, <4>2
      <4>4. j <= Len(ns) - w
        BY <4>1, <4>2, <4>3
      <4>5. j \in DOMAIN ms
        <5>1. j \in 1 .. Len(ns) - w
          BY <4>2, <4>3, <4>4
        <5> QED  BY <1>5, <5>1
      <4>6. j < k
        BY <3>4, <4>2, <4>3
      <4>7. PICK n : n = L[ns[q]].n
        OBVIOUS
      <4>8. k + w <= q + n /\ n \in Nat
        BY <3>4, <4>7
      <4>9. k <= j + n
        BY <4>2, <4>3, <4>8
      <4> QED  BY <4>3, <4>5, <4>6, <4>7, <4>9
    <3>8. M[ms[j]] = L[ns[q]]
      BY <1>6, <3>7
    <3>9. Reaches(M, ms, j, k)
      BY <3>4, <3>7, <3>8 DEF Reaches, Asks
    <3> QED  BY <3>7, <3>9
  <2>3. \A k \in DOMAIN ms : Asks(M, ms[k]) /\ M[ms[k]].n > 0 => M[ms[k]].size > 0
    BY <1>6, <1>7 DEF Paired, Asks
  <2> QED  BY <2>1, <2>2, <2>3 DEF Paired
<1>10. Whole(M, ms)
  <2>1. ASSUME NEW j \in 1 .. Len(ms), Asks(M, ms[j]) PROVE j + M[ms[j]].n <= Len(ms)
    <3>1. j \in DOMAIN ms
      BY <1>4, <1>5
    <3>2. j # 1
      BY <1>7, <2>1
    <3>3. j + w \in DOMAIN ns /\ Asks(L, ns[j + w]) /\ M[ms[j]] = L[ns[j + w]]
      BY <1>6, <2>1, <3>1, <3>2 DEF Asks
    <3>4. j + w + L[ns[j + w]].n <= Len(ns) /\ L[ns[j + w]].n \in Nat
      BY <1>1, <3>3 DEF Whole, CutAt
    <3> QED  BY SMTT(20), <1>1, <1>3, <1>4, <1>5, <3>1, <3>3, <3>4
  <2> QED  BY <2>1 DEF Whole, CutAt
<1>11. m < Len(ns) => Len(ms) \in DOMAIN ms /\ ms[Len(ms)] = ns[Len(ns)]
  <2> SUFFICES ASSUME m < Len(ns) PROVE Len(ms) \in DOMAIN ms /\ ms[Len(ms)] = ns[Len(ns)]
    OBVIOUS
  <2>1. Len(ms) \in DOMAIN ms /\ Len(ms) # 1 /\ Len(ms) + w = Len(ns)
    <3>1. PICK x, y : x = Len(ms) /\ y = Len(ns)
      OBVIOUS
    <3>2. x = y - w /\ y \in Nat /\ w \in Nat /\ m = w + 1 /\ m < y
      BY <1>1, <1>3, <1>4, <3>1
    <3>3. x \in 1 .. y - w /\ x # 1 /\ x + w = y
      BY <3>2
    <3> QED  BY <1>5, <3>1, <3>3
  <2> QED  BY <1>6, <2>1
<1> QED  BY <1>5, <1>9, <1>10, <1>11

-----------------------------------------------------------------------------
(* Where the turn goes, and what that asks of it.                          *)

LEMMA SeenIs ==
  ASSUME HistInv
  PROVE  Seen(log, nodes) /\ log \in Seq(LogEvents) /\ Len(log) \in Nat
<1>1. log \in Seq(LogEvents)
  BY DEF HistInv
<1>2. \A k \in DOMAIN nodes : nodes[k] \in DOMAIN log /\ k \in Nat
  BY NodesAre
<1>3. \A i \in DOMAIN log : log[i] \in LogEvents
  BY <1>1
<1>4. \A i \in DOMAIN log : log[i].n \in Nat
  BY <1>3 DEF LogEvents
<1>5. Len(log) \in Nat
  BY <1>1
<1> QED  BY <1>1, <1>2, <1>4, <1>5, NodesAre DEF Seen

(* Nothing is claimed but right after a record.                            *)
LEMMA NoRecordLast ==
  ASSUME HistInv, surface.claim = {}, log # <<>>
  PROVE  ~IsRecord(log[Len(log)])
<1>1. log \in Seq(LogEvents) /\ LooksBack(log) /\ Claimed(log) = {}
  BY DEF HistInv, Faithful
<1>2. Len(log) \in DOMAIN log
  BY <1>1
<1> QED  BY <1>1, <1>2 DEF Claimed, LooksBack

LEMMA GoesIdle ==
  ASSUME pc' = "idle", Paired(log', nodes'), ResultsOf(log'), ~StepOpen(log'), Whole(log', nodes')
  PROVE  PairInv'
BY DEF PairInv, Stage, Fitting, Quiet

LEMMA GoesToBoundary ==
  ASSUME pc' \in {"boundary", "stop"}, Paired(log', nodes'), ResultsOf(log'), ~StepOpen(log'),
         Whole(log', nodes'), TurnOpen(log'), pc' = "boundary" => step' = 1 \/ Asked(log', nodes')
  PROVE  PairInv'
BY DEF PairInv, Stage, Fitting, Quiet

Sound(L, ns) == Paired(L, ns) /\ ResultsOf(L) /\ StepOpen(L) /\ TurnOpen(L) /\ Whole(L, ns) /\ Asked(L, ns)

LEMMA GoesOn ==
  ASSUME pc' \in Fitting, Sound(log', nodes'),
         pc' \in {"prune", "pruned"} => \A k \in DOMAIN todo' : Tells(log', todo'[k]),
         pc' = "pruned" => log'[Len(log')].ty = "compaction/prune",
         pc' \in {"summarize", "record", "replace"} =>
           \E m \in DOMAIN nodes' : shadowed' = SubSeq(nodes', 1, m) /\ m < Len(nodes') /\ CutAt(log', nodes', m)
  PROVE  PairInv'
BY DEF PairInv, Stage, Fitting, Quiet, Sound

LEMMA GoesToTools ==
  ASSUME pc' \in {"tools", "close"}, Paired(log', nodes'), ResultsOf(log'), StepOpen(log'), TurnOpen(log'),
         NEW k \in DOMAIN nodes', Owing(log', nodes', k), log'[nodes'[k]].n = 0 <=> pc' = "close"
  PROVE  PairInv'
BY DEF PairInv, Stage, Fitting, Quiet

LEMMA FittingIs ==
  ASSUME PairInv, pc \in Fitting
  PROVE  Sound(log, nodes)
BY DEF PairInv, Stage, Fitting, Sound

-----------------------------------------------------------------------------
(* A write that says nothing leaves all of it as it is.                    *)

Unsaid(es) == es \in Seq(LogEvents) /\ \A k \in DOMAIN es : ~IsSurface(es[k])
Without(es, ty) == \A k \in DOMAIN es : es[k].ty # ty

LEMMA VerbatimKept ==
  ASSUME NEW L, NEW es, NEW M, Appended(L, es, M), NEW i \in DOMAIN L, Verbatim(L, i)
  PROVE  Verbatim(M, i)
<1>1. i > 1 => i - 1 \in DOMAIN L
  BY DEF Appended
<1> QED  BY <1>1 DEF Verbatim, Tells, Appended

LEMMA UnsaidPairs ==
  ASSUME NEW L, NEW es, NEW M, Appended(L, es, M), Unsaid(es), NEW ns, Seen(L, ns), Paired(L, ns), ResultsOf(L)
  PROVE  /\ Paired(M, ns) /\ ResultsOf(M) /\ Agrees(L, M)
         /\ Whole(L, ns) => Whole(M, ns)
         /\ Asked(L, ns) /\ Without(es, "context/snapshot") => Asked(M, ns)
<1>1. Agrees(L, M)
  BY DEF Agrees, Appended
<1>2. Paired(M, ns) /\ \A m \in 0 .. Len(ns) : CutAt(L, ns, m) => CutAt(M, ns, m)
  BY <1>1, PairedKept
<1>3. Len(ns) \in 0 .. Len(ns)
  BY DEF Seen
<1>4. ResultsOf(M)
  BY ResultsKept DEF Unsaid, IsSurface
<1>5. ASSUME Asked(L, ns), Without(es, "context/snapshot") PROVE Asked(M, ns)
  <2>1. PICK i : i = ns[Len(ns)]
    OBVIOUS
  <2>2. Len(ns) \in DOMAIN ns /\ ns # <<>> /\ Verbatim(L, i) /\ Fresh(L, i)
    BY <1>5, <2>1 DEF Asked, Seen
  <2>3. i \in DOMAIN L
    BY <2>1, <2>2 DEF Seen
  <2>4. Verbatim(M, i)
    BY <2>2, <2>3, VerbatimKept
  <2>5. Fresh(M, i)
    BY <1>5, <2>2, FreshKept DEF Without
  <2> QED  BY <2>1, <2>2, <2>4, <2>5 DEF Asked
<1> QED  BY <1>1, <1>2, <1>3, <1>4, <1>5 DEF Whole

(* Of a batch that says nothing, record or not.                            *)
LEMMA UnsaidWritten ==
  ASSUME HistInv, NEW es, Write(es), Unsaid(es), \A k \in DOMAIN es : ~IsRecord(es[k])
  PROVE  nodes' = nodes /\ Appended(log, es, log')
<1>1. log' = log \o es /\ surface' = SurfaceAfter(log, surface, es)
  BY WriteIs
<1>2. log \in Seq(LogEvents) /\ surface \in Surfaces /\ es \in Seq(LogEvents)
  BY DEF HistInv, Faithful, Unsaid
<1>3. Appended(log, es, log')
  BY <1>1, <1>2, AppendedIs
<1>4. PICK t : t = surface'
  OBVIOUS
<1>5. Extended(nodes, 0, Len(log) + 0, t.nodes)
  <2>1. 0 + 0 <= Len(es) /\ 0 \in Nat /\ 0 + 1 .. 0 + 0 = {}
    BY <1>2
  <2>2. \A k \in DOMAIN es : IsSurface(es[k]) <=> k \in 0 + 1 .. 0 + 0
    BY <2>1 DEF Unsaid
  <2> QED  BY <1>1, <1>2, <1>4, <2>1, <2>2, SaidIs DEF nodes
<1>6. t.nodes = nodes
  <2>1. PICK ns : ns = nodes
    OBVIOUS
  <2>2. PICK ms : ms = t.nodes
    OBVIOUS
  <2>3. ns \in Seq(Nat) /\ Len(ns) \in Nat /\ DOMAIN ns = 1 .. Len(ns)
    BY <2>1, NodesAre
  <2>4. ms \in Seq(Nat) /\ Len(ms) = Len(ns) + 0 /\ DOMAIN ms = 1 .. Len(ns) + 0 /\ \A k \in DOMAIN ns : ms[k] = ns[k]
    BY <1>5, <2>1, <2>2 DEF Extended
  <2>5. ms = ns
    BY <2>3, <2>4
  <2> QED  BY <2>1, <2>2, <2>5
<1> QED  BY <1>3, <1>4, <1>6 DEF nodes

Marking(es) ==
  /\ es \in Seq(LogEvents)
  /\ \A k \in DOMAIN es : ~IsSurface(es[k]) /\ ~IsRecord(es[k])

Carried(es) ==
  /\ Appended(log, es, log') /\ Agrees(log, log')
  /\ Paired(log', nodes') /\ ResultsOf(log')
  /\ Whole(log, nodes) => Whole(log', nodes')
  /\ Asked(log, nodes) /\ Without(es, "context/snapshot") => Asked(log', nodes')
  /\ StepOpen(log) /\ Without(es, "step/end") => StepOpen(log')
  /\ TurnOpen(log) /\ Without(es, "turn/end") => TurnOpen(log')
  /\ ~StepOpen(log) /\ Without(es, "step/start") => ~StepOpen(log')

LEMMA CarriedOver ==
  ASSUME HistInv, Paired(log, nodes), ResultsOf(log), NEW es, Unsaid(es), nodes' = nodes, Appended(log, es, log')
  PROVE  Carried(es)
<1>1. Seen(log, nodes)
  BY SeenIs
<1>2. /\ Paired(log', nodes) /\ ResultsOf(log') /\ Agrees(log, log')
      /\ Whole(log, nodes) => Whole(log', nodes)
      /\ Asked(log, nodes) /\ Without(es, "context/snapshot") => Asked(log', nodes)
  BY <1>1, UnsaidPairs
<1>3. StepOpen(log) /\ Without(es, "step/end") => StepOpen(log')
  BY OpenKept DEF StepOpen, Without
<1>4. TurnOpen(log) /\ Without(es, "turn/end") => TurnOpen(log')
  BY OpenKept DEF TurnOpen, Without
<1>5. ~StepOpen(log) /\ Without(es, "step/start") => ~StepOpen(log')
  BY ClosedKept DEF StepOpen, Without
<1> QED  BY <1>2, <1>3, <1>4, <1>5 DEF Carried

LEMMA MarkingCarries ==
  ASSUME HistInv, Paired(log, nodes), ResultsOf(log), NEW es, Marking(es), Write(es)
  PROVE  Carried(es) /\ nodes' = nodes
<1>1. Unsaid(es) /\ \A k \in DOMAIN es : ~IsRecord(es[k])
  BY DEF Marking, Unsaid
<1>2. nodes' = nodes /\ Appended(log, es, log')
  BY <1>1, UnsaidWritten
<1> QED  BY <1>1, <1>2, CarriedOver

LEMMA OneMark ==
  ASSUME NEW x \in Marks, NEW es, es = <<Mark(x)>>
  PROVE  Marking(es) /\ DOMAIN es = {1} /\ es[1].ty = x /\ \A ty : ty # x => Without(es, ty)
<1>1. Mark(x) \in LogEvents /\ ~IsRecord(Mark(x)) /\ ~IsSurface(Mark(x)) /\ Mark(x).ty = x
  BY MarkIs
<1>2. es \in Seq(LogEvents) /\ DOMAIN es = {1} /\ es[1] = Mark(x)
  BY <1>1
<1> QED  BY <1>1, <1>2 DEF Marking, Without

LEMMA NoMark ==
  ASSUME NEW es, es = <<>>
  PROVE  Marking(es) /\ DOMAIN es = {} /\ \A ty : Without(es, ty)
<1>1. es \in Seq(LogEvents) /\ DOMAIN es = {}
  OBVIOUS
<1> QED  BY <1>1 DEF Marking, Without

LEMMA MarksTogether ==
  ASSUME NEW p, NEW q, Marking(p), Marking(q), NEW es, es = p \o q
  PROVE  /\ Marking(es) /\ \A ty : Without(p, ty) /\ Without(q, ty) => Without(es, ty)
         /\ \A k \in DOMAIN q : Len(p) + k \in DOMAIN es /\ es[Len(p) + k] = q[k]
         /\ DOMAIN es = 1 .. Len(p) + Len(q) /\ Len(p) \in Nat
<1>1. Appended(p, q, es)
  BY AppendedIs DEF Marking
<1>2. \A k \in DOMAIN es : \/ k \in DOMAIN p /\ es[k] = p[k]
                           \/ \E j \in DOMAIN q : es[k] = q[j]
  BY <1>1, AppendedPlace
<1>3. es \in Seq(LogEvents)
  BY <1>1 DEF Appended
<1>4. Marking(es)
  BY <1>2, <1>3 DEF Marking
<1>5. \A ty : Without(p, ty) /\ Without(q, ty) => Without(es, ty)
  BY <1>2 DEF Without
<1> QED  BY <1>1, <1>4, <1>5 DEF Appended

(* What ends a step and the turn ends a step. *)
LEMMA StepAndTurnEnd ==
  ASSUME NEW p, Marking(p), Without(p, "step/start"), Without(p, "context/snapshot"),
         NEW es, es = p \o <<Mark("step/end"), Mark("turn/end")>>
  PROVE  /\ Marking(es)
         /\ \E c \in DOMAIN es : es[c].ty = "step/end" /\ \A k \in DOMAIN es : k > c => es[k].ty # "step/start"
<1>1. PICK q : q = <<Mark("step/end"), Mark("turn/end")>>
  OBVIOUS
<1>2. /\ \A x \in {"step/end", "turn/end"} :
           Mark(x) \in LogEvents /\ ~IsRecord(Mark(x)) /\ ~IsSurface(Mark(x)) /\ Mark(x).ty = x
  BY MarkIs DEF Marks
<1>3. q \in Seq(LogEvents) /\ DOMAIN q = {1, 2} /\ q[1] = Mark("step/end") /\ q[2] = Mark("turn/end")
  BY <1>1, <1>2
<1>4. Marking(q) /\ q[1].ty = "step/end" /\ Without(q, "step/start")
  BY <1>2, <1>3 DEF Marking, Without
<1>5. es = p \o q
  BY <1>1
<1>6. /\ Marking(es)
      /\ \A ty : Without(p, ty) /\ Without(q, ty) => Without(es, ty)
      /\ \A k \in DOMAIN q : Len(p) + k \in DOMAIN es /\ es[Len(p) + k] = q[k]
  BY Zenon, <1>4, <1>5, MarksTogether
<1>7. Len(p) + 1 \in DOMAIN es /\ es[Len(p) + 1].ty = "step/end"
  BY <1>3, <1>4, <1>6
<1>8. Without(es, "step/start")
  BY <1>4, <1>6
<1> QED  BY <1>6, <1>7, <1>8 DEF Without

-----------------------------------------------------------------------------
(* Each step keeps the pairs. *)

LEMMA StillPaired ==
  ASSUME PairInv, UNCHANGED vars
  PROVE  PairInv'
BY DEF PairInv, Stage, vars, nodes

LEMMA NodesSame ==
  ASSUME UNCHANGED surface
  PROVE  nodes' = nodes
BY DEF nodes

LEMMA CrashPairs ==
  ASSUME HistInv, PairInv, Crash
  PROVE  PairInv'
<1>1. log' = log /\ nodes' = nodes /\ pc # "down" /\ pc' = "down"
  BY NodesSame DEF Crash, history, Goto
<1>2. Paired(log, nodes) /\ ResultsOf(log)
  BY DEF PairInv
<1>3. \/ ~StepOpen(log) /\ Whole(log, nodes)
      \/ TurnOpen(log) /\ Fitted(log) /\ Whole(log, nodes)
      \/ TurnOpen(log) /\ StepOpen(log) /\ \E k \in DOMAIN nodes : Owing(log, nodes, k)
  <2>1. CASE pc \in Fitting
    <3>1. Fitted(log)
      BY <2>1 DEF HistInv, Phase, Fitting
    <3> QED  BY <2>1, <3>1, FittingIs DEF Sound
  <2>2. CASE pc \in {"idle", "boundary", "stop"}
    BY <2>2 DEF PairInv, Stage
  <2>3. CASE pc \in {"tools", "close"}
    BY <2>3 DEF PairInv, Stage
  <2> QED  BY <1>1, <2>1, <2>2, <2>3 DEF PairInv, Stage, Quiet
<1> QED  BY <1>1, <1>2, <1>3 DEF PairInv, Stage, Fitting, Quiet

LEMMA FailsPairs ==
  ASSUME HistInv, PairInv, pc \in Fitting, NEW es, Fails(es), Marking(es),
         Without(es, "step/start"), Without(es, "context/snapshot")
  PROVE  PairInv'
<1>1. PICK fs : fs = es \o <<Mark("step/end"), Mark("turn/end")>>
  OBVIOUS
<1>2. Write(fs) /\ pc' = "idle"
  BY <1>1 DEF Fails, Goto
<1>3. /\ Marking(fs)
      /\ \E c \in DOMAIN fs : fs[c].ty = "step/end" /\ \A k \in DOMAIN fs : k > c => fs[k].ty # "step/start"
  BY <1>1, StepAndTurnEnd
<1>4. Paired(log, nodes) /\ ResultsOf(log) /\ Whole(log, nodes)
  BY FittingIs DEF Sound
<1>5. Carried(fs)
  BY <1>2, <1>3, <1>4, MarkingCarries
<1>6. ~StepOpen(log')
  BY <1>3, <1>5, Closes DEF Carried, StepOpen
<1> QED  BY <1>2, <1>4, <1>5, <1>6, GoesIdle DEF Carried

LEMMA FailsAtOncePairs ==
  ASSUME HistInv, PairInv, pc \in Fitting, Fails(<<>>)
  PROVE  PairInv'
BY NoMark, FailsPairs

LEMMA FailsCompactingPairs ==
  ASSUME HistInv, PairInv, pc \in Fitting, FailsCompacting
  PROVE  PairInv'
<1>1. PICK ended \in {<<>>, <<Mark("compaction/end")>>} : Fails(ended)
  BY DEF FailsCompacting
<1>2. Marking(ended) /\ Without(ended, "step/start") /\ Without(ended, "context/snapshot")
  <2>1. CASE ended = <<>>
    BY <2>1, NoMark
  <2>2. CASE ended = <<Mark("compaction/end")>>
    BY <2>2, OneMark DEF Marks
  <2> QED  BY <2>1, <2>2
<1> QED  BY <1>1, <1>2, FailsPairs

LEMMA RunTurnPairs ==
  ASSUME HistInv, PairInv, RunTurn
  PROVE  PairInv'
<1>1. PICK says \in {<<>>, <<Mark("context/snapshot")>>} : Write(<<Mark("turn/start")>> \o says)
  BY DEF RunTurn
<1>2. pc = "idle" /\ pc' = "boundary" /\ step' = 1
  BY DEF RunTurn, Goto
<1>3. PICK t : t = <<Mark("turn/start")>>
  OBVIOUS
<1>4. Marking(t) /\ DOMAIN t = {1} /\ t[1].ty = "turn/start" /\ Without(t, "step/start") /\ Without(t, "turn/end")
  BY <1>3, OneMark DEF Marks
<1>5. Marking(says) /\ Without(says, "step/start") /\ Without(says, "turn/end")
  <2>1. CASE says = <<>>
    BY <2>1, NoMark
  <2>2. CASE says = <<Mark("context/snapshot")>>
    BY <2>2, OneMark DEF Marks
  <2> QED  BY <2>1, <2>2
<1>6. PICK es : es = t \o says
  OBVIOUS
<1>7. Marking(es) /\ Without(es, "step/start") /\ Without(es, "turn/end")
  BY <1>4, <1>5, <1>6, MarksTogether
<1>8. Paired(log, nodes) /\ ResultsOf(log) /\ Whole(log, nodes) /\ ~StepOpen(log)
  BY <1>2 DEF PairInv, Stage
<1>9. Carried(es)
  BY <1>1, <1>3, <1>6, <1>7, <1>8, MarkingCarries
<1>10. TurnOpen(log')
  <2>1. 1 \in DOMAIN es /\ es[1].ty = "turn/start"
    <3>1. t \in Seq(LogEvents) /\ says \in Seq(LogEvents)
      BY <1>4, <1>5 DEF Marking
    <3>2. Appended(t, says, es)
      BY <1>6, <3>1, AppendedIs
    <3> QED  BY <1>4, <3>2 DEF Appended
  <2>2. \A k \in DOMAIN es : k > 1 => es[k].ty # "turn/end"
    BY <1>7 DEF Without
  <2> QED  BY <1>9, <2>1, <2>2, Begins DEF Carried, TurnOpen
<1> QED  BY <1>2, <1>7, <1>8, <1>9, <1>10, GoesToBoundary DEF Carried

(* An answer that was told all it asks for leaves nothing open.            *)
LEMMA OwedNothing ==
  ASSUME HistInv, NEW k \in DOMAIN nodes, Owing(log, nodes, k), k + log[nodes[k]].n = Len(nodes)
  PROVE  Whole(log, nodes)
<1>1. \A j \in 1 .. Len(nodes) : j \in DOMAIN nodes
  BY NodesAre
<1>2. k + log[nodes[k]].n <= Len(nodes)
  BY NodesAre
<1> QED  BY <1>1, <1>2 DEF Owing, Whole, CutAt

(* What the last answer is owed.                                           *)
LEMMA OwedAt ==
  ASSUME HistInv, NEW k \in DOMAIN nodes, Owing(log, nodes, k)
  PROVE  /\ Latest({"assistant/message"}) = nodes[k]
         /\ k \in Nat /\ log[nodes[k]].n \in Nat /\ Len(nodes) \in Nat /\ Owed \in Int
         /\ k + log[nodes[k]].n = Len(nodes) + Owed
         /\ Cardinality(Told(log, nodes[k])) \in Nat /\ IsFiniteSet(Told(log, nodes[k]))
<1>1. PICK a : a = nodes[k]
  OBVIOUS
<1>2. /\ a \in DOMAIN log /\ a \in Nat /\ a # 0 /\ log \in Seq(LogEvents) /\ k \in Nat /\ Len(nodes) \in Nat
      /\ log[a].n \in Nat /\ log[a].ty = "assistant/message"
  BY <1>1, SeenIs DEF Seen, Owing, Asks
<1>3. \A q \in DOMAIN log : q > a => log[q].ty \notin {"assistant/message", "step/start"}
  BY <1>1 DEF Owing
<1>4. Latest({"assistant/message"}) = a
  <2>1. PICK x : x = Latest({"assistant/message"})
    OBVIOUS
  <2>2. /\ x \in Nat /\ a <= x
        /\ x # 0 => x \in DOMAIN log /\ log[x].ty \in {"assistant/message"}
    BY <1>2, <2>1, LatestIs
  <2>3. ~(x > a)
    BY <1>2, <1>3, <2>2
  <2> QED  BY <1>2, <2>1, <2>2, <2>3
<1>5. ~(a < Latest({"step/start"}))
  <2>1. PICK x : x = Latest({"step/start"})
    OBVIOUS
  <2>2. /\ x \in Nat
        /\ x # 0 => x \in DOMAIN log /\ log[x].ty \in {"step/start"}
    BY <1>2, <2>1, LatestIs
  <2>3. ~(x > a)
    BY <1>2, <1>3, <2>2
  <2> QED  BY <1>2, <2>1, <2>2, <2>3
<1>6. PICK R : R = Told(log, a)
  OBVIOUS
<1>7. IsFiniteSet(R) /\ Cardinality(R) \in Nat
  <2>1. Len(log) \in Int /\ 1 \in Int /\ R \in SUBSET (1 .. Len(log))
    BY <1>2, <1>6 DEF Told
  <2>2. IsFiniteSet(1 .. Len(log))
    BY <2>1, FS_Interval
  <2> QED  BY <2>1, <2>2, FS_Subset, FS_CardinalityType
<1>8. Owed = log[a].n - Cardinality(R)
  BY <1>2, <1>4, <1>5, <1>6 DEF Owed, Told
<1>9. k + Cardinality(R) = Len(nodes)
  BY <1>1, <1>6 DEF Owing
<1>10. Owed \in Int /\ k + log[a].n = Len(nodes) + Owed
  <2>1. PICK n : n = log[a].n
    OBVIOUS
  <2>2. PICK r : r = Cardinality(R)
    OBVIOUS
  <2>3. PICK w : w = Owed
    OBVIOUS
  <2>4. n \in Nat /\ r \in Nat /\ w = n - r /\ k + r = Len(nodes)
    BY <1>2, <1>7, <1>8, <1>9, <2>1, <2>2, <2>3
  <2>5. w \in Int /\ k + n = Len(nodes) + w
    BY <1>2, <2>4
  <2> QED  BY <2>1, <2>3, <2>5
<1> QED  BY <1>1, <1>2, <1>4, <1>6, <1>7, <1>10

LEMMA StepEndPairs ==
  ASSUME HistInv, PairInv, StepEnd
  PROVE  PairInv'
<1>1. /\ pc = "tools" /\ Owed = 0 /\ Write(<<Mark("step/end")>>) /\ pc' \in {"boundary", "stop"}
  BY DEF StepEnd, Goto
<1>2. Paired(log, nodes) /\ ResultsOf(log) /\ StepOpen(log) /\ TurnOpen(log)
  BY <1>1 DEF PairInv, Stage
<1>3. PICK k \in DOMAIN nodes : Owing(log, nodes, k) /\ log[nodes[k]].n # 0
  BY <1>1 DEF PairInv, Stage
<1>4. k \in Nat /\ log[nodes[k]].n \in Nat /\ Len(nodes) \in Nat /\ k + log[nodes[k]].n = Len(nodes)
  <2>1. k + log[nodes[k]].n = Len(nodes) + 0 /\ Len(nodes) \in Nat /\ k \in Nat /\ log[nodes[k]].n \in Nat
    BY <1>1, <1>3, OwedAt
  <2> QED  BY <2>1
<1>5. Whole(log, nodes)
  BY <1>3, <1>4, OwedNothing
<1>6. Asked(log, nodes)
  <2>1. k < Len(nodes) /\ Len(nodes) \in k .. Len(nodes)
    BY <1>3, <1>4
  <2>2. Len(nodes) \in DOMAIN nodes /\ nodes # <<>>
    <3>1. DOMAIN nodes = 1 .. Len(nodes) /\ nodes \in Seq(Nat)
      BY NodesAre
    <3> QED  BY <1>4, <2>1, <3>1
  <2>3. Asks(log, nodes[k]) /\ Fresh(log, nodes[Len(nodes)])
    BY <1>3, <2>1 DEF Owing
  <2>4. Reaches(log, nodes, k, Len(nodes))
    BY <1>4, <2>1, <2>3 DEF Reaches
  <2>5. Tells(log, nodes[Len(nodes)])
    BY <1>2, <2>2, <2>4 DEF Paired
  <2> QED  BY <2>2, <2>3, <2>5 DEF Asked, Verbatim
<1>7. PICK es : es = <<Mark("step/end")>>
  OBVIOUS
<1>8. Marking(es) /\ DOMAIN es = {1} /\ es[1].ty = "step/end" /\ \A ty : ty # "step/end" => Without(es, ty)
  BY <1>7, OneMark DEF Marks
<1>9. Carried(es)
  BY <1>1, <1>2, <1>7, <1>8, MarkingCarries
<1>10. ~StepOpen(log')
  <2>1. 1 \in DOMAIN es /\ Without(es, "step/start")
    BY <1>8
  <2> QED  BY <1>8, <1>9, <2>1, Closes DEF Carried, StepOpen, Without
<1>11. Without(es, "context/snapshot") /\ Without(es, "turn/end")
  BY <1>8
<1> QED  BY <1>1, <1>2, <1>5, <1>6, <1>9, <1>10, <1>11, GoesToBoundary DEF Carried

LEMMA TurnEndPairs ==
  ASSUME HistInv, PairInv, TurnEnd
  PROVE  PairInv'
<1>1. pc \in {"close", "stop"} /\ pc' = "idle"
  BY DEF TurnEnd, Goto
<1>2. Paired(log, nodes) /\ ResultsOf(log)
  BY DEF PairInv
<1>3. PICK y : y = <<Mark("turn/end")>>
  OBVIOUS
<1>4. Marking(y) /\ Without(y, "step/start")
  BY <1>3, OneMark DEF Marks
<1>5. CASE pc = "close"
  <2>1. PICK k \in DOMAIN nodes : Owing(log, nodes, k) /\ log[nodes[k]].n = 0
    BY <1>5 DEF PairInv, Stage
  <2>2. Whole(log, nodes)
    <3>1. PICK r : r = Cardinality(Told(log, nodes[k]))
      OBVIOUS
    <3>2. k \in Nat /\ r \in Nat /\ Len(nodes) \in Nat
      BY <2>1, <3>1, OwedAt
    <3>3. k + r = Len(nodes) /\ Len(nodes) <= k + 0
      BY <2>1, <3>1 DEF Owing
    <3>4. k + 0 = Len(nodes)
      BY <3>2, <3>3
    <3> QED  BY <2>1, <3>4, OwedNothing
  <2>3. PICK x : x = <<Mark("step/end")>>
    OBVIOUS
  <2>4. Marking(x) /\ DOMAIN x = {1} /\ x[1].ty = "step/end" /\ Without(x, "step/start")
    BY <2>3, OneMark DEF Marks
  <2>5. PICK es : es = x \o y
    OBVIOUS
  <2>6. Marking(es) /\ Without(es, "step/start")
    BY <1>4, <2>4, <2>5, MarksTogether
  <2>7. Write(es)
    BY <1>3, <1>5, <2>3, <2>5 DEF TurnEnd
  <2>8. Carried(es)
    BY <1>2, <2>6, <2>7, MarkingCarries
  <2>9. 1 \in DOMAIN es /\ es[1].ty = "step/end"
    <3>1. Appended(x, y, es)
      BY <1>4, <2>4, <2>5, AppendedIs DEF Marking
    <3> QED  BY <2>4, <3>1 DEF Appended
  <2>10. ~StepOpen(log')
    BY <2>6, <2>8, <2>9, Closes DEF Carried, StepOpen, Without
  <2> QED  BY <1>1, <2>2, <2>8, <2>10, GoesIdle DEF Carried
<1>6. CASE pc = "stop"
  <2>1. ~StepOpen(log) /\ Whole(log, nodes)
    BY <1>6 DEF PairInv, Stage
  <2>2. Write(y)
    <3>1. <<>> \o y = y
      BY <1>4 DEF Marking
    <3> QED  BY <1>3, <1>6, <3>1 DEF TurnEnd
  <2>3. Carried(y)
    BY <1>2, <1>4, <2>2, MarkingCarries
  <2> QED  BY <1>1, <1>4, <2>1, <2>3, GoesIdle DEF Carried
<1> QED  BY <1>1, <1>5, <1>6

LEMMA CutKept ==
  ASSUME HistInv, Paired(log, nodes), Agrees(log, log'), nodes' = nodes, NEW m \in DOMAIN nodes, CutAt(log, nodes, m)
  PROVE  CutAt(log', nodes', m)
<1>1. Seen(log, nodes)
  BY SeenIs
<1>2. m \in 0 .. Len(nodes)
  BY <1>1 DEF Seen
<1> QED  BY <1>1, <1>2, PairedKept

(* Nothing is written, and the turn goes on.                               *)
LEMMA StillGoesOn ==
  ASSUME PairInv, pc \in Fitting, UNCHANGED history, pc' \in {"request", "compact", "closing"}
  PROVE  PairInv'
<1>1. log' = log /\ nodes' = nodes
  BY NodesSame DEF history
<1>2. Sound(log', nodes')
  BY <1>1, FittingIs
<1> QED  BY <1>2, GoesOn DEF Fitting

LEMMA FitContextPairs ==
  ASSUME HistInv, PairInv, FitContext
  PROVE  PairInv'
<1>1. pc = "fit" /\ UNCHANGED history /\ log' = log /\ nodes' = nodes
  BY NodesSame DEF FitContext, history
<1>2. CASE pc' = "request"
  BY <1>1, <1>2, StillGoesOn DEF Fitting
<1>3. CASE pc' = "prune" /\ todo' = IF Pruning THEN OverLong ELSE <<>>
  <2>1. \A k \in DOMAIN todo' : Tells(log', todo'[k])
    BY <1>1, <1>3, OverLongIs DEF Tells
  <2>2. Sound(log', nodes')
    BY <1>1, FittingIs DEF Fitting
  <2> QED  BY <1>3, <2>1, <2>2, GoesOn DEF Fitting
<1> QED  BY <1>2, <1>3 DEF FitContext, Goto

LEMMA RecheckPairs ==
  ASSUME HistInv, PairInv, Recheck
  PROVE  PairInv'
<1>1. pc = "prune" /\ UNCHANGED history /\ pc' \in {"request", "compact"}
  BY DEF Recheck, Goto
<1> QED  BY <1>1, StillGoesOn DEF Fitting

LEMMA SummarizePairs ==
  ASSUME HistInv, PairInv, Summarize
  PROVE  PairInv'
<1>1. /\ pc = "summarize" /\ UNCHANGED history /\ log' = log /\ nodes' = nodes
      /\ pc' \in {"closing", "record"} /\ shadowed' = shadowed
  BY NodesSame DEF Summarize, Goto, history
<1>2. Sound(log', nodes')
  BY <1>1, FittingIs DEF Fitting
<1>3. \E m \in DOMAIN nodes' : shadowed' = SubSeq(nodes', 1, m) /\ m < Len(nodes') /\ CutAt(log', nodes', m)
  BY <1>1 DEF PairInv, Stage
<1> QED  BY <1>1, <1>2, <1>3, GoesOn DEF Fitting

(* A record says nothing.                                                  *)
LEMMA RecordCarries ==
  ASSUME HistInv, Paired(log, nodes), ResultsOf(log), Fitted(log), NEW e, e \in LogEvents, IsRecord(e), e.shadows # {},
         \A x \in e.shadows : \E j \in DOMAIN nodes : nodes[j] = x, NEW es, es = <<e>>, Write(es)
  PROVE  /\ Carried(es) /\ nodes' = nodes /\ log' # <<>> /\ log'[Len(log')] = e
         /\ \A ty \in Marks : Without(es, ty)
<1>1. surface'.nodes = nodes
  BY RecordWritten
<1>2. nodes' = nodes
  BY <1>1 DEF nodes
<1>3. log \in Seq(LogEvents) /\ log' = Append(log, e)
  BY WriteOne DEF HistInv
<1>4. log' # <<>> /\ log'[Len(log')] = e
  BY <1>3
<1>5. ~IsSurface(e) /\ e.ty \notin Marks
  BY DEF IsRecord, IsSurface, Marks
<1>6. es \in Seq(LogEvents) /\ DOMAIN es = {1} /\ es[1] = e
  OBVIOUS
<1>7. Unsaid(es) /\ \A ty \in Marks : Without(es, ty)
  BY <1>5, <1>6 DEF Unsaid, Without
<1>8. log' = log \o es
  BY WriteIs
<1>9. Appended(log, es, log')
  BY <1>3, <1>6, <1>8, AppendedIs
<1> QED  BY <1>2, <1>4, <1>7, <1>9, CarriedOver

LEMMA PrunePairs ==
  ASSUME HistInv, PairInv, Prune
  PROVE  PairInv'
<1>1. pc \in Fitting
  BY DEF Prune, Fitting
<1>2. CASE Fails(<<>>)
  BY <1>1, <1>2, FailsAtOncePairs
<1>3. CASE /\ Write(<<Event("compaction/prune", 0, {Head(todo)}, 0)>>)
           /\ Goto("pruned") /\ UNCHANGED <<step, rewrite>>
  <2>1. PICK h : h = Head(todo)
    OBVIOUS
  <2>2. PICK e : e = Event("compaction/prune", 0, {h}, 0)
    OBVIOUS
  <2>3. pc = "prune" /\ todo # <<>> /\ todo \in Seq(Nat) /\ Fitted(log)
        /\ \A k \in DOMAIN todo : \E j \in DOMAIN nodes : nodes[j] = todo[k]
    BY DEF Prune, HistInv, Phase, nodes
  <2>4. 1 \in DOMAIN todo /\ h = todo[1] /\ h \in Nat
    BY <2>1, <2>3
  <2>5. e \in LogEvents /\ IsRecord(e) /\ e.shadows = {h} /\ e.ty = "compaction/prune"
    BY <2>2, <2>4 DEF Event, LogEvents, Types, IsRecord
  <2>6. \A x \in e.shadows : \E j \in DOMAIN nodes : nodes[j] = x
    BY <2>3, <2>4, <2>5
  <2>7. PICK es : es = <<e>>
    OBVIOUS
  <2>8. Write(es) /\ pc' = "pruned" /\ todo' = todo
    BY <1>3, <2>1, <2>2, <2>7 DEF Goto, rewrite
  <2>9. Sound(log, nodes)
    BY <1>1, FittingIs
  <2>10. /\ Carried(es) /\ nodes' = nodes /\ log'[Len(log')] = e
         /\ \A ty \in Marks : Without(es, ty)
    <3>1. e.shadows # {} /\ Paired(log, nodes) /\ ResultsOf(log)
      BY <2>5, <2>9 DEF Sound
    <3> QED  BY <2>3, <2>5, <2>6, <2>7, <2>8, <3>1, RecordCarries
  <2>11. Sound(log', nodes')
    <3>1. Without(es, "context/snapshot") /\ Without(es, "step/end") /\ Without(es, "turn/end")
      BY <2>10 DEF Marks
    <3> QED  BY <2>9, <2>10, <3>1 DEF Sound, Carried
  <2>12. \A k \in DOMAIN todo' : Tells(log', todo'[k])
    <3>1. \A k \in DOMAIN todo : Tells(log, todo[k])
      BY <2>3 DEF PairInv, Stage
    <3>2. \A k \in DOMAIN todo : todo[k] \in DOMAIN log
      BY <2>3, NodesAre
    <3> QED  BY <2>8, <2>10, <3>1, <3>2 DEF Carried, Agrees, Tells
  <2>13. log'[Len(log')].ty = "compaction/prune"
    BY <2>5, <2>10
  <2> QED  BY <2>8, <2>11, <2>12, <2>13, GoesOn DEF Fitting
<1> QED  BY <1>2, <1>3 DEF Prune

LEMMA RecordPairs ==
  ASSUME HistInv, PairInv, Record
  PROVE  PairInv'
<1>1. pc \in Fitting /\ pc = "record"
  BY DEF Record, Fitting
<1>2. CASE FailsCompacting
  BY <1>1, <1>2, FailsCompactingPairs
<1>3. CASE /\ Write(<<Event("compaction/summary", 0, ToSet(shadowed), 0)>>)
           /\ Goto("replace") /\ UNCHANGED <<step, rewrite>>
  <2>1. PICK m \in DOMAIN nodes : shadowed = SubSeq(nodes, 1, m) /\ m < Len(nodes) /\ CutAt(log, nodes, m)
    BY <1>1 DEF PairInv, Stage
  <2>2. Fitted(log) /\ nodes \in Seq(Nat)
    BY <1>1, NodesAre DEF HistInv, Phase
  <2>3. PICK s : s = ToSet(shadowed)
    OBVIOUS
  <2>4. s = RunOf(nodes, 1, m) /\ s # {}
    BY <2>1, <2>2, <2>3, RunIs
  <2>5. \A x \in s : \E j \in DOMAIN nodes : nodes[j] = x
    <3>1. 1 .. m \subseteq DOMAIN nodes
      <4>1. DOMAIN nodes = 1 .. Len(nodes) /\ Len(nodes) \in Nat
        BY NodesAre
      <4> QED  BY <2>1, <4>1
    <3> QED  BY <2>4, <3>1 DEF RunOf
  <2>6. s \in SUBSET Nat
    BY <2>2, <2>5
  <2>7. PICK e : e = Event("compaction/summary", 0, s, 0)
    OBVIOUS
  <2>8. e \in LogEvents /\ IsRecord(e) /\ e.shadows = s
    BY <2>6, <2>7 DEF Event, LogEvents, Types, IsRecord
  <2>9. PICK es : es = <<e>>
    OBVIOUS
  <2>10. Write(es) /\ pc' = "replace" /\ shadowed' = shadowed
    BY <1>3, <2>3, <2>7, <2>9 DEF Goto, rewrite
  <2>11. Sound(log, nodes)
    BY <1>1, FittingIs
  <2>12. Carried(es) /\ nodes' = nodes /\ \A ty \in Marks : Without(es, ty)
    <3>1. e.shadows # {} /\ Paired(log, nodes) /\ ResultsOf(log)
      BY <2>4, <2>8, <2>11 DEF Sound
    <3>2. \A x \in e.shadows : \E j \in DOMAIN nodes : nodes[j] = x
      BY <2>5, <2>8
    <3> QED  BY <2>2, <2>8, <2>9, <2>10, <3>1, <3>2, RecordCarries
  <2>13. Sound(log', nodes')
    <3>1. Without(es, "context/snapshot") /\ Without(es, "step/end") /\ Without(es, "turn/end")
      BY <2>12 DEF Marks
    <3> QED  BY <2>11, <2>12, <3>1 DEF Sound, Carried
  <2>14. CutAt(log', nodes', m)
    BY <2>1, <2>11, <2>12, CutKept DEF Carried, Sound
  <2> QED  BY <2>1, <2>10, <2>12, <2>13, <2>14, GoesOn DEF Fitting
<1> QED  BY <1>2, <1>3 DEF Record

LEMMA CompactPairs ==
  ASSUME HistInv, PairInv, Compact
  PROVE  PairInv'
<1>1. pc \in Fitting /\ pc = "compact"
  BY DEF Compact, Fitting
<1>2. CASE Goto("request") /\ UNCHANGED <<history, step, rewrite>>
  <2>1. pc' = "request" /\ UNCHANGED history
    BY <1>2 DEF Goto
  <2> QED  BY <1>1, <2>1, StillGoesOn
<1>3. CASE Fails(<<>>)
  BY <1>1, <1>3, FailsAtOncePairs
<1>4. CASE /\ ~Helpless /\ shadowed' = select_range
           /\ Write(<<Mark("compaction/start")>>) /\ Goto("summarize")
           /\ UNCHANGED <<step, todo, summary, failed>>
  <2>1. PICK m \in DOMAIN nodes : /\ select_range = SubSeq(nodes, 1, m)
                                  /\ m < Len(nodes) /\ tool_pairing_balanced_before(m + 1)
    BY <1>4, SelectRangeIs DEF Helpless
  <2>2. Sound(log, nodes)
    BY <1>1, FittingIs
  <2>3. CutAt(log, nodes, m)
    <3>1. m \in Nat /\ m + 1 \in Nat /\ 1 <= m + 1 /\ m + 1 <= Len(nodes) + 1 /\ m + 1 - 1 = m
      <4>1. m \in 1 .. Len(nodes) /\ Len(nodes) \in Nat
        BY NodesAre
      <4> QED  BY <4>1
    <3>2. PICK at : at = m + 1
      OBVIOUS
    <3>3. CutAt(log, nodes, at - 1)
      BY <2>1, <2>2, <3>1, <3>2, BalancedCut DEF Sound
    <3> QED  BY <3>1, <3>2, <3>3
  <2>4. PICK es : es = <<Mark("compaction/start")>>
    OBVIOUS
  <2>5. Marking(es) /\ Without(es, "context/snapshot") /\ Without(es, "step/end") /\ Without(es, "turn/end")
    BY <2>4, OneMark DEF Marks
  <2>6. Carried(es) /\ nodes' = nodes
    BY <1>4, <2>2, <2>4, <2>5, MarkingCarries DEF Sound
  <2>7. Sound(log', nodes')
    BY <2>2, <2>5, <2>6 DEF Sound, Carried
  <2>8. CutAt(log', nodes', m)
    BY <2>2, <2>3, <2>6, CutKept DEF Carried, Sound
  <2>9. pc' = "summarize" /\ shadowed' = SubSeq(nodes', 1, m)
    BY <1>4, <2>1, <2>6 DEF Goto
  <2> QED  BY <2>1, <2>6, <2>7, <2>8, <2>9, GoesOn DEF Fitting
<1> QED  BY <1>2, <1>3, <1>4 DEF Compact

LEMMA CompactEndPairs ==
  ASSUME HistInv, PairInv, CompactEnd
  PROVE  PairInv'
<1>1. pc \in Fitting
  BY DEF CompactEnd, Fitting
<1>2. CASE Fails(<<>>)
  BY <1>1, <1>2, FailsAtOncePairs
<1>3. CASE \E ended \in {<<>>, <<Mark("compaction/end")>>} :
             /\ ended # <<>> \/ failed
             /\ Write(ended) /\ Goto("request")
             /\ shadowed' = <<>> /\ summary' = 0 /\ failed' = FALSE
             /\ UNCHANGED <<step, todo>>
  <2>1. PICK ended \in {<<>>, <<Mark("compaction/end")>>} : Write(ended) /\ pc' = "request"
    BY <1>3 DEF Goto
  <2>2. /\ Marking(ended) /\ Without(ended, "context/snapshot")
        /\ Without(ended, "step/end") /\ Without(ended, "turn/end")
    <3>1. CASE ended = <<>>
      BY <3>1, NoMark
    <3>2. CASE ended = <<Mark("compaction/end")>>
      BY <3>2, OneMark DEF Marks
    <3> QED  BY <3>1, <3>2
  <2>3. Sound(log, nodes)
    BY <1>1, FittingIs
  <2>4. Carried(ended) /\ nodes' = nodes
    BY <2>1, <2>2, <2>3, MarkingCarries DEF Sound
  <2>5. Sound(log', nodes')
    BY <2>2, <2>3, <2>4 DEF Sound, Carried
  <2> QED  BY <2>1, <2>5, GoesOn DEF Fitting
<1> QED  BY <1>2, <1>3 DEF CompactEnd

-----------------------------------------------------------------------------
(* The steps that say something new.                                       *)

LEMMA SaidWritten ==
  ASSUME HistInv, NEW es, Write(es), Plain(es), NEW a \in Nat, NEW c \in Nat, a + c <= Len(es),
         \A k \in DOMAIN es : IsSurface(es[k]) <=> k \in a + 1 .. a + c,
         a > 0 \/ c = 0 \/ surface.claim = {}
  PROVE  /\ Appended(log, es, log') /\ Agrees(log, log') /\ Seen(log, nodes)
         /\ Extended(nodes, c, Len(log) + a, nodes')
<1>1. log' = log \o es /\ surface' = SurfaceAfter(log, surface, es)
  BY WriteIs
<1>2. log \in Seq(LogEvents) /\ surface \in Surfaces /\ es \in Seq(LogEvents) /\ \A k \in DOMAIN es : ~IsRecord(es[k])
  BY DEF HistInv, Faithful, Plain
<1>3. Appended(log, es, log')
  BY <1>1, <1>2, AppendedIs
<1>4. Agrees(log, log')
  BY <1>3 DEF Agrees, Appended
<1>5. PICK t : t = surface'
  OBVIOUS
<1>6. Extended(nodes, c, Len(log) + a, t.nodes)
  BY <1>1, <1>2, <1>5, SaidIs DEF nodes
<1>7. t.nodes = nodes'
  BY <1>5 DEF nodes
<1> QED  BY <1>3, <1>4, <1>6, <1>7, SeenIs

(* What is written last was written after any snapshot.                    *)
LEMMA LastIsFresh ==
  ASSUME NEW L, NEW es, NEW M, Appended(L, es, M), Without(es, "context/snapshot"),
         NEW c \in DOMAIN es, NEW i, i = Len(L) + c
  PROVE  Fresh(M, i) /\ i \in DOMAIN M /\ M[i] = es[c] /\ i > Len(L)
<1>1. i \in DOMAIN M /\ M[i] = es[c] /\ Len(L) \in Nat /\ c \in Nat /\ c >= 1 /\ DOMAIN L = 1 .. Len(L)
  BY DEF Appended
<1>2. i > Len(L)
  BY <1>1
<1>3. \A q \in DOMAIN M : M[q].ty = "context/snapshot" => q \in DOMAIN L
  BY AppendedPlace DEF Without
<1>4. \A q \in DOMAIN L : q < i
  BY <1>1, <1>2
<1> QED  BY <1>1, <1>2, <1>3, <1>4 DEF Fresh

LEMMA StepStartPairs ==
  ASSUME HistInv, PairInv, NEW claimed \in 0 .. 1, StepStart(claimed)
  PROVE  PairInv'
<1>1. /\ pc = "boundary" /\ (step = 1 => claimed > 0) /\ pc' = "fit"
      /\ Write(<<Mark("step/start")>> \o [k \in 1..claimed |-> User])
  BY DEF StepStart, Goto
<1>2. Paired(log, nodes) /\ ResultsOf(log) /\ Whole(log, nodes) /\ TurnOpen(log) /\ (step = 1 \/ Asked(log, nodes))
  BY <1>1 DEF PairInv, Stage
<1>3. PICK t : t = <<Mark("step/start")>>
  OBVIOUS
<1>4. /\ Marking(t) /\ DOMAIN t = {1} /\ t[1].ty = "step/start" /\ t \in Seq(LogEvents)
      /\ \A ty : ty # "step/start" => Without(t, ty)
  BY <1>3, OneMark DEF Marks, Marking
<1>5. CASE claimed = 0
  <2>1. t \o [k \in 1 .. claimed |-> User] = t
    <3>1. [k \in 1 .. 0 |-> User] = <<>>
      OBVIOUS
    <3> QED  BY <1>4, <1>5, <3>1
  <2>2. Write(t)
    BY <1>1, <1>3, <2>1
  <2>3. Carried(t)
    BY <1>2, <1>4, <2>2, MarkingCarries
  <2>4. Asked(log, nodes)
    BY <1>1, <1>2, <1>5
  <2>5. StepOpen(log')
    <3>1. 1 \in DOMAIN t /\ \A k \in DOMAIN t : k > 1 => t[k].ty # "step/end"
      BY <1>4
    <3> QED  BY <1>4, <2>3, <3>1, Begins DEF Carried, StepOpen
  <2>6. Without(t, "context/snapshot") /\ Without(t, "turn/end")
    BY <1>4
  <2>7. Sound(log', nodes')
    BY <1>2, <2>3, <2>4, <2>5, <2>6 DEF Sound, Carried
  <2> QED  BY <1>1, <2>7, GoesOn DEF Fitting
<1>6. CASE claimed = 1
  <2>1. User \in LogEvents /\ ~IsRecord(User) /\ IsSurface(User) /\ User.ty = "user/message"
    BY DEF User, Event, LogEvents, Types, IsRecord, IsSurface
  <2>2. PICK es : es = t \o [k \in 1 .. claimed |-> User]
    OBVIOUS
  <2>3. /\ es \in Seq(LogEvents) /\ DOMAIN es = {1, 2} /\ Len(es) = 2
        /\ es[1] = t[1] /\ es[2] = User
    <3>1. PICK q : q = [k \in 1 .. 1 |-> User]
      OBVIOUS
    <3>2. q \in Seq(LogEvents) /\ DOMAIN q = {1} /\ Len(q) = 1 /\ q[1] = User
      BY <2>1, <3>1
    <3>3. Appended(t, q, es)
      BY <1>4, <1>6, <2>2, <3>1, <3>2, AppendedIs
    <3>4. Len(t) = 1
      BY <1>3
    <3>5. DOMAIN es = 1 .. 1 + 1 /\ Len(es) = 1 + 1 /\ es[1] = t[1] /\ es[1 + 1] = q[1]
      BY <1>4, <3>2, <3>3, <3>4 DEF Appended
    <3>6. 1 .. 1 + 1 = {1, 2} /\ 1 + 1 = 2
      OBVIOUS
    <3>7. es \in Seq(LogEvents)
      BY <3>3 DEF Appended
    <3> QED  BY <3>2, <3>5, <3>6, <3>7
  <2>4. ~IsRecord(t[1]) /\ ~IsSurface(t[1])
    BY <1>4 DEF Marking
  <2>5. Plain(es) /\ \A k \in DOMAIN es : IsSurface(es[k]) <=> k \in 1 + 1 .. 1 + 1
    BY <2>1, <2>3, <2>4 DEF Plain
  <2>6. Write(es)
    BY <1>1, <1>3, <2>2
  <2>7. /\ Appended(log, es, log') /\ Agrees(log, log') /\ Seen(log, nodes)
        /\ Extended(nodes, 1, Len(log) + 1, nodes')
    <3>1. 1 + 1 <= Len(es) /\ 1 \in Nat /\ 1 > 0
      BY <2>3
    <3> QED  BY <2>5, <2>6, <3>1, SaidWritten
  <2>8. \A ty : ty \notin {"step/start", "user/message"} => Without(es, ty)
    BY <1>4, <2>1, <2>3 DEF Without
  <2>9. PICK i : i = Len(log) + 2
    OBVIOUS
  <2>10. Fresh(log', i) /\ i \in DOMAIN log' /\ log'[i] = User
    BY <2>3, <2>7, <2>8, <2>9, LastIsFresh
  <2>11. Len(log) \in Nat /\ i = Len(log) + 1 + 1 /\ i - 1 = Len(log) + 1
    BY <2>7, <2>9 DEF Appended
  <2>12. Paired(log', nodes') /\ Whole(log', nodes')
    <3>1. \A x \in 1 .. 1 : log'[Len(log) + 1 + x].ty = "user/message"
      BY <2>1, <2>10, <2>11
    <3> QED  BY <1>2, <2>7, <2>11, <3>1, UsersAppended
  <2>13. Asked(log', nodes')
    <3>1. nodes'[Len(nodes')] = i /\ nodes' # <<>>
      <4>1. PICK ns : ns = nodes
        OBVIOUS
      <4>2. PICK ms : ms = nodes'
        OBVIOUS
      <4>3. Extended(ns, 1, Len(log) + 1, ms) /\ Seen(log, ns)
        BY <2>7, <4>1, <4>2
      <4>4. ms \in Seq(Nat) /\ Len(ms) = Len(ns) + 1 /\ ms[Len(ns) + 1] = Len(log) + 1 + 1 /\ Len(ns) \in Nat
        BY <4>3 DEF Extended, Seen
      <4>5. ms # <<>>
        BY <4>4
      <4> QED  BY <2>11, <4>2, <4>4, <4>5
    <3>2. log'[i - 1] = t[1]
      BY <2>3, <2>7, <2>11 DEF Appended
    <3> QED  BY <2>1, <2>4, <2>10, <3>1, <3>2 DEF Asked, Verbatim
  <2>14. ResultsOf(log')
    BY <1>2, <1>4, <2>1, <2>3, <2>7, ResultsKept
  <2>15. StepOpen(log')
    <3>1. 1 \in DOMAIN es /\ es[1].ty = "step/start" /\ \A k \in DOMAIN es : k > 1 => es[k].ty # "step/end"
      BY <1>4, <2>1, <2>3
    <3> QED  BY <2>7, <3>1, Begins DEF StepOpen
  <2>16. TurnOpen(log')
    BY <1>2, <2>7, <2>8, OpenKept DEF TurnOpen, Without
  <2>17. Sound(log', nodes')
    BY <2>12, <2>13, <2>14, <2>15, <2>16 DEF Sound
  <2> QED  BY <1>1, <2>17, GoesOn DEF Fitting
<1> QED  BY <1>5, <1>6

(* An answer is owed all it asks for, and was told nothing before it came. *)
LEMMA RespondPairs ==
  ASSUME HistInv, PairInv, NEW n \in Batches, NEW size \in {0, 1}, Respond(n, size)
  PROVE  PairInv'
<1>1. /\ pc = "request" /\ (n > 0 => size > 0) /\ pc' = (IF n = 0 THEN "close" ELSE "tools")
      /\ Write(<<Event("assistant/message", n, {}, size)>>)
  BY DEF Respond, Goto
<1>2. Sound(log, nodes)
  BY <1>1, FittingIs DEF Fitting
<1>3. PICK e : e = Event("assistant/message", n, {}, size)
  OBVIOUS
<1>4. n \in Nat /\ size \in Nat
  BY ConstantsAssumption
<1>5. e \in LogEvents /\ ~IsRecord(e) /\ IsSurface(e) /\ e.ty = "assistant/message" /\ e.n = n /\ e.size = size
  BY <1>3, <1>4 DEF Event, LogEvents, Types, IsRecord, IsSurface
<1>6. PICK es : es = <<e>>
  OBVIOUS
<1>7. es \in Seq(LogEvents) /\ DOMAIN es = {1} /\ Len(es) = 1 /\ es[1] = e
  BY <1>5, <1>6
<1>8. Plain(es) /\ \A k \in DOMAIN es : IsSurface(es[k]) <=> k \in 0 + 1 .. 0 + 1
  BY <1>5, <1>7 DEF Plain
<1>9. PICK i : i = Len(log) + 1
  OBVIOUS
<1>10. Len(log) \in Nat /\ Len(log) + 0 = Len(log) /\ i \in Nat
  BY <1>9, SeenIs
<1>11. /\ Appended(log, es, log') /\ Agrees(log, log') /\ Seen(log, nodes)
       /\ Extended(nodes, 1, Len(log), nodes')
  <2>1. surface.claim = {} /\ Write(es) /\ 0 + 1 <= Len(es) /\ 0 \in Nat /\ 1 \in Nat
    BY <1>1, <1>3, <1>6, <1>7, NothingClaimed
  <2>2. /\ Appended(log, es, log') /\ Agrees(log, log') /\ Seen(log, nodes)
        /\ Extended(nodes, 1, Len(log) + 0, nodes')
    BY <1>8, <2>1, SaidWritten
  <2> QED  BY <1>10, <2>2
<1>12. \A ty : ty # "assistant/message" => Without(es, ty)
  BY <1>5, <1>7 DEF Without
<1>13. Fresh(log', i) /\ i \in DOMAIN log' /\ log'[i] = e
  BY <1>7, <1>9, <1>11, <1>12, LastIsFresh
<1>14. PICK ms : ms = nodes'
  OBVIOUS
<1>15. PICK k : k = Len(ms)
  OBVIOUS
<1>16. /\ Paired(log', ms) /\ ms[k] = i /\ k \in DOMAIN ms /\ k \in Nat
       /\ \A j \in DOMAIN ms : Asks(log', ms[j]) => j = k \/ j + log'[ms[j]].n <= k
  <2>1. Asks(log', Len(log) + 1) /\ log'[Len(log) + 1].n \in Nat
        /\ (log'[Len(log) + 1].n > 0 => log'[Len(log) + 1].size > 0)
    BY <1>1, <1>4, <1>5, <1>9, <1>13 DEF Asks
  <2>2. Extended(nodes, 1, Len(log), ms) /\ Paired(log, nodes) /\ Whole(log, nodes)
    BY <1>2, <1>11, <1>14 DEF Sound
  <2>3. /\ Paired(log', ms) /\ Len(ms) = Len(nodes) + 1 /\ ms[Len(ms)] = Len(log) + 1 /\ Len(ms) \in DOMAIN ms
        /\ \A j \in DOMAIN ms : Asks(log', ms[j]) => j = Len(ms) \/ j + log'[ms[j]].n <= Len(ms)
    BY <1>10, <1>11, <2>1, <2>2, AnswerAppended
  <2>4. Len(ms) \in Nat
    BY <1>11, <2>3 DEF Seen
  <2> QED  BY <1>9, <1>15, <2>3, <2>4
<1>17. ResultsOf(log')
  BY <1>2, <1>5, <1>7, <1>11, ResultsKept DEF Sound
<1>18. Told(log', i) = {}
  <2> SUFFICES ASSUME NEW q \in DOMAIN log', log'[q].ty = "tool/result", log'[q].n = i PROVE FALSE
    BY DEF Told
  <2>1. i \in 1 .. q - 1
    BY <1>17 DEF ResultsOf, Tells
  <2>2. q \in DOMAIN log
    BY <1>5, <1>7, <1>11, AppendedPlace
  <2>3. q \in 1 .. Len(log)
    BY <1>11, <2>2 DEF Appended
  <2> QED  BY <1>9, <1>10, <2>1, <2>3
<1>19. Owing(log', ms, k)
  <2>1. Asks(log', ms[k]) /\ log'[ms[k]].n = n
    BY <1>5, <1>13, <1>16 DEF Asks
  <2>2. k + Cardinality(Told(log', ms[k])) = Len(ms)
    BY <1>15, <1>16, <1>18, FS_EmptySet
  <2>3. Len(ms) <= k + log'[ms[k]].n
    BY <1>4, <1>15, <1>16, <2>1
  <2>4. \A q \in DOMAIN log' : ~(q > ms[k])
    <3>1. DOMAIN log' = 1 .. Len(log) + 1
      BY <1>7, <1>11 DEF Appended
    <3> QED  BY <1>9, <1>10, <1>16, <3>1
  <2>5. \A j \in k .. Len(ms) : j = k
    BY <1>15, <1>16
  <2> QED  BY <1>13, <1>15, <1>16, <2>1, <2>2, <2>3, <2>4, <2>5 DEF Owing
<1>20. StepOpen(log') /\ TurnOpen(log')
  <2>1. Without(es, "step/end") /\ Without(es, "turn/end")
    BY <1>12
  <2> QED  BY <1>2, <1>11, <2>1, OpenKept DEF StepOpen, TurnOpen, Without, Sound
<1>21. pc' \in {"tools", "close"} /\ (log'[ms[k]].n = 0 <=> pc' = "close")
  BY <1>1, <1>5, <1>13, <1>16
<1> QED  BY <1>14, <1>16, <1>17, <1>19, <1>20, <1>21, GoesToTools

(* What is owed is claimed by no record.                                   *)
LEMMA OwingUnclaimed ==
  ASSUME HistInv, NEW k \in DOMAIN nodes, Owing(log, nodes, k)
  PROVE  ~Fitted(log) /\ surface.claim = {}
<1>1. ~Fitted(log)
  <2> SUFFICES ASSUME Fitted(log) PROVE FALSE
    OBVIOUS
  <2>1. PICK p \in DOMAIN log : log[p].ty = "step/start" /\ \A q \in DOMAIN log : q > p => log[q].ty # "assistant/message"
    BY DEF Fitted
  <2>2. nodes[k] \in DOMAIN log /\ log[nodes[k]].ty = "assistant/message"
    BY NodesAre DEF Owing, Asks
  <2>3. ~(nodes[k] > p) /\ ~(p > nodes[k])
    BY <2>1, <2>2 DEF Owing
  <2>4. nodes[k] = p
    <3>1. DOMAIN log = 1 .. Len(log)
      BY DEF HistInv
    <3> QED  BY <2>1, <2>2, <2>3, <3>1
  <2> QED  BY <2>1, <2>2, <2>4
<1> QED  BY <1>1 DEF HistInv, Phase

LEMMA ToolResultPairs ==
  ASSUME HistInv, PairInv, NEW size \in {1, Long}, ToolResult(size)
  PROVE  PairInv'
<1>1. pc = "tools" /\ pc' = "tools" /\ Owed > 0 /\ Write(<<Result(Latest({"assistant/message"}), size)>>)
  BY DEF ToolResult
<1>2. Paired(log, nodes) /\ ResultsOf(log) /\ StepOpen(log) /\ TurnOpen(log)
  BY <1>1 DEF PairInv, Stage
<1>3. PICK k \in DOMAIN nodes : Owing(log, nodes, k) /\ log[nodes[k]].n # 0
  BY <1>1 DEF PairInv, Stage
<1>4. PICK a : a = nodes[k]
  OBVIOUS
<1>5. /\ Latest({"assistant/message"}) = a /\ k \in Nat /\ log[a].n \in Nat /\ Len(nodes) \in Nat /\ Owed \in Int
      /\ k + log[a].n = Len(nodes) + Owed /\ Cardinality(Told(log, a)) \in Nat /\ IsFiniteSet(Told(log, a))
      /\ a \in DOMAIN log /\ a \in Nat
  BY <1>3, <1>4, OwedAt, SeenIs DEF Seen
<1>6. PICK e : e = Result(a, size)
  OBVIOUS
<1>7. /\ e \in LogEvents /\ ~IsRecord(e) /\ IsSurface(e) /\ e.ty = "tool/result" /\ e.n = a
  <2>1. size \in Nat
    BY ConstantsAssumption
  <2>2. e.ty = "tool/result" /\ e.n = a
    BY <1>6 DEF Result, Event
  <2> QED  BY <1>5, <1>6, <2>1, <2>2, ResultIs
<1>8. PICK es : es = <<e>>
  OBVIOUS
<1>9. es \in Seq(LogEvents) /\ DOMAIN es = {1} /\ Len(es) = 1 /\ es[1] = e
  BY <1>7, <1>8
<1>10. Plain(es) /\ \A x \in DOMAIN es : IsSurface(es[x]) <=> x \in 0 + 1 .. 0 + 1
  BY <1>7, <1>9 DEF Plain
<1>11. PICK i : i = Len(log) + 1
  OBVIOUS
<1>12. Len(log) \in Nat /\ Len(log) + 0 = Len(log) /\ i \in Nat /\ i \notin DOMAIN log
  <2>1. log \in Seq(LogEvents)
    BY DEF HistInv
  <2> QED  BY <1>11, <2>1
<1>13. surface.claim = {}
  BY <1>3, OwingUnclaimed
<1>14. /\ Appended(log, es, log') /\ Agrees(log, log') /\ Seen(log, nodes)
       /\ Extended(nodes, 1, Len(log), nodes')
  <2>1. Write(es) /\ 0 + 1 <= Len(es) /\ 0 \in Nat /\ 1 \in Nat
    BY <1>1, <1>5, <1>6, <1>8, <1>9
  <2>2. /\ Appended(log, es, log') /\ Agrees(log, log') /\ Seen(log, nodes)
        /\ Extended(nodes, 1, Len(log) + 0, nodes')
    BY <1>10, <1>13, <2>1, SaidWritten
  <2> QED  BY <1>12, <2>2
<1>15. \A ty : ty # "tool/result" => Without(es, ty)
  BY <1>7, <1>9 DEF Without
<1>16. Fresh(log', i) /\ i \in DOMAIN log' /\ log'[i] = e
  BY <1>9, <1>11, <1>14, <1>15, LastIsFresh
<1>17. PICK ms : ms = nodes'
  OBVIOUS
<1>18. Extended(nodes, 1, Len(log), ms)
  BY <1>14, <1>17
<1>19. /\ \A j \in DOMAIN nodes : j \in DOMAIN ms /\ ms[j] = nodes[j] /\ log'[ms[j]] = log[nodes[j]]
       /\ \A j \in DOMAIN ms : j \in DOMAIN nodes \/ \E x \in 1 .. 1 : j = Len(nodes) + x /\ ms[j] = Len(log) + x
       /\ Len(ms) = Len(nodes) + 1 /\ \A j \in DOMAIN ms : j \in Nat
  <2>1. PICK M : M = log'
    OBVIOUS
  <2>2. PICK b : b = Len(log)
    OBVIOUS
  <2>3. PICK ns : ns = nodes
    OBVIOUS
  <2>4. Seen(log, ns) /\ Agrees(log, M) /\ 1 \in Nat /\ b \in Nat /\ Extended(ns, 1, b, ms)
    BY <1>12, <1>14, <1>18, <2>1, <2>2, <2>3
  <2>5. /\ \A j \in DOMAIN ns : j \in DOMAIN ms /\ ms[j] = ns[j] /\ M[ms[j]] = log[ns[j]]
        /\ \A j \in DOMAIN ms : j \in DOMAIN ns \/ \E x \in 1 .. 1 : j = Len(ns) + x /\ ms[j] = b + x
        /\ Len(ms) = Len(ns) + 1 /\ \A j \in DOMAIN ms : j \in Nat
    BY <2>4, ExtendedPlaces
  <2> QED  BY <2>1, <2>2, <2>3, <2>5
<1>20. Asks(log, a) /\ k + Cardinality(Told(log, a)) = Len(nodes)
       /\ \A j \in DOMAIN nodes : Asks(log, nodes[j]) => j = k \/ j + log[nodes[j]].n <= Len(nodes)
  BY <1>3, <1>4 DEF Owing
<1>21. Len(nodes) + 1 <= k + log[a].n
  <2>1. PICK w : w = Owed
    OBVIOUS
  <2>2. w \in Int /\ w > 0 /\ k + log[a].n = Len(nodes) + w
    BY <1>1, <1>5, <2>1
  <2>3. PICK y : y = k + log[a].n
    OBVIOUS
  <2> QED  BY <1>5, <2>2, <2>3
<1>22. /\ Paired(log', ms)
       /\ \A j \in DOMAIN ms : Asks(log', ms[j]) => j = k \/ j + log'[ms[j]].n <= Len(ms)
  <2>1. \A x \in 1 .. 1 : Tells(log', Len(log) + x) /\ log'[Len(log) + x].n = nodes[k]
    BY <1>4, <1>7, <1>11, <1>16 DEF Tells
  <2>2. Asks(log, nodes[k]) /\ Len(nodes) + 1 <= k + log[nodes[k]].n
    BY <1>4, <1>20, <1>21
  <2> QED  BY <1>2, <1>12, <1>14, <1>18, <1>20, <2>1, <2>2, ResultsAppended
<1>23. ResultsOf(log')
  <2>1. log[Len(log)].ty # "compaction/summary"
    <3>1. log # <<>>
      BY <1>5
    <3> QED  BY <1>13, <3>1, NoRecordLast DEF IsRecord
  <2> QED  BY <1>2, <1>5, <1>7, <1>9, <1>14, <2>1, ResultsKept
<1>24. Told(log', a) = Told(log, a) \cup {i} /\ i \notin Told(log, a)
  <2>1. Told(log', a) \subseteq Told(log, a) \cup {i}
    <3>1. \A q \in DOMAIN log' : \/ q \in DOMAIN log /\ log'[q] = log[q]
                                 \/ q = i
      BY <1>9, <1>11, <1>14, AppendedPlace
    <3> QED  BY <3>1 DEF Told
  <2>2. Told(log, a) \subseteq Told(log', a)
    BY <1>14 DEF Appended, Told
  <2>3. i \in Told(log', a)
    BY <1>7, <1>16 DEF Told
  <2> QED  BY <1>12, <2>1, <2>2, <2>3 DEF Told
<1>25. Cardinality(Told(log', a)) = Cardinality(Told(log, a)) + 1
  <2>1. PICK T : T = Told(log, a)
    OBVIOUS
  <2>2. IsFiniteSet(T) /\ i \notin T /\ Told(log', a) = T \cup {i}
    BY <1>5, <1>24, <2>1
  <2>3. Cardinality(T \cup {i}) = Cardinality(T) + 1
    BY <2>2, FS_AddElement
  <2> QED  BY <2>1, <2>2, <2>3
<1>26. ms[k] = a /\ k \in DOMAIN ms /\ log'[a] = log[a]
  BY <1>3, <1>4, <1>5, <1>14, <1>19 DEF Agrees
<1>27. Owing(log', ms, k)
  <2>1. Asks(log', ms[k])
    BY <1>20, <1>26 DEF Asks
  <2>2. k + Cardinality(Told(log', ms[k])) = Len(ms)
    <3>1. PICK r : r = Cardinality(Told(log, a))
      OBVIOUS
    <3>2. r \in Nat /\ k + r = Len(nodes) /\ k \in Nat
      BY <1>5, <1>20, <3>1
    <3>3. k + (r + 1) = Len(nodes) + 1
      BY <1>5, <3>2
    <3> QED  BY <1>19, <1>25, <1>26, <3>1, <3>3
  <2>3. Len(ms) <= k + log'[ms[k]].n
    BY <1>19, <1>21, <1>26
  <2>4. \A q \in DOMAIN log' : q > ms[k] => log'[q].ty \notin {"assistant/message", "step/start"}
    <3> SUFFICES ASSUME NEW q \in DOMAIN log', q > a PROVE log'[q].ty \notin {"assistant/message", "step/start"}
      BY <1>26
    <3>1. CASE q \in DOMAIN log
      BY <1>3, <1>4, <1>14, <3>1 DEF Owing, Agrees
    <3>2. CASE q \notin DOMAIN log
      BY <1>7, <1>9, <1>14, <3>2, AppendedPlace
    <3> QED  BY <3>1, <3>2
  <2>5. \A j \in k .. Len(ms) : Fresh(log', ms[j])
    <3> SUFFICES ASSUME NEW j \in k .. Len(ms) PROVE Fresh(log', ms[j])
      OBVIOUS
    <3>1. CASE j = Len(nodes) + 1
      <4>1. j \in DOMAIN ms /\ j \notin DOMAIN nodes
        <5>1. DOMAIN ms = 1 .. Len(nodes) + 1 /\ DOMAIN nodes = 1 .. Len(nodes)
          BY <1>18, NodesAre DEF Extended
        <5> QED  BY <1>5, <3>1, <5>1
      <4>2. ms[j] = i
        BY <1>11, <1>19, <4>1
      <4> QED  BY <1>16, <4>2
    <3>2. CASE j # Len(nodes) + 1
      <4>1. j \in k .. Len(nodes) /\ j \in DOMAIN nodes
        <5>1. DOMAIN nodes = 1 .. Len(nodes) /\ k \in 1 .. Len(nodes)
          BY NodesAre
        <5> QED  BY <1>5, <1>19, <3>2, <5>1
      <4>2. Fresh(log, nodes[j])
        BY <1>3, <4>1 DEF Owing
      <4>3. Fresh(log', nodes[j])
        BY <1>14, <1>15, <4>2, FreshKept DEF Without
      <4> QED  BY <1>19, <4>1, <4>3
    <3> QED  BY <3>1, <3>2
  <2> QED  BY <1>22, <2>1, <2>2, <2>3, <2>4, <2>5 DEF Owing
<1>28. StepOpen(log') /\ TurnOpen(log')
  <2>1. Without(es, "step/end") /\ Without(es, "turn/end")
    BY <1>15
  <2> QED  BY <1>2, <1>14, <2>1, OpenKept DEF StepOpen, TurnOpen, Without
<1>29. log'[ms[k]].n = 0 <=> pc' = "close"
  BY <1>1, <1>3, <1>4, <1>26
<1> QED  BY <1>1, <1>17, <1>22, <1>23, <1>26, <1>27, <1>28, <1>29, GoesToTools

-----------------------------------------------------------------------------
(* The steps that put one message in the place of a run of others.         *)

LEMMA RunWritten ==
  ASSUME HistInv, NEW e, e \in LogEvents, IsSurface(e), NEW a \in DOMAIN nodes, NEW b \in DOMAIN nodes, a <= b,
         surface.claim = RunOf(nodes, a, b), NEW es, es = <<e>>, Write(es)
  PROVE  /\ Appended(log, es, log') /\ Agrees(log, log') /\ Seen(log, nodes)
         /\ RunGone(nodes, a, b, Len(log) + 1, nodes')
<1>1. log \in Seq(LogEvents) /\ log' = Append(log, e) /\ surface' = Place(surface, Len(log) + 1, e)
  BY WriteOne DEF HistInv
<1>2. es \in Seq(LogEvents) /\ log' = log \o es
  <2>1. es \in Seq(LogEvents)
    OBVIOUS
  <2>2. log' = log \o es
    BY Zenon, WriteIs
  <2> QED  BY <2>1, <2>2
<1>3. Appended(log, es, log')
  BY <1>1, <1>2, AppendedIs
<1>4. Agrees(log, log')
  BY <1>3 DEF Agrees, Appended
<1>5. PICK i : i = Len(log) + 1
  OBVIOUS
<1>6. i \in Nat
  BY <1>1, <1>5
<1>7. nodes' = Replaced(nodes, RunOf(nodes, a, b), i)
  <2>1. ~IsRecord(e)
    BY DEF IsRecord, IsSurface
  <2>2. PICK t : t = surface'
    OBVIOUS
  <2>3. t = [nodes |-> Replaced(surface.nodes, surface.claim, i), claim |-> {}]
    BY <1>1, <1>5, <2>1, <2>2 DEF Place
  <2>4. t.nodes = Replaced(surface.nodes, surface.claim, i)
    BY <2>3
  <2>5. nodes' = t.nodes
    BY <2>2 DEF nodes
  <2> QED  BY <2>4, <2>5 DEF nodes
<1>8. PICK ns : ns = nodes
  OBVIOUS
<1>9. ns \in Seq(Nat) /\ Distinct(ns) /\ a \in Nat /\ b \in Nat /\ 1 <= a /\ b <= Len(ns)
  <2>1. DOMAIN ns = 1 .. Len(ns) /\ ns \in Seq(Nat) /\ Distinct(ns) /\ Len(ns) \in Nat
    BY <1>8, NodesAre
  <2> QED  BY <1>8, <2>1
<1>10. RunGone(ns, a, b, i, Replaced(ns, RunOf(ns, a, b), i))
  BY <1>6, <1>9, RunReplaced
<1> QED  BY <1>3, <1>4, <1>5, <1>7, <1>8, <1>10, SeenIs

LEMMA PrunedPairs ==
  ASSUME HistInv, PairInv, Pruned
  PROVE  PairInv'
<1>1. pc \in Fitting /\ pc = "pruned"
  BY DEF Pruned, Fitting
<1>2. CASE Fails(<<>>)
  BY <1>1, <1>2, FailsAtOncePairs
<1>3. CASE /\ Write(<<Result(log[Head(todo)].n, Short)>>)
           /\ todo' = Tail(todo) /\ Goto("prune") /\ UNCHANGED <<step, shadowed, summary, failed>>
  <2>1. PICK h : h = Head(todo)
    OBVIOUS
  <2>2. /\ todo # <<>> /\ todo \in Seq(Nat) /\ surface.claim = {h}
        /\ \A k \in DOMAIN todo : \E j \in DOMAIN nodes : nodes[j] = todo[k]
    BY <1>1, <2>1 DEF HistInv, Phase, nodes
  <2>3. /\ \A k \in DOMAIN todo : Tells(log, todo[k])
        /\ log[Len(log)].ty = "compaction/prune"
    BY <1>1 DEF PairInv, Stage
  <2>4. 1 \in DOMAIN todo /\ h = todo[1] /\ Tells(log, h)
    BY <2>1, <2>2, <2>3
  <2>5. PICK a \in DOMAIN nodes : nodes[a] = h
    BY <2>2, <2>4
  <2>6. a \in Nat /\ h \in DOMAIN log /\ log[h].n \in Nat /\ Len(log) \in Nat
    BY <2>5, SeenIs DEF Seen
  <2>7. surface.claim = RunOf(nodes, a, a) /\ a <= a
    <3>1. a .. a = {a}
      BY <2>6
    <3> QED  BY <2>2, <2>5, <2>6, <3>1 DEF RunOf
  <2>8. PICK e : e = Result(log[h].n, Short)
    OBVIOUS
  <2>9. e \in LogEvents /\ IsSurface(e) /\ e.ty = "tool/result" /\ e.n = log[h].n
    <3>1. e.ty = "tool/result" /\ e.n = log[h].n
      BY <2>8 DEF Result, Event
    <3> QED  BY <2>6, <2>8, <3>1, ResultIs, ConstantsAssumption
  <2>10. PICK es : es = <<e>>
    OBVIOUS
  <2>11. es \in Seq(LogEvents) /\ DOMAIN es = {1} /\ es[1] = e
    BY <2>9, <2>10
  <2>12. Write(es) /\ pc' = "prune" /\ todo' = Tail(todo)
    BY <1>3, <2>1, <2>8, <2>10 DEF Goto
  <2>13. PICK i : i = Len(log) + 1
    OBVIOUS
  <2>14. /\ Appended(log, es, log') /\ Agrees(log, log') /\ Seen(log, nodes)
         /\ RunGone(nodes, a, a, i, nodes')
    BY <2>7, <2>9, <2>10, <2>12, <2>13, RunWritten
  <2>15. \A ty : ty # "tool/result" => Without(es, ty)
    BY <2>9, <2>11 DEF Without
  <2>16. Fresh(log', i) /\ log'[i] = e
    BY <2>11, <2>13, <2>14, <2>15, LastIsFresh
  <2>17. Sound(log, nodes)
    BY <1>1, FittingIs
  <2>18. PICK ms : ms = nodes'
    OBVIOUS
  <2>19. /\ Paired(log', ms) /\ Whole(log', ms) /\ Len(ms) = Len(nodes) /\ DOMAIN ms = DOMAIN nodes
         /\ ms[a] = i /\ \A k \in DOMAIN nodes : k # a => ms[k] = nodes[k]
    <3>1. Tells(log, nodes[a]) /\ Tells(log', i) /\ log'[i].n = log[nodes[a]].n
      BY <2>4, <2>5, <2>9, <2>16 DEF Tells
    <3>2. RunGone(nodes, a, a, i, ms)
      BY <2>14, <2>18
    <3> QED  BY <2>14, <2>17, <3>1, <3>2, OneReplaced DEF Sound
  <2>20. ResultsOf(log')
    <3>1. e.n \in DOMAIN log
      <4>1. log[h].n \in 1 .. h - 1
        BY <2>4, <2>6, <2>17 DEF Sound, ResultsOf
      <4>2. DOMAIN log = 1 .. Len(log)
        BY <2>14 DEF Appended
      <4> QED  BY <2>6, <2>9, <4>1, <4>2
    <3>2. log[Len(log)].ty # "compaction/summary"
      BY <2>3
    <3> QED  BY <2>11, <2>14, <2>17, <3>1, <3>2, ResultsKept DEF Sound
  <2>21. Asked(log', ms)
    <3>1. Len(nodes) \in DOMAIN nodes /\ nodes # <<>> /\ Verbatim(log, nodes[Len(nodes)]) /\ Fresh(log, nodes[Len(nodes)])
      BY <2>14, <2>17 DEF Sound, Asked, Seen
    <3>2. ms # <<>>
      BY <2>19, <3>1
    <3>3. CASE Len(nodes) = a
      <4>1. ms[Len(ms)] = i
        BY <2>19, <3>3
      <4>2. Verbatim(log', i)
        BY <2>9, <2>16 DEF Verbatim, Tells
      <4> QED  BY <2>16, <3>2, <4>1, <4>2 DEF Asked
    <3>4. CASE Len(nodes) # a
      <4>1. ms[Len(ms)] = nodes[Len(nodes)]
        BY <2>19, <3>1, <3>4
      <4>2. Verbatim(log', nodes[Len(nodes)])
        BY <2>14, <3>1, VerbatimKept DEF Seen
      <4>3. Fresh(log', nodes[Len(nodes)])
        BY <2>14, <2>15, <3>1, FreshKept DEF Without
      <4> QED  BY <3>2, <4>1, <4>2, <4>3 DEF Asked
    <3> QED  BY <3>3, <3>4
  <2>22. StepOpen(log') /\ TurnOpen(log')
    <3>1. Without(es, "step/end") /\ Without(es, "turn/end")
      BY <2>15
    <3> QED  BY <2>14, <2>17, <3>1, OpenKept DEF StepOpen, TurnOpen, Without, Sound
  <2>23. Sound(log', nodes')
    BY <2>18, <2>19, <2>20, <2>21, <2>22 DEF Sound
  <2>24. \A k \in DOMAIN todo' : Tells(log', todo'[k])
    <3>1. PICK rest : rest = Tail(todo)
      OBVIOUS
    <3>2. \A k \in DOMAIN rest : k + 1 \in DOMAIN todo /\ rest[k] = todo[k + 1]
      BY <2>2, <3>1
    <3>3. \A k \in DOMAIN todo : todo[k] \in DOMAIN log
      BY <2>2, NodesAre
    <3> QED  BY <2>3, <2>12, <2>14, <3>1, <3>2, <3>3 DEF Tells, Agrees
  <2> QED  BY <2>12, <2>23, <2>24, GoesOn DEF Fitting
<1> QED  BY <1>2, <1>3 DEF Pruned

LEMMA ReplacePairs ==
  ASSUME HistInv, PairInv, Replace
  PROVE  PairInv'
<1>1. pc \in Fitting /\ pc = "replace"
  BY DEF Replace, Fitting
<1>2. CASE FailsCompacting
  BY <1>1, <1>2, FailsCompactingPairs
<1>3. CASE /\ Write(<<Event("user/message", 0, {}, summary)>>)
           /\ Goto("closing") /\ UNCHANGED <<step, rewrite>>
  <2>1. PICK m \in DOMAIN nodes : shadowed = SubSeq(nodes, 1, m) /\ m < Len(nodes) /\ CutAt(log, nodes, m)
    BY <1>1 DEF PairInv, Stage
  <2>2. PICK e : e = Event("user/message", 0, {}, summary)
    OBVIOUS
  <2>3. e \in LogEvents /\ IsSurface(e) /\ e.ty = "user/message"
    BY <2>2 DEF HistInv, Event, LogEvents, Types, IsSurface
  <2>4. PICK es : es = <<e>>
    OBVIOUS
  <2>5. es \in Seq(LogEvents) /\ DOMAIN es = {1} /\ es[1] = e
    BY <2>3, <2>4
  <2>6. Write(es) /\ pc' = "closing"
    BY <1>3, <2>2, <2>4 DEF Goto
  <2>7. 1 \in DOMAIN nodes /\ 1 <= m /\ m \in Nat /\ Len(nodes) \in DOMAIN nodes
    <3>1. DOMAIN nodes = 1 .. Len(nodes) /\ Len(nodes) \in Nat
      BY NodesAre
    <3> QED  BY <2>1, <3>1
  <2>8. surface.claim = RunOf(nodes, 1, m)
    <3>1. surface.claim = ToSet(shadowed)
      BY <1>1 DEF HistInv, Phase
    <3> QED  BY <2>1, <3>1, RunIs, NodesAre
  <2>9. PICK i : i = Len(log) + 1
    OBVIOUS
  <2>10. /\ Appended(log, es, log') /\ Agrees(log, log') /\ Seen(log, nodes)
         /\ RunGone(nodes, 1, m, i, nodes')
    BY <2>1, <2>3, <2>4, <2>6, <2>7, <2>8, <2>9, RunWritten
  <2>11. \A ty : ty # "user/message" => Without(es, ty)
    BY <2>3, <2>5 DEF Without
  <2>12. log'[i] = e
    BY <2>5, <2>9, <2>10, <2>11, LastIsFresh
  <2>13. Sound(log, nodes)
    BY <1>1, FittingIs
  <2>14. PICK ms : ms = nodes'
    OBVIOUS
  <2>15. /\ Paired(log', ms) /\ Whole(log', ms) /\ Len(ms) \in Nat
         /\ Len(ms) \in DOMAIN ms /\ ms[Len(ms)] = nodes[Len(nodes)]
    <3>1. RunGone(nodes, 1, m, i, ms) /\ log'[i].ty = "user/message"
      BY <2>3, <2>10, <2>12, <2>14
    <3> QED  BY <2>1, <2>10, <2>13, <3>1, BeginningReplaced DEF Sound
  <2>16. ResultsOf(log')
    BY <2>3, <2>5, <2>10, <2>13, ResultsKept DEF Sound
  <2>17. Asked(log', ms)
    <3>1. Verbatim(log, nodes[Len(nodes)]) /\ Fresh(log, nodes[Len(nodes)])
      BY <2>13 DEF Sound, Asked
    <3>2. Verbatim(log', nodes[Len(nodes)])
      BY <2>7, <2>10, <3>1, VerbatimKept DEF Seen
    <3>3. Fresh(log', nodes[Len(nodes)])
      BY <2>10, <2>11, <3>1, FreshKept DEF Without
    <3>4. ms # <<>>
      BY <2>15
    <3> QED  BY <2>15, <3>2, <3>3, <3>4 DEF Asked
  <2>18. StepOpen(log') /\ TurnOpen(log')
    <3>1. Without(es, "step/end") /\ Without(es, "turn/end")
      BY <2>11
    <3> QED  BY <2>10, <2>13, <3>1, OpenKept DEF StepOpen, TurnOpen, Without, Sound
  <2>19. Sound(log', nodes')
    BY <2>14, <2>15, <2>16, <2>17, <2>18 DEF Sound
  <2> QED  BY <2>6, <2>19, GoesOn DEF Fitting
<1> QED  BY <1>2, <1>3 DEF Replace

-----------------------------------------------------------------------------
(* A repair tells the last answer what it is still owed, and only that.    *)

LEMMA ClosersAre ==
  ASSUME log \in Seq(LogEvents), Latest({"step/start"}) > Latest({"step/end"}),
         NEW c \in Nat, Owed = c, NEW a \in Nat, a = Latest({"assistant/message"}), NEW es, es = Closers
  PROVE  /\ es \in Seq(LogEvents) /\ DOMAIN es = 1 .. c + 2 /\ Len(es) = c + 2
         /\ \A k \in 1 .. c : es[k] = Result(a, 1)
         /\ es[c + 1] = Mark("step/end") /\ es[c + 2] = Mark("turn/end")
<1>1. PICK x : x = Mark("step/end")
  OBVIOUS
<1>2. PICK y : y = Mark("turn/end")
  OBVIOUS
<1>3. PICK e : e = Result(a, 1)
  OBVIOUS
<1>4. x \in LogEvents /\ y \in LogEvents /\ e \in LogEvents
  BY <1>1, <1>2, <1>3, MarkIs, ResultIs DEF Marks
<1>5. PICK r : r = [k \in 1 .. c |-> e]
  OBVIOUS
<1>6. r \in Seq(LogEvents) /\ DOMAIN r = 1 .. c /\ Len(r) = c /\ \A k \in 1 .. c : r[k] = e
  BY <1>4, <1>5
<1>7. PICK z : z = r \o <<x>>
  OBVIOUS
<1>8. z \in Seq(LogEvents) /\ Len(z) = c + 1 /\ z[c + 1] = x /\ \A k \in 1 .. c : z[k] = e
  <2>1. z = Append(r, x)
    BY <1>4, <1>6, <1>7
  <2> QED  BY <1>4, <1>6, <2>1
<1>9. es = Append(z, y)
  <2>1. ~(Latest({"step/start"}) <= Latest({"step/end"}))
    <3>1. PICK p : p = Latest({"step/start"})
      OBVIOUS
    <3>2. PICK q : q = Latest({"step/end"})
      OBVIOUS
    <3>3. p \in Nat /\ q \in Nat /\ p > q
      BY <3>1, <3>2, LatestIs
    <3> QED  BY <3>1, <3>2, <3>3
  <2>2. es = (r \o <<x>>) \o <<y>>
    BY <1>1, <1>2, <1>3, <1>5, <2>1 DEF Closers
  <2> QED  BY <1>4, <1>7, <1>8, <2>2
<1>10. /\ es \in Seq(LogEvents) /\ Len(es) = c + 2 /\ es[c + 2] = y
       /\ \A k \in 1 .. c + 1 : es[k] = z[k]
  <2>1. PICK n : n = c + 1
    OBVIOUS
  <2>2. n \in Nat /\ Len(z) = n /\ n + 1 = c + 2
    BY <1>8, <2>1
  <2>3. es \in Seq(LogEvents) /\ Len(es) = n + 1 /\ es[n + 1] = y /\ \A k \in 1 .. n : es[k] = z[k]
    BY <1>4, <1>8, <1>9, <2>2
  <2> QED  BY <2>1, <2>2, <2>3
<1>11. DOMAIN es = 1 .. c + 2
  BY <1>10
<1>12. c + 1 \in 1 .. c + 1 /\ \A k \in 1 .. c : k \in 1 .. c + 1
  OBVIOUS
<1> QED  BY <1>1, <1>2, <1>3, <1>8, <1>10, <1>11, <1>12

LEMMA RepairPairs ==
  ASSUME HistInv, PairInv, Repair
  PROVE  PairInv'
<1>1. /\ pc = "down" /\ pc' = "idle" /\ log \in Seq(LogEvents)
      /\ Write(IF Latest({"turn/start"}) > Latest({"turn/end"}) THEN Closers ELSE <<>>)
  BY DEF Repair, Goto, HistInv
<1>2. Paired(log, nodes) /\ ResultsOf(log)
  BY DEF PairInv
<1>3. \/ ~StepOpen(log) /\ Whole(log, nodes)
      \/ TurnOpen(log) /\ Fitted(log) /\ Whole(log, nodes)
      \/ TurnOpen(log) /\ StepOpen(log) /\ \E k \in DOMAIN nodes : Owing(log, nodes, k)
  BY <1>1 DEF PairInv, Stage
<1>4. /\ TurnOpen(log) <=> Latest({"turn/start"}) > Latest({"turn/end"})
      /\ StepOpen(log) <=> Latest({"step/start"}) > Latest({"step/end"})
  BY <1>1, LatestOpen DEF TurnOpen, StepOpen
<1>5. CASE ~TurnOpen(log)
  <2>1. Write(<<>>) /\ ~StepOpen(log) /\ Whole(log, nodes)
    BY <1>1, <1>3, <1>4, <1>5
  <2>2. Carried(<<>>)
    BY <1>2, <2>1, NoMark, MarkingCarries
  <2> QED  BY <1>1, <2>1, <2>2, NoMark, GoesIdle DEF Carried
<1>6. CASE TurnOpen(log) /\ ~StepOpen(log)
  <2>1. Whole(log, nodes)
    BY <1>3, <1>6
  <2>2. PICK es : es = <<Mark("turn/end")>>
    OBVIOUS
  <2>3. Marking(es) /\ Without(es, "step/start") /\ es \in Seq(LogEvents)
    BY <2>2, OneMark DEF Marks, Marking
  <2>4. Closers = es
    <3>1. Latest({"step/start"}) <= Latest({"step/end"})
      <4>1. PICK p : p = Latest({"step/start"})
        OBVIOUS
      <4>2. PICK q : q = Latest({"step/end"})
        OBVIOUS
      <4>3. p \in Nat /\ q \in Nat /\ ~(p > q)
        BY <1>1, <1>4, <1>6, <4>1, <4>2, LatestIs
      <4> QED  BY <4>1, <4>2, <4>3
    <3>2. <<>> \o es = es
      BY <2>3
    <3> QED  BY <2>2, <3>1, <3>2 DEF Closers
  <2>5. Write(es)
    BY <1>1, <1>4, <1>6, <2>4
  <2>6. Carried(es)
    BY <1>2, <2>3, <2>5, MarkingCarries
  <2> QED  BY <1>1, <1>6, <2>1, <2>3, <2>6, GoesIdle DEF Carried
<1>7. CASE TurnOpen(log) /\ StepOpen(log)
  <2>1. PICK a : a = Latest({"assistant/message"})
    OBVIOUS
  <2>2. a \in Nat
    BY <1>1, <2>1, LatestIs
  <2>3. PICK es : es = Closers
    OBVIOUS
  <2>4. Write(es) /\ Latest({"step/start"}) > Latest({"step/end"})
    BY <1>1, <1>4, <1>7, <2>3
  <2>5. /\ Mark("step/end").ty = "step/end" /\ ~IsRecord(Mark("step/end")) /\ ~IsSurface(Mark("step/end"))
        /\ Mark("turn/end").ty = "turn/end" /\ ~IsRecord(Mark("turn/end")) /\ ~IsSurface(Mark("turn/end"))
    BY MarkIs DEF Marks
  <2>6. CASE Fitted(log) /\ Whole(log, nodes)
    <3>1. /\ es \in Seq(LogEvents) /\ DOMAIN es = 1 .. 0 + 2
          /\ es[0 + 1] = Mark("step/end") /\ es[0 + 2] = Mark("turn/end")
      <4>1. Owed = 0 /\ 0 \in Nat
        BY <1>1, <2>6, OwedIs
      <4> QED  BY <1>1, <2>1, <2>2, <2>3, <2>4, <4>1, ClosersAre
    <3>2. DOMAIN es = {1, 2} /\ es[1] = Mark("step/end") /\ es[2] = Mark("turn/end")
      BY <3>1
    <3>3. Marking(es) /\ Without(es, "step/start")
      BY <2>5, <3>1, <3>2 DEF Marking, Without
    <3>4. Carried(es)
      BY <1>2, <2>4, <3>3, MarkingCarries
    <3>5. ~StepOpen(log')
      <4>1. 1 \in DOMAIN es /\ es[1].ty = "step/end" /\ \A k \in DOMAIN es : k > 1 => es[k].ty # "step/start"
        BY <2>5, <3>2, <3>3 DEF Without
      <4> QED  BY <3>4, <4>1, Closes DEF Carried, StepOpen
    <3> QED  BY <1>1, <2>6, <3>4, <3>5, GoesIdle DEF Carried
  <2>7. CASE \E k \in DOMAIN nodes : Owing(log, nodes, k)
    <3>1. PICK k \in DOMAIN nodes : Owing(log, nodes, k)
      BY <2>7
    <3>2. PICK c : c = Owed
      OBVIOUS
    <3>3. /\ a = nodes[k] /\ k \in Nat /\ log[a].n \in Nat /\ Len(nodes) \in Nat /\ c \in Int
          /\ k + log[a].n = Len(nodes) + c
      BY <2>1, <3>1, <3>2, OwedAt
    <3>4. /\ Asks(log, a) /\ Len(nodes) <= k + log[a].n
          /\ \A j \in DOMAIN nodes : Asks(log, nodes[j]) => j = k \/ j + log[nodes[j]].n <= Len(nodes)
      BY <3>1, <3>3 DEF Owing
    <3>5. c \in Nat
      <4>1. PICK y : y = k + log[a].n
        OBVIOUS
      <4>2. y = Len(nodes) + c /\ Len(nodes) <= y
        BY <3>3, <3>4, <4>1
      <4> QED  BY <3>3, <4>2
    <3>6. /\ es \in Seq(LogEvents) /\ DOMAIN es = 1 .. c + 2 /\ Len(es) = c + 2
          /\ \A x \in 1 .. c : es[x] = Result(a, 1)
          /\ es[c + 1] = Mark("step/end") /\ es[c + 2] = Mark("turn/end")
      BY <1>1, <2>1, <2>2, <2>3, <2>4, <3>2, <3>5, ClosersAre
    <3>7. /\ Result(a, 1).ty = "tool/result" /\ Result(a, 1).n = a
          /\ ~IsRecord(Result(a, 1)) /\ IsSurface(Result(a, 1))
      BY <2>2, ResultIs DEF Result, Event
    <3>8. \A x \in DOMAIN es : \/ x \in 1 .. c
                               \/ x = c + 1 /\ x \notin 1 .. c
                               \/ x = c + 2 /\ x \notin 1 .. c
      BY <3>5, <3>6
    <3>9. Plain(es) /\ \A x \in DOMAIN es : IsSurface(es[x]) <=> x \in 0 + 1 .. 0 + c
      <4>1. 0 + 1 .. 0 + c = 1 .. c
        BY <3>5
      <4> QED  BY <2>5, <3>6, <3>7, <3>8, <4>1 DEF Plain
    <3>10. surface.claim = {}
      BY <3>1, OwingUnclaimed
    <3>11. Len(log) \in Nat /\ Len(log) + 0 = Len(log)
      BY SeenIs
    <3>12. /\ Appended(log, es, log') /\ Agrees(log, log') /\ Seen(log, nodes)
           /\ Extended(nodes, c, Len(log), nodes')
      <4>1. 0 + c <= Len(es) /\ 0 \in Nat
        BY <3>5, <3>6
      <4>2. /\ Appended(log, es, log') /\ Agrees(log, log') /\ Seen(log, nodes)
            /\ Extended(nodes, c, Len(log) + 0, nodes')
        BY <2>4, <3>5, <3>9, <3>10, <4>1, SaidWritten
      <4> QED  BY <3>11, <4>2
    <3>13. PICK ms : ms = nodes'
      OBVIOUS
    <3>14. Len(ms) = Len(nodes) + c /\ DOMAIN ms = 1 .. Len(nodes) + c
      BY <3>12, <3>13 DEF Extended
    <3>15. /\ Paired(log', ms)
           /\ \A j \in DOMAIN ms : Asks(log', ms[j]) => j = k \/ j + log'[ms[j]].n <= Len(ms)
      <4>1. \A x \in 1 .. c : Tells(log', Len(log) + x) /\ log'[Len(log) + x].n = nodes[k]
        <5> TAKE x \in 1 .. c
        <5>1. x \in DOMAIN es
          BY <3>5, <3>6
        <5>2. log'[Len(log) + x] = es[x]
          BY <3>12, <5>1 DEF Appended
        <5> QED  BY <3>3, <3>6, <3>7, <5>2 DEF Tells
      <4>2. Extended(nodes, c, Len(log), ms)
        BY <3>12, <3>13
      <4>3. Asks(log, nodes[k]) /\ Len(nodes) + c <= k + log[nodes[k]].n
        <5>1. Len(nodes) + c \in Nat
          BY <3>3, <3>5
        <5>2. Len(nodes) + c <= k + log[a].n
          BY <3>3, <5>1
        <5> QED  BY <3>3, <3>4, <5>2
      <4> QED  BY <1>2, <3>4, <3>5, <3>11, <3>12, <4>1, <4>2, <4>3, ResultsAppended
    <3>16. Whole(log', ms)
      <4>1. ms[k] = a /\ log'[a] = log[a]
        <5>1. ms[k] = nodes[k] /\ nodes[k] \in DOMAIN log
          BY <3>12, <3>13 DEF Extended, Seen
        <5> QED  BY <3>3, <3>12, <5>1 DEF Agrees
      <4>2. k + log'[ms[k]].n <= Len(ms)
        <5>1. Len(nodes) + c \in Nat
          BY <3>3, <3>5
        <5> QED  BY <3>3, <3>14, <4>1, <5>1
      <4>3. \A j \in 1 .. Len(ms) : j \in DOMAIN ms
        BY <3>14
      <4> QED  BY <3>15, <4>2, <4>3 DEF Whole, CutAt
    <3>17. ResultsOf(log')
      <4>1. a \in DOMAIN log /\ log # <<>>
        <5>1. a \in DOMAIN log
          BY <3>3, <3>12 DEF Seen
        <5> QED  BY <1>1, <5>1
      <4>2. log[Len(log)].ty # "compaction/summary"
        BY <3>10, <4>1, NoRecordLast DEF IsRecord
      <4>3. \A x \in DOMAIN es : es[x].ty = "tool/result" => x \in 1 .. c /\ es[x].n = a
        BY <2>5, <3>6, <3>7, <3>8
      <4>4. \A x \in 1 .. c : x # 1 => x - 1 \in 1 .. c
        BY <3>5
      <4>5. \A x \in 1 .. c : x # 1 => es[x - 1].ty # "compaction/summary"
        BY <3>6, <3>7, <4>4
      <4>6. \A x \in DOMAIN es : es[x].ty = "tool/result" =>
              /\ es[x].n \in DOMAIN log
              /\ IF x = 1 THEN log[Len(log)].ty # "compaction/summary" ELSE es[x - 1].ty # "compaction/summary"
        BY <4>1, <4>2, <4>3, <4>5
      <4> QED  BY <1>2, <3>12, <4>6, ResultsKept
    <3>18. ~StepOpen(log')
      <4>1. c + 1 \in DOMAIN es /\ es[c + 1].ty = "step/end"
        BY <2>5, <3>5, <3>6
      <4>2. \A x \in DOMAIN es : es[x].ty # "step/start"
        BY <2>5, <3>6, <3>7, <3>8
      <4> QED  BY <3>12, <4>1, <4>2, Closes DEF StepOpen
    <3> QED  BY <1>1, <3>13, <3>15, <3>16, <3>17, <3>18, GoesIdle
  <2> QED  BY <1>3, <1>7, <2>6, <2>7
<1> QED  BY <1>5, <1>6, <1>7

-----------------------------------------------------------------------------
LEMMA PairInitially == Init => PairInv
<1> SUFFICES ASSUME Init PROVE PairInv
  OBVIOUS
<1>1. log = <<>> /\ nodes = <<>> /\ pc = "idle"
  BY DEF Init, nodes
<1>2. DOMAIN log = {} /\ DOMAIN nodes = {} /\ Len(nodes) = 0 /\ 1 .. 0 = {}
  BY <1>1
<1>3. Paired(log, nodes) /\ ResultsOf(log)
  BY <1>2 DEF Paired, ResultsOf
<1>4. ~StepOpen(log) /\ Whole(log, nodes)
  BY <1>2 DEF StepOpen, IsOpen, Whole, CutAt
<1> QED  BY <1>1, <1>3, <1>4 DEF PairInv, Stage, Fitting, Quiet

LEMMA PairHolds == HistInv /\ PairInv /\ [Next]_vars => PairInv'
<1> SUFFICES ASSUME HistInv, PairInv, [Next]_vars PROVE PairInv'
  OBVIOUS
<1>1. CASE UNCHANGED vars
  BY <1>1, StillPaired
<1>2. ASSUME NEW claimed \in 0 .. 1, StepStart(claimed) PROVE PairInv'
  BY <1>2, StepStartPairs
<1>3. ASSUME NEW n \in Batches, NEW size \in {0, 1}, Respond(n, size) PROVE PairInv'
  BY <1>3, RespondPairs
<1>4. ASSUME NEW size \in {1, Long}, ToolResult(size) PROVE PairInv'
  BY <1>4, ToolResultPairs
<1>5. CASE RequestFails
  BY <1>5, FailsAtOncePairs DEF RequestFails, Fitting
<1>6. CASE Crash
  BY <1>6, CrashPairs
<1>7. CASE Repair
  BY <1>7, RepairPairs
<1>8. CASE RunTurn \/ StepEnd \/ TurnEnd
  BY <1>8, RunTurnPairs, StepEndPairs, TurnEndPairs
<1>9. CASE FitContext \/ Prune \/ Pruned \/ Recheck
  BY <1>9, FitContextPairs, PrunePairs, PrunedPairs, RecheckPairs
<1>10. CASE Compact \/ Summarize \/ Record \/ Replace \/ CompactEnd
  BY <1>10, CompactPairs, SummarizePairs, RecordPairs, ReplacePairs, CompactEndPairs
<1> QED  BY <1>1, <1>2, <1>3, <1>4, <1>5, <1>6, <1>7, <1>8, <1>9, <1>10 DEF Next

LEMMA PairSound == HistInv /\ PairInv => RequestSound
<1> SUFFICES ASSUME HistInv, PairInv PROVE RequestSound
  OBVIOUS
<1>1. CASE pc = "request"
  <2>1. Sound(log, nodes)
    BY <1>1, FittingIs DEF Fitting
  <2> QED  BY <2>1, RequestIsPaired, EndsAsAsked DEF Sound, RequestSound
<1>2. CASE pc # "request"
  BY <1>2 DEF RequestSound, RequestPaired, EndsInWhatWasAsked
<1> QED  BY <1>1, <1>2

(* Whatever was pruned, compacted and cut short, and whatever a repair had *)
(* to add, every request answers each call right after the answer that     *)
(* asks for it and answers nothing else, and its last message is what the  *)
(* turn has to answer, never a checkpoint of its own (fit_context,         *)
(* select_range, tool_pairing_balanced_before, derive_messages).           *)
THEOREM RequestsAreSound == Spec => []RequestSound
<1>1. Init => HistInv /\ PairInv
  BY HistInitially, PairInitially
<1>2. HistInv /\ PairInv /\ [Next]_vars => (HistInv /\ PairInv)'
  BY HistHolds, PairHolds
<1>3. HistInv /\ PairInv => RequestSound
  BY PairSound
<1> QED  BY <1>1, <1>2, <1>3, PTL DEF Spec

=============================================================================
