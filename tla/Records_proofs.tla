--------------------------- MODULE Records_proofs ---------------------------
EXTENDS PushHub, Projections, Goal, Lineage, Reload, SqliteJournal, Workflow, Listing_proofs

-----------------------------------------------------------------------------
(***************************************************************************)
(* SqliteJournal implements the SessionLog seam, for any handles, seeds    *)
(* and payloads.  The invariant: the rows are numbered from 0 without a    *)
(* gap, every mirror is what a prefix of them says, and a session without  *)
(* a row has no events and no handles.                                     *)
(***************************************************************************)
Count == Cardinality(DOMAIN rows)

(* What the mirror of a handle has of the rows. *)
MirrorsRows(m) == \A i \in 1 .. Len(m) : i - 1 \in DOMAIN rows /\ rows[i - 1] = m[i]

SqliteTypeOK ==
  /\ listed \in BOOLEAN
  /\ place \in [Handles -> {"closed", "listed", "open", "inserted"}]
  /\ mirror \in [Handles -> Seq(Payloads)]
  /\ pending \in [Handles -> Payloads \cup {Nowhere}]
  /\ unsaid \in [Handles -> SUBSET Nat]
  /\ seeding \subseteq Seeds

Contiguous == Count \in Nat /\ rows \in [0 .. Count - 1 -> Payloads]

Mirrored ==
  \A h \in Handles :
    /\ MirrorsRows(mirror[h])
    /\ place[h] = "inserted" => /\ Len(mirror[h]) \in DOMAIN rows
                                /\ rows[Len(mirror[h])] = pending[h]
    /\ unsaid[h] \subseteq DOMAIN rows

UnlistedIsEmpty == ~listed => Count = 0 /\ \A h \in Handles : place[h] = "closed"

SqliteIInv == SqliteTypeOK /\ Contiguous /\ Mirrored /\ UnlistedIsEmpty /\ told \subseteq DOMAIN rows

-----------------------------------------------------------------------------
(* Tables numbered from 0. *)

LEMMA CountOfInterval ==
  ASSUME NEW n \in Nat
  PROVE  Cardinality(0 .. n - 1) = n
<1>1. CASE n = 0
  BY <1>1, FS_EmptySet, 0 .. n - 1 = {}
<1>2. CASE n > 0
  BY <1>2, FS_Interval
<1> QED  BY <1>1, <1>2

LEMMA OrderOfInterval ==
  ASSUME NEW n \in Nat, NEW table, DOMAIN table = 0 .. n - 1
  PROVE  RowsInOrder(table) = [i \in 1 .. n |-> table[i - 1]]
<1> DEFINE Before(q) == Cardinality({r \in DOMAIN table : r < q})
           Place(i) == CHOOSE q \in DOMAIN table : Before(q) = i - 1
<1>1. Cardinality(DOMAIN table) = n
  BY CountOfInterval
<1>2. ASSUME NEW q \in DOMAIN table
      PROVE  Before(q) = q
  <2>1. q \in Nat /\ {r \in DOMAIN table : r < q} = 0 .. q - 1
    OBVIOUS
  <2>2. Cardinality(0 .. q - 1) = q
    BY <2>1, CountOfInterval
  <2> QED  BY <2>1, <2>2
<1>3. RowsInOrder(table) = [i \in 1 .. n |-> table[Place(i)]]
  BY <1>1 DEF RowsInOrder
<1> HIDE DEF Before
<1>4. ASSUME NEW i \in 1 .. n
      PROVE  Place(i) = i - 1
  <2>1. i - 1 \in DOMAIN table /\ Before(i - 1) = i - 1
    BY <1>2
  <2>2. Place(i) \in DOMAIN table /\ Before(Place(i)) = i - 1
    BY <2>1
  <2> QED  BY <1>2, <2>2
<1> HIDE DEF Place
<1> QED  BY <1>3, <1>4

(* A table with one more row reads as one more event. *)
LEMMA OneMore ==
  ASSUME NEW n \in Nat, NEW table \in [0 .. n - 1 -> Payloads],
         NEW longer \in [0 .. n -> Payloads], \A q \in 0 .. n - 1 : longer[q] = table[q]
  PROVE  RowsInOrder(longer) = Append(RowsInOrder(table), longer[n])
<1>1. RowsInOrder(table) = [i \in 1 .. n |-> table[i - 1]]
  BY OrderOfInterval
<1>2. RowsInOrder(longer) = [i \in 1 .. n + 1 |-> longer[i - 1]]
  BY OrderOfInterval, (n + 1) - 1 = n
<1>3. \A i \in 1 .. n : longer[i - 1] = table[i - 1]
  OBVIOUS
<1>4. RowsInOrder(table) \in Seq(Payloads) /\ Len(RowsInOrder(table)) = n
  BY <1>1
<1> QED  BY <1>1, <1>2, <1>3, <1>4

-----------------------------------------------------------------------------
(* The invariant. *)

LEMMA SqliteInitIInv == SqliteInit => SqliteIInv
<1> SUFFICES ASSUME SqliteInit PROVE SqliteIInv
  OBVIOUS
<1>1. DOMAIN rows = {} /\ Count = 0
  BY FS_EmptySet DEF SqliteInit, Count
<1>2. rows \in [0 .. Count - 1 -> Payloads]
  BY <1>1 DEF SqliteInit
<1>3. SqliteTypeOK
  <2>1. mirror \in [Handles -> Seq(Payloads)]
    BY DEF SqliteInit
  <2>2. listed \in BOOLEAN /\ seeding \subseteq Seeds
    BY DEF SqliteInit
  <2>3. /\ place \in [Handles -> {"closed", "listed", "open", "inserted"}]
        /\ pending \in [Handles -> Payloads \cup {Nowhere}]
        /\ unsaid \in [Handles -> SUBSET Nat]
    BY DEF SqliteInit
  <2> QED  BY <2>1, <2>2, <2>3 DEF SqliteTypeOK
<1>4. Mirrored
  <2>1. \A h \in Handles : mirror[h] = <<>> /\ place[h] = "closed" /\ unsaid[h] = {}
    BY DEF SqliteInit
  <2> QED  BY <2>1 DEF Mirrored, MirrorsRows
<1>5. UnlistedIsEmpty /\ told \subseteq DOMAIN rows
  BY <1>1 DEF UnlistedIsEmpty, SqliteInit
<1>6. Contiguous
  BY <1>1, <1>2 DEF Contiguous
<1> QED  BY <1>3, <1>4, <1>5, <1>6 DEF SqliteIInv

(* Where a handle inserts there is no row, and every row before it. *)
LEMMA InsertsAtEnd ==
  ASSUME SqliteIInv, NEW h \in Handles, NEW e \in Payloads, Insert(h, e)
  PROVE  Len(mirror[h]) = Count
<1>1. mirror[h] \in Seq(Payloads) /\ Len(mirror[h]) \in Nat
  BY DEF SqliteIInv, SqliteTypeOK
<1>2. Len(mirror[h]) \notin 0 .. Count - 1 /\ Count \in Nat
  BY DEF Insert, SqliteIInv, Contiguous
<1>3. \A i \in 1 .. Len(mirror[h]) : i - 1 \in 0 .. Count - 1
  BY DEF SqliteIInv, Mirrored, MirrorsRows, Contiguous
<1>4. Len(mirror[h]) > 0 => Len(mirror[h]) - 1 \in 0 .. Count - 1
  BY <1>1, <1>3
<1> QED  BY <1>1, <1>2, <1>4

LEMMA InsertGrows ==
  ASSUME SqliteIInv, NEW h \in Handles, NEW e \in Payloads, Insert(h, e)
  PROVE  /\ rows' \in [0 .. Count -> Payloads] /\ Count' = Count + 1
         /\ rows'[Count] = e /\ \A q \in 0 .. Count - 1 : rows'[q] = rows[q]
<1>1. Count \in Nat /\ DOMAIN rows = 0 .. Count - 1 /\ rows \in [0 .. Count - 1 -> Payloads]
  BY DEF SqliteIInv, Contiguous
<1>2. rows' = [q \in (0 .. Count - 1) \cup {Count} |-> IF q = Count THEN e ELSE rows[q]]
  BY <1>1, InsertsAtEnd DEF Insert, Put
<1>3. (0 .. Count - 1) \cup {Count} = 0 .. Count
  BY <1>1
<1>4. rows' \in [0 .. Count -> Payloads]
  BY <1>1, <1>2, <1>3
<1>5. Cardinality(0 .. (Count + 1) - 1) = Count + 1
  BY <1>1, CountOfInterval
<1>6. DOMAIN rows' = 0 .. (Count + 1) - 1
  BY <1>1, <1>2, <1>3
<1>7. Count' = Count + 1
  BY <1>5, <1>6 DEF Count
<1>8. rows'[Count] = e /\ \A q \in 0 .. Count - 1 : rows'[q] = rows[q]
  BY <1>1, <1>2
<1> QED  BY <1>4, <1>7, <1>8

LEMMA InsertIInv ==
  ASSUME SqliteIInv, NEW h \in Handles, NEW e \in Payloads, Insert(h, e)
  PROVE  SqliteIInv'
<1> DEFINE n == Count
<1>1. n \in Nat /\ DOMAIN rows = 0 .. n - 1 /\ DOMAIN rows' = 0 .. n
  BY InsertGrows DEF SqliteIInv, Contiguous
<1>2. rows' \in [0 .. n -> Payloads] /\ Count' = n + 1 /\ rows'[n] = e
       /\ \A q \in 0 .. n - 1 : rows'[q] = rows[q]
  BY InsertGrows
<1>3. 0 .. n - 1 \subseteq 0 .. n /\ n \in 0 .. n /\ (n + 1) - 1 = n
  BY <1>1
<1> HIDE DEF n
<1>4. SqliteTypeOK'
  BY DEF SqliteIInv, SqliteTypeOK, Insert
<1>5. Contiguous'
  BY <1>1, <1>2, <1>3 DEF Contiguous
<1>6. Mirrored'
  <2> SUFFICES ASSUME NEW g \in Handles
               PROVE  /\ MirrorsRows(mirror[g])'
                      /\ (place[g] = "inserted" => /\ Len(mirror[g]) \in DOMAIN rows
                                                   /\ rows[Len(mirror[g])] = pending[g])'
                      /\ (unsaid[g] \subseteq DOMAIN rows)'
    BY DEF Mirrored
  <2>1. mirror' = mirror /\ unsaid' = unsaid
    BY DEF Insert
  <2>2. MirrorsRows(mirror[g])'
    BY <1>1, <1>2, <1>3, <2>1 DEF SqliteIInv, Mirrored, MirrorsRows
  <2>3. CASE g = h
    <3>1. Len(mirror[h]) = n
      BY InsertsAtEnd DEF n
    <3>2. pending'[g] = e
      BY <2>3 DEF Insert, SqliteIInv, SqliteTypeOK
    <3> QED  BY <1>1, <1>2, <1>3, <2>1, <2>2, <2>3, <3>1, <3>2 DEF SqliteIInv, Mirrored
  <2>4. CASE g # h
    <3>1. place'[g] = place[g] /\ pending'[g] = pending[g]
      BY <2>4 DEF Insert, SqliteIInv, SqliteTypeOK
    <3> QED  BY <1>1, <1>2, <1>3, <2>1, <2>2, <3>1 DEF SqliteIInv, Mirrored
  <2> QED  BY <2>3, <2>4
<1>7. listed
  BY DEF SqliteIInv, UnlistedIsEmpty, Insert
<1>8. UnlistedIsEmpty' /\ (told \subseteq DOMAIN rows)'
  BY <1>1, <1>3, <1>7 DEF UnlistedIsEmpty, Insert, SqliteIInv
<1> QED  BY <1>4, <1>5, <1>6, <1>8 DEF SqliteIInv

LEMMA HandleIInv ==
  ASSUME SqliteIInv, NEW h \in Handles,
         OpenRow(h) \/ ReadRows(h) \/ Leave(h) \/ Push(h) \/ Return(h)
  PROVE  SqliteIInv'
<1>0. rows' = rows /\ Count' = Count /\ Count \in Nat /\ DOMAIN rows = 0 .. Count - 1
       /\ rows \in [0 .. Count - 1 -> Payloads]
  BY DEF SqliteIInv, Contiguous, Count, OpenRow, ReadRows, Leave, Push, Return
<1>1. CASE OpenRow(h)
  BY <1>0, <1>1 DEF SqliteIInv, SqliteTypeOK, Contiguous, Mirrored, MirrorsRows, UnlistedIsEmpty, OpenRow
<1>2. CASE ReadRows(h)
  <2>1. RowsInOrder(rows) = [i \in 1 .. Count |-> rows[i - 1]]
    BY <1>0, OrderOfInterval
  <2>2. RowsInOrder(rows) \in Seq(Payloads) /\ Len(RowsInOrder(rows)) = Count
    BY <1>0, <2>1
  <2>3. MirrorsRows(RowsInOrder(rows))
    BY <1>0, <2>1, <2>2 DEF MirrorsRows
  <2>4. \A g \in Handles : MirrorsRows(mirror'[g])
    BY <1>2, <2>3 DEF ReadRows, SqliteIInv, SqliteTypeOK, Mirrored
  <2> QED  BY <1>0, <1>2, <2>2, <2>4
           DEF SqliteIInv, SqliteTypeOK, Contiguous, Mirrored, MirrorsRows, UnlistedIsEmpty, ReadRows
<1>3. CASE Leave(h)
  <2>1. <<>> \in Seq(Payloads) /\ MirrorsRows(<<>>)
    BY DEF MirrorsRows
  <2> QED  BY <1>0, <1>3, <2>1
           DEF SqliteIInv, SqliteTypeOK, Contiguous, Mirrored, MirrorsRows, UnlistedIsEmpty, Leave
<1>4. CASE Push(h)
  <2>1. mirror[h] \in Seq(Payloads) /\ Len(mirror[h]) \in DOMAIN rows
         /\ rows[Len(mirror[h])] = pending[h] /\ pending[h] \in Payloads
    BY <1>0, <1>4 DEF Push, SqliteIInv, SqliteTypeOK, Mirrored
  <2>2. Append(mirror[h], pending[h]) \in Seq(Payloads)
         /\ Len(Append(mirror[h], pending[h])) = Len(mirror[h]) + 1
    BY <2>1
  <2>3. MirrorsRows(Append(mirror[h], pending[h]))
    BY <2>1, <2>2 DEF MirrorsRows, SqliteIInv, Mirrored
  <2>4. mirror'[h] = Append(mirror[h], pending[h])
         /\ \A g \in Handles : g # h => mirror'[g] = mirror[g]
    BY <1>4 DEF Push, SqliteIInv, SqliteTypeOK
  <2>5. \A g \in Handles : MirrorsRows(mirror'[g])
    BY <2>3, <2>4 DEF SqliteIInv, Mirrored
  <2>6. \A g \in Handles : MirrorsRows(mirror[g])'
    BY <1>0, <2>5 DEF MirrorsRows
  <2>7. Len(mirror[h]) \in Nat
    BY <2>1
  <2>8. \A g \in Handles : unsaid'[g] \subseteq DOMAIN rows /\ unsaid'[g] \subseteq Nat
    BY <1>4, <2>1, <2>7 DEF Push, SqliteIInv, SqliteTypeOK, Mirrored
  <2>9. SqliteTypeOK'
    BY <1>4, <2>2, <2>8 DEF SqliteTypeOK, SqliteIInv, Push
  <2> QED  BY <1>0, <1>4, <2>4, <2>6, <2>8, <2>9 DEF SqliteIInv, SqliteTypeOK, Contiguous, Mirrored, UnlistedIsEmpty, Push
<1>5. CASE Return(h)
  BY <1>0, <1>5 DEF SqliteIInv, SqliteTypeOK, Contiguous, Mirrored, MirrorsRows, UnlistedIsEmpty, Return
<1> QED  BY <1>1, <1>2, <1>3, <1>4, <1>5

LEMMA SeedIInv ==
  ASSUME SqliteIInv, NEW seed \in Seeds, SeedLook(seed) \/ SeedCommit(seed)
  PROVE  SqliteIInv'
<1>1. CASE rows' = rows /\ told' = told /\ listed' = listed
  <2>1. Count' = Count
    BY <1>1 DEF Count
  <2> QED  BY <1>1, <2>1 DEF SeedLook, SeedCommit, SqliteIInv, SqliteTypeOK, Contiguous, Mirrored, MirrorsRows, UnlistedIsEmpty
<1>2. CASE SeedCommit(seed) /\ ~listed
  <2>1. seed \in Seq(Payloads) /\ Len(seed) \in Nat
    BY SqliteAssumption
  <2>2. rows' \in [0 .. Len(seed) - 1 -> Payloads]
    BY <1>2, <2>1 DEF SeedCommit
  <2>3. DOMAIN rows' = 0 .. Len(seed) - 1 /\ Count' = Len(seed)
    BY <1>2, <2>1, CountOfInterval DEF SeedCommit, Count
  <2>4. Count = 0 /\ DOMAIN rows = {} /\ \A h \in Handles : place[h] = "closed"
    BY <1>2 DEF SqliteIInv, UnlistedIsEmpty, Contiguous
  <2>5. \A h \in Handles : mirror[h] = <<>> /\ unsaid[h] = {}
    BY <2>4 DEF SqliteIInv, SqliteTypeOK, Mirrored, MirrorsRows
  <2>6. Mirrored'
    BY <1>2, <2>4, <2>5 DEF SeedCommit, Mirrored, MirrorsRows
  <2> QED  BY <1>2, <2>1, <2>2, <2>3, <2>4, <2>6 DEF SeedCommit, SqliteIInv, SqliteTypeOK, Contiguous, UnlistedIsEmpty
<1> QED  BY <1>1, <1>2 DEF SeedLook, SeedCommit

LEMMA SqliteNextIInv ==
  ASSUME SqliteIInv, [SqliteNext]_sqliteVars
  PROVE  SqliteIInv'
<1>1. CASE UNCHANGED sqliteVars
  BY <1>1 DEF sqliteVars, SqliteIInv, SqliteTypeOK, Contiguous, Count, Mirrored, MirrorsRows, UnlistedIsEmpty
<1>2. ASSUME NEW h \in Handles, OpenRow(h) \/ ReadRows(h) \/ Leave(h) \/ Push(h) \/ Return(h)
      PROVE  SqliteIInv'
  BY <1>2, HandleIInv
<1>3. ASSUME NEW h \in Handles, NEW e \in Payloads, Insert(h, e)
      PROVE  SqliteIInv'
  BY <1>3, InsertIInv
<1>4. ASSUME NEW seed \in Seeds, SeedLook(seed) \/ SeedCommit(seed)
      PROVE  SqliteIInv'
  BY <1>4, SeedIInv
<1> QED  BY <1>1, <1>2, <1>3, <1>4 DEF SqliteNext

-----------------------------------------------------------------------------
(* The step simulation: the rows in order are the abstract log.            *)

LEMMA StepImplements ==
  ASSUME SqliteIInv, [SqliteNext]_sqliteVars
  PROVE  [Seam!Next]_(Seam!vars)
<1> DEFINE Log == RowsInOrder(rows)
           Acks == {q + 1 : q \in told}
<1>0. Count \in Nat /\ rows \in [0 .. Count - 1 -> Payloads] /\ DOMAIN rows = 0 .. Count - 1
       /\ told \subseteq 0 .. Count - 1
  BY DEF SqliteIInv, Contiguous
<1>1. Log = [i \in 1 .. Count |-> rows[i - 1]] /\ Log \in Seq(Payloads) /\ Len(Log) = Count
  <2>1. Log = [i \in 1 .. Count |-> rows[i - 1]]
    BY <1>0, OrderOfInterval
  <2> HIDE DEF Log
  <2> QED  BY <1>0, <2>1
<1>2. rows' = rows /\ told' = told => UNCHANGED Seam!vars
  BY DEF Seam!vars
<1>3. CASE UNCHANGED sqliteVars
  BY <1>2, <1>3 DEF sqliteVars
<1>4. ASSUME NEW h \in Handles, OpenRow(h) \/ ReadRows(h) \/ Leave(h) \/ Push(h)
      PROVE  [Seam!Next]_(Seam!vars)
  BY <1>2, <1>4 DEF OpenRow, ReadRows, Leave, Push
<1>5. ASSUME NEW h \in Handles, Return(h)
      PROVE  Seam!Next
  <2>1. PICK q \in unsaid[h] : told' = told \cup {q} /\ rows' = rows
    BY <1>5 DEF Return
  <2>2. q \in 0 .. Count - 1
    BY <1>0, <2>1 DEF SqliteIInv, Mirrored
  <2>3. q + 1 \in DOMAIN Log
    BY <1>0, <1>1, <2>2
  <2>4. Acks' = Acks \cup {q + 1}
    BY <2>1
  <2>5. Seam!Acknowledge(q + 1)
    BY <2>1, <2>4 DEF Seam!Acknowledge
  <2> QED  BY <2>3, <2>5 DEF Seam!Next
<1>6. ASSUME NEW h \in Handles, NEW e \in Payloads, Insert(h, e)
      PROVE  Seam!Next
  <2>1. rows' \in [0 .. Count -> Payloads] /\ rows'[Count] = e
         /\ \A q \in 0 .. Count - 1 : rows'[q] = rows[q]
    BY <1>6, InsertGrows
  <2>2. RowsInOrder(rows') = Append(Log, e)
    BY <1>0, <2>1, OneMore
  <2>3. told' = told
    BY <1>6 DEF Insert
  <2>4. Seam!Record(e)
    BY <2>2, <2>3 DEF Seam!Record
  <2> QED  BY <2>4 DEF Seam!Next
<1>7. ASSUME NEW seed \in Seeds, SeedCommit(seed), ~listed
      PROVE  Seam!Next
  <2>1. seed \in Seq(Payloads) /\ Len(seed) \in Nat
    BY SqliteAssumption
  <2>2. Log = <<>>
    BY <1>0, <1>1, <1>7 DEF SqliteIInv, UnlistedIsEmpty
  <2>3. rows' = [q \in 0 .. Len(seed) - 1 |-> seed[q + 1]] /\ told' = 0 .. Len(seed) - 1
    BY <1>7 DEF SeedCommit
  <2>4. RowsInOrder(rows') = [i \in 1 .. Len(seed) |-> rows'[i - 1]]
    BY <2>1, <2>3, OrderOfInterval
  <2>5. RowsInOrder(rows') \in Seq(Payloads) /\ DOMAIN RowsInOrder(rows') = 1 .. Len(seed)
    BY <2>1, <2>3, <2>4
  <2>6. {q + 1 : q \in told'} = 1 .. Len(seed)
    <3>1. \A i \in 1 .. Len(seed) : i - 1 \in told' /\ i = (i - 1) + 1
      BY <2>1, <2>3
    <3>2. \A q \in told' : q + 1 \in 1 .. Len(seed)
      BY <2>1, <2>3
    <3> QED  BY <3>1, <3>2
  <2>7. Seam!Lay
    BY <2>2, <2>5, <2>6 DEF Seam!Lay
  <2> QED  BY <2>7 DEF Seam!Next
<1>8. ASSUME NEW seed \in Seeds, SeedLook(seed) \/ (SeedCommit(seed) /\ listed)
      PROVE  [Seam!Next]_(Seam!vars)
  BY <1>2, <1>8 DEF SeedLook, SeedCommit
<1> QED  BY <1>3, <1>4, <1>5, <1>6, <1>7, <1>8 DEF SqliteNext

(* A caller cannot tell the database from the file: it serves the seam     *)
(* every other component is written against, whichever handles append,     *)
(* seed, race and leave (sqlite.rs, write, log, seed).                     *)
THEOREM ImplementsSeam == SqliteSpec => SeamSpec
<1>1. SqliteInit => Seam!Init
  <2> SUFFICES ASSUME SqliteInit PROVE Seam!Init
    OBVIOUS
  <2>1. DOMAIN rows = 0 .. 0 - 1 /\ told = {}
    BY DEF SqliteInit
  <2>2. RowsInOrder(rows) = [i \in 1 .. 0 |-> rows[i - 1]]
    BY <2>1, OrderOfInterval
  <2> QED  BY <2>1, <2>2 DEF Seam!Init
<1>2. SqliteIInv /\ [SqliteNext]_sqliteVars => SqliteIInv'
  BY SqliteNextIInv
<1>3. SqliteIInv /\ [SqliteNext]_sqliteVars => [Seam!Next]_(Seam!vars)
  BY StepImplements
<1> QED  BY SqliteInitIInv, <1>1, <1>2, <1>3, PTL DEF SqliteSpec, SeamSpec, Seam!Spec

(* No handle is ever ahead of the rows, and the rows have no gap: a replay *)
(* never answers Corrupt for want of a seq (sqlite.rs, replay).            *)
THEOREM SqliteInvariant == SqliteSpec => []SqliteIInv
<1>1. SqliteIInv /\ [SqliteNext]_sqliteVars => SqliteIInv'
  BY SqliteNextIInv
<1> QED  BY SqliteInitIInv, <1>1, PTL DEF SqliteSpec

-----------------------------------------------------------------------------
(***************************************************************************)
(* What a session's projections answer is the fold of its journal, for any *)
(* units, versions, builds and lengths, as long as one task at a time      *)
(* drives them and no journal that lost lines has grown again.             *)
(***************************************************************************)
OneDriver == \A d, e \in Drivers : d = e

Cells == [ver : Nat, of : Seq(Nat), folded : Nat]

ProjectionsTypeOK ==
  /\ journal \in Seq(Nat) /\ fsynced \in Nat /\ written \in Nat
  /\ build \in [n : Nat, runs : BOOLEAN, ver : [Units -> Nat \ {0}]]
  /\ cells \in [Units -> Cells] /\ taken \in [Units -> Cells] /\ row \in [Units -> Cells]
  /\ driver \in [Drivers -> [at : {"rest", "drive", "restore"}, events : Seq(Nat)]]
  /\ lost \in {"no", "cut", "regrown"}

(* A cell, or a row of the store, is a fold of a prefix of the journal. *)
Folds(cell, log) == cell.folded <= Len(log) /\ cell.of = SubSeq(log, 1, cell.folded)

IsPrefixOf(s, log) == Len(s) <= Len(log) /\ s = SubSeq(log, 1, Len(s))

Stopped == ~build.runs => cells = NoRow /\ taken = NoRow /\ driver = [d \in Drivers |-> AtRest]

(* What holds of memory, of the checkpoint on its way and of the store     *)
(* while no lost line has been replaced by another: a row may be longer    *)
(* than a journal that was cut, and is not believed then.                  *)
Honest ==
  /\ \A u \in Units : Folds(cells[u], journal) /\ Folds(taken[u], journal)
  /\ \A u \in Units : lost = "no" \/ row[u].folded <= Len(journal) => Folds(row[u], journal)
  /\ \A u \in Units : Serves(u) => cells[u].ver = build.ver[u]
  /\ \A d \in Drivers : driver[d].at # "rest" =>
       /\ IsPrefixOf(driver[d].events, journal)
       /\ \A u \in Units : cells[u].folded <= Len(driver[d].events)

ProjectionsIInv == ProjectionsTypeOK /\ Stopped /\ (lost # "regrown" => Honest)

-----------------------------------------------------------------------------
(* Prefixes of sequences. *)

LEMMA PrefixOfPrefix ==
  ASSUME NEW s \in Seq(Nat), NEW n \in 0 .. Len(s), NEW k \in 0 .. n
  PROVE  SubSeq(SubSeq(s, 1, n), 1, k) = SubSeq(s, 1, k) /\ Len(SubSeq(s, 1, n)) = n
<1>1. SubSeq(s, 1, n) \in Seq(Nat) /\ Len(SubSeq(s, 1, n)) = n
       /\ \A i \in 1 .. n : SubSeq(s, 1, n)[i] = s[i]
  BY SubSeqProperties
<1>2. SubSeq(s, 1, k) \in Seq(Nat) /\ Len(SubSeq(s, 1, k)) = k
       /\ \A i \in 1 .. k : SubSeq(s, 1, k)[i] = s[i]
  BY SubSeqProperties
<1> DEFINE t == SubSeq(s, 1, n)
<1>3. SubSeq(t, 1, k) \in Seq(Nat) /\ Len(SubSeq(t, 1, k)) = k
       /\ \A i \in 1 .. k : SubSeq(t, 1, k)[i] = t[i]
  <2>1. t \in Seq(Nat) /\ Len(t) = n
    BY <1>1
  <2> HIDE DEF t
  <2> QED  BY <2>1, SubSeqProperties
<1>4. \A i \in 1 .. k : SubSeq(t, 1, k)[i] = SubSeq(s, 1, k)[i]
  BY <1>1, <1>2, <1>3
<1>5. SubSeq(t, 1, k) = SubSeq(s, 1, k)
  <2> HIDE DEF t
  <2> QED  BY <1>2, <1>3, <1>4, SeqEqual
<1> QED  BY <1>1, <1>5

LEMMA PrefixOfLonger ==
  ASSUME NEW s \in Seq(Nat), NEW e \in Nat, NEW k \in 0 .. Len(s)
  PROVE  SubSeq(Append(s, e), 1, k) = SubSeq(s, 1, k) /\ Len(Append(s, e)) = Len(s) + 1
<1> DEFINE t == Append(s, e)
<1>1. t \in Seq(Nat) /\ Len(t) = Len(s) + 1 /\ \A i \in 1 .. Len(s) : t[i] = s[i]
  OBVIOUS
<1> HIDE DEF t
<1>2. SubSeq(s, 1, k) \in Seq(Nat) /\ Len(SubSeq(s, 1, k)) = k
       /\ \A i \in 1 .. k : SubSeq(s, 1, k)[i] = s[i]
  BY SubSeqProperties
<1>3. SubSeq(t, 1, k) \in Seq(Nat) /\ Len(SubSeq(t, 1, k)) = k
       /\ \A i \in 1 .. k : SubSeq(t, 1, k)[i] = t[i]
  BY <1>1, SubSeqProperties
<1>4. SubSeq(t, 1, k) = SubSeq(s, 1, k)
  BY <1>1, <1>2, <1>3, SeqEqual
<1> QED  BY <1>1, <1>4 DEF t

(* A fold of a prefix, driven over a longer one, is the fold of that. *)
LEMMA DrivenFolds ==
  ASSUME NEW log \in Seq(Nat), NEW evs \in Seq(Nat), IsPrefixOf(evs, log),
         NEW cell \in Cells, Folds(cell, log), cell.folded <= Len(evs)
  PROVE  /\ Driven(cell, evs) \in Cells /\ Folds(Driven(cell, evs), log)
         /\ Driven(cell, evs).ver = cell.ver
         /\ Driven(cell, evs).folded = Len(evs)
<1> DEFINE k == cell.folded
           n == Len(evs)
<1>1. k \in Nat /\ n \in Nat /\ k <= n /\ n <= Len(log) /\ evs = SubSeq(log, 1, n)
       /\ cell.of = SubSeq(log, 1, k)
  BY DEF Cells, IsPrefixOf, Folds
<1>2. SubSeq(evs, 1, k) = SubSeq(log, 1, k)
  BY <1>1, PrefixOfPrefix
<1>3. SubSeq(evs, 1, k) \o SubSeq(evs, k + 1, n) = SubSeq(evs, 1, n)
  <2>1. 1 \in 1 .. Len(evs) + 1 /\ k \in 1 - 1 .. Len(evs) /\ n \in k .. Len(evs)
    BY <1>1
  <2> HIDE DEF k, n
  <2> QED  BY <2>1, ConcatAdjacentSubSeq
<1>4. SubSeq(evs, 1, n) = evs
  BY SubSeqFull
<1>5. cell.of \o SubSeq(evs, k + 1, n) = SubSeq(log, 1, n)
  BY <1>1, <1>2, <1>3, <1>4
<1>6. evs = <<>> => k = n
  BY <1>1
<1>7. Driven(cell, evs) = [ver |-> cell.ver, of |-> SubSeq(log, 1, n), folded |-> n]
  <2>1. (IF evs = <<>> THEN cell.folded ELSE Len(evs)) = n
    BY <1>1, <1>6
  <2>2. Driven(cell, evs) = [cell EXCEPT !.of = SubSeq(log, 1, n), !.folded = n]
    BY <1>5, <2>1 DEF Driven
  <2> QED  BY <2>2 DEF Cells
<1>8. SubSeq(log, 1, n) \in Seq(Nat)
  BY <1>1
<1> QED  BY <1>1, <1>7, <1>8 DEF Cells, Folds

LEMMA EmptyFolds ==
  ASSUME NEW log \in Seq(Nat)
  PROVE  /\ Unserved \in Cells /\ Folds(Unserved, log)
         /\ \A v \in Nat : LET c == [ver |-> v, of |-> <<>>, folded |-> 0]
                           IN  c \in Cells /\ Folds(c, log)
<1>1. SubSeq(log, 1, 0) = <<>>
  BY SubSeqEmpty
<1> QED  BY <1>1 DEF Unserved, Cells, Folds

LEMMA GrowthKeepsFolds ==
  ASSUME NEW log \in Seq(Nat), NEW e \in Nat, NEW cell \in Cells, Folds(cell, log)
  PROVE  Folds(cell, Append(log, e))
BY PrefixOfLonger DEF Folds, Cells

LEMMA CutKeepsFolds ==
  ASSUME NEW log \in Seq(Nat), NEW n \in 0 .. Len(log), NEW cell \in Cells,
         Folds(cell, log), cell.folded <= n
  PROVE  Folds(cell, SubSeq(log, 1, n))
BY PrefixOfPrefix DEF Folds, Cells

-----------------------------------------------------------------------------
(* Steps of the journal. *)

JournalStep ==
  /\ journal' \in Seq(Nat) /\ fsynced' \in Nat /\ written' \in Nat
  /\ lost' \in {"no", "cut", "regrown"}
  /\ lost' # "regrown" =>
       /\ lost # "regrown"
       /\ lost' = "no" => lost = "no" /\ Len(journal) <= Len(journal')
       /\ lost' = "cut" => Len(journal') <= Len(journal)
       /\ \A c \in Cells : Folds(c, journal) /\ c.folded <= Len(journal') => Folds(c, journal')

LEMMA GrowSteps ==
  ASSUME ProjectionsIInv, NEW durable \in BOOLEAN, Grow(durable)
  PROVE  /\ JournalStep
         /\ lost' # "regrown" => journal' = Append(journal, written') /\ written' \in Nat
<1>1. journal \in Seq(Nat) /\ fsynced \in Nat /\ written + 1 \in Nat /\ lost \in {"no", "cut", "regrown"}
  BY DEF ProjectionsIInv, ProjectionsTypeOK
<1>2. journal' = Append(journal, written + 1) /\ written' = written + 1
       /\ journal' \in Seq(Nat) /\ Len(journal') = Len(journal) + 1
  BY <1>1 DEF Grow
<1>3. fsynced' \in Nat
  BY <1>1, <1>2 DEF Grow
<1>4. lost' = IF lost = "no" THEN "no" ELSE "regrown"
  BY DEF Grow
<1>5. \A c \in Cells : Folds(c, journal) => Folds(c, journal')
  BY <1>1, <1>2, GrowthKeepsFolds
<1> QED  BY <1>1, <1>2, <1>3, <1>4, <1>5 DEF JournalStep

LEMMA RestSteps ==
  ASSUME ProjectionsIInv, UNCHANGED <<journal, fsynced, written, lost>>
  PROVE  JournalStep
BY DEF ProjectionsIInv, ProjectionsTypeOK, JournalStep

LEMMA CutSteps ==
  ASSUME ProjectionsIInv, PowerFails
  PROVE  JournalStep
<1>1. PICK n \in fsynced .. Len(journal) :
        /\ journal' = SubSeq(journal, 1, n) /\ fsynced' = n
        /\ lost' = IF n < Len(journal) /\ lost = "no" THEN "cut" ELSE lost
  BY DEF PowerFails
<1>2. journal \in Seq(Nat) /\ n \in 0 .. Len(journal) /\ lost \in {"no", "cut", "regrown"}
  BY <1>1 DEF ProjectionsIInv, ProjectionsTypeOK
<1>3. journal' \in Seq(Nat) /\ Len(journal') = n
  BY <1>1, <1>2, SubSeqProperties
<1>4. \A c \in Cells : Folds(c, journal) /\ c.folded <= n => Folds(c, journal')
  BY <1>1, <1>2, CutKeepsFolds
<1>5. written' \in Nat
  BY DEF PowerFails, ProjectionsIInv, ProjectionsTypeOK
<1> QED  BY <1>1, <1>2, <1>3, <1>4, <1>5 DEF JournalStep

(* What the store holds stays honest through them. *)
LEMMA RowStays ==
  ASSUME ProjectionsIInv, JournalStep, row' = row, lost' # "regrown",
         NEW u \in Units, lost' = "no" \/ row[u].folded <= Len(journal')
  PROVE  Folds(row[u], journal')
<1>1. row[u] \in Cells /\ journal \in Seq(Nat) /\ lost \in {"no", "cut", "regrown"}
  BY DEF ProjectionsIInv, ProjectionsTypeOK
<1>2. row[u].folded \in Nat /\ Len(journal) \in Nat /\ Len(journal') \in Nat
  BY <1>1 DEF Cells, JournalStep
<1>3. Honest
  BY DEF ProjectionsIInv, JournalStep
<1>4. CASE lost' = "no"
  <2>1. Folds(row[u], journal)
    BY <1>3, <1>4 DEF JournalStep, Honest
  <2>2. row[u].folded <= Len(journal)
    BY <2>1 DEF Folds
  <2>3. Len(journal) <= Len(journal')
    BY <1>4 DEF JournalStep
  <2>4. row[u].folded <= Len(journal')
    BY <1>2, <2>2, <2>3
  <2> QED  BY <1>1, <2>1, <2>4 DEF JournalStep
<1>5. CASE lost' = "cut"
  <2>1. row[u].folded <= Len(journal') /\ Len(journal') <= Len(journal)
    BY <1>5 DEF JournalStep
  <2>2. Folds(row[u], journal)
    BY <1>2, <1>3, <2>1 DEF Honest
  <2> QED  BY <1>1, <2>1, <2>2 DEF JournalStep
<1> QED  BY <1>4, <1>5 DEF JournalStep

LEMMA StopIInv ==
  ASSUME ProjectionsIInv, JournalStep, Stop
  PROVE  ProjectionsIInv'
<1>1. cells' = NoRow /\ taken' = NoRow /\ driver' = [d \in Drivers |-> AtRest] /\ row' = row
       /\ build' = [build EXCEPT !.runs = FALSE]
  BY DEF Stop
<1>2. journal' \in Seq(Nat)
  BY DEF JournalStep
<1>3. NoRow \in [Units -> Cells] /\ AtRest \in [at : {"rest", "drive", "restore"}, events : Seq(Nat)]
  BY <1>2, EmptyFolds DEF NoRow, AtRest
<1>4. ProjectionsTypeOK'
  BY <1>1, <1>3 DEF ProjectionsIInv, ProjectionsTypeOK, JournalStep
<1>5. Stopped'
  BY <1>1 DEF Stopped
<1>6. ASSUME lost' # "regrown" PROVE Honest'
  <2>1. \A u \in Units : Folds(cells[u], journal)' /\ Folds(taken[u], journal)'
    BY <1>1, <1>2, EmptyFolds DEF NoRow
  <2>2. \A u \in Units : (lost = "no" \/ row[u].folded <= Len(journal) => Folds(row[u], journal))'
    BY <1>1, <1>6, RowStays
  <2>3. \A u \in Units : ~Serves(u)'
    BY <1>1 DEF NoRow, Serves
  <2>4. \A d \in Drivers : driver'[d].at = "rest"
    BY <1>1 DEF AtRest
  <2> QED  BY <2>1, <2>2, <2>3, <2>4 DEF Honest
<1> QED  BY <1>4, <1>5, <1>6 DEF ProjectionsIInv

LEMMA AppendIInv ==
  ASSUME ProjectionsIInv, AppendEvent
  PROVE  ProjectionsIInv'
<1>1. Grow(TRUE) /\ UNCHANGED <<build, cells, driver, taken, row>> /\ build.runs
  BY DEF AppendEvent
<1>2. JournalStep /\ (lost' # "regrown" => journal' = Append(journal, written') /\ written' \in Nat)
  BY <1>1, GrowSteps
<1>3. ProjectionsTypeOK' /\ Stopped'
  BY <1>1, <1>2 DEF ProjectionsIInv, ProjectionsTypeOK, JournalStep, Stopped
<1>4. ASSUME lost' # "regrown" PROVE Honest'
  <2>1. Honest /\ lost = "no" /\ journal' = Append(journal, written') /\ written' \in Nat
    BY <1>1, <1>2, <1>4 DEF ProjectionsIInv, JournalStep, Grow
  <2>2. journal \in Seq(Nat) /\ Len(journal') = Len(journal) + 1 /\ Len(journal) \in Nat
    BY <2>1 DEF ProjectionsIInv, ProjectionsTypeOK
  <2>3. \A u \in Units : cells[u] \in Cells /\ taken[u] \in Cells /\ row[u] \in Cells
    BY DEF ProjectionsIInv, ProjectionsTypeOK
  <2>4. \A c \in Cells : Folds(c, journal) => Folds(c, journal')
    BY <2>1, <2>2, GrowthKeepsFolds
  <2>5. \A u \in Units : Folds(cells[u], journal') /\ Folds(taken[u], journal') /\ Folds(row[u], journal')
    BY <2>1, <2>3, <2>4 DEF Honest
  <2>6. ASSUME NEW d \in Drivers, driver[d].at # "rest"
        PROVE  IsPrefixOf(driver[d].events, journal')
    <3>1. driver[d].events \in Seq(Nat)
      BY DEF ProjectionsIInv, ProjectionsTypeOK
    <3>2. IsPrefixOf(driver[d].events, journal)
      BY <2>1, <2>6 DEF Honest
    <3> QED  BY <2>1, <2>2, <3>1, <3>2, PrefixOfLonger DEF IsPrefixOf
  <2> QED  BY <1>1, <2>1, <2>5, <2>6 DEF Honest, Serves
<1> QED  BY <1>3, <1>4 DEF ProjectionsIInv

-----------------------------------------------------------------------------
(* Steps of memory and of the store. *)

LEMMA RowIInv ==
  ASSUME ProjectionsIInv, Checkpoint \/ SaveRow \/ ForgetRow
  PROVE  ProjectionsIInv'
<1>0. UNCHANGED <<journal, fsynced, written, lost, build, cells, driver>> /\ journal \in Seq(Nat)
  BY DEF Checkpoint, SaveRow, ForgetRow, ProjectionsIInv, ProjectionsTypeOK
<1>1. NoRow \in [Units -> Cells] /\ \A u \in Units : Folds(NoRow[u], journal)
  BY <1>0, EmptyFolds DEF NoRow
<1>2. CASE Checkpoint
  <2>1. taken' = [u \in Units |-> IF Serves(u) THEN [cells[u] EXCEPT !.ver = build.ver[u]] ELSE Unserved]
         /\ row' = row
    BY <1>2 DEF Checkpoint
  <2>2. \A u \in Units : cells[u] \in Cells /\ build.ver[u] \in Nat
    BY DEF ProjectionsIInv, ProjectionsTypeOK
  <2>3. \A u \in Units : taken'[u] \in Cells
    BY <1>0, <2>1, <2>2, EmptyFolds DEF Cells
  <2>4. taken' \in [Units -> Cells]
    BY <2>1, <2>3
  <2>5. ASSUME lost # "regrown", NEW u \in Units
        PROVE  Folds(taken'[u], journal)
    <3>1. Folds(cells[u], journal)
      BY <2>5 DEF ProjectionsIInv, Honest
    <3>2. CASE Serves(u)
      <4>1. taken'[u] = [cells[u] EXCEPT !.ver = build.ver[u]]
        BY <2>1, <3>2
      <4>2. taken'[u].of = cells[u].of /\ taken'[u].folded = cells[u].folded
        BY <2>2, <4>1 DEF Cells
      <4> QED  BY <3>1, <4>2 DEF Folds
    <3>3. CASE ~Serves(u)
      <4>1. taken'[u] = Unserved
        BY <2>1, <3>3
      <4> QED  BY <1>0, <4>1, EmptyFolds
    <3> QED  BY <3>2, <3>3
  <2>6. Stopped'
    BY <1>0, <2>1 DEF ProjectionsIInv, Stopped, Serves, NoRow
  <2> QED  BY <1>0, <2>1, <2>4, <2>5, <2>6 DEF ProjectionsIInv, ProjectionsTypeOK, Honest, Serves
<1>3. CASE SaveRow
  <2>1. taken' = NoRow /\ row' \in {taken, row}
    BY <1>3 DEF SaveRow
  <2>2. row' \in [Units -> Cells]
    BY <2>1 DEF ProjectionsIInv, ProjectionsTypeOK
  <2> QED  BY <1>0, <1>1, <2>1, <2>2 DEF ProjectionsIInv, ProjectionsTypeOK, Stopped, Honest, Serves
<1>4. CASE ForgetRow
  <2>1. taken' = taken /\ row' = NoRow
    BY <1>4 DEF ForgetRow
  <2> QED  BY <1>0, <1>1, <2>1 DEF ProjectionsIInv, ProjectionsTypeOK, Stopped, Honest, Serves
<1> QED  BY <1>2, <1>3, <1>4

LEMMA UnitIInv ==
  ASSUME ProjectionsIInv, NEW u \in Units, RegisterUnit(u) \/ RemoveUnit(u)
  PROVE  ProjectionsIInv'
<1>0. UNCHANGED <<journal, fsynced, written, lost, build, driver, taken, row>> /\ journal \in Seq(Nat)
       /\ cells \in [Units -> Cells] /\ build.ver[u] \in Nat
  BY DEF RegisterUnit, RemoveUnit, ProjectionsIInv, ProjectionsTypeOK
<1>1. PICK c \in {Fresh(u), Unserved} : cells' = [cells EXCEPT ![u] = c]
  BY DEF RegisterUnit, RemoveUnit
<1>2. c \in Cells /\ Folds(c, journal) /\ c.folded = 0 /\ (c = Unserved \/ c.ver = build.ver[u])
  BY <1>0, <1>1, EmptyFolds DEF Fresh, Unserved
<1>3. ProjectionsTypeOK'
  BY <1>0, <1>1, <1>2 DEF ProjectionsIInv, ProjectionsTypeOK
<1>4. Stopped'
  <2>1. ~build.runs => ~Serves(u)
    BY DEF ProjectionsIInv, Stopped, Serves, NoRow
  <2> QED  BY <1>0, <2>1 DEF ProjectionsIInv, Stopped, RegisterUnit, RemoveUnit
<1>5. cells'[u] = c /\ \A v \in Units : v # u => cells'[v] = cells[v]
  BY <1>0, <1>1
<1>6. ASSUME lost' # "regrown" PROVE Honest'
  <2>1. Honest
    BY <1>0, <1>6 DEF ProjectionsIInv
  <2>2. \A v \in Units : Folds(cells'[v], journal) /\ (Serves(v)' => cells'[v].ver = build.ver[v])
    BY <1>2, <1>5, <2>1 DEF Honest, Serves
  <2>3. ASSUME NEW d \in Drivers, driver[d].at # "rest", NEW v \in Units
        PROVE  cells'[v].folded <= Len(driver[d].events)
    <3>1. Len(driver[d].events) \in Nat
      BY DEF ProjectionsIInv, ProjectionsTypeOK
    <3> QED  BY <1>2, <1>5, <2>1, <2>3, <3>1 DEF Honest
  <2> QED  BY <1>0, <2>1, <2>2, <2>3 DEF Honest
<1> QED  BY <1>3, <1>4, <1>6 DEF ProjectionsIInv

LEMMA StartIInv ==
  ASSUME ProjectionsIInv, NEW ver \in [Units -> Vers], StartBuild(ver)
  PROVE  ProjectionsIInv'
<1>1. UNCHANGED <<journal, fsynced, written, lost, cells, driver, taken, row>> /\ cells = NoRow
  BY DEF StartBuild, ProjectionsIInv, Stopped
<1>2. build' = [n |-> build.n + 1, runs |-> TRUE, ver |-> ver] /\ ver \in [Units -> Nat \ {0}]
  BY ProjectionsAssumption DEF StartBuild
<1>3. \A u \in Units : ~Serves(u)
  BY <1>1 DEF NoRow, Serves
<1> QED  BY <1>1, <1>2, <1>3 DEF ProjectionsIInv, ProjectionsTypeOK, Stopped, Honest, Serves

LEMMA TakeIInv ==
  ASSUME ProjectionsIInv, NEW d \in Drivers, NEW where \in {"drive", "restore"}, TakeEvents(d, where)
  PROVE  ProjectionsIInv'
<1>0. UNCHANGED <<journal, fsynced, written, lost, build, cells, taken, row>> /\ journal \in Seq(Nat)
       /\ build.runs
  BY DEF TakeEvents, ProjectionsIInv, ProjectionsTypeOK
<1>1. driver' = [driver EXCEPT ![d] = [at |-> where, events |-> journal]]
  BY DEF TakeEvents
<1>2. ProjectionsTypeOK' /\ Stopped'
  BY <1>0, <1>1 DEF ProjectionsIInv, ProjectionsTypeOK, Stopped
<1>3. ASSUME lost' # "regrown" PROVE Honest'
  <2>1. Honest
    BY <1>0, <1>3 DEF ProjectionsIInv
  <2>2. IsPrefixOf(journal, journal)
    BY <1>0, SubSeqFull DEF IsPrefixOf
  <2>3. \A u \in Units : cells[u].folded <= Len(journal)
    BY <2>1 DEF Honest, Folds
  <2>4. driver'[d].events = journal /\ \A e \in Drivers : e # d => driver'[e] = driver[e]
    BY <1>1 DEF ProjectionsIInv, ProjectionsTypeOK
  <2> QED  BY <1>0, <2>1, <2>2, <2>3, <2>4 DEF Honest, Serves
<1> QED  BY <1>2, <1>3 DEF ProjectionsIInv

LEMMA DriveIInv ==
  ASSUME OneDriver, ProjectionsIInv, NEW d \in Drivers, Drive(d)
  PROVE  ProjectionsIInv'
<1>0. UNCHANGED <<journal, fsynced, written, lost, build, taken, row>> /\ journal \in Seq(Nat)
       /\ driver[d].at = "drive" /\ driver[d].events \in Seq(Nat) /\ \A u \in Units : cells[u] \in Cells
  BY DEF Drive, ProjectionsIInv, ProjectionsTypeOK
<1>1. driver' = [driver EXCEPT ![d] = AtRest]
       /\ cells' = [u \in Units |-> IF Serves(u) THEN Driven(cells[u], driver[d].events) ELSE Unserved]
  BY DEF Drive
<1>2. \A u \in Units : Driven(cells[u], driver[d].events) \in Cells
  <2> TAKE u \in Units
  <2>1. cells[u] \in Cells /\ cells[u].folded \in Nat /\ cells[u].of \in Seq(Nat) /\ Len(driver[d].events) \in Nat
    BY <1>0 DEF Cells
  <2>2. SubSeq(driver[d].events, cells[u].folded + 1, Len(driver[d].events)) \in Seq(Nat)
    BY <1>0, <2>1, SubSeqProperties
  <2>3. cells[u].of \o SubSeq(driver[d].events, cells[u].folded + 1, Len(driver[d].events)) \in Seq(Nat)
    BY <2>1, <2>2, ConcatProperties
  <2> QED  BY <2>1, <2>3 DEF Driven, Cells
<1>3. cells' \in [Units -> Cells]
  BY <1>0, <1>1, <1>2, EmptyFolds
<1>4. driver' \in [Drivers -> [at : {"rest", "drive", "restore"}, events : Seq(Nat)]]
  BY <1>1 DEF ProjectionsIInv, ProjectionsTypeOK, AtRest
<1>5. ProjectionsTypeOK'
  BY <1>0, <1>3, <1>4 DEF ProjectionsIInv, ProjectionsTypeOK
<1>6. build.runs
  BY <1>0 DEF ProjectionsIInv, Stopped, AtRest
<1>7. ASSUME lost' # "regrown" PROVE Honest'
  <2>1. Honest
    BY <1>0, <1>7 DEF ProjectionsIInv
  <2>2. ASSUME NEW e \in Drivers PROVE driver'[e].at = "rest"
    <3>1. driver'[d] = AtRest
      BY <1>1 DEF ProjectionsIInv, ProjectionsTypeOK
    <3>2. e = d
      BY DEF OneDriver
    <3> QED  BY <3>1, <3>2 DEF AtRest
  <2>3. ASSUME NEW u \in Units, Serves(u)
        PROVE  /\ cells'[u] = Driven(cells[u], driver[d].events)
               /\ Folds(cells'[u], journal) /\ cells'[u].ver = build.ver[u]
    <3>1. IsPrefixOf(driver[d].events, journal) /\ cells[u].folded <= Len(driver[d].events)
           /\ Folds(cells[u], journal) /\ cells[u].ver = build.ver[u]
      BY <1>0, <2>1, <2>3 DEF Honest
    <3> QED  BY <1>0, <1>1, <2>3, <3>1, DrivenFolds
  <2>4. ASSUME NEW u \in Units, ~Serves(u)
        PROVE  cells'[u] = Unserved /\ Folds(cells'[u], journal) /\ ~Serves(u)'
    BY <1>0, <1>1, <2>4, EmptyFolds DEF Serves
  <2>5. \A u \in Units : Folds(cells'[u], journal) /\ (Serves(u)' => cells'[u].ver = build.ver[u])
    BY <2>3, <2>4
  <2> QED  BY <1>0, <2>1, <2>2, <2>5 DEF Honest
<1> QED  BY <1>0, <1>5, <1>6, <1>7 DEF ProjectionsIInv, Stopped

LEMMA RestoreIInv ==
  ASSUME OneDriver, ProjectionsIInv, NEW d \in Drivers, Restore(d)
  PROVE  ProjectionsIInv'
<1> DEFINE evs == driver[d].events
<1>0. UNCHANGED <<journal, fsynced, written, lost, build, taken, row>> /\ journal \in Seq(Nat)
       /\ driver[d].at = "restore" /\ evs \in Seq(Nat) /\ \A u \in Units : build.ver[u] \in Nat
  BY DEF Restore, ProjectionsIInv, ProjectionsTypeOK
<1>1. PICK stored \in {row, NoRow} :
        cells' = [u \in Units |-> IF ~Serves(u) THEN Unserved
                                  ELSE IF Usable(u, stored, evs) THEN Adopted(u, stored) ELSE Fresh(u)]
  BY DEF Restore
<1>2. \A u \in Units : stored[u] \in Cells
  BY <1>0, <1>1, EmptyFolds DEF ProjectionsIInv, ProjectionsTypeOK, NoRow
<1>3. cells' \in [Units -> Cells]
  BY <1>0, <1>1, <1>2, EmptyFolds DEF Adopted, Fresh
<1>4. driver' = [driver EXCEPT ![d].at = "drive"]
  BY DEF Restore
<1>5. ProjectionsTypeOK'
  BY <1>0, <1>3, <1>4 DEF ProjectionsIInv, ProjectionsTypeOK
<1>6. build.runs
  BY <1>0 DEF ProjectionsIInv, Stopped, AtRest
<1>7. ASSUME lost' # "regrown" PROVE Honest'
  <2>1. Honest
    BY <1>0, <1>7 DEF ProjectionsIInv
  <2>2. IsPrefixOf(evs, journal) /\ Len(evs) <= Len(journal) /\ Len(evs) \in Nat /\ Len(journal) \in Nat
    BY <1>0, <2>1 DEF Honest, IsPrefixOf
  <2>3. ASSUME NEW u \in Units
        PROVE  /\ Folds(cells'[u], journal) /\ cells'[u].folded <= Len(evs)
               /\ Serves(u)' => cells'[u].ver = build.ver[u]
    <3>1. CASE ~Serves(u)
      <4>1. cells'[u] = Unserved /\ Unserved.folded = 0
        BY <1>1, <3>1 DEF Unserved
      <4> QED  BY <1>0, <2>2, <4>1, EmptyFolds DEF Serves
    <3>2. CASE Serves(u) /\ Usable(u, stored, evs)
      <4>1. cells'[u] = stored[u] /\ stored[u].ver = build.ver[u] /\ stored[u].folded <= Len(evs)
        BY <1>1, <3>2 DEF Adopted, Usable
      <4>2. stored[u].folded <= Len(journal)
        BY <1>2, <2>2, <4>1 DEF Cells
      <4>3. Folds(stored[u], journal)
        BY <1>0, <1>1, <2>1, <4>2, EmptyFolds DEF Honest, NoRow
      <4> QED  BY <4>1, <4>3
    <3>3. CASE Serves(u) /\ ~Usable(u, stored, evs)
      <4>1. cells'[u] = Fresh(u) /\ Fresh(u).folded = 0 /\ Fresh(u).ver = build.ver[u]
        BY <1>1, <3>3 DEF Fresh
      <4> QED  BY <1>0, <2>2, <4>1, EmptyFolds DEF Fresh
    <3> QED  BY <3>1, <3>2, <3>3
  <2>4. \A e \in Drivers : driver'[e].events = evs
    BY <1>4 DEF OneDriver, ProjectionsIInv, ProjectionsTypeOK
  <2> QED  BY <1>0, <2>1, <2>2, <2>3, <2>4 DEF Honest
<1> QED  BY <1>0, <1>5, <1>6, <1>7 DEF ProjectionsIInv, Stopped

-----------------------------------------------------------------------------

LEMMA ProjectionsInitIInv == ProjectionsInit => ProjectionsIInv
<1> SUFFICES ASSUME ProjectionsInit PROVE ProjectionsIInv
  OBVIOUS
<1>1. journal = <<>> /\ journal \in Seq(Nat) /\ cells = NoRow /\ taken = NoRow /\ row = NoRow
  BY DEF ProjectionsInit
<1>2. NoRow \in [Units -> Cells] /\ \A u \in Units : Folds(NoRow[u], journal)
  BY <1>1, EmptyFolds DEF NoRow
<1>3. \A u \in Units : ~Serves(u)
  BY <1>1 DEF Serves, NoRow
<1>4. ProjectionsTypeOK
  BY <1>1, <1>2 DEF ProjectionsInit, ProjectionsTypeOK, AtRest
<1>5. Stopped
  BY <1>1 DEF ProjectionsInit, Stopped
<1>6. \A d \in Drivers : driver[d].at = "rest"
  BY DEF ProjectionsInit, AtRest
<1> QED  BY <1>1, <1>2, <1>3, <1>4, <1>5, <1>6 DEF ProjectionsIInv, Honest

LEMMA ProjectionsNextIInv ==
  ASSUME OneDriver, ProjectionsIInv, [ProjectionsNext]_projectionVars
  PROVE  ProjectionsIInv'
<1>1. CASE UNCHANGED projectionVars
  BY <1>1 DEF projectionVars, ProjectionsIInv, ProjectionsTypeOK, Stopped, Honest, Serves
<1>2. CASE Killed
  <2>1. JournalStep
    BY <1>2, GrowSteps, RestSteps DEF Killed
  <2> QED  BY <1>2, <2>1, StopIInv DEF Killed
<1>3. CASE PowerFails
  BY <1>3, CutSteps, StopIInv DEF PowerFails
<1>4. CASE AppendEvent
  BY <1>4, AppendIInv
<1>5. CASE Checkpoint \/ SaveRow \/ ForgetRow
  BY <1>5, RowIInv
<1>6. ASSUME NEW ver \in [Units -> Vers], StartBuild(ver)
      PROVE  ProjectionsIInv'
  BY <1>6, StartIInv
<1>7. ASSUME NEW u \in Units, RegisterUnit(u) \/ RemoveUnit(u)
      PROVE  ProjectionsIInv'
  BY <1>7, UnitIInv
<1>8. ASSUME NEW d \in Drivers, TakeEvents(d, "drive") \/ TakeEvents(d, "restore") \/ Drive(d) \/ Restore(d)
      PROVE  ProjectionsIInv'
  BY <1>8, TakeIInv, DriveIInv, RestoreIInv
<1> QED  BY <1>1, <1>2, <1>3, <1>4, <1>5, <1>6, <1>7, <1>8 DEF ProjectionsNext

(* A unit's value is the fold of the journal as far as its watermark says, *)
(* whatever builds, kills and power losses came between, and whichever row *)
(* it was restored from (projection.rs, drive, restore).                   *)
THEOREM ValueIsAFold == OneDriver => (ProjectionsSpec => []ValueIsFold)
<1> SUFFICES ASSUME OneDriver PROVE ProjectionsSpec => []ValueIsFold
  OBVIOUS
<1>1. ProjectionsIInv /\ [ProjectionsNext]_projectionVars => ProjectionsIInv'
  BY ProjectionsNextIInv
<1>2. ProjectionsIInv => ValueIsFold
  BY DEF ProjectionsIInv, Honest, Folds, ValueIsFold, IsFold
<1> QED  BY ProjectionsInitIInv, <1>1, <1>2, PTL DEF ProjectionsSpec

-----------------------------------------------------------------------------
(***************************************************************************)
(* While a run is kept to one worker, the journal tells one run of it,     *)
(* for any number of steps, workers and runs.                              *)
(*                                                                         *)
(* The invariant: the steps done of a run are those before some step, and  *)
(* for the worker that drives it that step is its own; a run that is       *)
(* driven has no completed end.                                            *)
(***************************************************************************)
Busy(w) == drives[w].at # "free"

OneWorker ==
  \A v, w \in Workers : Busy(v) /\ Busy(w) /\ drives[v].run = drives[w].run => v = w

DoneUpTo(r, k) == \A s \in Declared : Done(r, s) <=> s < k

InSequence == \A r \in RunIds : \E k \in 0 .. StepCount : DoneUpTo(r, k)

EndedCompleted(r) == \E i \in Ends(r) : events[i].reason = "completed"

InPlace(d) ==
  d.at # "free" =>
    /\ ~EndedCompleted(d.run)
    /\ d.at \in {"boundary", "step", "said"} => DoneUpTo(d.run, d.step)
    /\ d.at \in {"step", "said"} => d.step < StepCount
    /\ d.at = "ending" /\ d.reason = "completed" => DoneUpTo(d.run, StepCount)

Driving == \A w \in Workers : InPlace(drives[w])

WorkflowInv == WorkflowTypeOK /\ OneWorker /\ InSequence /\ Driving /\ TellsOneRun

-----------------------------------------------------------------------------
(* One more record on the journal. *)

LEMMA Appended ==
  ASSUME NEW rec \in Records, events \in Seq(Records), events' = Append(events, rec)
  PROVE  /\ Len(events) \in Nat /\ events' \in Seq(Records) /\ Len(events') = Len(events) + 1
         /\ \A i \in 1 .. Len(events) : events'[i] = events[i]
         /\ events'[Len(events) + 1] = rec
         /\ DOMAIN events = 1 .. Len(events) /\ DOMAIN events' = 1 .. Len(events) + 1
BY AppendProperties, LenProperties

(* TellsOneRun of one record. *)
TellsAt(i) ==
  /\ events[i].ty = "step-start" =>
       /\ \A s \in 0 .. events[i].step - 1 : DoneBefore(i, s)
       /\ ~DoneBefore(i, events[i].step)
  /\ events[i].ty = "end" /\ events[i].reason = "completed" =>
       /\ \A s \in Declared : DoneBefore(i, s)
       /\ \A j \in i + 1 .. Len(events) : events[j].run # events[i].run

LEMMA TellsEverywhere == TellsOneRun <=> \A i \in DOMAIN events : TellsAt(i)
BY DEF TellsOneRun, TellsAt

LEMMA DoneAfter ==
  ASSUME NEW rec \in Records, events \in Seq(Records), events' = Append(events, rec),
         NEW r \in RunIds, NEW s \in 0 .. StepCount
  PROVE  Done(r, s)' <=>
           Done(r, s) \/ (rec.ty = "step-end" /\ rec.run = r /\ rec.step = s /\ rec.ok)
<1>1. ASSUME NEW i \in 1 .. Len(events)
      PROVE  i \in Mentions(r)' <=> i \in Mentions(r)
  BY Appended DEF Mentions
<1>2. Len(events) + 1 \in Mentions(r)' <=> rec.run = r
  BY Appended DEF Mentions
<1>3. Mentions(r) \subseteq 1 .. Len(events) /\ Mentions(r)' \subseteq 1 .. Len(events) + 1
  BY Appended DEF Mentions
<1> QED  BY <1>1, <1>2, <1>3, Appended DEF Done

LEMMA EndedAfter ==
  ASSUME NEW rec \in Records, events \in Seq(Records), events' = Append(events, rec),
         NEW r \in RunIds
  PROVE  EndedCompleted(r)' <=>
           EndedCompleted(r) \/ (rec.ty = "end" /\ rec.run = r /\ rec.reason = "completed")
<1>1. ASSUME NEW i \in 1 .. Len(events)
      PROVE  i \in Ends(r)' <=> i \in Ends(r)
  BY Appended DEF Mentions, Ends
<1>2. Len(events) + 1 \in Ends(r)' <=> rec.run = r /\ rec.ty = "end"
  BY Appended DEF Mentions, Ends
<1>3. Ends(r) \subseteq 1 .. Len(events) /\ Ends(r)' \subseteq 1 .. Len(events) + 1
  BY Appended DEF Mentions, Ends
<1> QED  BY <1>1, <1>2, <1>3, Appended DEF EndedCompleted

(* What a record has to satisfy to go on telling one run. *)
LEMMA TellsOn ==
  ASSUME NEW rec \in Records, events \in Seq(Records), events' = Append(events, rec),
         TellsOneRun, ~EndedCompleted(rec.run),
         rec.ty = "step-start" =>
           /\ \A s \in 0 .. rec.step - 1 : Done(rec.run, s)
           /\ ~Done(rec.run, rec.step),
         rec.ty = "end" /\ rec.reason = "completed" => \A s \in Declared : Done(rec.run, s)
  PROVE  TellsOneRun'
<1>0. rec.run \in RunIds /\ Len(events) \in Nat
  BY Appended DEF Records
<1>a. PICK N \in Nat : N = Len(events) + 1
  BY <1>0
<1>b. /\ DOMAIN events = 1 .. N - 1 /\ DOMAIN events' = 1 .. N /\ Len(events') = N
      /\ events'[N] = rec /\ \A i \in 1 .. N - 1 : events'[i] = events[i]
  BY <1>0, <1>a, Appended
<1>1. ASSUME NEW i \in 1 .. N - 1, NEW s
      PROVE  DoneBefore(i, s)' <=> DoneBefore(i, s)
  <2>1. 1 .. i - 1 \subseteq 1 .. N - 1 /\ events'[i] = events[i]
    BY <1>b
  <2> QED  BY <2>1, <1>b DEF DoneBefore
<1>2. ASSUME NEW s
      PROVE  DoneBefore(N, s)' <=> Done(rec.run, s)
  BY <1>b DEF DoneBefore, Done, Mentions
<1>3. TellsAt(N)'
  <2>1. \A s \in Declared : (rec.ty = "end" /\ rec.reason = "completed") => DoneBefore(N, s)'
    BY <1>2
  <2>2. rec.ty = "step-start" => /\ \A s \in 0 .. rec.step - 1 : DoneBefore(N, s)'
                                 /\ ~DoneBefore(N, rec.step)'
    BY <1>2
  <2>3. N + 1 .. N = {}
    BY <1>a
  <2> QED  BY <2>1, <2>2, <2>3, <1>b DEF TellsAt
<1>4. ASSUME NEW i \in 1 .. N - 1
      PROVE  TellsAt(i)'
  <2>1. events'[i] = events[i] /\ i \in DOMAIN events /\ TellsAt(i)
    BY <1>b, TellsEverywhere
  <2>2. events[i].ty = "end" /\ events[i].reason = "completed" => events[i].run # rec.run
    BY <2>1 DEF EndedCompleted, Ends, Mentions
  <2>3. \A j \in i + 1 .. N : j \in i + 1 .. N - 1 \/ j = N
    BY <1>a
  <2>4. \A j \in i + 1 .. N - 1 : events'[j] = events[j]
    BY <1>a, <1>b
  <2>5. Len(events) = N - 1
    BY <1>0, <1>a
  <2>6. events[i].ty = "end" /\ events[i].reason = "completed" =>
          /\ \A s \in Declared : DoneBefore(i, s)'
          /\ \A j \in i + 1 .. N : events'[j].run # events[i].run
    BY <2>1, <2>2, <2>3, <2>4, <2>5, <1>1, <1>b DEF TellsAt
  <2>7. events[i].ty = "step-start" =>
          /\ \A s \in 0 .. events[i].step - 1 : DoneBefore(i, s)'
          /\ ~DoneBefore(i, events[i].step)
    BY <2>1, <1>1 DEF TellsAt
  <2>8. DoneBefore(i, events[i].step)' <=> DoneBefore(i, events[i].step)
    BY <2>1, <1>1
  <2> QED  BY <2>1, <2>6, <2>7, <2>8, <1>1, <1>b DEF TellsAt
<1>5. \A i \in 1 .. N : i = N \/ i \in 1 .. N - 1
  BY <1>a
<1> QED  BY <1>b, <1>3, <1>4, <1>5 DEF TellsAt, TellsOneRun

-----------------------------------------------------------------------------
(* What resume reads back. *)

(* The step it goes on with is the first that is not done. *)
LEMMA ResumesAtTheFirst ==
  ASSUME NEW r \in RunIds, NEW k \in 0 .. StepCount, DoneUpTo(r, k)
  PROVE  resume_point(r) = k
<1> DEFINE Fits(c) == (c = 0 \/ Done(r, c - 1)) /\ \A s \in Declared : s >= c => ~Done(r, s)
<1>0. StepCount \in Nat
  BY WorkflowAssumption
<1>1. Fits(k)
  BY <1>0 DEF DoneUpTo, Declared
<1>2. ASSUME NEW c \in 0 .. StepCount, Fits(c)
      PROVE  c = k
  <2>1. CASE c < k
    BY <2>1, <1>0, <1>2 DEF DoneUpTo, Declared
  <2>2. CASE c > k
    BY <2>2, <1>0, <1>2 DEF DoneUpTo, Declared
  <2> QED  BY <2>1, <2>2, <1>0
<1>3. resume_point(r) = CHOOSE c \in 0 .. StepCount : Fits(c)
  BY DEF resume_point
<1> HIDE DEF Fits
<1> QED  BY <1>1, <1>2, <1>3

(* A run that ended completed is found finished. *)
LEMMA CompletedIsFound ==
  ASSUME NEW r \in RunIds, events \in Seq(Records), TellsOneRun, EndedCompleted(r)
  PROVE  finished(r) = "completed"
<1>1. PICK i \in Ends(r) : events[i].reason = "completed"
  BY DEF EndedCompleted
<1>2. DOMAIN events = 1 .. Len(events) /\ Len(events) \in Nat /\ Ends(r) \subseteq 1 .. Len(events)
  BY LenProperties DEF Ends, Mentions
<1>3. ASSUME NEW j \in Ends(r)
      PROVE  j <= i
  <2>1. events[j].run = events[i].run /\ events[i].ty = "end" /\ i \in DOMAIN events
    BY DEF Ends, Mentions
  <2>2. j \notin i + 1 .. Len(events)
    BY <2>1, <1>1 DEF TellsOneRun
  <2> QED  BY <2>2, <1>2
<1>4. ASSUME NEW final \in Ends(r), \A j \in Ends(r) : j <= final
      PROVE  final = i
  BY <1>2, <1>3, <1>4
<1>5. (CHOOSE final \in Ends(r) : \A j \in Ends(r) : j <= final) = i
  BY <1>3, <1>4
<1> QED  BY <1>1, <1>5 DEF finished

-----------------------------------------------------------------------------
(* What one worker's step has to keep, without a record and with one. *)

Drives == [at : WorkPlaces, run : RunIds, step : 0 .. StepCount, ok : BOOLEAN,
           reason : StopReasons]

(* The worker w goes on at nd, and nobody else drives that run. *)
Moves(w, nd) ==
  /\ drives' = [drives EXCEPT ![w] = nd]
  /\ interrupted' \in BOOLEAN /\ performed' \in [RunIds -> [Declared -> 0 .. Again]]
  /\ nd.at # "free" => \A v \in Workers \ {w} : Busy(v) => drives[v].run # nd.run

LEMMA StaysOne ==
  ASSUME WorkflowInv, NEW w \in Workers, NEW nd \in Drives, Moves(w, nd)
  PROVE  /\ OneWorker' /\ drives' \in [Workers -> Drives] /\ drives'[w] = nd
         /\ \A v \in Workers \ {w} : drives'[v] = drives[v]
<1>1. drives \in [Workers -> Drives]
  BY DEF WorkflowInv, WorkflowTypeOK, Drives
<1>2. /\ drives' \in [Workers -> Drives] /\ drives'[w] = nd
      /\ \A v \in Workers \ {w} : drives'[v] = drives[v]
  BY <1>1 DEF Moves
<1>3. \A v \in Workers \ {w} : (drives[v].at # "free" /\ nd.at # "free") => drives[v].run # nd.run
  BY DEF Moves, Busy
<1>4. \A v, u \in Workers :
        (drives[v].at # "free" /\ drives[u].at # "free" /\ drives[v].run = drives[u].run) => v = u
  BY DEF WorkflowInv, OneWorker, Busy
<1>5. \A v, u \in Workers :
        (drives'[v].at # "free" /\ drives'[u].at # "free" /\ drives'[v].run = drives'[u].run) => v = u
  BY <1>2, <1>3, <1>4
<1> QED  BY <1>2, <1>5 DEF OneWorker, Busy

LEMMA QuietlyKeeps ==
  ASSUME WorkflowInv, NEW w \in Workers, NEW nd \in Drives, Moves(w, nd),
         events' = events, InPlace(nd)
  PROVE  WorkflowInv'
<1>1. \A r : EndedCompleted(r)' <=> EndedCompleted(r)
  BY DEF EndedCompleted, Ends, Mentions
<1>2. \A r, k : DoneUpTo(r, k)' <=> DoneUpTo(r, k)
  BY DEF DoneUpTo, Done, Mentions
<1>3. TellsOneRun'
  BY DEF WorkflowInv, TellsOneRun, DoneBefore
<1>4. InSequence'
  BY <1>2 DEF WorkflowInv, InSequence
<1>5. ASSUME NEW v \in Workers  PROVE InPlace(drives[v])'
  <2>1. CASE v = w
    BY <2>1, <1>1, <1>2, StaysOne DEF InPlace
  <2>2. CASE v # w
    <3>1. drives'[v] = drives[v] /\ InPlace(drives[v])
      BY <2>2, StaysOne DEF WorkflowInv, Driving
    <3> QED  BY <3>1, <1>1, <1>2 DEF InPlace
  <2> QED  BY <2>1, <2>2
<1>6. WorkflowTypeOK'
  BY StaysOne DEF WorkflowInv, WorkflowTypeOK, Moves, Drives
<1> QED  BY <1>3, <1>4, <1>5, <1>6, StaysOne DEF WorkflowInv, Driving

(* A record of the run the worker drives. *)
LEMMA TellingKeeps ==
  ASSUME WorkflowInv, NEW w \in Workers, NEW nd \in Drives, Moves(w, nd),
         NEW rec \in Records, events' = Append(events, rec),
         \A v \in Workers \ {w} : Busy(v) => drives[v].run # rec.run,
         TellsOneRun', \E k \in 0 .. StepCount : DoneUpTo(rec.run, k)',
         nd.at # "free" => InPlace(nd)'
  PROVE  WorkflowInv'
<1>0. events \in Seq(Records) /\ StepCount \in Nat
  BY WorkflowAssumption DEF WorkflowInv, WorkflowTypeOK
<1>1. \A r \in RunIds : r # rec.run => (EndedCompleted(r)' <=> EndedCompleted(r))
  BY <1>0, EndedAfter
<1>2. \A r \in RunIds, s \in 0 .. StepCount : r # rec.run => (Done(r, s)' <=> Done(r, s))
  BY <1>0, DoneAfter
<1>3. \A r \in RunIds : r # rec.run => \A k : DoneUpTo(r, k)' <=> DoneUpTo(r, k)
  BY <1>0, <1>2 DEF DoneUpTo, Declared
<1>4. InSequence'
  BY <1>3 DEF WorkflowInv, InSequence
<1>5. ASSUME NEW v \in Workers  PROVE InPlace(drives[v])'
  <2>1. CASE v = w
    BY <2>1, StaysOne DEF InPlace
  <2>2. CASE v # w
    <3>1. drives'[v] = drives[v] /\ InPlace(drives[v]) /\ drives[v] \in Drives
      BY <2>2, StaysOne DEF WorkflowInv, Driving, WorkflowTypeOK, Drives
    <3>2. drives[v].at # "free" => drives[v].run # rec.run
      BY <2>2 DEF Busy
    <3>3. drives[v].run \in RunIds
      BY <3>1 DEF Drives
    <3> QED  BY <3>1, <3>2, <3>3, <1>1, <1>3 DEF InPlace
  <2> QED  BY <2>1, <2>2
<1>6. WorkflowTypeOK'
  BY <1>0, Appended, StaysOne DEF WorkflowInv, WorkflowTypeOK, Moves, Drives
<1> QED  BY <1>4, <1>5, <1>6, StaysOne DEF WorkflowInv, Driving

-----------------------------------------------------------------------------
(* Each action. *)

LEMMA Typed ==
  ASSUME WorkflowInv
  PROVE  /\ events \in Seq(Records) /\ interrupted \in BOOLEAN /\ drives \in [Workers -> Drives]
         /\ performed \in [RunIds -> [Declared -> 0 .. Again]]
         /\ StepCount \in Nat \ {0} /\ 0 \in 0 .. StepCount
         /\ NoDrive \in Drives /\ NoDrive.at = "free"
<1>0. StepCount \in Nat \ {0} /\ 0 \in 0 .. StepCount
  BY WorkflowAssumption
<1>1. PICK r \in RunIds : TRUE
  BY WorkflowAssumption
<1>2. [at |-> "free", run |-> r, step |-> 0, ok |-> FALSE, reason |-> "completed"] \in Free
  BY DEF Free
<1>3. NoDrive \in Free
  BY <1>2 DEF NoDrive
<1>4. NoDrive \in Drives /\ NoDrive.at = "free"
  BY <1>0, <1>3 DEF Drives, Free, WorkPlaces, StopReasons
<1> QED  BY <1>0, <1>4 DEF WorkflowInv, WorkflowTypeOK, Drives

LEMMA RunKeeps ==
  ASSUME WorkflowInv, NEW w \in Workers, NEW r \in RunIds, run(w, r)
  PROVE  WorkflowInv'
<1>1. PICK rec \in Records : rec = Fact("start", r, 0, FALSE, "completed")
  <2>1. 0 \in 0 .. StepCount
    BY Typed
  <2> QED  BY <2>1 DEF Records, Fact, StopReasons
<1>2. PICK nd \in Drives : nd = [at |-> "boundary", run |-> r, step |-> 0,
                                ok |-> FALSE, reason |-> "completed"]
  <2>1. 0 \in 0 .. StepCount
    BY Typed
  <2> QED  BY <2>1 DEF Drives, WorkPlaces, StopReasons
<1>3. events' = Append(events, rec) /\ rec.run = r /\ rec.ty = "start"
  BY <1>1 DEF run, Appends, Fact
<1>4. \A v \in Workers : Busy(v) => drives[v].run # r
  BY DEF run, UnderWay, Busy
<1>5. Moves(w, nd)
  BY <1>2, <1>4, Typed DEF run, SetsOut, Moves
<1>6. ~EndedCompleted(r) /\ \A s : ~Done(r, s)
  BY DEF run, EndedCompleted, Ends, Done
<1>7. TellsOneRun'
  BY <1>3, <1>6, Typed, TellsOn DEF WorkflowInv
<1>8. ~EndedCompleted(r)' /\ \A s \in 0 .. StepCount : ~Done(r, s)'
  BY <1>3, <1>6, Typed, EndedAfter, DoneAfter
<1>9. DoneUpTo(r, 0)'
  BY <1>8, Typed DEF DoneUpTo, Declared
<1>10. InPlace(nd)'
  BY <1>2, <1>8, <1>9 DEF InPlace
<1>11. 0 \in 0 .. StepCount
  BY Typed
<1> QED  BY <1>3, <1>4, <1>5, <1>7, <1>9, <1>10, <1>11, TellingKeeps

LEMMA ResumeKeeps ==
  ASSUME WorkflowInv, Claims, NEW w \in Workers, NEW r \in RunIds, resume(w, r)
  PROVE  WorkflowInv'
<1>1. PICK k \in 0 .. StepCount : DoneUpTo(r, k)
  BY DEF WorkflowInv, InSequence
<1>2. PICK nd \in Drives : nd = [at |-> "boundary", run |-> r, step |-> k,
                                ok |-> FALSE, reason |-> "completed"]
  BY Typed DEF Drives, WorkPlaces, StopReasons
<1>3. resume_point(r) = k
  BY <1>1, ResumesAtTheFirst
<1>4. Moves(w, nd)
  BY <1>2, <1>3, Typed DEF resume, SetsOut, Moves, UnderWay, Busy
<1>5. ~EndedCompleted(r)
  BY Typed, CompletedIsFound DEF WorkflowInv, resume
<1>6. InPlace(nd)
  BY <1>1, <1>2, <1>5 DEF InPlace
<1> QED  BY <1>4, <1>6, QuietlyKeeps DEF resume

(* What the worker w knows of its run. *)
LEMMA AtWork ==
  ASSUME WorkflowInv, NEW w \in Workers, Busy(w), NEW d, d = drives[w]
  PROVE  /\ d \in Drives /\ InPlace(d) /\ d.at # "free" /\ d.run \in RunIds
         /\ \A v \in Workers \ {w} : Busy(v) => drives[v].run # d.run
<1>1. d \in Drives /\ d.at # "free" /\ InPlace(drives[w])
  BY Typed DEF Busy, WorkflowInv, Driving
<1>2. InPlace(d)
  BY <1>1
<1> QED  BY <1>1, <1>2 DEF WorkflowInv, OneWorker, Drives, Busy

LEMMA BeginStepKeeps ==
  ASSUME WorkflowInv, NEW w \in Workers, BeginStep(w)
  PROVE  WorkflowInv'
<1>1. PICK d \in Drives : d = drives[w]
  BY Typed
<1>2. Busy(w) /\ d.at = "boundary" /\ d.step < StepCount /\ d.step \in 0 .. StepCount
  BY <1>1, Typed DEF BeginStep, Busy, Drives
<1>3. /\ InPlace(d) /\ d.run \in RunIds
      /\ \A v \in Workers \ {w} : Busy(v) => drives[v].run # d.run
  BY <1>1, <1>2, AtWork
<1>4. PICK rec \in Records : rec = Fact("step-start", d.run, d.step, FALSE, "completed")
  BY <1>2, <1>3, Typed DEF Records, Fact, StopReasons
<1>5. PICK nd \in Drives : nd = [d EXCEPT !.at = "step"]
  BY <1>1, Typed DEF Drives, WorkPlaces
<1>6. events' = Append(events, rec) /\ rec.run = d.run /\ rec.ty = "step-start" /\ rec.step = d.step
  BY <1>1, <1>4 DEF BeginStep, Appends, Fact
<1>7. nd.run = d.run /\ nd.step = d.step /\ nd.at = "step"
  BY <1>5 DEF Drives
<1>8. Moves(w, nd)
  BY <1>1, <1>3, <1>5, <1>7, Typed DEF BeginStep, Moves
<1>9. DoneUpTo(d.run, d.step) /\ ~EndedCompleted(d.run)
  BY <1>2, <1>3 DEF InPlace
<1>10. (\A s \in 0 .. d.step - 1 : Done(d.run, s)) /\ ~Done(d.run, d.step)
  BY <1>2, <1>9, Typed DEF DoneUpTo, Declared
<1>11. TellsOneRun'
  BY <1>6, <1>9, <1>10, Typed, TellsOn DEF WorkflowInv
<1>12. ~EndedCompleted(d.run)' /\ \A s \in 0 .. StepCount : Done(d.run, s)' <=> Done(d.run, s)
  BY <1>3, <1>6, <1>9, Typed, EndedAfter, DoneAfter
<1>13. DoneUpTo(d.run, d.step)'
  BY <1>9, <1>12, Typed DEF DoneUpTo, Declared
<1>14. InPlace(nd)'
  BY <1>2, <1>7, <1>12, <1>13 DEF InPlace
<1> QED  BY <1>2, <1>3, <1>6, <1>8, <1>11, <1>13, <1>14, TellingKeeps

LEMMA LeaveLoopKeeps ==
  ASSUME WorkflowInv, NEW w \in Workers, LeaveLoop(w)
  PROVE  WorkflowInv'
<1>1. PICK d \in Drives : d = drives[w]
  BY Typed
<1>2. Busy(w) /\ d.at = "boundary"
  BY <1>1 DEF LeaveLoop, Busy
<1>3. /\ InPlace(d) /\ d.run \in RunIds
      /\ \A v \in Workers \ {w} : Busy(v) => drives[v].run # d.run
  BY <1>1, <1>2, AtWork
<1>4. PICK nd \in Drives :
        nd = [d EXCEPT !.at = "ending",
                       !.reason = IF d.step = StepCount THEN "completed" ELSE "cancelled"]
  BY <1>1, Typed DEF Drives, WorkPlaces, StopReasons
<1>5. /\ nd.run = d.run /\ nd.at = "ending"
      /\ nd.reason = "completed" => d.step = StepCount
  BY <1>4 DEF Drives
<1>6. drives' = [drives EXCEPT ![w] = nd]
  BY <1>1, <1>4 DEF LeaveLoop
<1>7. Moves(w, nd)
  BY <1>3, <1>5, <1>6, Typed DEF LeaveLoop, Moves
<1>8. InPlace(nd)
  BY <1>2, <1>3, <1>5 DEF InPlace
<1> QED  BY <1>7, <1>8, QuietlyKeeps DEF LeaveLoop

LEMMA PerformKeeps ==
  ASSUME WorkflowInv, NEW w \in Workers, NEW ok \in BOOLEAN, Perform(w, ok)
  PROVE  WorkflowInv'
<1>1. PICK d \in Drives : d = drives[w]
  BY Typed
<1>2. Busy(w) /\ d.at = "step"
  BY <1>1 DEF Perform, Busy
<1>3. /\ InPlace(d) /\ d.run \in RunIds
      /\ \A v \in Workers \ {w} : Busy(v) => drives[v].run # d.run
  BY <1>1, <1>2, AtWork
<1>4. PICK nd \in Drives : nd = [d EXCEPT !.at = "said", !.ok = ok]
  BY <1>1, Typed DEF Drives, WorkPlaces
<1>5. nd.run = d.run /\ nd.at = "said" /\ nd.step = d.step
  BY <1>4 DEF Drives
<1>6. drives' = [drives EXCEPT ![w] = nd]
  BY <1>1, <1>4 DEF Perform
<1>7. d.step \in Declared
  BY <1>2, <1>3, Typed DEF InPlace, Drives, Declared
<1>8. performed' \in [RunIds -> [Declared -> 0 .. Again]]
  <2>1. CASE ~ok \/ performed[d.run][d.step] = Again
    BY <2>1, <1>1, Typed DEF Perform
  <2>2. CASE ~(~ok \/ performed[d.run][d.step] = Again)
    <3>1. performed[d.run][d.step] \in 0 .. Again /\ performed[d.run][d.step] # Again
      BY <2>2, <1>3, <1>7, Typed
    <3>2. performed[d.run][d.step] + 1 \in 0 .. Again
      BY <3>1 DEF Again
    <3>3. performed' = [performed EXCEPT ![d.run][d.step] = performed[d.run][d.step] + 1]
      BY <2>2, <1>1 DEF Perform
    <3> QED  BY <3>2, <3>3, <1>3, <1>7, Typed
  <2> QED  BY <2>1, <2>2
<1>9. Moves(w, nd)
  BY <1>3, <1>5, <1>6, <1>8, Typed DEF Perform, Moves
<1>10. InPlace(nd)
  BY <1>2, <1>3, <1>5 DEF InPlace
<1> QED  BY <1>9, <1>10, QuietlyKeeps DEF Perform

LEMMA EndStepKeeps ==
  ASSUME WorkflowInv, NEW w \in Workers, EndStep(w)
  PROVE  WorkflowInv'
<1>1. PICK d \in Drives : d = drives[w]
  BY Typed
<1>2. Busy(w) /\ d.at = "said"
  BY <1>1 DEF EndStep, Busy
<1>3. /\ InPlace(d) /\ d.run \in RunIds /\ d.ok \in BOOLEAN
      /\ \A v \in Workers \ {w} : Busy(v) => drives[v].run # d.run
  BY <1>1, <1>2, AtWork DEF Drives
<1>4. d.step \in Declared /\ DoneUpTo(d.run, d.step) /\ ~EndedCompleted(d.run)
  BY <1>2, <1>3, Typed DEF InPlace, Drives, Declared
<1>5. d.step \in 0 .. StepCount /\ d.step + 1 \in 0 .. StepCount
  BY <1>4, Typed DEF Declared
<1>6. PICK rec \in Records : rec = Fact("step-end", d.run, d.step, d.ok, "completed")
  BY <1>3, <1>5 DEF Records, Fact, StopReasons
<1>7. /\ events' = Append(events, rec) /\ rec.run = d.run /\ rec.ty = "step-end"
      /\ rec.step = d.step /\ rec.ok = d.ok
  BY <1>1, <1>6 DEF EndStep, Appends, Fact
<1>8. PICK nd \in Drives :
        nd = IF d.ok THEN [d EXCEPT !.at = "boundary", !.step = @ + 1]
             ELSE [d EXCEPT !.at = "ending", !.reason = "failed"]
  BY <1>3, <1>5 DEF Drives, WorkPlaces, StopReasons
<1>9. /\ nd.run = d.run
      /\ d.ok => nd.at = "boundary" /\ nd.step = d.step + 1
      /\ ~d.ok => nd.at = "ending" /\ nd.reason = "failed"
  BY <1>8 DEF Drives
<1>10. drives' = [drives EXCEPT ![w] = nd]
  BY <1>1, <1>8 DEF EndStep
<1>11. Moves(w, nd)
  BY <1>3, <1>9, <1>10, Typed DEF EndStep, Moves
<1>12. TellsOneRun'
  BY <1>4, <1>7, Typed, TellsOn DEF WorkflowInv
<1>13. ~EndedCompleted(d.run)'
  BY <1>3, <1>4, <1>7, Typed, EndedAfter
<1>14. \A s \in 0 .. StepCount : Done(d.run, s)' <=> Done(d.run, s) \/ (d.step = s /\ d.ok)
  BY <1>3, <1>7, Typed, DoneAfter
<1>15. /\ d.ok => DoneUpTo(d.run, d.step + 1)'
       /\ ~d.ok => DoneUpTo(d.run, d.step)'
  <2>1. CASE d.ok
    BY <2>1, <1>4, <1>5, <1>14, Typed DEF DoneUpTo, Declared
  <2>2. CASE ~d.ok
    BY <2>2, <1>4, <1>14, Typed DEF DoneUpTo, Declared
  <2> QED  BY <2>1, <2>2
<1>16. InPlace(nd)'
  BY <1>3, <1>9, <1>13, <1>15 DEF InPlace
<1>17. \E k \in 0 .. StepCount : DoneUpTo(rec.run, k)'
  BY <1>3, <1>5, <1>7, <1>15
<1> QED  BY <1>3, <1>7, <1>11, <1>12, <1>16, <1>17, TellingKeeps

LEMMA EndRunKeeps ==
  ASSUME WorkflowInv, NEW w \in Workers, EndRun(w)
  PROVE  WorkflowInv'
<1>1. PICK d \in Drives : d = drives[w]
  BY Typed
<1>2. Busy(w) /\ d.at = "ending" /\ d.step \in 0 .. StepCount /\ d.reason \in StopReasons
  BY <1>1 DEF EndRun, Busy, Drives
<1>3. /\ InPlace(d) /\ d.run \in RunIds
      /\ \A v \in Workers \ {w} : Busy(v) => drives[v].run # d.run
  BY <1>1, <1>2, AtWork
<1>4. PICK rec \in Records : rec = Fact("end", d.run, d.step, FALSE, d.reason)
  BY <1>2, <1>3 DEF Records, Fact
<1>5. /\ events' = Append(events, rec) /\ rec.run = d.run /\ rec.ty = "end"
      /\ rec.reason = d.reason
  BY <1>1, <1>4 DEF EndRun, Appends, Fact
<1>6. PICK nd \in Drives : nd = NoDrive
  BY Typed
<1>7. Moves(w, nd)
  BY <1>6, Typed DEF EndRun, Moves
<1>8. ~EndedCompleted(d.run) /\ (d.reason = "completed" => DoneUpTo(d.run, StepCount))
  BY <1>2, <1>3 DEF InPlace
<1>9. d.reason = "completed" => \A s \in Declared : Done(d.run, s)
  BY <1>8, Typed DEF DoneUpTo, Declared
<1>10. TellsOneRun'
  BY <1>5, <1>8, <1>9, Typed, TellsOn DEF WorkflowInv
<1>11. PICK k \in 0 .. StepCount : DoneUpTo(d.run, k)
  BY <1>3 DEF WorkflowInv, InSequence
<1>12. \A s \in 0 .. StepCount : Done(d.run, s)' <=> Done(d.run, s)
  BY <1>3, <1>5, Typed, DoneAfter
<1>13. DoneUpTo(d.run, k)'
  BY <1>11, <1>12, Typed DEF DoneUpTo, Declared
<1> QED  BY <1>3, <1>5, <1>6, <1>7, <1>10, <1>13, Typed, TellingKeeps

LEMMA RefusedKeeps ==
  ASSUME WorkflowInv, NEW w \in Workers, Refused(w)
  PROVE  WorkflowInv'
<1>1. PICK nd \in Drives : nd = NoDrive
  BY Typed
<1>2. Moves(w, nd)
  BY <1>1, Typed DEF Refused, Moves
<1>3. InPlace(nd)
  BY <1>1, Typed DEF InPlace
<1> QED  BY <1>2, <1>3, QuietlyKeeps DEF Refused

(* Nothing is said, and every worker is where it was or free. *)
LEMMA SilentKeeps ==
  ASSUME WorkflowInv, UNCHANGED <<events, performed>>, interrupted' \in BOOLEAN,
         drives' = drives \/ drives' = [w \in Workers |-> NoDrive]
  PROVE  WorkflowInv'
<1>1. \A r : EndedCompleted(r)' <=> EndedCompleted(r)
  BY DEF EndedCompleted, Ends, Mentions
<1>2. \A r, k : DoneUpTo(r, k)' <=> DoneUpTo(r, k)
  BY DEF DoneUpTo, Done, Mentions
<1>3. TellsOneRun' /\ InSequence'
  BY <1>2 DEF WorkflowInv, TellsOneRun, DoneBefore, InSequence
<1>4. \A w \in Workers : drives'[w] = drives[w] \/ drives'[w].at = "free"
  BY Typed
<1>5. OneWorker'
  BY <1>4, Typed DEF WorkflowInv, OneWorker, Busy
<1>6. Driving'
  BY <1>1, <1>2, <1>4 DEF WorkflowInv, Driving, InPlace
<1>7. drives' \in [Workers -> Drives]
  BY Typed
<1> QED  BY <1>3, <1>5, <1>6, <1>7, Typed DEF WorkflowInv, WorkflowTypeOK, Drives

-----------------------------------------------------------------------------
(* While the callers keep a run to one worker at a time: the steps done of *)
(* a run are those before some step, the one its worker is at, and nobody  *)
(* works on a run that ended completed (Workflow::run, resume, drive).     *)
THEOREM WorkflowInvariant ==
  ASSUME Claims
  PROVE  WorkflowSpec => []WorkflowInv
<1>1. WorkflowInit => WorkflowInv
  <2> SUFFICES ASSUME WorkflowInit PROVE WorkflowInv
    OBVIOUS
  <2>1. 0 \in 0 .. StepCount /\ NoDrive \in Drives /\ NoDrive.at = "free"
    <3>1. PICK r \in RunIds : TRUE
      BY WorkflowAssumption
    <3>2. [at |-> "free", run |-> r, step |-> 0, ok |-> FALSE, reason |-> "completed"] \in Free
      BY DEF Free
    <3>3. NoDrive \in Free
      BY <3>2 DEF NoDrive
    <3>4. 0 \in 0 .. StepCount
      BY WorkflowAssumption
    <3> QED  BY <3>3, <3>4 DEF Drives, Free, WorkPlaces, StopReasons
  <2>2. events = <<>> /\ DOMAIN events = {} /\ events \in Seq(Records)
    BY EmptySeq DEF WorkflowInit
  <2>3. \A r, s : ~Done(r, s)
    BY <2>2 DEF Done, Mentions
  <2>4. InSequence
    BY <2>1, <2>3, WorkflowAssumption DEF InSequence, DoneUpTo, Declared
  <2>5. \A w \in Workers : drives[w].at = "free"
    BY <2>1 DEF WorkflowInit
  <2>6. WorkflowTypeOK
    <3>1. 0 \in 0 .. Again
      BY DEF Again
    <3>2. performed \in [RunIds -> [Declared -> 0 .. Again]]
      BY <3>1 DEF WorkflowInit
    <3>3. drives \in [Workers -> Drives] /\ interrupted \in BOOLEAN
      BY <2>1 DEF WorkflowInit
    <3> QED  BY <2>2, <3>2, <3>3 DEF WorkflowTypeOK, Drives
  <2>7. OneWorker /\ Driving /\ TellsOneRun
    BY <2>2, <2>5 DEF OneWorker, Driving, InPlace, Busy, TellsOneRun
  <2> QED  BY <2>4, <2>6, <2>7 DEF WorkflowInv
<1>2. WorkflowInv /\ [WorkflowNext]_workflowVars => WorkflowInv'
  <2> SUFFICES ASSUME WorkflowInv, [WorkflowNext]_workflowVars PROVE WorkflowInv'
    OBVIOUS
  <2>1. ASSUME NEW w \in Workers, NEW r \in RunIds, run(w, r)  PROVE WorkflowInv'
    BY <2>1, RunKeeps
  <2>2. ASSUME NEW w \in Workers, NEW r \in RunIds, resume(w, r)  PROVE WorkflowInv'
    BY <2>2, ResumeKeeps
  <2>3. ASSUME NEW w \in Workers, BeginStep(w)  PROVE WorkflowInv'
    BY <2>3, BeginStepKeeps
  <2>4. ASSUME NEW w \in Workers, LeaveLoop(w)  PROVE WorkflowInv'
    BY <2>4, LeaveLoopKeeps
  <2>5. ASSUME NEW w \in Workers, EndStep(w)  PROVE WorkflowInv'
    BY <2>5, EndStepKeeps
  <2>6. ASSUME NEW w \in Workers, EndRun(w)  PROVE WorkflowInv'
    BY <2>6, EndRunKeeps
  <2>7. ASSUME NEW w \in Workers, Refused(w)  PROVE WorkflowInv'
    BY <2>7, RefusedKeeps
  <2>8. ASSUME NEW w \in Workers, NEW ok \in BOOLEAN, Perform(w, ok)  PROVE WorkflowInv'
    BY <2>8, PerformKeeps
  <2>9. CASE Restarts
    BY <2>9, SilentKeeps DEF Restarts
  <2>10. CASE Interrupts
    <3>1. interrupted' \in BOOLEAN
      BY <2>10 DEF Interrupts
    <3> QED  BY <2>10, <3>1, SilentKeeps DEF Interrupts
  <2>11. CASE UNCHANGED workflowVars
    BY <2>11, SilentKeeps, Typed DEF workflowVars
  <2> QED  BY <2>1, <2>2, <2>3, <2>4, <2>5, <2>6, <2>7, <2>8, <2>9, <2>10, <2>11 DEF WorkflowNext
<1> QED  BY <1>1, <1>2, PTL DEF WorkflowSpec

(* The journal tells one run, for any number of steps, workers, runs,      *)
(* deaths, refusals, cancellations and resumes (Workflow::drive, resume).  *)
THEOREM OneRunTold ==
  ASSUME Claims
  PROVE  WorkflowSpec => []TellsOneRun
<1>1. WorkflowInv => TellsOneRun
  BY DEF WorkflowInv
<1> QED  BY <1>1, WorkflowInvariant, PTL

-----------------------------------------------------------------------------
(***************************************************************************)
(* Until a goal is cleared its revision names one state of it, for any     *)
(* objectives and any number of changes.                                   *)
(***************************************************************************)
Phases == {"active", "paused", "blocked", "complete"}
Goals == [revision : Nat \ {0}, objective : Objectives, phase : Phases, blocker : BOOLEAN]
Changes == [operation : Operations \cup {"create", "other"},
            goal : Goals \cup {Unreadable}]

GoalTypeOK ==
  /\ changes \in Seq(Changes) /\ clears \in Nat
  /\ known \in SUBSET [goal : Goals, life : 0 .. clears]
  /\ current \in Goals \cup {NoGoal}

(* The last record that counts, or none. *)
HasLatest == \E i \in Counting \cup {0} : \A j \in Counting \cup {0} : i >= j

(* What is known of the goal that stands was a revision of it, and of the  *)
(* revision that stands it is the whole of it.                             *)
KnownOfThisLife ==
  \A k \in known : k.life = clears =>
    /\ current # NoGoal /\ k.goal.revision <= current.revision
    /\ k.goal.revision = current.revision => k.goal = current

GoalInv == GoalTypeOK /\ HasLatest /\ KnownOfThisLife

-----------------------------------------------------------------------------
(* One record more decides the goal unless it cannot be read. *)

LEMMA GoalShapes ==
  /\ \A g \in Goals : g # NoGoal /\ g # Refusal /\ g # Unreadable
  /\ NoGoal # Refusal /\ NoGoal # Unreadable /\ Refusal # Unreadable
<1>1. ASSUME NEW g \in Goals PROVE g.revision # 0
  BY DEF Goals
<1>2. NoGoal.revision = 0 /\ Refusal.revision = 0 /\ Unreadable.revision = 0
  BY DEF NoGoal, Refusal, Unreadable
<1>3. NoGoal.phase = "none" /\ Refusal.phase = "refused" /\ Unreadable.phase = "unreadable"
  BY DEF NoGoal, Refusal, Unreadable
<1> QED  BY <1>1, <1>2, <1>3

LEMMA LatestIs ==
  ASSUME NEW S, NEW i \in S, \A j \in S : i >= j, S \subseteq Nat
  PROVE  Max(S) = i
<1>1. Max(S) \in S /\ \A j \in S : Max(S) >= j
  BY DEF Max
<1> DEFINE m == Max(S)
<1>2. m \in S /\ m >= i /\ i >= m
  BY <1>1
<1> HIDE DEF m
<1>3. m \in Nat /\ i \in Nat
  BY <1>2
<1>4. m = i
  BY <1>2, <1>3
<1> QED  BY <1>4 DEF m

LEMMA CurrentIs ==
  ASSUME changes \in Seq(Changes),
         NEW i \in Counting \cup {0}, \A j \in Counting \cup {0} : i >= j
  PROVE  current = IF i = 0 \/ (i # 0 /\ changes[i].operation = "clear") \/ changes[i].goal = Unreadable
                   THEN NoGoal ELSE changes[i].goal
<1>1. Counting \cup {0} \subseteq Nat
  BY DEF Counting
<1>2. Max(Counting \cup {0}) = i
  <2> HIDE DEF Counting
  <2> QED  BY <1>1, LatestIs
<1> QED  BY <1>2 DEF current

(* The goal after a record: dropped, as recorded, or as it was.            *)
After(r, goal) == IF r.operation = "clear" THEN NoGoal
                  ELSE IF r.goal = Unreadable THEN goal ELSE r.goal

LEMMA OneMoreRecord ==
  ASSUME GoalInv, NEW r \in Changes, changes' = Append(changes, r)
  PROVE  current' = After(r, current) /\ HasLatest' /\ changes' \in Seq(Changes)
<1> DEFINE n == Len(changes) + 1
<1>1. /\ changes \in Seq(Changes) /\ changes' \in Seq(Changes) /\ Len(changes) \in Nat
      /\ Len(changes') = n /\ n \in Nat /\ n # 0
      /\ \A i \in 1 .. Len(changes) : changes'[i] = changes[i]
      /\ changes'[n] = r
  BY DEF GoalInv, GoalTypeOK
<1>2. Counting \subseteq 1 .. Len(changes) /\ Counting' \subseteq 1 .. n
  BY <1>1 DEF Counting
<1>3. Counting' = Counting \cup {i \in {n} : r.operation = "clear" \/ r.goal # Unreadable}
  <2>1. DOMAIN changes = 1 .. Len(changes) /\ DOMAIN changes' = 1 .. n
    BY <1>1
  <2>2. \A i \in 1 .. n : i \in 1 .. Len(changes) \/ i = n
    BY <1>1
  <2>3. \A i \in 1 .. Len(changes) : i \in 1 .. n
    BY <1>1
  <2>4. ASSUME NEW i \in 1 .. Len(changes) PROVE i \in Counting' <=> i \in Counting
    BY <1>1, <2>1, <2>3 DEF Counting
  <2>5. n \in Counting' <=> r.operation = "clear" \/ r.goal # Unreadable
    BY <1>1, <2>1 DEF Counting
  <2>6. n \notin Counting
    BY <1>1, <1>2
  <2> HIDE DEF n
  <2> QED  BY <1>2, <2>2, <2>4, <2>5, <2>6
<1>4. CASE r.operation = "clear" \/ r.goal # Unreadable
  <2>1. n \in Counting' \cup {0} /\ \A j \in Counting' \cup {0} : n >= j
    BY <1>1, <1>2, <1>3, <1>4
  <2>2. Max(Counting' \cup {0}) = n
    <3>1. Counting' \cup {0} \subseteq Nat
      BY <1>1, <1>2
    <3> HIDE DEF Counting, n
    <3> QED  BY <2>1, <3>1, LatestIs
  <2>3. current' = IF n = 0 \/ (n # 0 /\ changes'[n].operation = "clear") \/ changes'[n].goal = Unreadable
                   THEN NoGoal ELSE changes'[n].goal
    BY <2>2 DEF current
  <2>4. current' = After(r, current)
    BY <2>3, <1>1, <1>4 DEF After
  <2> QED  BY <2>1, <2>4, <1>1 DEF HasLatest
<1>5. CASE ~(r.operation = "clear" \/ r.goal # Unreadable)
  <2>1. Counting' = Counting
    BY <1>3, <1>5
  <2>2. PICK i \in Counting \cup {0} : \A j \in Counting \cup {0} : i >= j
    BY DEF GoalInv, HasLatest
  <2>3. Max(Counting' \cup {0}) = i /\ Max(Counting \cup {0}) = i
    <3>1. Counting \cup {0} \subseteq Nat
      BY <1>1, <1>2
    <3> HIDE DEF Counting
    <3> QED  BY <2>1, <2>2, <3>1, LatestIs
  <2>4. i # 0 => changes'[i] = changes[i]
    BY <1>1, <1>2, <2>2
  <2>5. current' = current
    BY <2>3, <2>4 DEF current
  <2>6. After(r, current) = current
    BY <1>5 DEF After
  <2> QED  BY <2>1, <2>2, <2>5, <2>6, <1>1 DEF HasLatest
<1> QED  BY <1>4, <1>5

-----------------------------------------------------------------------------
(* What a change makes of the goal is the next revision of it. *)

LEMMA NextRevision ==
  ASSUME NEW goal \in Goals, NEW operation \in Operations, NEW objective \in Objectives,
         transition(goal, operation, objective) # Refusal
  PROVE  /\ transition(goal, operation, objective) \in Goals
         /\ transition(goal, operation, objective).revision = goal.revision + 1
<1> DEFINE r == goal.revision + 1
<1>1. goal.revision \in Nat \ {0} /\ r \in Nat \ {0} /\ goal.objective \in Objectives
       /\ goal.phase \in Phases /\ goal.blocker \in BOOLEAN
       /\ goal = [revision |-> goal.revision, objective |-> goal.objective, phase |-> goal.phase,
                  blocker |-> goal.blocker]
  BY DEF Goals
<1>2. ASSUME NEW to \in Phases, NEW origin, moved(goal, to, origin) # Refusal
      PROVE  moved(goal, to, origin) = [revision |-> r, objective |-> goal.objective, phase |-> to,
                                      blocker |-> FALSE]
  BY <1>1, <1>2 DEF moved, Goals
<1>3. ASSUME NEW to \in Phases, NEW origin, moved(goal, to, origin) # Refusal
      PROVE  moved(goal, to, origin) \in Goals /\ moved(goal, to, origin).revision = r
  <2> DEFINE g == [revision |-> r, objective |-> goal.objective, phase |-> to, blocker |-> FALSE]
  <2>1. moved(goal, to, origin) = g
    BY <1>2, <1>3
  <2> HIDE DEF r
  <2>2. g \in Goals /\ g.revision = r
    BY <1>1 DEF Goals
  <2> HIDE DEF g
  <2> QED  BY <2>1, <2>2
<1>4. CASE operation = "edit"
  <2>1. transition(goal, operation, objective)
          = [revision |-> r, objective |-> objective, phase |-> goal.phase, blocker |-> goal.blocker]
    BY <1>1, <1>4 DEF transition, edited, Goals
  <2> QED  BY <1>1, <2>1 DEF Goals
<1>5. CASE operation = "pause"
  BY <1>3, <1>5 DEF transition, Phases
<1>6. CASE operation = "resume"
  BY <1>3, <1>6 DEF transition, Phases
<1>7. CASE operation = "block"
  <2> DEFINE to == moved(goal, "blocked", {"active", "paused"})
  <2>0. transition(goal, operation, objective) = blocked(goal)
    BY <1>7 DEF transition
  <2>1. to # Refusal
    BY <2>0 DEF blocked
  <2>2. to = [revision |-> r, objective |-> goal.objective, phase |-> "blocked", blocker |-> FALSE]
    BY <2>1, <1>2 DEF Phases
  <2>3. blocked(goal) = [revision |-> r, objective |-> goal.objective, phase |-> "blocked", blocker |-> TRUE]
    <3>1. blocked(goal) = [to EXCEPT !.blocker = TRUE]
      BY <2>1 DEF blocked
    <3> HIDE DEF to, r
    <3> QED  BY <3>1, <2>2
  <2> HIDE DEF r
  <2>4. "blocked" \in Phases
    BY DEF Phases
  <2> DEFINE g == [revision |-> r, objective |-> goal.objective, phase |-> "blocked", blocker |-> TRUE]
  <2>5. transition(goal, operation, objective) = g
    BY <2>0, <2>3
  <2> HIDE DEF r
  <2>6. g \in Goals /\ g.revision = r
    BY <1>1, <2>4 DEF Goals
  <2> HIDE DEF g
  <2> QED  BY <2>5, <2>6 DEF r
<1>8. CASE operation = "complete"
  BY <1>3, <1>8 DEF transition, Phases
<1>9. CASE operation = "clear"
  <2>1. transition(goal, operation, objective)
          = [revision |-> r, objective |-> goal.objective, phase |-> goal.phase, blocker |-> goal.blocker]
    BY <1>1, <1>9 DEF transition, Goals
  <2> QED  BY <1>1, <2>1 DEF Goals
<1> QED  BY <1>4, <1>5, <1>6, <1>7, <1>8, <1>9 DEF Operations

LEMMA FirstRevision ==
  ASSUME NEW goal \in Goals \cup {NoGoal}, NEW objective \in Objectives,
         Created(goal, objective) # Refusal
  PROVE  /\ Created(goal, objective) \in Goals
         /\ Created(goal, objective).revision = goal.revision + 1
<1>1. goal.revision \in Nat
  BY DEF Goals, NoGoal
<1>2. Created(goal, objective) = [revision |-> goal.revision + 1, objective |-> objective,
                                  phase |-> "active", blocker |-> FALSE]
  BY DEF Created
<1> QED  BY <1>1, <1>2 DEF Goals, Phases

-----------------------------------------------------------------------------
(* The steps. *)

(* A goal that is told is of this life and, if it stands, its newest       *)
(* revision.                                                               *)
LEMMA ToldNewest ==
  ASSUME GoalInv, NEW next \in Goals, Told(next), current' = next, clears' = clears,
         current # NoGoal => next.revision = current.revision + 1 \/ next = current
  PROVE  KnownOfThisLife'
<1>1. current.revision \in Nat /\ next.revision \in Nat
  BY DEF GoalInv, GoalTypeOK, Goals, NoGoal
<1> SUFFICES ASSUME NEW k \in known', k.life = clears
             PROVE  /\ next # NoGoal /\ k.goal.revision <= next.revision
                    /\ k.goal.revision = next.revision => k.goal = next
  BY DEF KnownOfThisLife
<1>2. next # NoGoal
  BY GoalShapes
<1>3. CASE k = [goal |-> next, life |-> clears]
  BY <1>1, <1>2, <1>3
<1>4. CASE k \in known
  <2>1. /\ current # NoGoal /\ k.goal.revision <= current.revision
        /\ k.goal.revision = current.revision => k.goal = current
    BY <1>4 DEF GoalInv, KnownOfThisLife
  <2>2. k.goal.revision \in Nat
    BY <1>4 DEF GoalInv, GoalTypeOK, Goals
  <2> QED  BY <1>1, <1>2, <2>1, <2>2
<1> QED  BY <1>3, <1>4 DEF Told

LEMMA ToldTyped ==
  ASSUME GoalInv, NEW next \in Goals, Told(next), clears' \in {clears, clears + 1}
  PROVE  known' \in SUBSET [goal : Goals, life : 0 .. clears'] /\ clears' \in Nat
<1>1. clears \in Nat /\ clears' \in Nat /\ \A i \in 0 .. clears : i \in 0 .. clears'
  BY DEF GoalInv, GoalTypeOK
<1> SUFFICES ASSUME NEW k \in known' PROVE k \in [goal : Goals, life : 0 .. clears']
  BY <1>1
<1>2. CASE k \in known
  BY <1>1, <1>2 DEF GoalInv, GoalTypeOK
<1>3. CASE k = [goal |-> next, life |-> clears]
  BY <1>1, <1>3
<1> QED  BY <1>2, <1>3 DEF Told

LEMMA CreateKeeps ==
  ASSUME GoalInv, NEW objective \in Objectives, CreateGoal(objective)
  PROVE  GoalInv'
<1> DEFINE next == Created(current, objective)
           r == [operation |-> "create", goal |-> next]
<1>1. next # Refusal /\ changes' = Append(changes, r) /\ Told(next) /\ clears' = clears
  BY DEF CreateGoal, Record
<1>2. next \in Goals /\ next.revision = current.revision + 1
  BY <1>1, FirstRevision DEF GoalInv, GoalTypeOK
<1> HIDE DEF next
<1>3. r \in Changes
  BY <1>2 DEF Changes
<1>4. current' = After(r, current) /\ HasLatest' /\ changes' \in Seq(Changes)
  BY <1>1, <1>3, OneMoreRecord
<1>5. current' = next
  BY <1>2, <1>4, GoalShapes DEF After
<1>6. KnownOfThisLife'
  BY <1>1, <1>2, <1>5, ToldNewest
<1>7. known' \in SUBSET [goal : Goals, life : 0 .. clears'] /\ clears' \in Nat
  BY <1>1, <1>2, ToldTyped
<1> QED  BY <1>2, <1>4, <1>5, <1>6, <1>7 DEF GoalInv, GoalTypeOK

LEMMA ChangeKeeps ==
  ASSUME GoalInv, NEW k \in known, NEW operation \in Operations, NEW objective \in Objectives,
         ChangeGoal(k, operation, objective)
  PROVE  GoalInv'
<1> DEFINE next == decide(current, operation, k.goal.revision, objective)
           r == [operation |-> operation, goal |-> next]
<1>1. /\ next # Refusal /\ changes' = Append(changes, r) /\ Told(next)
      /\ clears' = IF operation = "clear" THEN clears + 1 ELSE clears
  BY DEF ChangeGoal, Record
<1>2. current # NoGoal /\ next = transition(current, operation, objective)
  BY <1>1 DEF decide
<1>3. current \in Goals
  BY <1>2 DEF GoalInv, GoalTypeOK
<1>4. next \in Goals /\ next.revision = current.revision + 1
  BY <1>1, <1>2, <1>3, NextRevision
<1> HIDE DEF next
<1>5. r \in Changes
  BY <1>4 DEF Changes
<1>6. current' = After(r, current) /\ HasLatest' /\ changes' \in Seq(Changes)
  BY <1>1, <1>5, OneMoreRecord
<1>7. known' \in SUBSET [goal : Goals, life : 0 .. clears'] /\ clears' \in Nat
  BY <1>1, <1>4, ToldTyped
<1>8. CASE operation = "clear"
  <2>1. current' = NoGoal
    BY <1>6, <1>8 DEF After
  <2>2. \A j \in known' : j.life # clears'
    <3>1. clears \in Nat /\ clears' = clears + 1
      BY <1>1, <1>8 DEF GoalInv, GoalTypeOK
    <3>2. \A j \in known : j.life \in 0 .. clears
      BY DEF GoalInv, GoalTypeOK
    <3> QED  BY <1>1, <3>1, <3>2 DEF Told
  <2>3. KnownOfThisLife'
    BY <2>2 DEF KnownOfThisLife
  <2> QED  BY <1>6, <1>7, <2>1, <2>3 DEF GoalInv, GoalTypeOK
<1>9. CASE operation # "clear"
  <2>1. current' = next
    BY <1>4, <1>6, <1>9, GoalShapes DEF After
  <2>2. KnownOfThisLife'
    BY <1>1, <1>4, <1>9, <2>1, ToldNewest
  <2> QED  BY <1>4, <1>6, <1>7, <2>1, <2>2 DEF GoalInv, GoalTypeOK
<1> QED  BY <1>8, <1>9

LEMMA GetKeeps ==
  ASSUME GoalInv, GetGoal
  PROVE  GoalInv'
<1>1. current' = current /\ HasLatest' /\ changes' = changes /\ clears' = clears
  BY DEF GetGoal, GoalInv, HasLatest, current, Counting
<1>2. current \in Goals /\ Told(current)
  BY DEF GetGoal, GoalInv, GoalTypeOK
<1>3. KnownOfThisLife'
  BY <1>1, <1>2, ToldNewest
<1>4. known' \in SUBSET [goal : Goals, life : 0 .. clears'] /\ clears' \in Nat
  BY <1>1, <1>2, ToldTyped
<1> QED  BY <1>1, <1>2, <1>3, <1>4 DEF GoalInv, GoalTypeOK

LEMMA OtherKeeps ==
  ASSUME GoalInv, OtherBuild
  PROVE  GoalInv'
<1> DEFINE r == [operation |-> "other", goal |-> Unreadable]
<1>1. changes' = Append(changes, r) /\ known' = known /\ clears' = clears
  BY DEF OtherBuild, Record
<1>2. r \in Changes
  BY DEF Changes
<1>3. current' = After(r, current) /\ HasLatest' /\ changes' \in Seq(Changes)
  BY <1>1, <1>2, OneMoreRecord
<1>4. current' = current
  BY <1>3 DEF After
<1> QED  BY <1>1, <1>3, <1>4 DEF GoalInv, GoalTypeOK, KnownOfThisLife

LEMMA GoalStarts == GoalInit => GoalInv
<1> SUFFICES ASSUME GoalInit PROVE GoalInv
  OBVIOUS
<1>1. changes \in Seq(Changes) /\ Counting = {}
  BY DEF GoalInit, Counting
<1>2. HasLatest
  BY <1>1 DEF HasLatest
<1>3. current = NoGoal
  BY <1>1, CurrentIs
<1> QED  BY <1>1, <1>2, <1>3 DEF GoalInit, GoalInv, GoalTypeOK, KnownOfThisLife

LEMMA GoalStep == GoalInv /\ [GoalNext]_goalVars => GoalInv'
<1> SUFFICES ASSUME GoalInv, [GoalNext]_goalVars PROVE GoalInv'
  OBVIOUS
<1>1. CASE GoalNext
  BY <1>1, GetKeeps, OtherKeeps, CreateKeeps, ChangeKeeps DEF GoalNext
<1>2. CASE UNCHANGED goalVars
  <2>1. changes' = changes /\ known' = known /\ clears' = clears
    BY <1>2 DEF goalVars
  <2>2. current' = current /\ HasLatest'
    BY <2>1 DEF GoalInv, HasLatest, current, Counting
  <2> QED  BY <2>1, <2>2 DEF GoalInv, GoalTypeOK, KnownOfThisLife
<1> QED  BY <1>1, <1>2

(* Until a goal is cleared a revision names one state of it, so the        *)
(* compare of a change accepts it only on the goal the caller was told     *)
(* of, whatever changed between (goal.rs, decide and current).             *)
THEOREM RevisionsName == GoalSpec => []RevisionNamesOneState
<1>1. GoalInv => RevisionNamesOneState
  BY DEF GoalInv, KnownOfThisLife, RevisionNamesOneState
<1> QED  BY <1>1, GoalStarts, GoalStep, PTL DEF GoalSpec

-----------------------------------------------------------------------------
(***************************************************************************)
(* The configuration that is at rest is the document, however many edits   *)
(* race the re-reads, when no old file comes back under its old stamp.     *)
(***************************************************************************)
(* A stamp is one edit's: nothing the watcher has settled on is newer than *)
(* the document, and a document it has settled on is loaded or was         *)
(* refused, unless a re-read is under way.                                 *)
StampsCount == edits \in Nat /\ document.stamp = edits /\ watcher.settled \in 0 .. edits

ReadOrRefused ==
  reload = "idle" /\ watcher.settled = document.stamp /\ document.text \in Accepted
    => config = document.text

ReloadInv == StampsCount /\ ReadOrRefused

LEMMA ReloadStarts == ReloadInit => ReloadInv
BY DEF ReloadInit, ReloadInv, StampsCount, ReadOrRefused

(* Only a stamp that settles moves what the watcher settled on, and then a *)
(* re-read follows.                                                        *)
LEMMA Settled ==
  ASSUME NEW seen
  PROVE  Observed(seen).settled = IF Settles(seen) THEN seen ELSE watcher.settled
<1>1. CASE seen = watcher.settled
  BY <1>1 DEF Observed, Settles, NonePending
<1>2. CASE seen # watcher.settled /\ Settles(seen)
  BY <1>2 DEF Observed, NonePending
<1>3. CASE seen # watcher.settled /\ ~Settles(seen)
  BY <1>3 DEF Observed, NonePending
<1> QED  BY <1>1, <1>2, <1>3

LEMMA ReloadStep == ~PutsBack /\ ReloadInv /\ [ReloadNext]_reloadVars => ReloadInv'
<1> SUFFICES ASSUME ~PutsBack, ReloadInv, [ReloadNext]_reloadVars
             PROVE  ReloadInv'
  OBVIOUS
<1>1. CASE Tick
  <2>1. watcher'.settled = IF Settles(document.stamp) THEN document.stamp ELSE watcher.settled
    BY <1>1, Settled DEF Tick
  <2> QED
    BY <1>1, <2>1 DEF Tick, ReloadInv, StampsCount, ReadOrRefused
<1>2. CASE CheckSchema
  BY <1>2 DEF CheckSchema, ReloadInv, StampsCount, ReadOrRefused
<1>3. CASE Recompose
  BY <1>3, ReloadAssumption DEF Recompose, ReloadInv, StampsCount, ReadOrRefused
<1>4. CASE PutBack
  BY <1>4 DEF PutBack
<1>5. ASSUME NEW text \in Documents, Rewrite(text)
      PROVE  ReloadInv'
  BY <1>5 DEF Rewrite, ReloadInv, StampsCount, ReadOrRefused
<1>6. CASE UNCHANGED reloadVars
  BY <1>6 DEF reloadVars, ReloadInv, StampsCount, ReadOrRefused
<1> QED  BY <1>1, <1>2, <1>3, <1>4, <1>5, <1>6 DEF ReloadNext

(* What is at rest is loaded: when the watcher waits for nothing, the      *)
(* configuration is the document, or that one was refused, for any number  *)
(* of edits and of quiet polls, unless an old file may come back under its *)
(* old stamp (reload.rs, tick and observe).                                *)
THEOREM RestIsLoaded == ~PutsBack => (ReloadSpec => []SettledIsLoaded)
<1> SUFFICES ASSUME ~PutsBack PROVE ReloadSpec => []SettledIsLoaded
  OBVIOUS
<1>1. ReloadInv => SettledIsLoaded
  BY DEF ReloadInv, ReadOrRefused, SettledIsLoaded
<1>2. ReloadInv /\ [ReloadNext]_reloadVars => ReloadInv'
  BY ReloadStep
<1> QED  BY <1>1, <1>2, ReloadStarts, PTL DEF ReloadSpec

-----------------------------------------------------------------------------
(***************************************************************************)
(* The walk over the headers, for any number of sessions and any links.    *)
(***************************************************************************)
Entries == [session : Sessions, distance : Nat]

Names(p, c) == p \in {spawned_by[c], parent_session[c]}

(* Everything on the stack and everything visited is at or below the root, *)
(* what names a visited session is visited or on the stack, and the        *)
(* listing is what was visited after it and somebody started.              *)
LineageInv ==
  /\ spawned_by \in [Sessions -> Sessions \cup {NoLink}]
  /\ parent_session \in [Sessions -> Sessions \cup {NoLink}]
  /\ stack \in Seq(Entries) /\ found \in Seq(Entries)
  /\ visited \in SUBSET Sessions /\ Root \in visited
  /\ \A S \in SUBSET Sessions :
       Root \in S /\ LeadsOn(S) =>
         visited \subseteq S /\ \A i \in DOMAIN stack : stack[i].session \in S
  /\ \A p \in visited, c \in Sessions :
       Names(p, c) => c \in visited \/ \E i \in DOMAIN stack : stack[i].session = c
  /\ \A i, j \in DOMAIN found : found[i].session = found[j].session => i = j
  /\ Listed = {s \in visited \ {Root} : spawned_by[s] # NoLink}

(* What is pushed for a session is what names it.                          *)
LEMMA PushedAre ==
  ASSUME NEW s, NEW d \in Nat
  PROVE  /\ push_children(s, d) \in Seq(Entries)
         /\ \A i \in DOMAIN push_children(s, d) : Names(s, push_children(s, d)[i].session)
         /\ \A c \in Sessions : Names(s, c) =>
              \E i \in DOMAIN push_children(s, d) : push_children(s, d)[i].session = c
<1> DEFINE K == {c \in Sessions : s \in {spawned_by[c], parent_session[c]}}
           o == InOrder(K)
           n == Len(o)
           r == Reverse(o)
           p == push_children(s, d)
<1>1. Cardinality(Sessions) \in Nat /\ K \in SUBSET (1 .. Cardinality(Sessions))
      /\ K \subseteq Sessions /\ (\A c \in K : Names(s, c)) /\ \A c \in Sessions : Names(s, c) => c \in K
  BY LineageConstants, FS_CardinalityType DEF Names
<1> HIDE DEF K
<1>2. o \in Seq(K) /\ DOMAIN o = 1 .. n /\ \A i \in K : \E k \in DOMAIN o : o[k] = i
  BY <1>1, InOrderLists
<1> HIDE DEF o
<1>3. n \in Nat /\ \A k \in 1 .. n : (n - k) + 1 \in 1 .. n /\ (n - ((n - k) + 1)) + 1 = k
  BY <1>2
<1> HIDE DEF n
<1>4. r = [k \in 1 .. n |-> o[(n - k) + 1]]
  BY DEF Reverse, n
<1>5. \A k \in 1 .. n : r[k] \in K /\ r[k] \in Sessions
  <2>1. \A k \in 1 .. n : o[k] \in K
    BY <1>2 DEF n
  <2> QED  BY <1>1, <1>3, <1>4, <2>1
<1>6. \A c \in K : \E k \in 1 .. n : r[k] = c
  <2> SUFFICES ASSUME NEW c \in K PROVE \E k \in 1 .. n : r[k] = c
    OBVIOUS
  <2>1. PICK k \in 1 .. n : o[k] = c
    BY <1>2
  <2> QED  BY <1>3, <1>4, <2>1
<1>7. p = [i \in 1 .. n |-> [session |-> r[i], distance |-> d]]
  <2>1. edges(s) = o
    BY DEF edges, o, K
  <2>2. DOMAIN r = 1 .. n
    BY <1>4
  <2> HIDE DEF r
  <2> QED  BY <2>1, <2>2 DEF push_children, r
<1> HIDE DEF r, p
<1>8. p \in [1 .. n -> Entries] /\ n \in Nat
  BY <1>3, <1>5, <1>7 DEF Entries
<1>9. p \in Seq(Entries) /\ DOMAIN p = 1 .. n /\ \A i \in 1 .. n : p[i].session = r[i]
  BY <1>7, <1>8
<1> QED  BY <1>1, <1>5, <1>6, <1>9 DEF p

LEMMA PopKeeps ==
  ASSUME LineageInv, Pop
  PROVE  LineageInv'
<1> DEFINE n == Len(stack)
           top == stack[n]
           s == top.session
           front == SubSeq(stack, 1, n - 1)
           more == push_children(s, top.distance + 1)
<1>1. /\ stack \in Seq(Entries) /\ n \in Nat /\ n >= 1 /\ found \in Seq(Entries)
      /\ visited \in SUBSET Sessions /\ Root \in visited
      /\ spawned_by' = spawned_by /\ parent_session' = parent_session
      /\ spawned_by \in [Sessions -> Sessions \cup {NoLink}]
      /\ parent_session \in [Sessions -> Sessions \cup {NoLink}]
  BY DEF LineageInv, Pop
<1>2. top \in Entries /\ n \in DOMAIN stack
  BY <1>1
<1>3. /\ front \in Seq(Entries) /\ Len(front) = n - 1 /\ DOMAIN front = 1 .. n - 1
      /\ \A i \in 1 .. n - 1 : front[i] = stack[i] /\ i \in DOMAIN stack
  <2>1. stack # <<>>
    BY DEF Pop
  <2> QED  BY <1>1, <2>1, FrontIs
<1>4. \A i \in DOMAIN stack : i \in 1 .. n - 1 \/ i = n
  BY <1>1
<1> HIDE DEF n, front
<1>6. s \in Sessions /\ top.distance + 1 \in Nat
  BY <1>2 DEF Entries
<1>7. Last(stack) = top /\ Front(stack) = front
  BY DEF Last, Front, front, n
<1>8. \A p, c : Names(p, c)' <=> Names(p, c)
  BY <1>1 DEF Names
<1>9. \A S : LeadsOn(S)' <=> LeadsOn(S)
  BY <1>1 DEF LeadsOn
<1>10. CASE s \in visited
  <2>1. stack' = front /\ visited' = visited /\ found' = found
    BY <1>7, <1>10 DEF Pop
  <2>2. \A S \in SUBSET Sessions : Root \in S /\ LeadsOn(S)' =>
          visited' \subseteq S /\ \A i \in DOMAIN stack' : stack'[i].session \in S
    BY <1>3, <1>9, <2>1 DEF LineageInv
  <2>3. \A p \in visited', c \in Sessions :
          Names(p, c)' => c \in visited' \/ \E i \in DOMAIN stack' : stack'[i].session = c
    <3> SUFFICES ASSUME NEW p \in visited, NEW c \in Sessions, Names(p, c), c \notin visited
                 PROVE  \E i \in DOMAIN front : front[i].session = c
      BY <1>8, <2>1
    <3>1. PICK i \in DOMAIN stack : stack[i].session = c
      BY DEF LineageInv
    <3>2. i # n
      BY <1>10, <3>1
    <3> QED  BY <1>3, <1>4, <3>1, <3>2
  <2>4. Listed' = Listed
    BY <2>1 DEF Listed
  <2> QED  BY <1>1, <1>3, <2>1, <2>2, <2>3, <2>4 DEF LineageInv
<1>11. CASE s \notin visited
  <2>1. /\ visited' = visited \cup {s} /\ stack' = front \o more
        /\ found' = IF spawned_by[s] = NoLink THEN found ELSE Append(found, top)
    BY <1>7, <1>11 DEF Pop
  <2>2. /\ more \in Seq(Entries)
        /\ \A i \in DOMAIN more : Names(s, more[i].session)
        /\ \A c \in Sessions : Names(s, c) => \E i \in DOMAIN more : more[i].session = c
    BY <1>6, PushedAre
  <2> HIDE DEF more, top
  <2> HIDE DEF s
  <2>3. /\ stack' \in Seq(Entries)
        /\ \A i \in DOMAIN stack' :
             \/ \E j \in DOMAIN front : stack'[i] = front[j]
             \/ \E j \in DOMAIN more : stack'[i] = more[j]
        /\ \A j \in DOMAIN front : \E i \in DOMAIN stack' : stack'[i] = front[j]
        /\ \A j \in DOMAIN more : \E i \in DOMAIN stack' : stack'[i] = more[j]
    <3> DEFINE j == front \o more
    <3>0. Joined(j, front, more)
      BY DEF Joined
    <3> HIDE DEF j
    <3>1. /\ j \in Seq(Entries)
          /\ \A i \in DOMAIN j : \/ \E k \in DOMAIN front : j[i] = front[k]
                                \/ \E k \in DOMAIN more : j[i] = more[k]
          /\ \A k \in DOMAIN front : \E i \in DOMAIN j : j[i] = front[k]
          /\ \A k \in DOMAIN more : \E i \in DOMAIN j : j[i] = more[k]
      <4>1. front \in Seq(Entries) /\ more \in Seq(Entries)
        BY <1>3, <2>2
      <4>2. j \in Seq(Entries)
        BY <3>0, <4>1, JoinedIs
      <4>3. \A i \in DOMAIN j : \/ \E k \in DOMAIN front : j[i] = front[k]
                              \/ \E k \in DOMAIN more : j[i] = more[k]
        BY <3>0, <4>1, JoinedIs
      <4>4. \A k \in DOMAIN front : \E i \in DOMAIN j : j[i] = front[k]
        BY <3>0, <4>1, JoinedIs
      <4>5. \A k \in DOMAIN more : \E i \in DOMAIN j : j[i] = more[k]
        BY <3>0, <4>1, JoinedIs
      <4> QED  BY <4>2, <4>3, <4>4, <4>5
    <3> QED  BY <2>1, <3>1 DEF j
  <2>4. ASSUME NEW S \in SUBSET Sessions, Root \in S, LeadsOn(S)
        PROVE  visited' \subseteq S /\ \A i \in DOMAIN stack' : stack'[i].session \in S
    <3>1. visited \subseteq S /\ \A i \in DOMAIN stack : stack[i].session \in S
      BY <2>4 DEF LineageInv
    <3>2. s \in S
      BY <1>2, <3>1 DEF top, s
    <3>3. \A j \in DOMAIN more : more[j].session \in S
      <4>1. \A j \in DOMAIN more : more[j].session \in Sessions
        <5>1. \A j \in DOMAIN more : more[j] \in Entries
          BY <2>2
        <5> QED  BY <5>1 DEF Entries
      <4> QED  BY <2>2, <2>4, <3>2, <4>1 DEF LeadsOn, Names
    <3>4. \A j \in DOMAIN front : front[j].session \in S
      BY <1>3, <3>1
    <3> QED  BY <2>1, <2>3, <3>1, <3>2, <3>3, <3>4
  <2>5. \A p \in visited', c \in Sessions :
          Names(p, c)' => c \in visited' \/ \E i \in DOMAIN stack' : stack'[i].session = c
    <3> SUFFICES ASSUME NEW p \in visited', NEW c \in Sessions, Names(p, c), c \notin visited'
                 PROVE  \E i \in DOMAIN stack' : stack'[i].session = c
      BY <1>8
    <3>1. CASE p = s
      BY <2>2, <2>3, <3>1
    <3>2. CASE p \in visited
      <4>1. PICK i \in DOMAIN stack : stack[i].session = c
        BY <2>1, <3>2 DEF LineageInv
      <4>2. i # n
        BY <2>1, <4>1 DEF top, s
      <4>3. i \in DOMAIN front /\ front[i].session = c
        BY <1>3, <1>4, <4>1, <4>2
      <4> QED  BY <2>3, <4>3
    <3> QED  BY <2>1, <3>1, <3>2
  <2>6. /\ found' \in Seq(Entries)
        /\ \A i, j \in DOMAIN found' : found'[i].session = found'[j].session => i = j
        /\ Listed' = {x \in visited' \ {Root} : spawned_by'[x] # NoLink}
    <3>1. Listed = {x \in visited \ {Root} : spawned_by[x] # NoLink}
          /\ \A i, j \in DOMAIN found : found[i].session = found[j].session => i = j
      BY DEF LineageInv
    <3>2. CASE spawned_by[s] = NoLink
      <4>1. found' = found /\ Listed' = Listed
        BY <2>1, <3>2 DEF Listed
      <4>2. {x \in visited' \ {Root} : spawned_by'[x] # NoLink} = {x \in visited \ {Root} : spawned_by[x] # NoLink}
        <5> QED  BY <1>1, <2>1, <3>2
      <4> QED  BY <1>1, <3>1, <4>1, <4>2
    <3>3. CASE spawned_by[s] # NoLink
      <4>1. found' = Append(found, top)
        BY <2>1, <3>3
      <4>2. /\ found' \in Seq(Entries) /\ Len(found) \in Nat /\ DOMAIN found' = 1 .. Len(found) + 1
            /\ found'[Len(found) + 1] = top /\ DOMAIN found = 1 .. Len(found)
            /\ \A i \in DOMAIN found : found'[i] = found[i] /\ i \in DOMAIN found'
            /\ \A i \in DOMAIN found' : i \in DOMAIN found \/ i = Len(found) + 1
        BY <1>1, <1>2, <4>1 DEF top
      <4>s. top.session = s
        BY DEF s
      <4>3. \A i \in DOMAIN found : found[i].session # s
        BY <1>11, <3>1 DEF Listed
      <4>4. \A i, j \in DOMAIN found' : found'[i].session = found'[j].session => i = j
        BY <3>1, <4>s, <4>2, <4>3
      <4>5. Listed' = {found'[i].session : i \in DOMAIN found'}
        BY DEF Listed
      <4>6. Listed' = Listed \cup {s}
        <5>1. \A x \in Listed' : x \in Listed \cup {s}
          BY <4>s, <4>2, <4>5 DEF Listed
        <5>2. \A x \in Listed : x \in Listed'
          BY <4>s, <4>2, <4>5 DEF Listed
        <5>3. s \in Listed'
          <6>1. Len(found) + 1 \in DOMAIN found'
            BY <4>2
          <6> QED  BY <4>s, <4>2, <4>5, <6>1
        <5> QED  BY <5>1, <5>2, <5>3
      <4>7. {x \in visited' \ {Root} : spawned_by'[x] # NoLink} = {x \in visited \ {Root} : spawned_by[x] # NoLink} \cup {s}
        <5> QED  BY <1>1, <1>11, <2>1, <3>3
      <4> QED  BY <3>1, <4>2, <4>4, <4>6, <4>7
    <3> QED  BY <3>2, <3>3
  <2>7. visited' \in SUBSET Sessions /\ Root \in visited'
    BY <1>1, <1>6, <2>1
  <2> QED  BY <1>1, <1>9, <2>3, <2>4, <2>5, <2>6, <2>7 DEF LineageInv
<1> QED  BY <1>10, <1>11

(* The walk lists every session below the root that somebody started, each *)
(* once and never the root, for any number of sessions and whatever their  *)
(* headers link (descendants).                                             *)
THEOREM FindsAllDelegated == LineageSpec => []FindsDelegated
<1>1. LineageInit => LineageInv
  <2> SUFFICES ASSUME LineageInit PROVE LineageInv
    OBVIOUS
  <2> DEFINE more == push_children(Root, 1)
  <2>1. /\ more \in Seq(Entries)
        /\ \A i \in DOMAIN more : Names(Root, more[i].session)
        /\ \A c \in Sessions : Names(Root, c) => \E i \in DOMAIN more : more[i].session = c
    BY PushedAre
  <2>2. stack = more /\ visited = {Root} /\ found = <<>> /\ Listed = {}
    BY DEF LineageInit, Listed
  <2> HIDE DEF more
  <2>3. ASSUME NEW S \in SUBSET Sessions, Root \in S, LeadsOn(S)
        PROVE  visited \subseteq S /\ \A i \in DOMAIN stack : stack[i].session \in S
    <3>1. \A j \in DOMAIN more : more[j].session \in Sessions
      <4>1. \A j \in DOMAIN more : more[j] \in Entries
        BY <2>1
      <4> QED  BY <4>1 DEF Entries
    <3> QED  BY <2>1, <2>2, <2>3, <3>1 DEF LeadsOn, Names
  <2>4. Root \in Sessions
    BY LineageConstants
  <2>5. Listed = {s \in visited \ {Root} : spawned_by[s] # NoLink}
    BY <2>2
  <2>6. found \in Seq(Entries) /\ DOMAIN found = {}
    BY <2>2
  <2> QED  BY <2>1, <2>2, <2>3, <2>4, <2>5, <2>6 DEF LineageInv, LineageInit
<1>2. LineageInv /\ [LineageNext]_lineageVars => LineageInv'
  <2>1. LineageInv /\ UNCHANGED lineageVars => LineageInv'
    BY DEF LineageInv, lineageVars, Listed, LeadsOn, Names
  <2> QED  BY <2>1, PopKeeps DEF LineageNext
<1>3. LineageInv => FindsDelegated
  <2> SUFFICES ASSUME LineageInv PROVE FindsDelegated
    OBVIOUS
  <2>1. Root \notin Listed
    BY DEF LineageInv
  <2>2. Cardinality(Listed) = Len(found)
    <3> DEFINE n == Len(found)
               f == [i \in 1 .. n |-> found[i].session]
    <3>1. n \in Nat /\ DOMAIN found = 1 .. n
          /\ \A i, j \in 1 .. n : found[i].session = found[j].session => i = j
      BY DEF LineageInv
    <3>2. f \in Bijection(1 .. n, Listed)
      <4> HIDE DEF n
      <4>1. f \in [1 .. n -> Listed] /\ \A i, j \in 1 .. n : f[i] = f[j] => i = j
        BY <3>1 DEF Listed
      <4>2. \A x \in Listed : \E i \in 1 .. n : f[i] = x
        BY <3>1 DEF Listed
      <4> QED  BY <4>1, <4>2 DEF Bijection, Injection, Surjection, IsInjective
    <3>3. ExistsBijection(1 .. n, Listed)
      <4> HIDE DEF f
      <4> QED  BY <3>2 DEF ExistsBijection
    <3>4. IsFiniteSet(1 .. n) /\ Cardinality(1 .. n) = n
      BY <3>1, FS_Interval
    <3> HIDE DEF n, f
    <3> QED  BY <3>3, <3>4, FS_Bijection DEF n
  <2>3. ASSUME stack = <<>> PROVE Listed = {s \in Below : spawned_by[s] # NoLink}
    <3>1. LeadsOn(visited)
      BY <2>3 DEF LineageInv, LeadsOn, Names
    <3>2. Below = visited \ {Root}
      BY <3>1 DEF Below, LineageInv
    <3> QED  BY <3>2 DEF LineageInv
  <2> QED  BY <2>1, <2>2, <2>3 DEF FindsDelegated
<1> QED  BY <1>1, <1>2, <1>3, PTL DEF LineageSpec

-----------------------------------------------------------------------------
(***************************************************************************)
(* A subscription is pushed each event once and in order, for any number   *)
(* of subscribers, events and places to start from.                        *)
(*                                                                         *)
(* The invariant says of each listener how far it has heard: to the last   *)
(* event, or to the one before while the append in progress has yet to     *)
(* call it.  What its gate holds is a run of seqs that ends there, and     *)
(* what its sink was handed is one from where it was to start.             *)
(***************************************************************************)
Among(s, q) == \E i \in DOMAIN q : q[i] = s
NoTwice(q) == \A i, j \in DOMAIN q : q[i] = q[j] => i = j

Listening == {"registered", "replaying", "subscribed"}

HubTyped ==
  /\ length \in Nat /\ length >= 1 /\ emit \in {"none", "committed", "calling"}
  /\ emit # "none" => length >= 2
  /\ listeners \in Seq(Subscribers) /\ called \in Seq(Subscribers)
  /\ at \in [Subscribers -> Listening \cup {"out", "closed"}]
  /\ from \in [Subscribers -> FromSeqs \cup {Omitted}]
  /\ last \in [Subscribers -> Nat] /\ through \in [Subscribers -> Nat]
  /\ open \in [Subscribers -> BOOLEAN]
  /\ held \in [Subscribers -> Seq(Nat)] /\ got \in [Subscribers -> Seq(Nat)]

(* Who listens is on the bus once, and an emit calls each of those it took *)
(* once.                                                                   *)
OnBus ==
  /\ NoTwice(listeners) /\ NoTwice(called) /\ (emit # "calling" => called = <<>>)
  /\ \A s \in Subscribers : /\ Among(s, listeners) <=> at[s] \in Listening
                            /\ Among(s, called) => at[s] # "out"

(* The append in progress has yet to reach s, which has heard every event  *)
(* before that one since it registered.                                    *)
Due(s) == IF emit = "committed" THEN Among(s, listeners) ELSE Among(s, called)
HeardTo(s) == IF Due(s) THEN length - 2 ELSE length - 1

Later(i, j) == IF i > j THEN i ELSE j

GateShut(s) ==
  /\ at[s] \in {"out", "registered", "replaying"} => ~open[s]
  /\ at[s] \in {"out", "registered"} => got[s] = <<>>
  /\ at[s] = "out" => held[s] = <<>>
  /\ at[s] \in {"registered", "replaying"} =>
       /\ Len(held[s]) <= HeardTo(s)
       /\ held[s] = Run((HeardTo(s) + 1) - Len(held[s]), HeardTo(s))
  /\ at[s] = "replaying" =>
       /\ last[s] < length /\ HeardTo(s) - Len(held[s]) <= last[s]
       /\ got[s] # <<>> => /\ from[s] # Omitted /\ from[s] + Len(got[s]) <= last[s] + 1
                           /\ got[s] = Run(from[s], from[s] + Len(got[s]) - 1)

GateOpen(s) ==
  at[s] \in {"subscribed", "closed"} =>
    /\ open[s] /\ last[s] < length /\ Start(s) <= through[s] + 1
    /\ got[s] = Run(Start(s), through[s])
    /\ at[s] = "subscribed" \/ Among(s, called) => through[s] = Later(HeardTo(s), last[s])

HubInv == HubTyped /\ OnBus /\ \A s \in Subscribers : GateShut(s) /\ GateOpen(s)

(* Consecutive seqs. *)
LEMMA RunIs ==
  ASSUME NEW i \in Nat, NEW j \in Nat, i <= j + 1
  PROVE  /\ Run(i, j) \in Seq(Nat) /\ Len(Run(i, j)) = (j + 1) - i
         /\ DOMAIN Run(i, j) = 1 .. (j + 1) - i
         /\ \A k \in 1 .. (j + 1) - i : Run(i, j)[k] = i + k - 1
BY DEF Run

LEMMA RunNone ==
  ASSUME NEW j \in Nat
  PROVE  Run(j + 1, j) = <<>>
BY DEF Run

LEMMA RunGrows ==
  ASSUME NEW i \in Nat, NEW j \in Nat, i <= j + 1
  PROVE  Append(Run(i, j), j + 1) = Run(i, j + 1)
<1> DEFINE a == Append(Run(i, j), j + 1)
           b == Run(i, j + 1)
<1>1. /\ a \in Seq(Nat) /\ DOMAIN a = 1 .. (j + 2) - i
      /\ \A k \in 1 .. (j + 1) - i : a[k] = i + k - 1
      /\ a[(j + 2) - i] = j + 1
  <2> DEFINE r == Run(i, j)
  <2>1. r \in Seq(Nat) /\ Len(r) = (j + 1) - i /\ \A k \in 1 .. (j + 1) - i : r[k] = i + k - 1
    BY RunIs
  <2> HIDE DEF r
  <2>2. Append(r, j + 1) \in Seq(Nat) /\ Len(Append(r, j + 1)) = (j + 2) - i
        /\ DOMAIN Append(r, j + 1) = 1 .. (j + 2) - i
        /\ (\A k \in 1 .. (j + 1) - i : Append(r, j + 1)[k] = i + k - 1)
        /\ Append(r, j + 1)[(j + 2) - i] = j + 1
    BY <2>1
  <2> QED  BY <2>2 DEF r
<1>2. /\ b \in Seq(Nat) /\ DOMAIN b = 1 .. (j + 2) - i
      /\ \A k \in 1 .. (j + 2) - i : b[k] = i + k - 1
  BY RunIs
<1> HIDE DEF a, b
<1>3. \A k \in 1 .. (j + 2) - i : a[k] = b[k]
  BY <1>1, <1>2
<1>4. a = b
  BY <1>1, <1>2, <1>3
<1> QED  BY <1>4 DEF a, b

LEMMA RunJoins ==
  ASSUME NEW i \in Nat, NEW j \in Nat, NEW k \in Nat, i <= j + 1, j <= k
  PROVE  Run(i, j) \o Run(j + 1, k) = Run(i, k)
<1> DEFINE p == Run(i, j)
           q == Run(j + 1, k)
           r == Run(i, k)
<1>1. /\ p \in Seq(Nat) /\ Len(p) = (j + 1) - i /\ \A h \in 1 .. (j + 1) - i : p[h] = i + h - 1
      /\ q \in Seq(Nat) /\ Len(q) = k - j /\ \A h \in 1 .. k - j : q[h] = j + h
      /\ r \in Seq(Nat) /\ Len(r) = (k + 1) - i /\ \A h \in 1 .. (k + 1) - i : r[h] = i + h - 1
  <2>1. j + 1 \in Nat /\ j + 1 <= k + 1 /\ i <= k + 1
    OBVIOUS
  <2>2. \A h \in 1 .. k - j : (j + 1) + h - 1 = j + h
    OBVIOUS
  <2>3. (k + 1) - (j + 1) = k - j
    OBVIOUS
  <2>4. p \in Seq(Nat) /\ Len(p) = (j + 1) - i /\ \A h \in 1 .. (j + 1) - i : p[h] = i + h - 1
    BY RunIs
  <2>5. r \in Seq(Nat) /\ Len(r) = (k + 1) - i /\ \A h \in 1 .. (k + 1) - i : r[h] = i + h - 1
    BY <2>1, RunIs
  <2>6. /\ q \in Seq(Nat) /\ Len(q) = (k + 1) - (j + 1)
        /\ \A h \in 1 .. (k + 1) - (j + 1) : q[h] = (j + 1) + h - 1
    BY <2>1, RunIs
  <2> HIDE DEF p, q, r
  <2> QED  BY <2>2, <2>3, <2>4, <2>5, <2>6
<1> HIDE DEF p, q, r
<1>2. p \o q \in Seq(Nat) /\ Len(p \o q) = (k + 1) - i
  BY <1>1
<1>3. \A h \in 1 .. (k + 1) - i : (p \o q)[h] = r[h]
  <2> SUFFICES ASSUME NEW h \in 1 .. (k + 1) - i PROVE (p \o q)[h] = r[h]
    OBVIOUS
  <2>0. h \in Int /\ 1 <= h /\ h <= (k + 1) - i
    OBVIOUS
  <2>1. CASE h <= (j + 1) - i
    <3>1. h \in 1 .. (j + 1) - i
      BY <2>0, <2>1
    <3>2. (p \o q)[h] = p[h]
      BY <1>1, <3>1
    <3> QED  BY <1>1, <3>1, <3>2
  <2>2. CASE h > (j + 1) - i
    <3>1. (p \o q)[h] = q[h - ((j + 1) - i)] /\ h - ((j + 1) - i) \in 1 .. k - j
      BY <1>1, <2>2
    <3>2. q[h - ((j + 1) - i)] = j + (h - ((j + 1) - i))
      BY <1>1, <3>1
    <3>3. r[h] = i + h - 1
      BY <1>1
    <3> QED  BY <2>0, <3>1, <3>2, <3>3
  <2>3. h <= (j + 1) - i \/ h > (j + 1) - i
    BY <2>0
  <2> QED  BY <2>1, <2>2, <2>3
<1>4. p \o q = r
  <2> DEFINE c == p \o q
  <2>1. c \in Seq(Nat) /\ DOMAIN c = 1 .. Len(c) /\ DOMAIN r = 1 .. Len(r)
    BY <1>1, <1>2
  <2> HIDE DEF c
  <2>2. Len(c) = (k + 1) - i /\ Len(r) = (k + 1) - i /\ \A h \in 1 .. (k + 1) - i : c[h] = r[h]
    BY <1>1, <1>2, <1>3 DEF c
  <2>3. c = [h \in 1 .. (k + 1) - i |-> c[h]] /\ r = [h \in 1 .. (k + 1) - i |-> r[h]]
    BY <1>1, <2>1, <2>2
  <2> QED  BY <2>2, <2>3 DEF c
<1> QED  BY <1>4 DEF p, q, r

(* Of a run of held events, what is past last is a run that starts after it. *)
LEMMA PickedOfRun ==
  ASSUME NEW a \in Nat \ {0}, NEW h \in Nat, NEW l \in Nat, a <= h + 1, a <= l + 1,
         NEW q, q = Run(a, h)
  PROVE  Picked(q, {i \in DOMAIN q : q[i] > l}) = Run(l + 1, Later(h, l))
<1> DEFINE S == {i \in DOMAIN q : q[i] > l}
           b == (l + 2) - a
           n == (h + 1) - a
           e == IF l > h THEN b - 1 ELSE n
<1>1. /\ q \in Seq(Nat) /\ Len(q) = n /\ DOMAIN q = 1 .. n /\ n \in Nat
      /\ \A i \in 1 .. n : q[i] = a + i - 1
  <2>1. n \in Nat
    OBVIOUS
  <2>2. /\ Run(a, h) \in Seq(Nat) /\ Len(Run(a, h)) = n /\ DOMAIN Run(a, h) = 1 .. n
        /\ \A k \in 1 .. n : Run(a, h)[k] = a + k - 1
    BY RunIs
  <2> HIDE DEF n
  <2> QED  BY <2>1, <2>2
<1>2. b \in Nat \ {0} /\ e \in Nat /\ b <= e + 1
  OBVIOUS
<1>3. S = b .. e
  <2>1. \A i \in S : i \in b .. e
    BY <1>1
  <2>2. ASSUME NEW i \in b .. e PROVE i \in S
    <3>1. i \in Int /\ b <= i /\ i <= e
      OBVIOUS
    <3>2. ~(l > h)
      BY <3>1
    <3>3. i \in 1 .. n /\ a + i - 1 > l
      BY <3>1, <3>2
    <3> QED  BY <1>1, <3>3
  <2> QED  BY <2>1, <2>2
<1> HIDE DEF S
<1>4. InOrder(S) = [k \in 1 .. (e + 1) - b |-> b + k - 1]
  <2> HIDE DEF b, e
  <2> QED  BY <1>2, <1>3, InOrderRun
<1> DEFINE o == InOrder(S)
           c == (e + 1) - b
           z == Later(h, l)
<1>5. DOMAIN o = 1 .. c /\ \A k \in 1 .. c : o[k] = b + k - 1
  <2> HIDE DEF b, c, e
  <2> QED  BY <1>4 DEF c
<1>6. Picked(q, S) = [k \in 1 .. c |-> q[o[k]]]
  <2> HIDE DEF c
  <2> QED  BY <1>5 DEF Picked
<1> HIDE DEF o
<1>7. c = (z + 1) - (l + 1)
  BY DEF Later
<1>8. \A k \in 1 .. c : q[o[k]] = (l + 1) + k - 1
  <2> SUFFICES ASSUME NEW k \in 1 .. c PROVE q[o[k]] = (l + 1) + k - 1
    OBVIOUS
  <2>1. ~(l > h) /\ k \in 1 .. (h - l)
    OBVIOUS
  <2>2. o[k] = b + k - 1 /\ b + k - 1 \in 1 .. n
    BY <1>5, <2>1
  <2> QED  BY <1>1, <2>2
<1>9. Run(l + 1, z) = [k \in 1 .. c |-> (l + 1) + k - 1]
  <2> HIDE DEF c
  <2> QED  BY <1>7 DEF Run
<1> HIDE DEF c, b, n, e, z
<1>10. Picked(q, S) = Run(l + 1, z)
  BY <1>6, <1>8, <1>9
<1> QED  BY <1>10 DEF S, z

-----------------------------------------------------------------------------
(* Who is in a queue after one joins, after the first leaves, and after one *)
(* is taken out of it.                                                     *)
LEMMA OneJoins ==
  ASSUME NEW S, NEW q \in Seq(S), NEW e \in S, NoTwice(q), ~Among(e, q)
  PROVE  /\ Append(q, e) \in Seq(S) /\ NoTwice(Append(q, e))
         /\ \A s : Among(s, Append(q, e)) <=> Among(s, q) \/ s = e
<1> DEFINE a == Append(q, e)
<1>1. /\ a \in Seq(S) /\ DOMAIN a = 1 .. Len(q) + 1 /\ a[Len(q) + 1] = e /\ Len(q) \in Nat
      /\ DOMAIN q = 1 .. Len(q) /\ \A i \in DOMAIN q : a[i] = q[i]
  OBVIOUS
<1> HIDE DEF a
<1>2. \A i \in DOMAIN a : i \in DOMAIN q \/ i = Len(q) + 1
  BY <1>1
<1>3. \A i \in DOMAIN q : q[i] # e /\ i \in DOMAIN a
  BY <1>1 DEF Among
<1>4. NoTwice(a)
  BY <1>1, <1>2, <1>3 DEF NoTwice
<1>5. \A s : Among(s, a) <=> Among(s, q) \/ s = e
  <2> TAKE s
  <2>1. Among(s, a) => Among(s, q) \/ s = e
    BY <1>1, <1>2 DEF Among
  <2>2. Among(s, q) => Among(s, a)
    BY <1>1, <1>3 DEF Among
  <2>3. Len(q) + 1 \in DOMAIN a
    BY <1>1
  <2>4. s = e => Among(s, a)
    BY <1>1, <2>3 DEF Among
  <2> QED  BY <2>1, <2>2, <2>4
<1> QED  BY <1>1, <1>4, <1>5 DEF a

LEMMA FirstLeaves ==
  ASSUME NEW S, NEW q \in Seq(S), q # <<>>, NoTwice(q)
  PROVE  /\ Head(q) \in S /\ Tail(q) \in Seq(S) /\ NoTwice(Tail(q)) /\ Among(Head(q), q)
         /\ \A s : Among(s, Tail(q)) <=> Among(s, q) /\ s # Head(q)
<1> DEFINE t == Tail(q)
<1>1. /\ t \in Seq(S) /\ DOMAIN t = 1 .. Len(q) - 1 /\ Len(q) \in Nat /\ Len(q) >= 1
      /\ DOMAIN q = 1 .. Len(q) /\ (\A i \in DOMAIN t : t[i] = q[i + 1]) /\ Head(q) = q[1]
  OBVIOUS
<1> HIDE DEF t
<1>2. /\ \A i \in DOMAIN t : i + 1 \in DOMAIN q /\ i + 1 # 1
      /\ \A i \in DOMAIN q : i # 1 => i - 1 \in DOMAIN t /\ (i - 1) + 1 = i
      /\ 1 \in DOMAIN q
  BY <1>1
<1>3. NoTwice(t)
  <2> SUFFICES ASSUME NEW i \in DOMAIN t, NEW j \in DOMAIN t, t[i] = t[j] PROVE i = j
    BY DEF NoTwice
  <2>1. i + 1 = j + 1
    BY <1>1, <1>2 DEF NoTwice
  <2>2. i \in Int /\ j \in Int
    BY <1>1
  <2> QED  BY <2>1, <2>2
<1>4. \A s : Among(s, t) <=> Among(s, q) /\ s # Head(q)
  <2> TAKE s
  <2>1. ASSUME Among(s, t) PROVE Among(s, q) /\ s # Head(q)
    <3>1. PICK i \in DOMAIN t : t[i] = s
      BY <2>1 DEF Among
    <3> QED  BY <1>1, <1>2, <3>1 DEF Among, NoTwice
  <2>2. ASSUME Among(s, q), s # Head(q) PROVE Among(s, t)
    <3>1. PICK i \in DOMAIN q : q[i] = s
      BY <2>2 DEF Among
    <3>2. i - 1 \in DOMAIN t /\ (i - 1) + 1 = i
      BY <1>1, <1>2, <2>2, <3>1
    <3>3. t[i - 1] = s
      BY <1>1, <3>1, <3>2
    <3> QED  BY <3>2, <3>3 DEF Among
  <2> QED  BY <2>1, <2>2
<1>5. Head(q) \in S /\ Among(Head(q), q)
  BY <1>1, <1>2 DEF Among
<1> QED  BY <1>1, <1>3, <1>4, <1>5 DEF t

LEMMA OneIsTakenOut ==
  ASSUME NEW S, NEW q \in Seq(S), NEW e, NoTwice(q)
  PROVE  /\ Without(q, e) \in Seq(S) /\ NoTwice(Without(q, e))
         /\ \A s : Among(s, Without(q, e)) <=> Among(s, q) /\ s # e
<1> DEFINE K == {i \in DOMAIN q : q[i] # e}
           o == InOrder(K)
           p == Picked(q, K)
<1>1. K \in SUBSET DOMAIN q /\ \A i \in DOMAIN q : i \in K <=> q[i] # e
  OBVIOUS
<1> HIDE DEF K
<1>2. /\ o \in Seq(K) /\ Increasing(o) /\ Lists(o, K) /\ p \in Seq(S)
      /\ DOMAIN p = DOMAIN o /\ \A k \in DOMAIN o : p[k] = q[o[k]]
  BY <1>1, PickedLists
<1> HIDE DEF o, p
<1>3. \A k \in DOMAIN o : o[k] \in K /\ o[k] \in DOMAIN q /\ o[k] \in Nat /\ k \in Nat
  BY <1>1, <1>2 DEF Lists
<1>4. NoTwice(p)
  <2> SUFFICES ASSUME NEW i \in DOMAIN o, NEW j \in DOMAIN o, p[i] = p[j], i # j PROVE FALSE
    BY <1>2 DEF NoTwice
  <2>1. o[i] = o[j]
    BY <1>2, <1>3 DEF NoTwice
  <2>2. i < j \/ j < i
    BY <1>3
  <2>3. o[i] < o[j] \/ o[j] < o[i]
    BY <1>2, <2>2 DEF Increasing
  <2>4. o[i] \in Nat
    BY <1>3
  <2> QED  BY <2>1, <2>3, <2>4
<1>5. \A s : Among(s, p) <=> Among(s, q) /\ s # e
  <2> TAKE s
  <2>1. ASSUME Among(s, p) PROVE Among(s, q) /\ s # e
    <3>1. PICK k \in DOMAIN o : q[o[k]] = s
      BY <1>2, <2>1 DEF Among
    <3> QED  BY <1>1, <1>3, <3>1 DEF Among
  <2>2. ASSUME Among(s, q), s # e PROVE Among(s, p)
    <3>1. PICK i \in DOMAIN q : q[i] = s
      BY <2>2 DEF Among
    <3>2. i \in K
      BY <1>1, <2>2, <3>1
    <3>3. PICK k \in DOMAIN o : o[k] = i
      BY <1>2, <3>2 DEF Lists
    <3> QED  BY <1>2, <3>1, <3>3 DEF Among
  <2> QED  BY <2>1, <2>2
<1> QED  BY <1>2, <1>4, <1>5 DEF p, K, Without

-----------------------------------------------------------------------------
(* One step of the hub.  What a step leaves alone of a subscription keeps   *)
(* what is known of it, as long as it has heard as far as before.          *)

Kept(s) == /\ at'[s] = at[s] /\ from'[s] = from[s] /\ last'[s] = last[s]
           /\ open'[s] = open[s] /\ through'[s] = through[s]
           /\ held'[s] = held[s] /\ got'[s] = got[s]

LEMMA HeardIs ==
  ASSUME HubInv, NEW s \in Subscribers
  PROVE  /\ HeardTo(s) \in Nat /\ (Due(s) => emit # "none")
         /\ length \in Nat /\ length >= 1 /\ (emit # "none" => length >= 2)
         /\ at[s] \in Listening \cup {"out", "closed"}
         /\ from[s] \in FromSeqs \cup {Omitted} /\ last[s] \in Nat /\ through[s] \in Nat
         /\ open[s] \in BOOLEAN /\ held[s] \in Seq(Nat) /\ got[s] \in Seq(Nat)
<1>1. Due(s) => emit # "none"
  BY DEF HubInv, OnBus, Due, Among
<1>2. HeardTo(s) \in Nat
  BY <1>1 DEF HeardTo, HubInv, HubTyped
<1> QED  BY <1>1, <1>2 DEF HubInv, HubTyped

LEMMA StartIs ==
  ASSUME HubInv, NEW s \in Subscribers
  PROVE  Start(s) \in Nat
<1>1. last[s] + 1 \in Nat
  BY HeardIs
<1>2. from[s] # Omitted => from[s] \in Nat
  BY HeardIs, ConstantsAssumption
<1> QED  BY <1>1, <1>2 DEF Start

LEMMA Undisturbed ==
  ASSUME HubInv, NEW s \in Subscribers, Kept(s), length' >= length, length' \in Nat,
         HeardTo(s)' = HeardTo(s), Among(s, called)' => Among(s, called)
  PROVE  GateShut(s)' /\ GateOpen(s)'
<1>1. GateShut(s) /\ GateOpen(s) /\ Start(s)' = Start(s) /\ length \in Nat /\ last[s] \in Nat
  <2>1. Start(s)' = Start(s)
    BY DEF Start, Kept
  <2> QED  BY <2>1, HeardIs DEF HubInv
<1>2. last[s] < length => last'[s] < length'
  BY <1>1 DEF Kept
<1>3. GateShut(s)'
  BY <1>1, <1>2 DEF GateShut, Kept
<1>4. GateOpen(s)'
  BY <1>1, <1>2 DEF GateOpen, Kept
<1> QED  BY <1>3, <1>4

LEMMA CommitKeeps ==
  ASSUME HubInv, Commit
  PROVE  HubInv'
<1>1. emit = "none" /\ length' = length + 1 /\ emit' = "committed" /\ called = <<>> /\ called' = called
      /\ listeners' = listeners /\ length \in Nat /\ length >= 1
  BY DEF Commit, HubInv, OnBus, HubTyped
<1>2. HubTyped' /\ OnBus'
  <2>1. HubTyped'
    BY <1>1 DEF HubInv, HubTyped, Commit, gate
  <2>2. OnBus'
    BY <1>1 DEF HubInv, OnBus, Commit, gate, Among
  <2> QED  BY <2>1, <2>2
<1>3. ASSUME NEW s \in Subscribers PROVE GateShut(s)' /\ GateOpen(s)'
  <2>1. ~Among(s, called) /\ ~Among(s, called)'
    BY <1>1 DEF Among
  <2>2. HeardTo(s) = length - 1
    BY <1>1, <2>1 DEF HeardTo, Due
  <2>3. CASE Among(s, listeners)
    <3>1. Due(s)'
      BY <1>1, <2>3 DEF Due, Among
    <3>2. HeardTo(s)' = length' - 2
      BY <3>1 DEF HeardTo
    <3>3. HeardTo(s)' = HeardTo(s)
      BY <1>1, <2>2, <3>2
    <3>4. Kept(s)
      BY DEF Kept, Commit, gate
    <3> QED  BY <1>1, <2>1, <3>3, <3>4, Undisturbed
  <2>4. CASE ~Among(s, listeners)
    <3>1. at[s] \in {"out", "closed"} /\ at' = at
      BY <2>4, HeardIs DEF HubInv, OnBus, Commit
    <3>2. GateShut(s) /\ GateOpen(s) /\ last[s] \in Nat
      BY HeardIs DEF HubInv
    <3>3. GateShut(s)'
      BY <3>1, <3>2 DEF GateShut, Commit, gate, Listening
    <3>4. Start(s)' = Start(s)
      BY DEF Start, Commit
    <3>5. GateOpen(s)'
      BY <1>1, <2>1, <3>1, <3>2, <3>4 DEF GateOpen, Commit, gate
    <3> QED  BY <3>3, <3>5
  <2> QED  BY <2>3, <2>4
<1> QED  BY <1>2, <1>3 DEF HubInv

LEMMA EmitKeeps ==
  ASSUME HubInv, Emit
  PROVE  HubInv'
<1>1. HubTyped'
  BY DEF HubInv, HubTyped, Emit, gate
<1>2. OnBus'
  BY DEF HubInv, OnBus, Emit, gate, Among, NoTwice, Listening
<1>3. ASSUME NEW s \in Subscribers PROVE GateShut(s)' /\ GateOpen(s)'
  <2>1. Due(s)' = Due(s)
    BY DEF Due, Emit, Among
  <2>2. HeardTo(s)' = HeardTo(s)
    BY <2>1 DEF HeardTo, Emit
  <2>3. Kept(s) /\ length' = length
    BY DEF Kept, Emit, gate
  <2>4. GateShut(s) /\ GateOpen(s) /\ at[s] \in Listening \cup {"out", "closed"} /\ Start(s)' = Start(s)
    <3>1. Start(s)' = Start(s)
      BY DEF Start, Emit
    <3> QED  BY <3>1, HeardIs DEF HubInv
  <2>5. GateShut(s)'
    BY <2>2, <2>3, <2>4 DEF GateShut, Kept
  <2>6. Among(s, called)' => at[s] \in Listening
    BY DEF Among, Emit, HubInv, OnBus
  <2>7. GateOpen(s)'
    <3>1. at[s] = "closed" => ~Among(s, called)'
      BY <2>6 DEF Listening
    <3> QED  BY <2>2, <2>3, <2>4, <3>1 DEF GateOpen, Kept
  <2> QED  BY <2>5, <2>7
<1> QED  BY <1>1, <1>2, <1>3 DEF HubInv

LEMMA EmittedKeeps ==
  ASSUME HubInv, Emitted
  PROVE  HubInv'
<1>1. HubTyped'
  BY DEF HubInv, HubTyped, Emitted, gate
<1>2. OnBus'
  BY DEF HubInv, OnBus, Emitted, gate, Among, NoTwice, Listening
<1>3. ASSUME NEW s \in Subscribers PROVE GateShut(s)' /\ GateOpen(s)'
  <2>1. Due(s)' = Due(s)
    BY DEF Due, Emitted, Among
  <2>2. HeardTo(s)' = HeardTo(s)
    BY <2>1 DEF HeardTo, Emitted
  <2>3. Kept(s) /\ length' = length /\ called' = called
    BY DEF Kept, Emitted, gate
  <2>4. (Among(s, called)' => Among(s, called)) /\ length \in Nat
    BY <2>3, HeardIs DEF Among
  <2> QED  BY <2>2, <2>3, <2>4, Undisturbed
<1> QED  BY <1>1, <1>2, <1>3 DEF HubInv

LEMMA CallListenerKeeps ==
  ASSUME HubInv, CallListener
  PROVE  HubInv'
<1> DEFINE c == Head(called)
<1>1. /\ emit = "calling" /\ emit' = emit /\ length' = length /\ listeners' = listeners /\ at' = at
      /\ from' = from /\ last' = last /\ open' = open /\ called' = Tail(called) /\ Hear(c)
      /\ called \in Seq(Subscribers) /\ called # <<>> /\ NoTwice(called)
  BY DEF CallListener, HubInv, HubTyped, OnBus
<1>2. /\ c \in Subscribers /\ called' \in Seq(Subscribers) /\ NoTwice(called') /\ Among(c, called)
      /\ \A s : Among(s, called') <=> Among(s, called) /\ s # c
  BY <1>1, FirstLeaves
<1> HIDE DEF c
<1>3. Event \in Nat /\ length \in Nat /\ length >= 2 /\ Event = length - 1
  BY <1>1, <1>2, HeardIs DEF Event
<1>4. HubTyped'
  <2>1. Append(held[c], Event) \in Seq(Nat) /\ Append(got[c], Event) \in Seq(Nat)
    BY <1>2, <1>3, HeardIs
  <2> HIDE DEF Event
  <2>2. /\ held' \in [Subscribers -> Seq(Nat)] /\ got' \in [Subscribers -> Seq(Nat)]
        /\ through' \in [Subscribers -> Nat]
    BY <1>1, <1>2, <1>3, <2>1 DEF Hear, HubInv, HubTyped
  <2> QED  BY <1>1, <1>2, <2>2 DEF HubInv, HubTyped
<1>5. OnBus'
  <2>1. /\ NoTwice(listeners') /\ NoTwice(called') /\ (emit' # "calling" => called' = <<>>)
    BY <1>1, <1>2 DEF HubInv, OnBus
  <2>2. ASSUME NEW s \in Subscribers
        PROVE  (Among(s, listeners') <=> at'[s] \in Listening) /\ (Among(s, called') => at'[s] # "out")
    BY <1>1, <1>2 DEF HubInv, OnBus
  <2> QED  BY <2>1, <2>2 DEF OnBus, Among, NoTwice
<1>6. \A s \in Subscribers : Due(s) <=> Among(s, called)
  BY <1>1 DEF Due
<1>7. \A s \in Subscribers : Due(s)' <=> Among(s, called')
  BY <1>1 DEF Due, Among
<1>8. ASSUME NEW s \in Subscribers PROVE GateShut(s)' /\ GateOpen(s)'
  <2>0. GateShut(s) /\ GateOpen(s) /\ Start(s)' = Start(s) /\ last[s] \in Nat
        /\ at[s] \in Listening \cup {"out", "closed"} /\ open[s] \in BOOLEAN
        /\ held[s] \in Seq(Nat) /\ got[s] \in Seq(Nat) /\ through[s] \in Nat
        /\ from[s] \in FromSeqs \cup {Omitted}
    <3>1. Start(s)' = Start(s)
      BY <1>1 DEF Start
    <3> QED  BY <3>1, HeardIs DEF HubInv
  <2>1. CASE s # c
    <3>1. Kept(s)
      BY <1>1, <1>2, <2>1 DEF Kept, Hear, HubInv, HubTyped
    <3>2. (Among(s, called)' => Among(s, called)) /\ HeardTo(s)' = HeardTo(s)
      <4>1. Among(s, called') <=> Among(s, called)
        BY <1>2, <2>1
      <4>2. Due(s)' <=> Due(s)
        BY <1>6, <1>7, <4>1
      <4> QED  BY <1>1, <4>1, <4>2 DEF HeardTo, Among
    <3> QED  BY <1>1, <1>3, <3>1, <3>2, Undisturbed
  <2>2. CASE s = c
    <3>1. HeardTo(s) = length - 2 /\ HeardTo(s)' = length - 1 /\ ~Among(s, called)' /\ at[s] # "out"
      <4>1. Due(s) /\ ~Due(s)' /\ ~Among(s, called)'
        BY <1>2, <1>6, <1>7, <2>2 DEF Among
      <4>2. at[s] # "out"
        BY <1>2, <2>2 DEF HubInv, OnBus
      <4> QED  BY <1>1, <4>1, <4>2 DEF HeardTo
    <3>2. CASE at[s] \in {"registered", "replaying"}
      <4>1. held'[s] = Append(held[s], Event) /\ got'[s] = got[s] /\ ~open[s]
        BY <1>1, <1>2, <2>0, <2>2, <3>2 DEF Hear, HubInv, HubTyped, GateShut
      <4> DEFINE n == Len(held[s])
                 a == (length - 1) - n
      <4>2. n \in Nat /\ n <= length - 2 /\ held[s] = Run(a, length - 2)
            /\ a \in Nat /\ a <= (length - 2) + 1
        <5>1. n <= HeardTo(s) /\ held[s] = Run((HeardTo(s) + 1) - n, HeardTo(s))
          BY <2>0, <3>2 DEF GateShut
        <5>2. (HeardTo(s) + 1) - n = a /\ n \in Nat
          BY <1>3, <2>0, <3>1
        <5> QED  BY <1>3, <3>1, <5>1, <5>2
      <4>3. held'[s] = Run(a, length - 1) /\ Len(held'[s]) = n + 1
        <5>1. length - 2 \in Nat /\ (length - 2) + 1 = length - 1
          BY <1>3
        <5> HIDE DEF a, n
        <5>2. Append(Run(a, length - 2), (length - 2) + 1) = Run(a, (length - 2) + 1)
          BY <4>2, <5>1, RunGrows
        <5>3. Len(Append(held[s], Event)) = n + 1
          BY <1>3, <2>0 DEF n
        <5> QED  BY <1>3, <4>1, <4>2, <5>1, <5>2, <5>3
      <4>4. (HeardTo(s)' + 1) - Len(held'[s]) = a /\ Len(held'[s]) <= HeardTo(s)'
            /\ HeardTo(s)' - Len(held'[s]) = HeardTo(s) - n
        <5>1. a = (length - 1) - n
          OBVIOUS
        <5> HIDE DEF a, n
        <5> QED  BY <1>3, <3>1, <4>2, <4>3, <5>1
      <4> HIDE DEF a, n
      <4>5. GateShut(s)'
        BY <1>1, <2>0, <3>1, <3>2, <4>1, <4>3, <4>4 DEF GateShut, n
      <4>6. GateOpen(s)'
        BY <1>1, <3>2 DEF GateOpen
      <4> QED  BY <4>5, <4>6
    <3>3. CASE at[s] \in {"subscribed", "closed"}
      <4>1. open[s] /\ last[s] < length /\ Start(s) <= through[s] + 1 /\ got[s] = Run(Start(s), through[s])
            /\ through[s] = Later(length - 2, last[s])
        BY <1>2, <2>0, <2>2, <3>1, <3>3 DEF GateOpen
      <4>2. Start(s) \in Nat
        BY StartIs
      <4>3. /\ Start(s) <= through'[s] + 1 /\ got'[s] = Run(Start(s), through'[s])
            /\ through'[s] = Later(length - 1, last[s])
        <5>1. CASE Event <= through[s]
          <6>1. through'[s] = through[s] /\ got'[s] = got[s]
            BY <1>1, <2>2, <4>1, <5>1 DEF Hear
          <6>2. through[s] = Later(length - 1, last[s])
            BY <1>3, <2>0, <4>1, <5>1 DEF Later
          <6> QED  BY <4>1, <6>1, <6>2
        <5>2. CASE ~(Event <= through[s])
          <6>1. through'[s] = Event /\ got'[s] = Append(got[s], Event)
            BY <1>1, <1>2, <2>2, <4>1, <5>2 DEF Hear, HubInv, HubTyped
          <6>2. through[s] + 1 = Event /\ Event = Later(length - 1, last[s])
            BY <1>3, <2>0, <4>1, <5>2 DEF Later
          <6>3. Append(Run(Start(s), through[s]), through[s] + 1) = Run(Start(s), through[s] + 1)
            BY <2>0, <4>1, <4>2, RunGrows
          <6>4. Start(s) <= Event + 1
            BY <2>0, <4>1, <4>2, <6>2
          <6> QED  BY <4>1, <6>1, <6>2, <6>3, <6>4
        <5> QED  BY <5>1, <5>2
      <4>4. GateShut(s)'
        BY <1>1, <3>3 DEF GateShut
      <4>5. GateOpen(s)'
        BY <1>1, <2>0, <3>1, <3>3, <4>1, <4>3 DEF GateOpen
      <4> QED  BY <4>4, <4>5
    <3> QED  BY <2>0, <3>1, <3>2, <3>3 DEF Listening
  <2> QED  BY <2>1, <2>2
<1> QED  BY <1>4, <1>5, <1>8 DEF HubInv

LEMMA RegisterKeeps ==
  ASSUME HubInv, NEW r \in Subscribers, Register(r)
  PROVE  HubInv'
<1>1. /\ at[r] = "out" /\ at' = [at EXCEPT ![r] = "registered"] /\ listeners' = Append(listeners, r)
      /\ length' = length /\ emit' = emit /\ called' = called /\ from' = from /\ last' = last
      /\ open' = open /\ through' = through /\ held' = held /\ got' = got
      /\ listeners \in Seq(Subscribers) /\ NoTwice(listeners)
      /\ at \in [Subscribers -> Listening \cup {"out", "closed"}]
  BY DEF Register, Goto, gate, HubInv, HubTyped, OnBus
<1>2. ~Among(r, listeners) /\ ~Among(r, called)
  BY <1>1 DEF HubInv, OnBus, Listening
<1>3. /\ listeners' \in Seq(Subscribers) /\ NoTwice(listeners')
      /\ \A s : Among(s, listeners') <=> Among(s, listeners) \/ s = r
  BY <1>1, <1>2, OneJoins
<1>4. HubTyped'
  <2>1. at' \in [Subscribers -> Listening \cup {"out", "closed"}]
    BY <1>1 DEF Listening
  <2> QED  BY <1>1, <1>3, <2>1 DEF HubInv, HubTyped
<1>5. OnBus'
  <2>1. ASSUME NEW s \in Subscribers
        PROVE  (Among(s, listeners') <=> at'[s] \in Listening) /\ (Among(s, called') => at'[s] # "out")
    BY <1>1, <1>2, <1>3 DEF HubInv, OnBus, Listening
  <2> QED  BY <1>1, <1>3, <2>1 DEF HubInv, OnBus, Among, NoTwice
<1>6. ASSUME NEW s \in Subscribers PROVE GateShut(s)' /\ GateOpen(s)'
  <2>1. (Among(s, called)' <=> Among(s, called)) /\ (Among(s, listeners)' <=> Among(s, listeners) \/ s = r)
    BY <1>1, <1>3 DEF Among
  <2>2. CASE s # r
    <3>1. Kept(s)
      BY <1>1, <2>2 DEF Kept
    <3>2. HeardTo(s)' = HeardTo(s)
      <4>1. Due(s)' <=> Due(s)
        BY <1>1, <2>1, <2>2 DEF Due
      <4> QED  BY <1>1, <4>1 DEF HeardTo
    <3>3. length' >= length /\ length' \in Nat
      BY <1>1, HeardIs
    <3> QED  BY <2>1, <3>1, <3>2, <3>3, Undisturbed
  <2>3. CASE s = r
    <3>1. at'[s] = "registered" /\ GateShut(s)
      BY <1>1, <2>3 DEF HubInv
    <3>2. ~open[s] /\ got[s] = <<>> /\ held[s] = <<>>
      BY <1>1, <2>3, <3>1 DEF GateShut
    <3>3. HeardTo(s)' \in Nat
      <4>1. Due(s)' => emit # "none"
        BY <1>1, <1>2, <2>1, <2>3 DEF Due
      <4>2. length \in Nat /\ length >= 1 /\ (emit # "none" => length >= 2)
        BY HeardIs
      <4>3. HeardTo(s)' = IF Due(s)' THEN length - 2 ELSE length - 1
        BY <1>1 DEF HeardTo
      <4> QED  BY <4>1, <4>2, <4>3
    <3>4. Len(held'[s]) = 0 /\ held'[s] = <<>>
      BY <1>1, <3>2
    <3>5. Run(HeardTo(s)' + 1, HeardTo(s)') = <<>>
      BY <3>3, RunNone
    <3>6. (HeardTo(s)' + 1) - 0 = HeardTo(s)' + 1 /\ 0 <= HeardTo(s)'
      BY <3>3
    <3>7. GateShut(s)'
      BY <1>1, <3>1, <3>2, <3>4, <3>5, <3>6 DEF GateShut
    <3> QED  BY <3>1, <3>7 DEF GateOpen
  <2> QED  BY <2>2, <2>3
<1> QED  BY <1>4, <1>5, <1>6 DEF HubInv

LEMMA BusKept ==
  ASSUME HubInv, UNCHANGED bus, NEW s
  PROVE  /\ HeardTo(s)' = HeardTo(s) /\ (Among(s, called)' <=> Among(s, called))
         /\ length' = length /\ length' >= length /\ length' \in Nat
<1>1. Due(s)' <=> Due(s)
  BY DEF Due, bus, Among
<1>2. HeardTo(s)' = HeardTo(s)
  BY <1>1 DEF HeardTo, bus
<1>3. length \in Nat
  BY DEF HubInv, HubTyped
<1> QED  BY <1>2, <1>3 DEF bus, Among

LEMMA ReadLogKeeps ==
  ASSUME HubInv, NEW r \in Subscribers, ReadLog(r)
  PROVE  HubInv'
<1>1. /\ at[r] = "registered" /\ at' = [at EXCEPT ![r] = "replaying"] /\ UNCHANGED bus
      /\ last' = [last EXCEPT ![r] = length - 1] /\ from' = from
      /\ open' = open /\ through' = through /\ held' = held /\ got' = got
      /\ at \in [Subscribers -> Listening \cup {"out", "closed"}]
      /\ last \in [Subscribers -> Nat] /\ length \in Nat /\ length >= 1
  BY DEF ReadLog, Goto, gate, HubInv, HubTyped
<1>2. HubTyped'
  <2>1. at' \in [Subscribers -> Listening \cup {"out", "closed"}] /\ last' \in [Subscribers -> Nat]
    BY <1>1 DEF Listening
  <2> QED  BY <1>1, <2>1 DEF HubInv, HubTyped, bus
<1>3. OnBus'
  BY <1>1 DEF HubInv, OnBus, Listening, bus, Among, NoTwice
<1>4. ASSUME NEW s \in Subscribers PROVE GateShut(s)' /\ GateOpen(s)'
  <2>1. CASE s # r
    <3>1. Kept(s)
      BY <1>1, <2>1 DEF Kept
    <3> QED  BY <1>1, <3>1, BusKept, Undisturbed
  <2>2. CASE s = r
    <3>1. at'[s] = "replaying" /\ last'[s] = length - 1
      BY <1>1, <2>2
    <3>2. GateShut(s) /\ HeardTo(s) \in Nat /\ held[s] \in Seq(Nat)
      BY HeardIs DEF HubInv
    <3>3. /\ ~open[s] /\ got[s] = <<>> /\ Len(held[s]) <= HeardTo(s)
          /\ held[s] = Run((HeardTo(s) + 1) - Len(held[s]), HeardTo(s))
      BY <1>1, <2>2, <3>2 DEF GateShut
    <3>4. HeardTo(s) <= length - 1
      BY <1>1 DEF HeardTo
    <3>5. HeardTo(s) - Len(held[s]) <= length - 1 /\ length - 1 < length
      BY <1>1, <3>2, <3>4
    <3>6. GateShut(s)'
      <4>1. HeardTo(s)' = HeardTo(s) /\ length' = length
        BY <1>1, BusKept
      <4> QED  BY <1>1, <3>1, <3>3, <3>5, <4>1 DEF GateShut
    <3> QED  BY <3>1, <3>6 DEF GateOpen
  <2> QED  BY <2>1, <2>2
<1> QED  BY <1>2, <1>3, <1>4 DEF HubInv

LEMMA ReplayKeeps ==
  ASSUME HubInv, NEW r \in Subscribers, Replay(r)
  PROVE  HubInv'
<1> DEFINE n == Len(got[r])
           e == from[r] + n
<1>1. /\ at[r] = "replaying" /\ from[r] # Omitted /\ e <= last[r] /\ at' = at /\ UNCHANGED bus
      /\ last' = last /\ from' = from /\ open' = open /\ through' = through /\ held' = held
      /\ got' = [got EXCEPT ![r] = Append(got[r], e)] /\ got \in [Subscribers -> Seq(Nat)]
  BY DEF Replay, Replaying, gate, HubInv, HubTyped
<1>2. /\ from[r] \in Nat /\ n \in Nat /\ e \in Nat /\ e = from[r] + n /\ got[r] \in Seq(Nat)
      /\ last[r] \in Nat
  <2>1. from[r] \in Nat
    BY <1>1, HeardIs, ConstantsAssumption
  <2> QED  BY <2>1, HeardIs
<1> HIDE DEF e
<1>3. /\ Append(got[r], e) \in Seq(Nat) /\ Len(Append(got[r], e)) = n + 1
      /\ Append(got[r], e) # <<>> /\ got'[r] = Append(got[r], e)
  BY <1>1, <1>2
<1>4. HubTyped'
  <2>1. got' \in [Subscribers -> Seq(Nat)]
    BY <1>1, <1>3
  <2> QED  BY <1>1, <2>1 DEF HubInv, HubTyped, bus
<1>5. OnBus'
  BY <1>1 DEF HubInv, OnBus, bus, Among, NoTwice
<1>6. ASSUME NEW s \in Subscribers PROVE GateShut(s)' /\ GateOpen(s)'
  <2>1. CASE s # r
    <3>1. Kept(s)
      BY <1>1, <2>1 DEF Kept
    <3> QED  BY <1>1, <3>1, BusKept, Undisturbed
  <2>2. CASE s = r
    <3>1. GateShut(s)
      BY DEF HubInv
    <3>2. got'[s] = Run(from[s], e)
      <4>1. CASE got[s] = <<>>
        <5>1. n = 0 /\ e = from[s] /\ got'[s] = <<e>>
          BY <1>2, <1>3, <2>2, <4>1
        <5>2. Run(e, e) = <<e>>
          <6> DEFINE one == Run(e, e)
          <6>1. one \in Seq(Nat) /\ Len(one) = 1 /\ one[1] = e
            <7>1. e <= e + 1 /\ (e + 1) - e = 1 /\ 1 \in 1 .. 1 /\ e + 1 - 1 = e
              BY <1>2
            <7>2. /\ Run(e, e) \in Seq(Nat) /\ Len(Run(e, e)) = (e + 1) - e
                  /\ \A k \in 1 .. (e + 1) - e : Run(e, e)[k] = e + k - 1
              BY <1>2, <7>1, RunIs
            <7> QED  BY <7>1, <7>2
          <6> HIDE DEF one
          <6>2. one = <<e>>
            BY <1>2, <6>1
          <6> QED  BY <6>2 DEF one
        <5> QED  BY <5>1, <5>2
      <4>2. CASE got[s] # <<>>
        <5>1. got[s] = Run(from[s], e - 1) /\ n # 0
          BY <1>1, <1>2, <2>2, <3>1, <4>2 DEF GateShut
        <5>2. e - 1 \in Nat /\ from[s] <= (e - 1) + 1 /\ (e - 1) + 1 = e
          BY <1>2, <2>2, <5>1
        <5>3. Append(Run(from[s], e - 1), (e - 1) + 1) = Run(from[s], (e - 1) + 1)
          BY <1>2, <2>2, <5>2, RunGrows
        <5> QED  BY <1>3, <2>2, <5>1, <5>2, <5>3
      <4> QED  BY <4>1, <4>2
    <3>3. from[s] + (n + 1) - 1 = e /\ from[s] + (n + 1) <= last[s] + 1
      BY <1>1, <1>2, <2>2
    <3> HIDE DEF n
    <3>4. Len(got'[s]) = n + 1 /\ HeardTo(s)' = HeardTo(s) /\ length' = length
      BY <1>1, <1>3, <2>2, BusKept
    <3>5. GateShut(s)'
      BY <1>1, <2>2, <3>1, <3>2, <3>3, <3>4 DEF GateShut
    <3> QED  BY <1>1, <2>2, <3>5 DEF GateOpen
  <2> QED  BY <2>1, <2>2
<1> QED  BY <1>4, <1>5, <1>6 DEF HubInv

(* What was held and the replay did not cover continues where it ended.    *)
LEMMA ReleasedIs ==
  ASSUME HubInv, NEW s \in Subscribers, at[s] = "replaying"
  PROVE  Released(s) = Run(last[s] + 1, Later(HeardTo(s), last[s]))
<1> DEFINE n == Len(held[s])
           a == (HeardTo(s) + 1) - n
           h == HeardTo(s)
           l == last[s]
           q == held[s]
<1>1. /\ h \in Nat /\ l \in Nat /\ n \in Nat /\ n <= h /\ q = Run(a, h) /\ h - n <= l
  BY HeardIs DEF HubInv, GateShut
<1>2. a \in Nat \ {0} /\ a <= h + 1 /\ a <= l + 1
  <2>1. a = (h + 1) - n
    OBVIOUS
  <2> HIDE DEF a, h, l, n
  <2> QED  BY <1>1, <2>1
<1> HIDE DEF a, n, h, l, q
<1>3. Picked(q, {i \in DOMAIN q : q[i] > l}) = Run(l + 1, Later(h, l))
  BY <1>1, <1>2, PickedOfRun
<1> QED  BY <1>3 DEF Released, h, l, q

LEMMA OpenGateKeeps ==
  ASSUME HubInv, NEW r \in Subscribers, OpenGate(r)
  PROVE  HubInv'
<1> DEFINE z == Later(HeardTo(r), last[r])
           l == last[r]
<1>1. /\ at[r] = "replaying" /\ ~Replaying(r) /\ at' = [at EXCEPT ![r] = "subscribed"]
      /\ UNCHANGED bus /\ last' = last /\ from' = from /\ open' = [open EXCEPT ![r] = TRUE]
      /\ through' = [through EXCEPT ![r] =
                       IF Released(r) = <<>> THEN last[r] ELSE Released(r)[Len(Released(r))]]
      /\ held' = [held EXCEPT ![r] = <<>>] /\ got' = [got EXCEPT ![r] = got[r] \o Released(r)]
      /\ at \in [Subscribers -> Listening \cup {"out", "closed"}]
      /\ open \in [Subscribers -> BOOLEAN] /\ through \in [Subscribers -> Nat]
      /\ held \in [Subscribers -> Seq(Nat)] /\ got \in [Subscribers -> Seq(Nat)]
  BY DEF OpenGate, Goto, HubInv, HubTyped
<1>2. /\ HeardTo(r) \in Nat /\ l \in Nat /\ z \in Nat /\ l <= z /\ got[r] \in Seq(Nat)
      /\ z = Later(HeardTo(r), l) /\ length \in Nat /\ GateShut(r) /\ Start(r) \in Nat
      /\ from[r] \in FromSeqs \cup {Omitted}
  BY HeardIs, StartIs DEF Later, HubInv
<1>3. Released(r) = Run(l + 1, z)
  BY <1>1, ReleasedIs
<1> HIDE DEF z
<1>4. through'[r] = z
  <2>1. l + 1 \in Nat /\ l + 1 <= z + 1 /\ (z + 1) - (l + 1) = z - l
    BY <1>2
  <2>2. /\ Run(l + 1, z) \in Seq(Nat) /\ Len(Run(l + 1, z)) = z - l
        /\ \A k \in 1 .. z - l : Run(l + 1, z)[k] = (l + 1) + k - 1
    <3>1. /\ Run(l + 1, z) \in Seq(Nat) /\ Len(Run(l + 1, z)) = (z + 1) - (l + 1)
          /\ \A k \in 1 .. (z + 1) - (l + 1) : Run(l + 1, z)[k] = (l + 1) + k - 1
      <4> HIDE DEF l
      <4> QED  BY <1>2, <2>1, RunIs
    <3> QED  BY <2>1, <3>1
  <2>3. CASE z = l
    BY <1>1, <1>2, <1>3, <2>2, <2>3
  <2>4. CASE z # l
    <3>1. z - l \in 1 .. z - l /\ (l + 1) + (z - l) - 1 = z
      BY <1>2, <2>4
    <3>2. Run(l + 1, z)[Len(Run(l + 1, z))] = z /\ Run(l + 1, z) # <<>>
      BY <1>2, <2>2, <3>1
    <3> QED  BY <1>1, <1>3, <3>2
  <2> QED  BY <2>3, <2>4
<1>5. got'[r] = Run(Start(r), z) /\ Start(r) <= z + 1 /\ got'[r] \in Seq(Nat)
  <2>1. got[r] = Run(Start(r), l) /\ Start(r) <= l + 1
    <3>1. CASE got[r] = <<>>
      <4>1. Start(r) = l + 1
        <5>1. CASE from[r] = Omitted
          BY <5>1 DEF Start
        <5>2. CASE from[r] # Omitted
          <6>1. from[r] \in Nat /\ ~(from[r] + Len(got[r]) <= l) /\ Len(got[r]) = 0
            BY <1>1, <1>2, <3>1, <5>2, ConstantsAssumption DEF Replaying
          <6> QED  BY <1>2, <6>1 DEF Start
        <5> QED  BY <5>1, <5>2
      <4>2. Run(l + 1, l) = <<>>
        BY <1>2, RunNone
      <4> QED  BY <1>2, <3>1, <4>1, <4>2
    <3>2. CASE got[r] # <<>>
      <4> DEFINE n == Len(got[r])
      <4>1. /\ from[r] # Omitted /\ from[r] + n <= l + 1 /\ got[r] = Run(from[r], from[r] + n - 1)
        BY <1>1, <1>2, <3>2 DEF GateShut
      <4>2. from[r] \in Nat /\ n \in Nat /\ n # 0 /\ ~(from[r] + n <= l)
        BY <1>1, <1>2, <3>2, <4>1, ConstantsAssumption DEF Replaying
      <4> HIDE DEF n
      <4>3. from[r] + n - 1 = l /\ ~(from[r] > l) /\ from[r] <= l + 1
        <5>1. PICK f : f = from[r]
          OBVIOUS
        <5>2. /\ f \in Nat /\ n \in Nat /\ n # 0 /\ ~(f + n <= l) /\ f + n <= l + 1
              /\ l \in Nat
          BY <1>2, <4>1, <4>2, <5>1
        <5> HIDE DEF l
        <5>3. f + n - 1 = l /\ ~(f > l) /\ f <= l + 1
          BY <5>2
        <5> QED  BY <5>1, <5>3
      <4> QED  BY <4>1, <4>3 DEF Start
    <3> QED  BY <3>1, <3>2
  <2> HIDE DEF l
  <2>2. Run(Start(r), l) \o Run(l + 1, z) = Run(Start(r), z)
    BY <1>2, <2>1, RunJoins
  <2>3. Start(r) <= z + 1
    BY <1>2, <2>1
  <2>4. Run(Start(r), z) \in Seq(Nat)
    BY <1>2, <2>3, RunIs
  <2> QED  BY <1>1, <1>3, <2>1, <2>2, <2>3, <2>4
<1>6. HubTyped'
  <2>1. /\ at' \in [Subscribers -> Listening \cup {"out", "closed"}]
        /\ open' \in [Subscribers -> BOOLEAN] /\ through' \in [Subscribers -> Nat]
        /\ held' \in [Subscribers -> Seq(Nat)] /\ got' \in [Subscribers -> Seq(Nat)]
    BY <1>1, <1>2, <1>4, <1>5 DEF Listening
  <2> QED  BY <1>1, <2>1 DEF HubInv, HubTyped, bus
<1>7. OnBus'
  BY <1>1 DEF HubInv, OnBus, Listening, bus, Among, NoTwice
<1>8. ASSUME NEW s \in Subscribers PROVE GateShut(s)' /\ GateOpen(s)'
  <2>1. CASE s # r
    <3>1. Kept(s)
      BY <1>1, <2>1 DEF Kept
    <3> QED  BY <1>1, <3>1, BusKept, Undisturbed
  <2>2. CASE s = r
    <3>1. at'[s] = "subscribed" /\ open'[s]
      BY <1>1, <2>2
    <3>2. HeardTo(s)' = HeardTo(s) /\ length' = length /\ Start(s)' = Start(s) /\ last' = last
      BY <1>1, BusKept DEF Start
    <3>3. last[s] < length
      BY <1>1, <1>2, <2>2 DEF GateShut
    <3>4. GateOpen(s)'
      BY <1>2, <1>4, <1>5, <2>2, <3>1, <3>2, <3>3 DEF GateOpen
    <3> QED  BY <3>1, <3>4 DEF GateShut
  <2> QED  BY <2>1, <2>2
<1> QED  BY <1>6, <1>7, <1>8 DEF HubInv

LEMMA UnsubscribeKeeps ==
  ASSUME HubInv, NEW r \in Subscribers, Unsubscribe(r)
  PROVE  HubInv'
<1>1. /\ at[r] = "subscribed" /\ at' = [at EXCEPT ![r] = "closed"]
      /\ listeners' = Without(listeners, r)
      /\ length' = length /\ emit' = emit /\ called' = called /\ from' = from /\ last' = last
      /\ open' = open /\ through' = through /\ held' = held /\ got' = got
      /\ listeners \in Seq(Subscribers) /\ NoTwice(listeners)
      /\ at \in [Subscribers -> Listening \cup {"out", "closed"}]
  BY DEF Unsubscribe, Goto, gate, HubInv, HubTyped, OnBus
<1>2. /\ listeners' \in Seq(Subscribers) /\ NoTwice(listeners')
      /\ \A s : Among(s, listeners') <=> Among(s, listeners) /\ s # r
  BY <1>1, OneIsTakenOut
<1>3. HubTyped'
  <2>1. at' \in [Subscribers -> Listening \cup {"out", "closed"}]
    BY <1>1
  <2> QED  BY <1>1, <1>2, <2>1 DEF HubInv, HubTyped
<1>4. OnBus'
  <2>1. ASSUME NEW s \in Subscribers
        PROVE  (Among(s, listeners') <=> at'[s] \in Listening) /\ (Among(s, called') => at'[s] # "out")
    BY <1>1, <1>2 DEF HubInv, OnBus, Listening
  <2> QED  BY <1>1, <1>2, <2>1 DEF HubInv, OnBus, Among, NoTwice
<1>5. ASSUME NEW s \in Subscribers PROVE GateShut(s)' /\ GateOpen(s)'
  <2>0. (Among(s, called)' <=> Among(s, called)) /\ (Among(s, listeners)' <=> Among(s, listeners) /\ s # r)
    BY <1>1, <1>2 DEF Among
  <2>1. CASE s # r
    <3>1. Kept(s)
      BY <1>1, <2>1 DEF Kept
    <3>2. HeardTo(s)' = HeardTo(s)
      <4>1. Due(s)' <=> Due(s)
        BY <1>1, <2>0, <2>1 DEF Due
      <4> QED  BY <1>1, <4>1 DEF HeardTo
    <3>3. length' >= length /\ length' \in Nat
      BY <1>1, HeardIs
    <3> QED  BY <2>0, <3>1, <3>2, <3>3, Undisturbed
  <2>2. CASE s = r
    <3>1. at'[s] = "closed" /\ at[s] = "subscribed" /\ GateOpen(s) /\ Start(s)' = Start(s)
      BY <1>1, <2>2 DEF HubInv, Start
    <3>2. Among(s, called)' => HeardTo(s)' = HeardTo(s)
      <4>1. ASSUME Among(s, called)' PROVE Due(s)' <=> Due(s)
        <5>1. emit = "calling"
          BY <2>0, <4>1 DEF HubInv, OnBus, Among
        <5> QED  BY <1>1, <2>0, <5>1 DEF Due
      <4> QED  BY <1>1, <4>1 DEF HeardTo
    <3>3. GateOpen(s)'
      BY <1>1, <2>0, <3>1, <3>2 DEF GateOpen
    <3> QED  BY <3>1, <3>3 DEF GateShut
  <2> QED  BY <2>1, <2>2
<1> QED  BY <1>3, <1>4, <1>5 DEF HubInv

-----------------------------------------------------------------------------
(* Every subscription is pushed the events past the place it asked for,    *)
(* each once and in order, and between appends it has them all, however    *)
(* the replay, the appends and the departures interleave: Hub::subscribe,  *)
(* Gate and SessionLog::append, for any subscribers and events.            *)
THEOREM EveryEventArrives == Spec => []EverythingArrives
<1>1. Init => HubInv
  <2> SUFFICES ASSUME Init PROVE HubInv
    OBVIOUS
  <2>1. HubTyped
    BY DEF Init, HubTyped
  <2>2. OnBus
    BY DEF Init, OnBus, Among, NoTwice, Listening
  <2>3. \A s \in Subscribers : GateShut(s) /\ GateOpen(s)
    BY DEF Init, GateShut, GateOpen
  <2> QED  BY <2>1, <2>2, <2>3 DEF HubInv
<1>2. HubInv /\ [Next]_vars => HubInv'
  <2> SUFFICES ASSUME HubInv, [Next]_vars PROVE HubInv'
    OBVIOUS
  <2>1. CASE Publish
    BY <2>1, CommitKeeps, EmitKeeps, CallListenerKeeps, EmittedKeeps DEF Publish
  <2>2. ASSUME NEW s \in Subscribers, Subscribe(s) \/ Unsubscribe(s) PROVE HubInv'
    BY <2>2, RegisterKeeps, ReadLogKeeps, ReplayKeeps, OpenGateKeeps, UnsubscribeKeeps DEF Subscribe
  <2>3. CASE UNCHANGED vars
    <3>1. HubTyped' /\ OnBus'
      BY <2>3 DEF vars, HubInv, HubTyped, OnBus, Among, NoTwice
    <3>2. ASSUME NEW s \in Subscribers PROVE GateShut(s)' /\ GateOpen(s)'
      <4>1. Kept(s) /\ UNCHANGED bus
        BY <2>3 DEF vars, Kept, bus
      <4> QED  BY <4>1, BusKept, Undisturbed
    <3> QED  BY <3>1, <3>2 DEF HubInv
  <2> QED  BY <2>1, <2>2, <2>3 DEF Next
<1>3. HubInv => EverythingArrives
  <2> SUFFICES ASSUME HubInv, NEW s \in Subscribers
               PROVE  /\ at[s] \in {"subscribed", "closed"} =>
                            got[s] = Run(Start(s), Start(s) + Len(got[s]) - 1)
                      /\ at[s] = "subscribed" /\ emit = "none" => got[s] = Run(Start(s), length - 1)
    BY DEF EverythingArrives
  <2>1. Start(s) \in Nat /\ through[s] \in Nat /\ GateOpen(s) /\ length \in Nat /\ last[s] \in Nat
    BY HeardIs, StartIs DEF HubInv
  <2>2. ASSUME at[s] \in {"subscribed", "closed"}
        PROVE  got[s] = Run(Start(s), Start(s) + Len(got[s]) - 1)
    <3>1. got[s] = Run(Start(s), through[s]) /\ Start(s) <= through[s] + 1
      BY <2>1, <2>2 DEF GateOpen
    <3>2. Len(got[s]) = (through[s] + 1) - Start(s)
      BY <2>1, <3>1, RunIs
    <3>3. Start(s) + Len(got[s]) - 1 = through[s]
      BY <2>1, <3>1, <3>2
    <3> QED  BY <3>1, <3>3
  <2>3. ASSUME at[s] = "subscribed", emit = "none" PROVE got[s] = Run(Start(s), length - 1)
    <3>1. HeardTo(s) = length - 1
      BY <2>3, HeardIs DEF HeardTo
    <3>2. got[s] = Run(Start(s), through[s]) /\ through[s] = Later(length - 1, last[s]) /\ last[s] < length
      BY <2>1, <2>3, <3>1 DEF GateOpen
    <3>3. through[s] = length - 1
      BY <2>1, <3>2 DEF Later
    <3> QED  BY <3>2, <3>3
  <2> QED  BY <2>2, <2>3
<1> QED  BY <1>1, <1>2, <1>3, PTL DEF Spec

=============================================================================
