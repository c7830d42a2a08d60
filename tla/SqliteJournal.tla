---------------------------- MODULE SqliteJournal ----------------------------
(***************************************************************************)
(* One session's journal as rows of a database: the other provider of the  *)
(* SessionLog seam.  Any number of handles may be open on it, of one       *)
(* process or several, each with its own mirror and its own connection.    *)
(*                                                                         *)
(* A statement, or a transaction, is one step and is on stable storage     *)
(* when it returns (journal_mode = WAL, synchronous = FULL).  One that     *)
(* times out, or breaks a primary key, changes nothing and is left out.    *)
(***************************************************************************)
EXTENDS Naturals, Sequences, FiniteSets

CONSTANTS
  Payloads, \* what events hold
  Handles,  \* handles, and the processes that seed
  Seeds,    \* histories a fork or an import lays down
  MaxRows   \* bound: rows

ASSUME SqliteAssumption == Seeds \subseteq Seq(Payloads)

VARIABLES
  listed,  \* the session's row of `sessions`
  rows,    \* its rows of `events`, by seq
  place,   \* how far each handle has come
  mirror,  \* SqliteSessionLog::state
  pending, \* the event inserted and not yet mirrored
  unsaid,  \* seqs mirrored whose append has not returned
  seeding, \* seeds that have found the id free
  told     \* history: seqs a caller was told are written

sqliteVars == <<listed, rows, place, mirror, pending, unsaid, seeding, told>>
Nowhere == "nothing"

SqliteInit ==
  /\ listed = FALSE /\ rows = <<>> /\ seeding = {} /\ told = {}
  /\ place = [h \in Handles |-> "closed"]
  /\ mirror = [h \in Handles |-> <<>>] /\ pending = [h \in Handles |-> Nowhere]
  /\ unsaid = [h \in Handles |-> {}]

(* ORDER BY seq: the i-th row is the one with i - 1 rows before it.        *)
RowsInOrder(table) ==
  [i \in 1 .. Cardinality(DOMAIN table) |->
     table[CHOOSE q \in DOMAIN table : Cardinality({r \in DOMAIN table : r < q}) = i - 1]]

-----------------------------------------------------------------------------
(* SqliteSessionStore::log: a row, then a reading, then a connection.      *)

OpenRow(h) == /\ place[h] = "closed"
              /\ listed' = TRUE
              /\ place' = [place EXCEPT ![h] = "listed"]
              /\ UNCHANGED <<rows, mirror, pending, unsaid, seeding, told>>

ReadRows(h) == /\ place[h] = "listed"
               /\ mirror' = [mirror EXCEPT ![h] = RowsInOrder(rows)]
               /\ place' = [place EXCEPT ![h] = "open"]
               /\ UNCHANGED <<listed, rows, pending, unsaid, seeding, told>>

(* A handle is dropped, could not be made, or its process dies.            *)
Leave(h) == /\ place[h] # "closed"
            /\ place' = [place EXCEPT ![h] = "closed"]
            /\ mirror' = [mirror EXCEPT ![h] = <<>>]
            /\ pending' = [pending EXCEPT ![h] = Nowhere]
            /\ unsaid' = [unsaid EXCEPT ![h] = {}]
            /\ UNCHANGED <<listed, rows, seeding, told>>

-----------------------------------------------------------------------------
(* SqliteSessionLog::write.  The insert and the push are under the lock of *)
(* the mirror, so a handle inserts one event at a time; returning is not.  *)

Put(seq, e) == [q \in DOMAIN rows \cup {seq} |-> IF q = seq THEN e ELSE rows[q]]

(* INSERT OR REPLACE: whoever comes second has its way.                    *)
Insert_Replace(h, e) ==
  LET seq == Len(mirror[h])
  IN /\ place[h] = "open" /\ seq < MaxRows
     /\ rows' = Put(seq, e)
     /\ place' = [place EXCEPT ![h] = "inserted"]
     /\ pending' = [pending EXCEPT ![h] = e]
     /\ UNCHANGED <<listed, mirror, unsaid, seeding, told>>

Insert(h, e) ==
  LET seq == Len(mirror[h])
  IN /\ place[h] = "open" /\ seq \notin DOMAIN rows /\ seq < MaxRows
     /\ rows' = Put(seq, e)
     /\ place' = [place EXCEPT ![h] = "inserted"]
     /\ pending' = [pending EXCEPT ![h] = e]
     /\ UNCHANGED <<listed, mirror, unsaid, seeding, told>>

Push(h) == /\ place[h] = "inserted"
           /\ mirror' = [mirror EXCEPT ![h] = Append(@, pending[h])]
           /\ unsaid' = [unsaid EXCEPT ![h] = @ \cup {Len(mirror[h])}]
           /\ place' = [place EXCEPT ![h] = "open"]
           /\ pending' = [pending EXCEPT ![h] = Nowhere]
           /\ UNCHANGED <<listed, rows, seeding, told>>

Return(h) == \E q \in unsaid[h] :
               /\ unsaid' = [unsaid EXCEPT ![h] = @ \ {q}]
               /\ told' = told \cup {q}
               /\ UNCHANGED <<listed, rows, place, mirror, pending, seeding>>

-----------------------------------------------------------------------------
(* SqliteSessionStore::seed: a look, then one transaction that inserts the *)
(* session's row too and so fails as a whole when there is one.            *)

SeedLook(seed) == /\ ~listed /\ seed \notin seeding
                  /\ seeding' = seeding \cup {seed}
                  /\ UNCHANGED <<listed, rows, place, mirror, pending, unsaid, told>>

SeedCommit(seed) ==
  /\ seed \in seeding /\ seeding' = seeding \ {seed}
  /\ IF listed THEN UNCHANGED <<listed, rows, told>>
     ELSE /\ listed' = TRUE
          /\ rows' = [q \in 0 .. Len(seed) - 1 |-> seed[q + 1]]
          /\ told' = 0 .. Len(seed) - 1
  /\ UNCHANGED <<place, mirror, pending, unsaid>>

-----------------------------------------------------------------------------

SqliteNext ==
  \/ \E h \in Handles :
       \/ OpenRow(h) \/ ReadRows(h) \/ Leave(h) \/ Push(h) \/ Return(h)
       \/ \E e \in Payloads : Insert(h, e)
  \/ \E seed \in Seeds : SeedLook(seed) \/ SeedCommit(seed)

SqliteSpec == SqliteInit /\ [][SqliteNext]_sqliteVars

-----------------------------------------------------------------------------
(* Properties. *)

Seam == INSTANCE SessionLog WITH log <- RowsInOrder(rows), acknowledged <- {q + 1 : q \in told}

(* "A caller holds a dyn SessionLog and cannot tell which backend answered *)
(* it": the rows in order only grow, by what an append or a seed writes,   *)
(* and an event a caller was told of stays as it was written, whichever    *)
(* handles append, seed, leave and race (write, log, seed).                *)
SeamSpec == Seam!Spec

=============================================================================
