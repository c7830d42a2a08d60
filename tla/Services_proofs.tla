-------------------------- MODULE Services_proofs ---------------------------
EXTENDS Schedule, Jobs, McpServer, Files, Inbox, Shell, Listing_proofs

-----------------------------------------------------------------------------
(***************************************************************************)
(* Theorems about the file tools, for any number of sessions and contents: *)
(* a path never holds half a content, and what a session may overwrite.    *)
(***************************************************************************)
-----------------------------------------------------------------------------
(* The inductive invariant. *)

Seen == [v : Nat, by : {"none", "read", "stat", "stamp"}]
Uses == [tool : {"none", "read", "write", "edit"}, v : Nat, new : Nat, raced : BOOLEAN,
         at : {"idle", "reading", "publish", "writing", "rename", "stamp"}]

FilesTypeOK == /\ made \in Nat /\ file \in Nat /\ undone \in Nat /\ whole \in SUBSET Nat
               /\ observed \in [Owners -> Seen]
               /\ using \in [Owners -> Uses]
               /\ seen \in [Owners -> SUBSET Nat]

(* Contents are numbered as they are made.                                 *)
FilesNumbered == /\ file <= made /\ undone <= made
            /\ \A o \in Owners : /\ observed[o].v <= made /\ using[o].v <= made
                                 /\ using[o].new <= made

(* What is on the path, or may come back to it, reached the disk whole.    *)
Published == /\ file \in whole \cup {0} /\ undone \in whole \cup {0}
             /\ \A o \in Owners : using[o].at = "rename" => using[o].new \in whole

(* A content under way is nobody else's, and nobody has seen its version.  *)
UnderWay(o) == using[o].at \in {"writing", "rename"}
Unseen == \A q \in Owners : UnderWay(q) =>
            /\ using[q].new # file /\ using[q].new # 0
            /\ \A o \in Owners : /\ observed[o].v # using[q].new
                                 /\ using[o].at = "reading" => using[o].v # using[q].new
                                 /\ UnderWay(o) /\ o # q => using[o].new # using[q].new

(* What a call that was not raced goes by, and what a read leaves behind.  *)
Changing(o) == using[o].at \in {"publish", "writing", "rename"} /\ ~using[o].raced
GoesBy == \A o \in Owners :
            /\ Changing(o) => using[o].tool \in {"write", "edit"}
            /\ Changing(o) /\ using[o].tool = "edit" => file = using[o].v
            /\ Changing(o) /\ using[o].tool = "write" /\ file # 0 => file = observed[o].v
            /\ observed[o].by = "read" /\ observed[o].v # 0 /\ observed[o].v = file
                 => file \in seen[o]

FilesInv == FilesTypeOK /\ FilesNumbered /\ Published /\ Unseen /\ GoesBy

-----------------------------------------------------------------------------

LEMMA FilesInitInv == FilesInit => FilesInv
BY DEF FilesInit, FilesInv, FilesTypeOK, FilesNumbered, Published, Unseen, UnderWay, GoesBy, Changing,
       Seen, Uses, Nothing, Idle

(* A use of the path and its race are fields beside one another.           *)
LEMMA RacesUses ==
  ASSUME NEW uses \in [Owners -> Uses], NEW by
  PROVE  Races(uses, by) \in [Owners -> Uses]
<1> SUFFICES ASSUME NEW q \in Owners PROVE [uses[q] EXCEPT !.raced = TRUE] \in Uses
  BY DEF Races
<1>1. uses[q] \in Uses
  OBVIOUS
<1> QED
  BY <1>1 DEF Uses

(* One session's use, replaced.                                            *)
LEMMA OneUse ==
  ASSUME FilesTypeOK, NEW o \in Owners, NEW u \in Uses, using' = [using EXCEPT ![o] = u]
  PROVE  /\ using' \in [Owners -> Uses] /\ using'[o] = u
         /\ \A q \in Owners \ {o} : using'[q] = using[q]
BY DEF FilesTypeOK

LEMMA ElsewhereInv ==
  ASSUME FilesInv, Elsewhere
  PROVE  FilesInv'
<1> USE DEF Elsewhere, FilesInv, Observe, GoOn, Back, Races, Nothing, Idle, Present, Intended
<1>1. FilesTypeOK'
  <2> HIDE DEF Races
  <2>1. using' \in [Owners -> Uses]
    BY RacesUses DEF FilesTypeOK
  <2> QED
    BY <2>1 DEF FilesTypeOK
<1>2. FilesNumbered'
  BY DEF FilesTypeOK, Seen, Uses, FilesNumbered
<1>3. Published'
  BY DEF FilesTypeOK, Seen, Uses, Published
<1>4. Unseen'
  BY DEF FilesTypeOK, Seen, Uses, FilesNumbered, Unseen, UnderWay
<1>5. GoesBy'
  BY DEF FilesTypeOK, Seen, Uses, FilesNumbered, Unseen, UnderWay, GoesBy, Changing
<1> QED
  BY <1>1, <1>2, <1>3, <1>4, <1>5

LEMMA LoseMemoryInv ==
  ASSUME FilesInv, LoseMemory
  PROVE  FilesInv'
<1> USE DEF LoseMemory, FilesInv, Observe, GoOn, Back, Races, Nothing, Idle, Present, Intended
<1>1. FilesTypeOK'
  BY DEF FilesTypeOK, Seen, Uses
<1>2. FilesNumbered'
  BY DEF FilesTypeOK, Seen, Uses, FilesNumbered
<1>3. Published'
  BY DEF FilesTypeOK, Seen, Uses, Published
<1>4. Unseen'
  BY DEF FilesTypeOK, Seen, Uses, FilesNumbered, Unseen, UnderWay
<1>5. GoesBy'
  BY DEF FilesTypeOK, Seen, Uses, FilesNumbered, Unseen, UnderWay, GoesBy, Changing
<1> QED
  BY <1>1, <1>2, <1>3, <1>4, <1>5

LEMMA StatInv ==
  ASSUME FilesInv, NEW o \in Owners, Stat(o)
  PROVE  FilesInv'
<1> USE DEF Stat, FilesInv, Observe, GoOn, Back, Races, Nothing, Idle, Present, Intended
<1>1. FilesTypeOK'
  BY DEF FilesTypeOK, Seen, Uses
<1>2. FilesNumbered'
  BY DEF FilesTypeOK, Seen, Uses, FilesNumbered
<1>3. Published'
  BY DEF FilesTypeOK, Seen, Uses, Published
<1>4. Unseen'
  BY DEF FilesTypeOK, Seen, Uses, FilesNumbered, Unseen, UnderWay
<1>5. GoesBy'
  BY DEF FilesTypeOK, Seen, Uses, FilesNumbered, Unseen, UnderWay, GoesBy, Changing
<1> QED
  BY <1>1, <1>2, <1>3, <1>4, <1>5

LEMMA ReadVersionInv ==
  ASSUME FilesInv, NEW o \in Owners, ReadVersion(o)
  PROVE  FilesInv'
<1> USE DEF FilesInv, Nothing, Idle, Present
<1>1. UNCHANGED <<file, whole, made, undone, seen>> /\ using[o].at = "idle"
  BY DEF ReadVersion
<1>2. CASE file = 0
  <2> DEFINE saw == [v |-> 0, by |-> "read"]
  <2>1. UNCHANGED using /\ observed' = [observed EXCEPT ![o] = saw]
    BY <1>2 DEF ReadVersion, Observe
  <2>2. saw \in Seen /\ saw.v = 0
    BY DEF Seen
  <2> HIDE DEF saw
  <2>3. FilesTypeOK'
    BY <1>1, <2>1, <2>2 DEF FilesTypeOK
  <2>4. observed'[o] = saw /\ \A q \in Owners \ {o} : observed'[q] = observed[q]
    BY <2>1 DEF FilesTypeOK
  <2>5. FilesNumbered'
    BY <1>1, <2>1, <2>2, <2>4 DEF FilesTypeOK, FilesNumbered
  <2>6. Published'
    BY <1>1, <2>1 DEF Published
  <2>7. Unseen'
    BY <1>1, <2>1, <2>2, <2>4 DEF Unseen, UnderWay
  <2>8. GoesBy'
    BY <1>1, <1>2, <2>1, <2>2, <2>4 DEF GoesBy, Changing
  <2> QED
    BY <2>3, <2>5, <2>6, <2>7, <2>8
<1>3. CASE file # 0
  <2> DEFINE u == [Idle EXCEPT !.tool = "read", !.v = file, !.at = "reading"]
  <2>1. UNCHANGED observed /\ using' = [using EXCEPT ![o] = u]
    BY <1>3 DEF ReadVersion
  <2>2. u \in Uses /\ u.v = file /\ u.new = 0 /\ u.at = "reading"
    BY DEF FilesTypeOK, Uses
  <2> HIDE DEF u
  <2>3. /\ using' \in [Owners -> Uses] /\ using'[o] = u
        /\ \A q \in Owners \ {o} : using'[q] = using[q]
    BY <2>1, <2>2, OneUse
  <2>4. FilesTypeOK'
    BY <1>1, <2>1, <2>3 DEF FilesTypeOK
  <2>5. FilesNumbered'
    BY <1>1, <2>1, <2>2, <2>3 DEF FilesTypeOK, FilesNumbered
  <2>6. Published'
    BY <1>1, <2>2, <2>3 DEF Published
  <2>7. Unseen'
    BY <1>1, <2>1, <2>2, <2>3 DEF Unseen, UnderWay
  <2>8. GoesBy'
    BY <1>1, <2>1, <2>2, <2>3 DEF GoesBy, Changing
  <2> QED
    BY <2>4, <2>5, <2>6, <2>7, <2>8
<1> QED
  BY <1>2, <1>3

LEMMA ReadBytesInv ==
  ASSUME FilesInv, NEW o \in Owners, ReadBytes(o)
  PROVE  FilesInv'
<1> USE DEF ReadBytes, FilesInv, Observe, GoOn, Back, Races, Nothing, Idle, Present, Intended
<1>1. FilesTypeOK'
  BY DEF FilesTypeOK, Seen, Uses
<1>2. FilesNumbered'
  BY DEF FilesTypeOK, Seen, Uses, FilesNumbered
<1>3. Published'
  BY DEF FilesTypeOK, Seen, Uses, Published
<1>4. Unseen'
  BY DEF FilesTypeOK, Seen, Uses, FilesNumbered, Unseen, UnderWay
<1>5. GoesBy'
  BY DEF FilesTypeOK, Seen, Uses, FilesNumbered, Unseen, UnderWay, GoesBy, Changing
<1> QED
  BY <1>1, <1>2, <1>3, <1>4, <1>5

LEMMA WriteInv ==
  ASSUME FilesInv, NEW o \in Owners, Write(o)
  PROVE  FilesInv'
<1> USE DEF Write, FilesInv, Observe, GoOn, Back, Races, Nothing, Idle, Present, Intended
<1>1. FilesTypeOK'
  BY DEF FilesTypeOK, Seen, Uses
<1>2. FilesNumbered'
  BY DEF FilesTypeOK, Seen, Uses, FilesNumbered
<1>3. Published'
  BY DEF FilesTypeOK, Seen, Uses, Published
<1>4. Unseen'
  BY DEF FilesTypeOK, Seen, Uses, FilesNumbered, Unseen, UnderWay
<1>5. GoesBy'
  BY DEF FilesTypeOK, Seen, Uses, FilesNumbered, Unseen, UnderWay, GoesBy, Changing
<1> QED
  BY <1>1, <1>2, <1>3, <1>4, <1>5

LEMMA EditInv ==
  ASSUME FilesInv, NEW o \in Owners, Edit(o)
  PROVE  FilesInv'
<1> USE DEF Edit, FilesInv, Observe, GoOn, Back, Races, Nothing, Idle, Present, Intended
<1>1. FilesTypeOK'
  BY DEF FilesTypeOK, Seen, Uses
<1>2. FilesNumbered'
  BY DEF FilesTypeOK, Seen, Uses, FilesNumbered
<1>3. Published'
  BY DEF FilesTypeOK, Seen, Uses, Published
<1>4. Unseen'
  BY DEF FilesTypeOK, Seen, Uses, FilesNumbered, Unseen, UnderWay
<1>5. GoesBy'
  BY DEF FilesTypeOK, Seen, Uses, FilesNumbered, Unseen, UnderWay, GoesBy, Changing
<1> QED
  BY <1>1, <1>2, <1>3, <1>4, <1>5

LEMMA EditBytesInv ==
  ASSUME FilesInv, NEW o \in Owners, EditBytes(o)
  PROVE  FilesInv'
<1> USE DEF EditBytes, FilesInv, Observe, GoOn, Back, Races, Nothing, Idle, Present, Intended
<1>1. FilesTypeOK'
  <2>1. using[o] \in Uses /\ Idle \in Uses /\ file \in Nat
    BY DEF FilesTypeOK, Uses
  <2>2. [using[o] EXCEPT !.at = "publish", !.v = file, !.raced = FALSE] \in Uses
    BY <2>1 DEF Uses
  <2> QED
    BY <2>1, <2>2 DEF FilesTypeOK
<1>2. FilesNumbered'
  BY DEF FilesTypeOK, Seen, Uses, FilesNumbered
<1>3. Published'
  BY DEF FilesTypeOK, Seen, Uses, Published
<1>4. Unseen'
  BY DEF FilesTypeOK, Seen, Uses, FilesNumbered, Unseen, UnderWay
<1>5. GoesBy'
  BY DEF FilesTypeOK, Seen, Uses, FilesNumbered, Unseen, UnderWay, GoesBy, Changing
<1> QED
  BY <1>1, <1>2, <1>3, <1>4, <1>5

LEMMA CreateTempInv ==
  ASSUME FilesInv, NEW o \in Owners, CreateTemp(o)
  PROVE  FilesInv'
<1> USE DEF CreateTemp, FilesInv, Observe, GoOn, Back, Races, Nothing, Idle, Present, Intended
<1>1. FilesTypeOK'
  <2>1. using[o] \in Uses /\ made + 1 \in Nat
    BY DEF FilesTypeOK
  <2>2. [using[o] EXCEPT !.at = "writing", !.new = made + 1] \in Uses
    BY <2>1 DEF Uses
  <2> QED
    BY <2>1, <2>2 DEF FilesTypeOK
<1>2. FilesNumbered'
  BY DEF FilesTypeOK, Seen, Uses, FilesNumbered
<1>3. Published'
  BY DEF FilesTypeOK, Seen, Uses, Published
<1>4. Unseen'
  BY DEF FilesTypeOK, Seen, Uses, FilesNumbered, Unseen, UnderWay
<1>5. GoesBy'
  BY DEF FilesTypeOK, Seen, Uses, FilesNumbered, Unseen, UnderWay, GoesBy, Changing
<1> QED
  BY <1>1, <1>2, <1>3, <1>4, <1>5

LEMMA SyncInv ==
  ASSUME FilesInv, NEW o \in Owners, Sync(o)
  PROVE  FilesInv'
<1> USE DEF Sync, FilesInv, Observe, GoOn, Back, Races, Nothing, Idle, Present, Intended
<1>1. FilesTypeOK'
  BY DEF FilesTypeOK, Seen, Uses
<1>2. FilesNumbered'
  BY DEF FilesTypeOK, Seen, Uses, FilesNumbered
<1>3. Published'
  BY DEF FilesTypeOK, Seen, Uses, Published
<1>4. Unseen'
  BY DEF FilesTypeOK, Seen, Uses, FilesNumbered, Unseen, UnderWay
<1>5. GoesBy'
  BY DEF FilesTypeOK, Seen, Uses, FilesNumbered, Unseen, UnderWay, GoesBy, Changing
<1> QED
  BY <1>1, <1>2, <1>3, <1>4, <1>5

LEMMA RenameInv ==
  ASSUME FilesInv, NEW o \in Owners, Rename(o)
  PROVE  FilesInv'
<1> USE DEF Rename, FilesInv, Observe, GoOn, Back, Races, Nothing, Idle, Present, Intended
<1>1. FilesTypeOK'
  BY DEF FilesTypeOK, Seen, Uses
<1>2. FilesNumbered'
  BY DEF FilesTypeOK, Seen, Uses, FilesNumbered
<1>3. Published'
  BY DEF FilesTypeOK, Seen, Uses, Published
<1>4. Unseen'
  BY DEF FilesTypeOK, Seen, Uses, FilesNumbered, Unseen, UnderWay
<1>5. GoesBy'
  BY DEF FilesTypeOK, Seen, Uses, FilesNumbered, Unseen, UnderWay, GoesBy, Changing
<1> QED
  BY <1>1, <1>2, <1>3, <1>4, <1>5

LEMMA StampInv ==
  ASSUME FilesInv, NEW o \in Owners, Stamp(o)
  PROVE  FilesInv'
<1> USE DEF Stamp, FilesInv, Observe, GoOn, Back, Races, Nothing, Idle, Present, Intended
<1>1. FilesTypeOK'
  BY DEF FilesTypeOK, Seen, Uses
<1>2. FilesNumbered'
  BY DEF FilesTypeOK, Seen, Uses, FilesNumbered
<1>3. Published'
  BY DEF FilesTypeOK, Seen, Uses, Published
<1>4. Unseen'
  BY DEF FilesTypeOK, Seen, Uses, FilesNumbered, Unseen, UnderWay
<1>5. GoesBy'
  BY DEF FilesTypeOK, Seen, Uses, FilesNumbered, Unseen, UnderWay, GoesBy, Changing
<1> QED
  BY <1>1, <1>2, <1>3, <1>4, <1>5

LEMMA FailInv ==
  ASSUME FilesInv, NEW o \in Owners, Fail(o)
  PROVE  FilesInv'
<1> USE DEF Fail, FilesInv, Observe, GoOn, Back, Races, Nothing, Idle, Present, Intended
<1>1. FilesTypeOK'
  BY DEF FilesTypeOK, Seen, Uses
<1>2. FilesNumbered'
  BY DEF FilesTypeOK, Seen, Uses, FilesNumbered
<1>3. Published'
  BY DEF FilesTypeOK, Seen, Uses, Published
<1>4. Unseen'
  BY DEF FilesTypeOK, Seen, Uses, FilesNumbered, Unseen, UnderWay
<1>5. GoesBy'
  BY DEF FilesTypeOK, Seen, Uses, FilesNumbered, Unseen, UnderWay, GoesBy, Changing
<1> QED
  BY <1>1, <1>2, <1>3, <1>4, <1>5

LEMMA DeletePathInv ==
  ASSUME FilesInv, NEW o \in Owners, DeletePath(o)
  PROVE  FilesInv'
<1> USE DEF DeletePath, FilesInv, Observe, GoOn, Back, Races, Nothing, Idle, Present, Intended
<1>1. FilesTypeOK'
  BY DEF FilesTypeOK, Seen, Uses
<1>2. FilesNumbered'
  BY DEF FilesTypeOK, Seen, Uses, FilesNumbered
<1>3. Published'
  BY DEF FilesTypeOK, Seen, Uses, Published
<1>4. Unseen'
  BY DEF FilesTypeOK, Seen, Uses, FilesNumbered, Unseen, UnderWay
<1>5. GoesBy'
  BY DEF FilesTypeOK, Seen, Uses, FilesNumbered, Unseen, UnderWay, GoesBy, Changing
<1> QED
  BY <1>1, <1>2, <1>3, <1>4, <1>5

LEMMA FilesNextInv == FilesInv /\ [FilesNext]_filesVars => FilesInv'
<1> SUFFICES ASSUME FilesInv, [FilesNext]_filesVars PROVE FilesInv'
  OBVIOUS
<1>1. CASE UNCHANGED filesVars
  BY <1>1 DEF filesVars, FilesInv, FilesTypeOK, FilesNumbered, Published, Unseen, UnderWay, GoesBy,
              Changing
<1> QED
  BY <1>1, ElsewhereInv, LoseMemoryInv, StatInv, ReadVersionInv, ReadBytesInv, WriteInv, EditInv,
     EditBytesInv, CreateTempInv, SyncInv, RenameInv, StampInv, FailInv, DeletePathInv
     DEF FilesNext

-----------------------------------------------------------------------------
(* Theorems. *)

(* The inductive invariant: a content under way is nobody's yet, and an    *)
(* undisturbed call goes by what the path holds (read_text, write_text).   *)
THEOREM FilesInvariant == FilesSpec => []FilesInv
BY FilesInitInv, FilesNextInv, PTL DEF FilesSpec

(* Whatever dies when, however many sessions and contents there are, the   *)
(* path holds nothing or a content that reached the disk whole (publish).  *)
THEOREM WholeOrNothing == FilesSpec => []NeverTorn
<1>1. FilesInv => NeverTorn
  BY DEF FilesInv, Published, NeverTorn
<1> QED
  BY <1>1, FilesInvariant, PTL

(* What a session overwrites without having seen it was made inside the    *)
(* call that overwrites it, or the session went by what was not a read     *)
(* (read_text, write_text, edit_text): for any number of sessions.         *)
THEOREM OverwritesKnown == FilesSpec => OverwritesWhatItSaw
<1>1. FilesInv /\ [FilesNext]_filesVars =>
        [\A o \in Owners : Overwrites(o) =>
           Knew(o) \/ using[o].raced \/ (observed[o].by # "read" /\ observed[o].v \notin seen[o])]_filesVars
  <2> SUFFICES ASSUME FilesInv, NEW o \in Owners, Overwrites(o), ~using[o].raced,
                      ~Knew(o)
               PROVE  observed[o].by # "read" /\ observed[o].v \notin seen[o]
    OBVIOUS
  <2>1. Changing(o) /\ file # 0
    BY DEF Overwrites, Changing
  <2>2. CASE using[o].tool = "edit"
    BY <2>1, <2>2 DEF FilesInv, GoesBy, Knew
  <2>3. CASE using[o].tool = "write"
    BY <2>1, <2>3 DEF FilesInv, GoesBy, Knew
  <2> QED
    BY <2>1, <2>2, <2>3 DEF FilesInv, GoesBy
<1> QED
  BY <1>1, FilesInvariant, PTL DEF FilesSpec, OverwritesWhatItSaw

-----------------------------------------------------------------------------
(***************************************************************************)
(* With one store on the file no two jobs are ever recorded under one id,  *)
(* over any number of jobs, deaths and torn writes.                        *)
(***************************************************************************)
OneStore == \A s, t \in Stores : s = t

Transitions == [id : Ids, op : {"queue", "start"} \cup Terminal, session : Stores]
JobRecords == [status : {"none", "queued", "running"} \cup Terminal,
               session : Stores \cup {"none"}]
JobMaps == [Ids -> JobRecords]
WorkPlaces == {"none", "minted", "spawned", "starting", "running", "exited", "finishing", "done"}

JobsTypeOK ==
  /\ lines \in Seq(Transitions)
  /\ jobs \in [Stores -> JobMaps]
  /\ opening \in [Stores -> {"closed", "scanned", "repairing", "open"}]
  /\ committed \in [Stores -> Nat]
  /\ repairs \in [Stores -> SUBSET Ids]
  /\ work \in [Stores -> [Ids -> WorkPlaces]]
  /\ ending \in [Stores -> [Ids -> {"none"} \cup Ends]]
  /\ kill \in [Stores -> [at : {"idle", "checking", "finishing"}, id : Ids \cup {0}]]

HasQueued(rows, id) == \E i \in DOMAIN rows : rows[i].op = "queue" /\ rows[i].id = id

(* A store that has read the file knows every job that is queued in it, a  *)
(* number that was minted is not in the file until its job is queued, and  *)
(* a command has an end before its task records one.                       *)
KnowsJobs(s) ==
  /\ opening[s] # "closed" => \A id \in Ids : HasQueued(lines, id) => jobs[s][id] # NoJob
  /\ opening[s] = "scanned" => committed[s] <= Len(lines)
  /\ \A id \in Ids : work[s][id] = "minted" => ~HasQueued(lines, id)
  /\ \A id \in Ids : work[s][id] \in {"exited", "finishing"} => ending[s][id] \in Ends
  /\ kill[s].at # "idle" => kill[s].id \in Ids

JobsInv == JobsTypeOK /\ QueuedOnce /\ \A s \in Stores : KnowsJobs(s)

-----------------------------------------------------------------------------
(* Folding a log never forgets a job that was queued. *)

LEMMA FoldedKeeps ==
  ASSUME NEW js \in JobMaps, NEW t \in Transitions
  PROVE  /\ folded(js, t) \in JobMaps
         /\ \A id \in Ids : js[id] # NoJob => folded(js, t)[id] # NoJob
         /\ t.op = "queue" => folded(js, t)[t.id] # NoJob
<1> DEFINE status == CASE t.op = "queue" -> "queued"
                       [] t.op = "start" -> "running"
                       [] OTHER -> t.op
           rec == [status |-> status,
                   session |-> IF t.op = "queue" THEN t.session ELSE js[t.id].session]
<1>1. /\ t.id \in Ids /\ t.session \in Stores /\ t.op \in {"queue", "start"} \cup Terminal
      /\ js[t.id] \in JobRecords
  BY DEF Transitions, JobMaps
<1>2. status \in {"queued", "running"} \cup Terminal
  BY <1>1
<1>3. status # "none"
  BY <1>2 DEF Terminal, Ends
<1>4. (IF t.op = "queue" THEN t.session ELSE js[t.id].session) \in Stores \cup {"none"}
  BY <1>1 DEF JobRecords
<1> HIDE DEF status
<1>5. rec \in JobRecords /\ rec.status # "none"
  BY <1>2, <1>3, <1>4 DEF JobRecords
<1>6. rec # NoJob
  BY <1>5 DEF NoJob
<1>7. folded(js, t) = IF (t.op = "queue") = (js[t.id] = NoJob) THEN [js EXCEPT ![t.id] = rec] ELSE js
  BY <1>1 DEF folded, status, JobMaps
<1> HIDE DEF rec
<1> QED  BY <1>1, <1>5, <1>6, <1>7 DEF JobMaps

Folds(f, rows) ==
  /\ f \in [0 .. Len(rows) -> JobMaps] /\ f[0] = NoJobs
  /\ \A n \in 1 .. Len(rows) : f[n] = folded(f[n - 1], rows[n])

LEMMA NoJobsTyped == NoJobs \in JobMaps
BY DEF NoJobs, NoJob, JobMaps, JobRecords

LEMMA FoldExists ==
  ASSUME NEW rows \in Seq(Transitions)
  PROVE  \E f : Folds(f, rows)
<1> DEFINE n == Len(rows)
           step == [k \in 1 .. n |-> [js \in JobMaps |-> folded(js, rows[k])]]
<1>1. n \in Nat /\ \A k \in 1 .. n : rows[k] \in Transitions
  OBVIOUS
<1>2. \A k \in 1 .. n : \A js \in JobMaps : folded(js, rows[k]) \in JobMaps
  BY <1>1, FoldedKeeps
<1>3. step \in [1 .. n -> [JobMaps -> JobMaps]]
      /\ \A k \in 1 .. n : \A js \in JobMaps : step[k][js] = folded(js, rows[k])
  BY <1>2
<1> HIDE DEF step, n
<1>4. PICK f \in [0 .. n -> JobMaps] : Carries(f, n, NoJobs, step)
  BY <1>1, <1>3, NoJobsTyped, CarriedExists
<1>5. \A k \in 1 .. n : k - 1 \in 0 .. n
  BY <1>1
<1>6. \A k \in 1 .. n : f[k] = folded(f[k - 1], rows[k])
  BY <1>3, <1>4, <1>5 DEF Carries
<1> QED  BY <1>4, <1>6 DEF Carries, Folds, n

LEMMA FoldRemembers ==
  ASSUME NEW rows \in Seq(Transitions), NEW f, Folds(f, rows), NEW id \in Ids, HasQueued(rows, id)
  PROVE  f[Len(rows)][id] # NoJob
<1>0. Len(rows) \in Nat /\ DOMAIN rows = 1 .. Len(rows) /\ \A k \in 1 .. Len(rows) : rows[k] \in Transitions
  OBVIOUS
<1>1. PICK i \in 1 .. Len(rows) : rows[i].op = "queue" /\ rows[i].id = id
  BY <1>0 DEF HasQueued
<1>2. \A n \in 1 .. Len(rows) :
        n - 1 \in 0 .. Len(rows) /\ f[n - 1] \in JobMaps /\ f[n] = folded(f[n - 1], rows[n])
  BY <1>0 DEF Folds
<1>3. f[i][id] # NoJob
  BY <1>0, <1>1, <1>2, FoldedKeeps
<1>4. \A n \in 1 .. Len(rows) : f[n - 1][id] # NoJob => f[n][id] # NoJob
  BY <1>0, <1>2, FoldedKeeps
<1> DEFINE Bad == {n \in i .. Len(rows) : f[n][id] = NoJob}
<1>5. Bad = {}
  <2> SUFFICES ASSUME Bad # {} PROVE FALSE
    OBVIOUS
  <2>1. Bad \in SUBSET Nat
    BY <1>0
  <2>2. PICK n \in Bad : \A m \in Bad : n <= m
    <3> HIDE DEF Bad
    <3> QED  BY <2>1, Least
  <2>3. n # i
    BY <1>3, <2>2
  <2>4. n \in 1 .. Len(rows) /\ n - 1 \in i .. Len(rows) /\ ~(n <= n - 1)
    BY <1>0, <2>2, <2>3
  <2>5. f[n - 1][id] # NoJob
    BY <2>2, <2>4
  <2> QED  BY <1>4, <2>2, <2>4, <2>5
<1> QED  BY <1>0, <1>5

(* The log that a store reads when it opens.                               *)
LEMMA ScanRemembers ==
  ASSUME lines \in Seq(Transitions)
  PROVE  scan \in JobMaps /\ \A id \in Ids : HasQueued(lines, id) => scan[id] # NoJob
<1> DEFINE Scanned(f) == [n \in 0 .. Len(lines) |-> IF n = 0 THEN NoJobs ELSE folded(f[n - 1], lines[n])]
           fold == CHOOSE f : f = Scanned(f)
<1>0. Len(lines) \in Nat
  OBVIOUS
<1>1. PICK f : Folds(f, lines)
  BY FoldExists
<1>2. f = Scanned(f)
  <2>1. DOMAIN f = 0 .. Len(lines) /\ f \in [0 .. Len(lines) -> JobMaps]
    BY <1>1 DEF Folds
  <2>2. \A n \in 0 .. Len(lines) : f[n] = IF n = 0 THEN NoJobs ELSE folded(f[n - 1], lines[n])
    BY <1>0, <1>1 DEF Folds
  <2> QED  BY <2>1, <2>2
<1>3. fold = Scanned(fold)
  <2> HIDE DEF Scanned
  <2> QED  BY <1>2
<1>4. Folds(fold, lines)
  <2> HIDE DEF fold
  <2>1. /\ DOMAIN fold = 0 .. Len(lines) /\ fold = [n \in 0 .. Len(lines) |-> fold[n]]
        /\ \A n \in 0 .. Len(lines) : fold[n] = IF n = 0 THEN NoJobs ELSE folded(fold[n - 1], lines[n])
    BY <1>3
  <2> DEFINE Bad == {n \in 0 .. Len(lines) : fold[n] \notin JobMaps}
  <2>2. Bad = {}
    <3> SUFFICES ASSUME Bad # {} PROVE FALSE
      OBVIOUS
    <3>1. Bad \in SUBSET Nat
      BY <1>0
    <3>2. PICK n \in Bad : \A m \in Bad : n <= m
      <4> HIDE DEF Bad
      <4> QED  BY <3>1, Least
    <3>3. n # 0
      BY <1>0, <2>1, <3>2, NoJobsTyped
    <3>4. n - 1 \in 0 .. Len(lines) /\ ~(n <= n - 1) /\ lines[n] \in Transitions
      BY <1>0, <3>2, <3>3
    <3>5. fold[n - 1] \in JobMaps
      BY <3>2, <3>4
    <3>6. fold[n] \in JobMaps
      BY <2>1, <3>2, <3>3, <3>4, <3>5, FoldedKeeps
    <3> QED  BY <3>2, <3>6
  <2>3. \A n \in 0 .. Len(lines) : fold[n] \in JobMaps
    BY <2>2
  <2>4. fold \in [0 .. Len(lines) -> JobMaps]
    BY <2>1, <2>3
  <2>5. fold[0] = NoJobs
    <3>1. 0 \in 0 .. Len(lines)
      BY <1>0
    <3> QED  BY <2>1, <3>1
  <2>6. \A n \in 1 .. Len(lines) : fold[n] = folded(fold[n - 1], lines[n])
    BY <1>0, <2>1
  <2> QED  BY <2>4, <2>5, <2>6 DEF Folds
<1>5. scan = fold[Len(lines)]
  BY DEF scan
<1> HIDE DEF fold
<1>6. fold[Len(lines)] \in JobMaps
  BY <1>0, <1>4 DEF Folds
<1> QED  BY <1>4, <1>5, <1>6, FoldRemembers

-----------------------------------------------------------------------------
(* The steps of the one store. *)

(* A transition that is recorded and folded.                               *)
LEMMA Appends ==
  ASSUME JobsTypeOK, NEW s \in Stores, NEW id \in Ids, NEW op \in {"queue", "start"} \cup Terminal,
         append(s, id, op)
  PROVE  /\ lines' \in Seq(Transitions) /\ jobs' \in [Stores -> JobMaps]
         /\ Len(lines') = Len(lines) + 1 /\ Len(lines) \in Nat
         /\ \A i \in 1 .. Len(lines) : lines'[i] = lines[i]
         /\ lines'[Len(lines) + 1].op = op /\ lines'[Len(lines) + 1].id = id
         /\ \A other \in Ids : jobs[s][other] # NoJob => jobs'[s][other] # NoJob
         /\ op = "queue" => jobs'[s][id] # NoJob
         /\ \A other \in Ids : HasQueued(lines', other)
                                <=> HasQueued(lines, other) \/ (op = "queue" /\ other = id)
<1> DEFINE t == [id |-> id, op |-> op, session |-> s]
           n == Len(lines) + 1
<1>1. t \in Transitions /\ t.op = op /\ t.id = id
  BY DEF Transitions
<1>2. lines' = Append(lines, t) /\ jobs' = [jobs EXCEPT ![s] = folded(jobs[s], t)]
  BY DEF append, JobsTypeOK
<1>3. lines \in Seq(Transitions) /\ jobs[s] \in JobMaps /\ jobs \in [Stores -> JobMaps]
  BY DEF JobsTypeOK
<1> HIDE DEF t
<1>4. /\ folded(jobs[s], t) \in JobMaps
      /\ \A other \in Ids : jobs[s][other] # NoJob => folded(jobs[s], t)[other] # NoJob
      /\ t.op = "queue" => folded(jobs[s], t)[t.id] # NoJob
  BY <1>1, <1>3, FoldedKeeps
<1>5. jobs' \in [Stores -> JobMaps] /\ jobs'[s] = folded(jobs[s], t)
  BY <1>2, <1>3, <1>4
<1>6. /\ lines' \in Seq(Transitions) /\ Len(lines') = n /\ Len(lines) \in Nat
      /\ \A i \in 1 .. Len(lines) : lines'[i] = lines[i]
      /\ lines'[n] = t
  BY <1>1, <1>2, <1>3
<1>7. DOMAIN lines = 1 .. Len(lines) /\ DOMAIN lines' = 1 .. n
  BY <1>3, <1>6
<1>8. ASSUME NEW other \in Ids
      PROVE  HasQueued(lines', other) <=> (HasQueued(lines, other) \/ (op = "queue" /\ other = id))
  <2>1. \A i \in 1 .. n : i \in 1 .. Len(lines) \/ i = n
    BY <1>6
  <2>2. n \in 1 .. n /\ \A i \in 1 .. Len(lines) : i \in 1 .. n
    BY <1>6
  <2> HIDE DEF n
  <2>3. CASE op = "queue" /\ other = id
    BY <1>1, <1>6, <1>7, <2>2, <2>3 DEF HasQueued
  <2>4. ASSUME HasQueued(lines, other) PROVE HasQueued(lines', other)
    BY <1>6, <1>7, <2>2, <2>4 DEF HasQueued
  <2>5. ASSUME HasQueued(lines', other), ~(op = "queue" /\ other = id)
        PROVE  HasQueued(lines, other)
    <3>1. PICK i \in 1 .. n : lines'[i].op = "queue" /\ lines'[i].id = other
      BY <1>7, <2>5 DEF HasQueued
    <3>2. i # n
      BY <1>1, <1>6, <2>5, <3>1
    <3> QED  BY <1>6, <1>7, <2>1, <3>1, <3>2 DEF HasQueued
  <2> QED  BY <2>3, <2>4, <2>5
<1> QED  BY <1>1, <1>4, <1>5, <1>6, <1>8

(* A job is queued under a number that no record is queued under.          *)
LEMMA AppendsOnce ==
  ASSUME JobsTypeOK, QueuedOnce, NEW s \in Stores, NEW id \in Ids,
         NEW op \in {"queue", "start"} \cup Terminal, append(s, id, op),
         op = "queue" => ~HasQueued(lines, id)
  PROVE  QueuedOnce'
<1> DEFINE n == Len(lines) + 1
<1>1. /\ lines' \in Seq(Transitions) /\ Len(lines') = n /\ Len(lines) \in Nat
      /\ \A i \in 1 .. Len(lines) : lines'[i] = lines[i]
      /\ lines'[n].op = op /\ lines'[n].id = id
  BY Appends
<1>2. DOMAIN lines' = 1 .. n /\ DOMAIN lines = 1 .. Len(lines)
  BY <1>1 DEF JobsTypeOK
<1> SUFFICES ASSUME NEW i \in 1 .. n, NEW j \in 1 .. n,
                    lines'[i].op = "queue", lines'[j].op = "queue", lines'[i].id = lines'[j].id
             PROVE  i = j
  BY <1>2 DEF QueuedOnce
<1>3. (i \in 1 .. Len(lines) \/ i = n) /\ (j \in 1 .. Len(lines) \/ j = n)
  BY <1>1
<1>4. ASSUME NEW k \in 1 .. Len(lines), lines'[k].op = "queue", lines'[k].id = id, op = "queue"
      PROVE  FALSE
  BY <1>1, <1>2, <1>4 DEF HasQueued
<1>5. CASE i = n /\ j # n
  BY <1>1, <1>3, <1>4, <1>5
<1>6. CASE i # n /\ j = n
  BY <1>1, <1>3, <1>4, <1>6
<1>7. CASE i # n /\ j # n
  BY <1>1, <1>2, <1>3, <1>7 DEF QueuedOnce
<1> QED  BY <1>5, <1>6, <1>7

(* A step that records what is no queueing.                                *)
LEMMA RecordKeeps ==
  ASSUME OneStore, JobsInv, NEW s \in Stores, NEW id \in Ids, NEW op \in {"start"} \cup Terminal,
         append(s, id, op), JobsTypeOK', opening'[s] = opening[s], committed' = committed,
         ending' = ending,
         \A other \in Ids : work'[s][other] # work[s][other] => work'[s][other] \in {"running", "done"},
         kill'[s].at # "idle" => kill'[s] = kill[s]
  PROVE  JobsInv'
<1>1. op # "queue" /\ op \in {"queue", "start"} \cup Terminal
  BY DEF Terminal, Ends
<1>2. JobsTypeOK /\ QueuedOnce /\ KnowsJobs(s)
  BY DEF JobsInv
<1>3. QueuedOnce'
  BY <1>1, <1>2, AppendsOnce
<1>4. /\ Len(lines') = Len(lines) + 1 /\ Len(lines) \in Nat
      /\ \A other \in Ids : jobs[s][other] # NoJob => jobs'[s][other] # NoJob
      /\ \A other \in Ids : HasQueued(lines', other) <=> HasQueued(lines, other)
  BY <1>1, <1>2, Appends
<1>5. KnowsJobs(s)'
  <2>1. committed[s] \in Nat
    BY <1>2 DEF JobsTypeOK
  <2> QED  BY <1>2, <1>4, <2>1 DEF KnowsJobs
<1>6. \A t \in Stores : t = s
  BY DEF OneStore
<1> QED  BY <1>3, <1>5, <1>6 DEF JobsInv

(* A step that records nothing.                                            *)
LEMMA QuietKeeps ==
  ASSUME OneStore, JobsInv, NEW s \in Stores, lines' = lines, JobsTypeOK',
         jobs'[s] = jobs[s], opening'[s] # "closed" => opening[s] # "closed",
         opening'[s] = "scanned" => opening[s] = "scanned", committed' = committed,
         \A id \in Ids : work'[s][id] = "minted" => work[s][id] = "minted" \/ ~HasQueued(lines, id),
         \A id \in Ids : work'[s][id] \in {"exited", "finishing"} => ending'[s][id] \in Ends,
         kill'[s].at # "idle" => kill'[s].id \in Ids
  PROVE  JobsInv'
<1>1. QueuedOnce' /\ KnowsJobs(s)'
  BY DEF JobsInv, QueuedOnce, KnowsJobs
<1>2. \A t \in Stores : t = s
  BY DEF OneStore
<1> QED  BY <1>1, <1>2 DEF JobsInv

LEMMA DieKeeps ==
  ASSUME OneStore, JobsInv, Die
  PROVE  JobsInv'
<1>1. lines' = lines /\ JobsTypeOK /\ QueuedOnce
  BY DEF Die, JobsInv
<1>2. JobsTypeOK'
  BY <1>1, NoJobsTyped DEF Die, JobsTypeOK, WorkPlaces, idle
<1>3. ASSUME NEW s \in Stores PROVE KnowsJobs(s)'
  BY <1>3 DEF Die, KnowsJobs, idle
<1>4. QueuedOnce'
  BY <1>1 DEF QueuedOnce
<1> QED  BY <1>2, <1>3, <1>4 DEF JobsInv

LEMMA OpeningKeeps ==
  ASSUME OneStore, JobsInv, NEW s \in Stores, Opening(s)
  PROVE  JobsInv'
<1>0. JobsTypeOK /\ QueuedOnce /\ KnowsJobs(s) /\ \A t \in Stores : t = s
  BY DEF JobsInv, OneStore
<1>1. CASE Open(s)
  <2>1. scan \in JobMaps /\ \A id \in Ids : HasQueued(lines, id) => scan[id] # NoJob
    BY <1>0, ScanRemembers DEF JobsTypeOK
  <2>2. /\ lines' = lines /\ jobs' = [jobs EXCEPT ![s] = scan]
        /\ opening' = [opening EXCEPT ![s] = "scanned"]
        /\ committed' = [committed EXCEPT ![s] = Len(lines)]
        /\ UNCHANGED <<repairs, work, ending, kill>>
    BY <1>1 DEF Open, disk, calls
  <2>3. Len(lines) \in Nat
    BY <1>0 DEF JobsTypeOK
  <2> HIDE DEF scan
  <2>4. JobsTypeOK'
    BY <1>0, <2>1, <2>2, <2>3 DEF JobsTypeOK
  <2>5. jobs'[s] = scan /\ committed'[s] = Len(lines)
    BY <1>0, <2>2 DEF JobsTypeOK
  <2>6. KnowsJobs(s)'
    BY <1>0, <2>1, <2>2, <2>3, <2>5 DEF KnowsJobs
  <2>7. QueuedOnce'
    BY <1>0, <2>2 DEF QueuedOnce
  <2> QED  BY <1>0, <2>4, <2>6, <2>7 DEF JobsInv
<1>2. CASE Cut(s)
  <2>1. /\ opening[s] = "scanned" /\ lines' = SubSeq(lines, 1, committed[s])
        /\ opening' = [opening EXCEPT ![s] = "repairing"]
        /\ repairs' = [repairs EXCEPT ![s] = {id \in Ids : live(jobs[s][id])}]
        /\ UNCHANGED <<committed, jobs, work, ending, kill>>
    BY <1>2 DEF Cut, calls
  <2>2. committed[s] \in 0 .. Len(lines) /\ Len(lines) \in Nat /\ lines \in Seq(Transitions)
    BY <1>0, <2>1 DEF JobsTypeOK, KnowsJobs
  <2> DEFINE m == committed[s]
  <2>3. /\ lines' \in Seq(Transitions) /\ Len(lines') = m
        /\ \A i \in 1 .. m : lines'[i] = lines[i]
    <3>1. 1 \in 1 .. Len(lines) + 1 /\ m \in 0 .. Len(lines)
      BY <2>2
    <3> HIDE DEF m
    <3> QED  BY <2>1, <2>2, <3>1, SubSeqProperties DEF m
  <2>4. DOMAIN lines' = 1 .. m /\ DOMAIN lines = 1 .. Len(lines) /\ \A i \in 1 .. m : i \in 1 .. Len(lines)
    BY <2>2, <2>3
  <2> HIDE DEF m
  <2>5. \A id \in Ids : HasQueued(lines', id) => HasQueued(lines, id)
    BY <2>3, <2>4 DEF HasQueued
  <2>6. QueuedOnce'
    BY <1>0, <2>3, <2>4 DEF QueuedOnce
  <2>7. JobsTypeOK'
    BY <1>0, <2>1, <2>3 DEF JobsTypeOK
  <2>8. KnowsJobs(s)'
    <3>1. opening'[s] = "repairing"
      BY <1>0, <2>1 DEF JobsTypeOK
    <3> QED  BY <1>0, <2>1, <2>5, <3>1 DEF KnowsJobs
  <2> QED  BY <1>0, <2>6, <2>7, <2>8 DEF JobsInv
<1>3. CASE Opened(s)
  <2>1. JobsTypeOK'
    BY <1>0, <1>3 DEF Opened, JobsTypeOK, disk, calls
  <2>2. /\ lines' = lines /\ opening[s] = "repairing" /\ opening'[s] = "open"
        /\ UNCHANGED <<jobs, committed, work, ending, kill>>
    BY <1>0, <1>3 DEF Opened, disk, calls, JobsTypeOK
  <2> QED  BY <1>0, <2>1, <2>2, QuietKeeps DEF KnowsJobs
<1>4. ASSUME NEW id \in Ids, Close(s, id)
      PROVE  JobsInv'
  <2>1. "interrupted" \in {"start"} \cup Terminal /\ "interrupted" \in {"queue", "start"} \cup Terminal
    BY DEF Terminal
  <2>2. /\ append(s, id, "interrupted") /\ UNCHANGED <<opening, committed, work, ending, kill>>
        /\ repairs' = [repairs EXCEPT ![s] = repairs[s] \ {id}]
    BY <1>4 DEF Close, calls
  <2>3. lines' \in Seq(Transitions) /\ jobs' \in [Stores -> JobMaps]
    BY <1>0, <2>1, <2>2, Appends
  <2>4. JobsTypeOK'
    BY <1>0, <2>2, <2>3 DEF JobsTypeOK
  <2> QED  BY <2>1, <2>2, <2>4, RecordKeeps
<1> QED  BY <1>1, <1>2, <1>3, <1>4 DEF Opening

(* Where a command's task is, after it has moved.                          *)
LEMMA Moves ==
  ASSUME JobsTypeOK, NEW s \in Stores, NEW id \in Ids, NEW from, NEW to \in WorkPlaces, Move(s, id, from, to)
  PROVE  /\ work[s][id] = from /\ work' \in [Stores -> [Ids -> WorkPlaces]] /\ work'[s][id] = to
         /\ \A other \in Ids : other # id => work'[s][other] = work[s][other]
BY DEF Move, JobsTypeOK

LEMMA MintKeeps ==
  ASSUME OneStore, JobsInv, NEW s \in Stores, NEW id \in Ids, Mint(s, id)
  PROVE  JobsInv'
<1>0. JobsTypeOK /\ KnowsJobs(s) /\ "minted" \in WorkPlaces
  BY DEF JobsInv, WorkPlaces
<1>1. /\ Move(s, id, "none", "minted") /\ opening[s] = "open" /\ jobs[s][id] = NoJob
      /\ lines' = lines /\ UNCHANGED <<jobs, opening, committed, repairs, ending, kill>>
  BY DEF Mint, disk, opens
<1>2. /\ work' \in [Stores -> [Ids -> WorkPlaces]] /\ work'[s][id] = "minted"
      /\ \A other \in Ids : other # id => work'[s][other] = work[s][other]
  BY <1>0, <1>1, Moves
<1>3. JobsTypeOK'
  BY <1>0, <1>1, <1>2 DEF JobsTypeOK
<1>4. ~HasQueued(lines, id)
  BY <1>0, <1>1 DEF KnowsJobs
<1>5. \A other \in Ids : work'[s][other] = "minted" => work[s][other] = "minted" \/ ~HasQueued(lines, other)
  BY <1>2, <1>4
<1>6. \A other \in Ids : work'[s][other] \in {"exited", "finishing"} => ending'[s][other] \in Ends
  BY <1>0, <1>1, <1>2 DEF KnowsJobs
<1>7. kill'[s].at # "idle" => kill'[s].id \in Ids
  BY <1>0, <1>1 DEF KnowsJobs
<1> QED  BY <1>1, <1>3, <1>5, <1>6, <1>7, QuietKeeps

LEMMA QueueKeeps ==
  ASSUME OneStore, JobsInv, NEW s \in Stores, NEW id \in Ids, Queue(s, id)
  PROVE  JobsInv'
<1>0. JobsTypeOK /\ QueuedOnce /\ KnowsJobs(s) /\ "spawned" \in WorkPlaces /\ \A t \in Stores : t = s
  BY DEF JobsInv, WorkPlaces, OneStore
<1>1. /\ Move(s, id, "minted", "spawned") /\ append(s, id, "queue")
      /\ UNCHANGED <<opening, committed, repairs, ending, kill>>
  BY DEF Queue, opens
<1>2. /\ work[s][id] = "minted" /\ work' \in [Stores -> [Ids -> WorkPlaces]] /\ work'[s][id] = "spawned"
      /\ \A other \in Ids : other # id => work'[s][other] = work[s][other]
  BY <1>0, <1>1, Moves
<1>3. ~HasQueued(lines, id)
  BY <1>0, <1>2 DEF KnowsJobs
<1>4. /\ lines' \in Seq(Transitions) /\ jobs' \in [Stores -> JobMaps]
      /\ Len(lines') = Len(lines) + 1 /\ Len(lines) \in Nat
      /\ \A other \in Ids : jobs[s][other] # NoJob => jobs'[s][other] # NoJob
      /\ jobs'[s][id] # NoJob
      /\ \A other \in Ids : HasQueued(lines', other) <=> (HasQueued(lines, other) \/ other = id)
  BY <1>0, <1>1, Appends
<1>5. QueuedOnce'
  BY <1>0, <1>1, <1>3, AppendsOnce
<1>6. JobsTypeOK'
  BY <1>0, <1>1, <1>2, <1>4 DEF JobsTypeOK
<1>7. KnowsJobs(s)'
  <2>1. committed[s] \in Nat
    BY <1>0 DEF JobsTypeOK
  <2>2. opening'[s] # "closed" => \A other \in Ids : HasQueued(lines', other) => jobs'[s][other] # NoJob
    BY <1>0, <1>1, <1>4 DEF KnowsJobs
  <2>3. opening'[s] = "scanned" => committed'[s] <= Len(lines')
    BY <1>0, <1>1, <1>4, <2>1 DEF KnowsJobs
  <2>4. \A other \in Ids : work'[s][other] = "minted" => ~HasQueued(lines', other)
    BY <1>0, <1>2, <1>4 DEF KnowsJobs
  <2>5. \A other \in Ids : work'[s][other] \in {"exited", "finishing"} => ending'[s][other] \in Ends
    BY <1>0, <1>1, <1>2 DEF KnowsJobs
  <2> QED  BY <1>0, <1>1, <2>2, <2>3, <2>4, <2>5 DEF KnowsJobs
<1> QED  BY <1>0, <1>5, <1>6, <1>7 DEF JobsInv

(* A task moves on and records nothing.                                    *)
LEMMA TaskMoves ==
  ASSUME OneStore, JobsInv, NEW s \in Stores, NEW id \in Ids, NEW from, NEW to \in WorkPlaces \ {"minted"},
         Move(s, id, from, to), UNCHANGED <<lines, opening, committed, repairs, jobs, kill>>,
         ending' \in [Stores -> [Ids -> {"none"} \cup Ends]],
         \A other \in Ids : other # id => ending'[s][other] = ending[s][other],
         to \in {"exited", "finishing"} => ending'[s][id] \in Ends
  PROVE  JobsInv'
<1>0. JobsTypeOK /\ KnowsJobs(s)
  BY DEF JobsInv
<1>1. /\ work' \in [Stores -> [Ids -> WorkPlaces]] /\ work'[s][id] = to
      /\ \A other \in Ids : other # id => work'[s][other] = work[s][other]
  BY <1>0, Moves
<1>2. JobsTypeOK'
  BY <1>0, <1>1 DEF JobsTypeOK
<1>3. \A other \in Ids : work'[s][other] = "minted" => work[s][other] = "minted" \/ ~HasQueued(lines, other)
  BY <1>1
<1>4. \A other \in Ids : work'[s][other] \in {"exited", "finishing"} => ending'[s][other] \in Ends
  BY <1>0, <1>1 DEF KnowsJobs
<1>5. kill'[s].at # "idle" => kill'[s].id \in Ids
  BY <1>0 DEF KnowsJobs
<1> QED  BY <1>2, <1>3, <1>4, <1>5, QuietKeeps

(* A task moves on and records that its job started or ended.              *)
LEMMA TaskRecords ==
  ASSUME OneStore, JobsInv, NEW s \in Stores, NEW id \in Ids, NEW from, NEW to \in {"running", "done"},
         NEW op \in {"start"} \cup Terminal, Move(s, id, from, to), append(s, id, op),
         UNCHANGED <<opening, committed, repairs, ending, kill>>
  PROVE  JobsInv'
<1>0. JobsTypeOK /\ to \in WorkPlaces /\ op \in {"queue", "start"} \cup Terminal
  BY DEF JobsInv, WorkPlaces
<1>1. /\ work' \in [Stores -> [Ids -> WorkPlaces]] /\ work'[s][id] = to
      /\ \A other \in Ids : other # id => work'[s][other] = work[s][other]
  BY <1>0, Moves
<1>2. lines' \in Seq(Transitions) /\ jobs' \in [Stores -> JobMaps]
  BY <1>0, Appends
<1>3. JobsTypeOK'
  BY <1>0, <1>1, <1>2 DEF JobsTypeOK
<1> QED  BY <1>1, <1>3, RecordKeeps

LEMMA TaskKeeps ==
  ASSUME OneStore, JobsInv, NEW s \in Stores, NEW id \in Ids, Task(s, id)
  PROVE  JobsInv'
<1>0. JobsTypeOK /\ KnowsJobs(s) /\ ending \in [Stores -> [Ids -> {"none"} \cup Ends]]
  BY DEF JobsInv, JobsTypeOK
<1>1. CASE Start(s, id)
  <2>1. PICK to \in {"starting", "done"} : Move(s, id, "spawned", to)
    BY <1>1 DEF Start
  <2>2. to \in WorkPlaces \ {"minted"} /\ to \notin {"exited", "finishing"}
    BY DEF WorkPlaces
  <2>3. UNCHANGED <<lines, opening, committed, repairs, jobs, ending, kill>>
    BY <1>1 DEF Start, disk, opens
  <2> QED  BY <1>0, <2>1, <2>2, <2>3, TaskMoves
<1>2. CASE Started(s, id)
  <2>1. /\ Move(s, id, "starting", "running") /\ append(s, id, "start")
        /\ UNCHANGED <<opening, committed, repairs, ending, kill>>
    BY <1>2 DEF Started, opens
  <2> QED  BY <2>1, TaskRecords
<1>3. ASSUME NEW how \in Ends, CommandEnds(s, id, how)
      PROVE  JobsInv'
  <2>1. /\ Move(s, id, "running", "exited") /\ ending' = [ending EXCEPT ![s][id] = how]
        /\ UNCHANGED <<lines, opening, committed, repairs, jobs, kill>>
    BY <1>3 DEF CommandEnds, disk, opens
  <2>2. /\ ending' \in [Stores -> [Ids -> {"none"} \cup Ends]] /\ ending'[s][id] = how
        /\ \A other \in Ids : other # id => ending'[s][other] = ending[s][other]
    BY <1>0, <2>1
  <2>3. "exited" \in WorkPlaces \ {"minted"}
    BY DEF WorkPlaces
  <2> QED  BY <2>1, <2>2, <2>3, TaskMoves
<1>4. CASE Finish(s, id)
  <2>1. PICK to \in {"finishing", "done"} : Move(s, id, "exited", to)
    BY <1>4 DEF Finish
  <2>2. to \in WorkPlaces \ {"minted"}
    BY DEF WorkPlaces
  <2>3. UNCHANGED <<lines, opening, committed, repairs, jobs, ending, kill>>
    BY <1>4 DEF Finish, disk, opens
  <2>4. ending'[s][id] \in Ends
    BY <1>0, <2>1, <2>3 DEF Move, KnowsJobs
  <2> QED  BY <1>0, <2>1, <2>2, <2>3, <2>4, TaskMoves
<1>5. CASE Finished(s, id)
  <2>1. /\ Move(s, id, "finishing", "done") /\ append(s, id, ending[s][id])
        /\ UNCHANGED <<opening, committed, repairs, ending, kill>>
    BY <1>5 DEF Finished, opens
  <2>2. ending[s][id] \in Ends
    BY <1>0, <2>1 DEF Move, KnowsJobs
  <2>3. ending[s][id] \in {"start"} \cup Terminal
    BY <2>2 DEF Terminal
  <2> QED  BY <2>1, <2>3, TaskRecords
<1> QED  BY <1>1, <1>2, <1>3, <1>4, <1>5, QueueKeeps DEF Task

LEMMA KillKeeps ==
  ASSUME OneStore, JobsInv, NEW s \in Stores,
         KillFinish(s) \/ Killed(s) \/ \E id \in Ids : Kill(s, id)
  PROVE  JobsInv'
<1>0. JobsTypeOK /\ KnowsJobs(s) /\ kill \in [Stores -> [at : {"idle", "checking", "finishing"}, id : Ids \cup {0}]]
  BY DEF JobsInv, JobsTypeOK
<1>1. ASSUME UNCHANGED <<lines, opening, committed, repairs, jobs, work, ending>>,
             kill' \in [Stores -> [at : {"idle", "checking", "finishing"}, id : Ids \cup {0}]],
             kill'[s].at # "idle" => kill'[s].id \in Ids
      PROVE  JobsInv'
  <2>1. JobsTypeOK'
    BY <1>0, <1>1 DEF JobsTypeOK
  <2>2. \A id \in Ids : work'[s][id] \in {"exited", "finishing"} => ending'[s][id] \in Ends
    BY <1>0, <1>1 DEF KnowsJobs
  <2> QED  BY <1>1, <2>1, <2>2, QuietKeeps
<1>2. CASE KillFinish(s)
  <2>1. PICK k \in {[kill[s] EXCEPT !.at = "finishing"], idle} : kill' = [kill EXCEPT ![s] = k]
    BY <1>2 DEF KillFinish
  <2>2. kill[s].at = "checking" /\ kill[s].id \in Ids
    BY <1>0, <1>2 DEF KillFinish, KnowsJobs
  <2>3. k \in [at : {"idle", "checking", "finishing"}, id : Ids \cup {0}] /\ (k.at # "idle" => k.id \in Ids)
    BY <1>0, <2>2 DEF idle
  <2>4. kill' \in [Stores -> [at : {"idle", "checking", "finishing"}, id : Ids \cup {0}]] /\ kill'[s] = k
    BY <1>0, <2>1, <2>3
  <2> QED  BY <1>1, <1>2, <2>3, <2>4 DEF KillFinish, disk, opens
<1>3. CASE Killed(s)
  <2>1. /\ append(s, kill[s].id, "cancelled") /\ kill' = [kill EXCEPT ![s] = idle]
        /\ UNCHANGED <<opening, committed, repairs, work, ending>>
    BY <1>3 DEF Killed, opens
  <2>2. /\ kill[s].id \in Ids /\ "cancelled" \in {"start"} \cup Terminal
        /\ "cancelled" \in {"queue", "start"} \cup Terminal
    BY <1>0, <1>3 DEF Killed, KnowsJobs, Terminal
  <2>3. idle \in [at : {"idle", "checking", "finishing"}, id : Ids \cup {0}] /\ idle.at = "idle"
    BY DEF idle
  <2>4. lines' \in Seq(Transitions) /\ jobs' \in [Stores -> JobMaps]
    BY <1>0, <2>1, <2>2, Appends
  <2>5. JobsTypeOK' /\ kill'[s].at = "idle"
    BY <1>0, <2>1, <2>3, <2>4 DEF JobsTypeOK
  <2> QED  BY <2>1, <2>2, <2>5, RecordKeeps
<1>4. ASSUME NEW id \in Ids, Kill(s, id)
      PROVE  JobsInv'
  <2>1. /\ kill' = [kill EXCEPT ![s] = [at |-> "checking", id |-> id]]
        /\ UNCHANGED <<lines, opening, committed, repairs, jobs, work, ending>>
    BY <1>4 DEF Kill, disk, opens
  <2>2. kill' \in [Stores -> [at : {"idle", "checking", "finishing"}, id : Ids \cup {0}]] /\ kill'[s].id = id
    BY <1>0, <2>1
  <2> QED  BY <1>1, <2>1, <2>2
<1> QED  BY <1>2, <1>3, <1>4

LEMMA JobsStart == JobsInit => JobsInv
<1> SUFFICES ASSUME JobsInit PROVE JobsInv
  OBVIOUS
<1>1. JobsTypeOK
  BY NoJobsTyped DEF JobsInit, JobsTypeOK, WorkPlaces, idle
<1>2. QueuedOnce /\ \A id \in Ids : ~HasQueued(lines, id)
  BY DEF JobsInit, QueuedOnce, HasQueued
<1>3. \A s \in Stores : KnowsJobs(s)
  BY <1>2 DEF JobsInit, KnowsJobs, idle
<1> QED  BY <1>1, <1>2, <1>3 DEF JobsInv

LEMMA JobsStep == OneStore /\ JobsInv /\ [JobsNext]_jobsVars => JobsInv'
<1> SUFFICES ASSUME OneStore, JobsInv, [JobsNext]_jobsVars PROVE JobsInv'
  OBVIOUS
<1>1. CASE JobsNext
  <2>1. CASE Die
    BY <2>1, DieKeeps
  <2>2. ASSUME NEW s \in Stores, Opening(s)
        PROVE  JobsInv'
    BY <2>2, OpeningKeeps
  <2>3. ASSUME NEW s \in Stores, NEW id \in Ids, Mint(s, id) \/ Task(s, id)
        PROVE  JobsInv'
    BY <2>3, MintKeeps, TaskKeeps
  <2>4. ASSUME NEW s \in Stores, KillFinish(s) \/ Killed(s) \/ \E id \in Ids : Kill(s, id)
        PROVE  JobsInv'
    BY <2>4, KillKeeps
  <2> QED  BY <1>1, <2>1, <2>2, <2>3, <2>4 DEF JobsNext
<1>2. CASE UNCHANGED jobsVars
  BY <1>2 DEF jobsVars, JobsInv, JobsTypeOK, QueuedOnce, KnowsJobs
<1> QED  BY <1>1, <1>2

(* A number names one job for good: with one store on the file no two      *)
(* commands, of one process or of a later one, are recorded under one id,  *)
(* whatever was torn off the file between them (jobs.rs, mint and open).   *)
THEOREM NumbersNameOneJob == OneStore => (JobsSpec => []QueuedOnce)
<1> SUFFICES ASSUME OneStore PROVE JobsSpec => []QueuedOnce
  OBVIOUS
<1>1. JobsInv => QueuedOnce
  BY DEF JobsInv
<1>2. JobsInv /\ [JobsNext]_jobsVars => JobsInv'
  BY JobsStep
<1> QED  BY <1>1, <1>2, JobsStart, PTL DEF JobsSpec

-----------------------------------------------------------------------------
(***************************************************************************)
(* One MCP server at a time, and nobody who calls it is forgotten or told  *)
(* another's answer: for any callers, menus, launches and notices.         *)
(***************************************************************************)
Whats == Tools \cup {"none", "initialize", "initialized", "list", "close"}
Replies == [got : {"none", "ok", "fault", "timeout"}, to : Whats, tools : SUBSET Tools]
Orders == [kind : {"call", "notify", "close", "cancel"}, id : Nat, by : Tasks, what : Whats]
Lines == [kind : {"answer"}, id : Nat, reply : Replies]
           \cup [kind : {"changed", "other", "garbage"}]
Links == [driver : {"none", "open", "stopping", "gone"}, commands : Seq(Orders),
          pending : SUBSET Nat, lines : Seq(Lines), asked : SUBSET [id : Nat, what : Whats],
          up : BOOLEAN, serves : SUBSET Tools, next : Nat]
Asks == [at : {"idle", "picked", "waiting"}, c : Nat, id : Nat, what : Whats, reply : Replies]

Waiting(t) == call[t].at = "waiting"
Unanswered(t) == Waiting(t) /\ call[t].reply = NoReply

(* A number goes to one request of a connection.                           *)
McpNumbered(c) ==
  LET k == conn[c] IN
  /\ \A i \in DOMAIN k.commands : k.commands[i].id < k.next
       /\ (k.commands[i].kind = "close" => k.commands[i].what = "close")
  /\ \A p \in k.pending : p < k.next
  /\ \A r \in k.asked : r.id < k.next
  /\ \A i \in DOMAIN k.lines : k.lines[i].kind = "answer" =>
       k.lines[i].id < k.next /\ k.lines[i].reply.got \in {"ok", "fault"}

(* All there is under the number of a request is of that request, and it   *)
(* is withdrawn only when its caller has been told.                        *)
OfItsOwn(t) ==
  LET k == conn[call[t].c] IN
  /\ call[t].id < k.next
  /\ \A i \in DOMAIN k.commands : k.commands[i].id = call[t].id =>
       /\ k.commands[i].what = call[t].what
       /\ k.commands[i].kind = "cancel" => call[t].reply # NoReply
  /\ \A r \in k.asked : r.id = call[t].id => r.what = call[t].what
  /\ \A i \in DOMAIN k.lines : k.lines[i].kind = "answer" /\ k.lines[i].id = call[t].id =>
       k.lines[i].reply.to = call[t].what

(* What an answer may still come from.                                     *)
CoveredBy(k, id, what) ==
  \/ \E i \in DOMAIN k.commands : k.commands[i].id = id
  \/ k.driver = "open" /\ id \in k.pending
  \/ k.driver = "stopping" /\ what = "close"

Distinct ==
  \A t, u \in Tasks :
    Waiting(t) /\ Waiting(u) /\ call[t].c = call[u].c /\ call[t].id = call[u].id => t = u

WireTyped == /\ conn \in [Conns -> Links] /\ call \in [Tasks -> Asks]
             /\ count.launches \in 0 .. MaxLaunches

Wire ==
  /\ WireTyped
  /\ \A c \in Conns : McpNumbered(c)
  /\ OwnAnswer
  /\ \A c \in Conns : c > count.launches => conn[c].next = 1
  /\ \A t \in Tasks : call[t].at # "idle" => call[t].c \in 1 .. count.launches
  /\ \A t \in Tasks : Waiting(t) => OfItsOwn(t)
  /\ \A t \in Tasks : Unanswered(t) => CoveredBy(conn[call[t].c], call[t].id, call[t].what)
  /\ Distinct

(* A server that is being stopped has left before its stopper is told.     *)
Closes ==
  watch.at = "closing" =>
    /\ Waiting(Watch) /\ call[Watch].c = watch.c /\ call[Watch].what = "close"
    /\ \A i \in DOMAIN conn[watch.c].commands :
         conn[watch.c].commands[i].id = call[Watch].id
           => conn[watch.c].commands[i].kind \notin {"call", "notify"}
    /\ call[Watch].id \notin conn[watch.c].pending
    /\ call[Watch].reply # NoReply => ~Live(watch.c)

WatchPlaces == {"launch", "handshake", "initialized", "discover", "closing", "adopted", "serving",
                "relisting", "lost", "retry", "waiting", "ended"}
Connected == {"handshake", "initialized", "discover", "closing", "adopted", "serving", "relisting"}

SupervisorTyped ==
  /\ watch \in [at : WatchPlaces, c : Nat, budget : Nat, first : BOOLEAN, enabled : BOOLEAN]
  /\ state \in [client : Nat, tools : SUBSET Tools,
                health : {"Up", "Reconnecting", "GaveUp", "Stopped"}]
  /\ shut \in [at : {"no", "flagged", "closing", "done"}, c : Nat]
  /\ count \in [launches : Nat, stable : Nat, spoken : Nat, expired : Nat]

Handles ==
  /\ state.client \in 0 .. count.launches
  /\ state.health = "Up" => state.client # 0
  /\ watch.c \in 0 .. count.launches
  /\ watch.at \in Connected => watch.c # 0

(* Nothing is launched while a connection is driven, and a connection that *)
(* was left alive was left by a supervisor that is stopped.                *)
OnlyWatched ==
  /\ \A c \in Conns : Live(c) => c = watch.c
  /\ watch.at \in {"launch", "retry", "waiting"} => \A c \in Conns : ~Live(c)
  /\ watch.at = "lost" /\ ~stopped => \A c \in Conns : ~Live(c)
  /\ woken => stopped

McpInv == Wire /\ SupervisorTyped /\ Handles /\ OnlyWatched /\ Closes

-----------------------------------------------------------------------------
(* Queues. *)

LEMMA TailOf ==
  ASSUME NEW S, NEW s \in Seq(S), s # <<>>
  PROVE  /\ Tail(s) \in Seq(S) /\ Head(s) = s[1] /\ 1 \in DOMAIN s /\ s[1] \in S
         /\ \A i \in DOMAIN Tail(s) : i + 1 \in DOMAIN s /\ Tail(s)[i] = s[i + 1]
         /\ \A j \in DOMAIN s : j = 1 \/ (j - 1 \in DOMAIN Tail(s) /\ Tail(s)[j - 1] = s[j])
OBVIOUS

LEMMA AppendOf ==
  ASSUME NEW S, NEW s \in Seq(S), NEW e \in S
  PROVE  /\ Append(s, e) \in Seq(S)
         /\ \A i \in DOMAIN Append(s, e) : (i \in DOMAIN s /\ Append(s, e)[i] = s[i])
                                           \/ Append(s, e)[i] = e
         /\ \A i \in DOMAIN s : i \in DOMAIN Append(s, e) /\ Append(s, e)[i] = s[i]
         /\ Len(s) + 1 \in DOMAIN Append(s, e) /\ Append(s, e)[Len(s) + 1] = e
OBVIOUS

-----------------------------------------------------------------------------
(* The driver and the server: they bring no request of their own. *)

(* What a link has come to without a new request.                          *)
Narrows(old, k) ==
  /\ k.next = old.next
  /\ \A i \in DOMAIN k.commands : \E j \in DOMAIN old.commands : k.commands[i] = old.commands[j]
  /\ \A p \in k.pending : \/ p \in old.pending
                          \/ \E j \in DOMAIN old.commands : old.commands[j].id = p /\ old.commands[j].kind = "call"
  /\ \A r \in k.asked : \/ r \in old.asked
                        \/ \E j \in DOMAIN old.commands : old.commands[j].id = r.id
                                                          /\ old.commands[j].what = r.what
  /\ \A i \in DOMAIN k.lines : k.lines[i].kind = "answer" =>
       \/ \E j \in DOMAIN old.lines : k.lines[i] = old.lines[j]
       \/ k.lines[i].reply.got \in {"ok", "fault"}
          /\ \E r \in old.asked : r.id = k.lines[i].id /\ r.what = k.lines[i].reply.to
  /\ k.driver = "open" => old.driver = "open"

(* Callers may be told, once.                                              *)
Tells ==
  /\ call' \in [Tasks -> Asks]
  /\ \A t \in Tasks :
       /\ call'[t].at = call[t].at /\ call'[t].c = call[t].c /\ call'[t].id = call[t].id
       /\ call'[t].what = call[t].what
       /\ \/ call'[t].reply = call[t].reply
          \/ call'[t].reply # NoReply /\ (call'[t].reply.got = "ok" => call'[t].reply.to = call[t].what)

LEMMA NarrowNumbered ==
  ASSUME NEW old \in Links, NEW k \in Links, Narrows(old, k),
         NEW c \in Conns, conn \in [Conns -> Links], conn[c] = old, McpNumbered(c)
  PROVE  /\ \A i \in DOMAIN k.commands : k.commands[i].id < k.next
              /\ (k.commands[i].kind = "close" => k.commands[i].what = "close")
         /\ \A p \in k.pending : p < k.next
         /\ \A r \in k.asked : r.id < k.next
         /\ \A i \in DOMAIN k.lines : k.lines[i].kind = "answer" =>
              k.lines[i].id < k.next /\ k.lines[i].reply.got \in {"ok", "fault"}
BY DEF Narrows, McpNumbered

-----------------------------------------------------------------------------
LEMMA AskedOfOne ==
  ASSUME Wire, NEW t \in Tasks, call[t].at # "idle"
  PROVE  call[t].c \in Conns
<1>1. call[t].c \in 1 .. count.launches /\ count.launches \in 0 .. MaxLaunches
  BY DEF Wire, WireTyped
<1>2. MaxLaunches \in Nat
  BY McpAssumption
<1> QED  BY <1>1, <1>2 DEF Conns

LEMMA DriveWire ==
  ASSUME Wire, NEW c \in Conns, NEW k \in Links, Narrows(conn[c], k), conn' = [conn EXCEPT ![c] = k],
         Tells, count'.launches = count.launches,
         \A t \in Tasks : Waiting(t) /\ call[t].c = c /\ call'[t].reply = NoReply
                            => CoveredBy(k, call[t].id, call[t].what),
         Handles, Closes, watch' = watch,
         watch.at = "closing" /\ call'[Watch].reply # call[Watch].reply
           => watch.c = c /\ k.driver # "open"
  PROVE  Wire' /\ Closes' /\ \A d \in Conns : Live(d)' => Live(d)
<1>0. conn \in [Conns -> Links] /\ call \in [Tasks -> Asks] /\ conn[c] \in Links
  BY DEF Wire, WireTyped
<1>1. /\ conn' \in [Conns -> Links] /\ conn'[c] = k
      /\ \A d \in Conns : d # c => conn'[d] = conn[d]
  BY <1>0
<1>2. WireTyped'
  BY <1>1 DEF Wire, WireTyped, Tells
<1>3. ASSUME NEW d \in Conns PROVE McpNumbered(d)'
  <2>1. CASE d = c
    <3>1. McpNumbered(c)
      BY DEF Wire
    <3> QED  BY <1>0, <1>1, <2>1, <3>1, NarrowNumbered DEF McpNumbered
  <2>2. CASE d # c
    BY <1>1, <2>2 DEF Wire, McpNumbered
  <2> QED  BY <2>1, <2>2
<1>4. OwnAnswer'
  BY DEF Wire, OwnAnswer, Tells
<1>5. \A t \in Tasks : call'[t].at # "idle" => call'[t].c \in 1 .. count'.launches
  BY DEF Wire, Tells
<1>9. \A d \in Conns : d > count'.launches => conn'[d].next = 1
  BY <1>1 DEF Wire, Narrows
<1>6. ASSUME NEW t \in Tasks, Waiting(t)' PROVE OfItsOwn(t)'
  <2>1. Waiting(t) /\ OfItsOwn(t) /\ call[t].c \in Conns
    <3>1. Waiting(t)
      BY <1>6 DEF Tells, Waiting
    <3>2. call[t].at # "idle"
      BY <3>1 DEF Waiting
    <3> QED  BY <3>1, <3>2, AskedOfOne DEF Wire
  <2>2. /\ call'[t].c = call[t].c /\ call'[t].id = call[t].id /\ call'[t].what = call[t].what
        /\ call[t].reply # NoReply => call'[t].reply # NoReply
    BY DEF Tells
  <2>3. CASE call[t].c # c
    BY <1>1, <2>1, <2>2, <2>3 DEF OfItsOwn
  <2>4. CASE call[t].c = c
    <3> DEFINE old == conn[c]
    <3>1. /\ call[t].id < old.next
          /\ \A i \in DOMAIN old.commands : old.commands[i].id = call[t].id =>
               /\ old.commands[i].what = call[t].what
               /\ old.commands[i].kind = "cancel" => call[t].reply # NoReply
          /\ \A r \in old.asked : r.id = call[t].id => r.what = call[t].what
          /\ \A i \in DOMAIN old.lines : old.lines[i].kind = "answer" /\ old.lines[i].id = call[t].id =>
               old.lines[i].reply.to = call[t].what
      BY <2>1, <2>4 DEF OfItsOwn
    <3>2. /\ call[t].id < k.next
          /\ \A i \in DOMAIN k.commands : k.commands[i].id = call[t].id =>
               /\ k.commands[i].what = call[t].what
               /\ k.commands[i].kind = "cancel" => call[t].reply # NoReply
      BY <3>1 DEF Narrows
    <3>3. \A r \in k.asked : r.id = call[t].id => r.what = call[t].what
      BY <3>1 DEF Narrows
    <3>4. \A i \in DOMAIN k.lines : k.lines[i].kind = "answer" /\ k.lines[i].id = call[t].id =>
            k.lines[i].reply.to = call[t].what
      BY <3>1 DEF Narrows
    <3> QED  BY <1>1, <2>2, <2>4, <3>2, <3>3, <3>4 DEF OfItsOwn
  <2> QED  BY <2>3, <2>4
<1>7. ASSUME NEW t \in Tasks, Unanswered(t)'
      PROVE  CoveredBy(conn[call[t].c], call[t].id, call[t].what)'
  <2>1. /\ call'[t].c = call[t].c /\ call'[t].id = call[t].id /\ call'[t].what = call[t].what
        /\ Waiting(t) /\ Unanswered(t) /\ call'[t].reply = NoReply
    BY <1>7 DEF Tells, Unanswered, Waiting
  <2>2. CASE call[t].c = c
    BY <1>1, <2>1, <2>2 DEF CoveredBy
  <2>3. CASE call[t].c # c
    <3>1. call[t].c \in Conns /\ CoveredBy(conn[call[t].c], call[t].id, call[t].what)
      <4>1. call[t].at # "idle"
        BY <2>1 DEF Waiting
      <4> QED  BY <2>1, <4>1, AskedOfOne DEF Wire
    <3> QED  BY <1>1, <2>1, <2>3, <3>1 DEF CoveredBy
  <2> QED  BY <2>2, <2>3
<1>8. Distinct'
  BY DEF Wire, Distinct, Tells, Waiting
<1>10. \A d \in Conns : Live(d)' => Live(d)
  BY <1>1 DEF Live, Narrows
<1>11. Closes'
  <2>1. SUFFICES ASSUME watch.at = "closing"
                 PROVE  /\ Waiting(Watch)' /\ call'[Watch].c = watch.c /\ call'[Watch].what = "close"
                        /\ \A i \in DOMAIN conn'[watch.c].commands :
                             conn'[watch.c].commands[i].id = call'[Watch].id
                               => conn'[watch.c].commands[i].kind \notin {"call", "notify"}
                        /\ call'[Watch].id \notin conn'[watch.c].pending
                        /\ call'[Watch].reply # NoReply => ~Live(watch.c)'
    BY DEF Closes
  <2>2. /\ Waiting(Watch) /\ call[Watch].c = watch.c /\ call[Watch].what = "close"
        /\ \A i \in DOMAIN conn[watch.c].commands :
             conn[watch.c].commands[i].id = call[Watch].id
               => conn[watch.c].commands[i].kind \notin {"call", "notify"}
        /\ call[Watch].id \notin conn[watch.c].pending
        /\ call[Watch].reply # NoReply => ~Live(watch.c)
    BY <2>1 DEF Closes
  <2>3. Watch \in Tasks
    BY DEF Tasks
  <2>4. /\ call'[Watch].at = call[Watch].at /\ call'[Watch].c = call[Watch].c
        /\ call'[Watch].id = call[Watch].id /\ call'[Watch].what = call[Watch].what
    BY <2>3 DEF Tells
  <2>5. watch.c \in Conns
    <3>1. call[Watch].at # "idle"
      BY <2>2 DEF Waiting
    <3> QED  BY <2>2, <2>3, <3>1, AskedOfOne
  <2>6. /\ \A i \in DOMAIN conn'[watch.c].commands :
             conn'[watch.c].commands[i].id = call[Watch].id
               => conn'[watch.c].commands[i].kind \notin {"call", "notify"}
        /\ call[Watch].id \notin conn'[watch.c].pending
    <3>1. CASE watch.c = c
      <4>1. conn'[watch.c] = k /\ conn[watch.c] = conn[c]
        BY <1>1, <3>1
      <4> QED  BY <2>2, <4>1 DEF Narrows
    <3>2. CASE watch.c # c
      <4>1. conn'[watch.c] = conn[watch.c]
        BY <1>1, <2>5, <3>2
      <4> QED  BY <2>2, <4>1
    <3> QED  BY <3>1, <3>2
  <2>7. call'[Watch].reply # NoReply => ~Live(watch.c)'
    <3>1. CASE call'[Watch].reply = call[Watch].reply
      <4>1. call[Watch].reply # NoReply => ~Live(watch.c)
        BY <2>2
      <4>2. Live(watch.c)' => Live(watch.c)
        BY <1>10, <2>5 DEF Live
      <4> QED  BY <3>1, <4>1, <4>2
    <3>2. CASE call'[Watch].reply # call[Watch].reply
      <4>1. conn'[watch.c] = k /\ k.driver # "open"
        BY <1>1, <2>1, <3>2
      <4> QED  BY <4>1 DEF Live
    <3> QED  BY <3>1, <3>2
  <2> QED  BY <2>2, <2>4, <2>6, <2>7 DEF Waiting
<1> QED  BY <1>2, <1>3, <1>4, <1>5, <1>6, <1>7, <1>8, <1>9, <1>10, <1>11 DEF Wire

LEMMA ToldTells ==
  ASSUME Wire, NEW c \in Conns, NEW ids, NEW reply \in Replies, reply # NoReply,
         call' = Told(c, ids, reply),
         \A t \in Tasks : AwaitsOneOf(t, c, ids) /\ reply.got = "ok" => reply.to = call[t].what
  PROVE  /\ Tells
         /\ \A t \in Tasks : AwaitsOneOf(t, c, ids) => call'[t].reply # NoReply
         /\ \A t \in Tasks : call'[t].reply # call[t].reply => AwaitsOneOf(t, c, ids)
<1>0. call \in [Tasks -> Asks]
  BY DEF Wire, WireTyped
<1>1. ASSUME NEW t \in Tasks
      PROVE  /\ call'[t] \in Asks
             /\ call'[t].at = call[t].at /\ call'[t].c = call[t].c /\ call'[t].id = call[t].id
             /\ call'[t].what = call[t].what
             /\ call'[t].reply = IF AwaitsOneOf(t, c, ids) /\ call[t].reply = NoReply
                                 THEN reply ELSE call[t].reply
  <2>1. CASE AwaitsOneOf(t, c, ids) /\ call[t].reply = NoReply
    <3>1. call'[t] = [call[t] EXCEPT !.reply = reply]
      BY <2>1 DEF Told
    <3> QED  BY <1>0, <2>1, <3>1 DEF Asks
  <2>2. CASE ~(AwaitsOneOf(t, c, ids) /\ call[t].reply = NoReply)
    <3>1. call'[t] = call[t]
      BY <2>2 DEF Told
    <3> QED  BY <1>0, <2>2, <3>1
  <2> QED  BY <2>1, <2>2
<1>2. call' \in [Tasks -> Asks]
  BY <1>1 DEF Told
<1>3. Tells
  BY <1>1, <1>2 DEF Tells
<1> QED  BY <1>1, <1>3

LEMMA FaultReply == Fault = [got |-> "fault", to |-> "none", tools |-> {}] /\ Fault \in Replies
                    /\ Fault # NoReply
BY DEF Fault, NoReply, Replies, Whats

(* Those still in the queue of a link that is left are told when it is     *)
(* gone, and all others as it is left.                                     *)
LEMMA LeaveWire ==
  ASSUME Wire, NEW c \in Conns, NEW k \in Links, NEW cn \in [Conns -> Links], cn[c] = k,
         \A d \in Conns : d # c => cn[d] = conn[d], NEW ids, Narrows(conn[c], k), Leave(c, cn, ids), count'.launches = count.launches,
         \A t \in Tasks : Unanswered(t) /\ call[t].c = c =>
            \/ call[t].id \in k.pending \cup ids
            \/ \E i \in DOMAIN k.commands : k.commands[i].id = call[t].id
            \/ call[t].what = "close",
         Handles, Closes, watch' = watch
  PROVE  Wire' /\ Closes' /\ \A d \in Conns : Live(d)' => Live(d)
<1> DEFINE z == [driver |-> "stopping", commands |-> k.commands, pending |-> {}, lines |-> <<>>,
                 asked |-> {}, up |-> k.up, serves |-> {}, next |-> k.next]
<1>0. conn \in [Conns -> Links] /\ conn[c] \in Links /\ cn[c] = k
  BY DEF Wire, WireTyped
<1>1. conn' = [conn EXCEPT ![c] = z]
  <2>1. [Unlaunched EXCEPT !.driver = "stopping", !.up = k.up, !.commands = k.commands,
                           !.next = k.next] = z
    <3> DEFINE u == [driver |-> "none", commands |-> <<>>, pending |-> {}, lines |-> <<>>,
                     asked |-> {}, up |-> FALSE, serves |-> {}, next |-> 1]
               w == [u EXCEPT !.driver = "stopping", !.up = k.up, !.commands = k.commands, !.next = k.next]
    <3>1. Unlaunched = u
      BY DEF Unlaunched
    <3>2. DOMAIN w = DOMAIN z
      OBVIOUS
    <3>3. w.driver = z.driver /\ w.commands = z.commands /\ w.pending = z.pending /\ w.lines = z.lines
      OBVIOUS
    <3>4. w.asked = z.asked /\ w.up = z.up /\ w.serves = z.serves /\ w.next = z.next
      OBVIOUS
    <3>5. \A f \in DOMAIN z : w[f] = z[f]
      BY <3>3, <3>4
    <3>6. w = z
      BY <3>2, <3>5
    <3> QED  BY <3>1, <3>6
  <2>2. conn' = [cn EXCEPT ![c] = z]
    BY <1>0, <2>1 DEF Leave, Deaf
  <2> HIDE DEF z
  <2> QED  BY <1>0, <2>2
<1>2. z \in Links
  BY DEF Links
<1>3. Narrows(conn[c], z)
  BY DEF Narrows
<1>4. call' = Told(c, k.pending \cup ids, Fault)
  BY <1>0 DEF Leave
<1>5. /\ Tells
      /\ \A t \in Tasks : AwaitsOneOf(t, c, k.pending \cup ids) => call'[t].reply # NoReply
      /\ \A t \in Tasks : call'[t].reply # call[t].reply => call[t].c = c
  <2> DEFINE told == k.pending \cup ids
  <2>1. Fault.got # "ok"
    BY FaultReply
  <2>2. call' = Told(c, told, Fault)
    BY <1>4
  <2> HIDE DEF told
  <2>3. /\ Tells
        /\ \A t \in Tasks : AwaitsOneOf(t, c, told) => call'[t].reply # NoReply
        /\ \A t \in Tasks : call'[t].reply # call[t].reply => AwaitsOneOf(t, c, told)
    BY <2>1, <2>2, FaultReply, ToldTells
  <2> QED  BY <2>3 DEF told, AwaitsOneOf
<1>6. ASSUME NEW t \in Tasks, Waiting(t), call[t].c = c, call'[t].reply = NoReply
      PROVE  CoveredBy(z, call[t].id, call[t].what)
  <2>1. Unanswered(t)
    BY <1>5, <1>6 DEF Tells, Unanswered
  <2>2. call[t].id \notin k.pending \cup ids
    BY <1>5, <1>6 DEF AwaitsOneOf, Waiting
  <2>3. (\E i \in DOMAIN k.commands : k.commands[i].id = call[t].id) \/ call[t].what = "close"
    BY <1>6, <2>1, <2>2
  <2> QED  BY <2>3 DEF CoveredBy
<1>7. watch.at = "closing" /\ call'[Watch].reply # call[Watch].reply
        => watch.c = c /\ z.driver # "open"
  <2>1. Watch \in Tasks
    BY DEF Tasks
  <2> QED  BY <1>5, <2>1 DEF Closes
<1> HIDE DEF z
<1> QED  BY <1>1, <1>2, <1>3, <1>5, <1>6, <1>7, DriveWire

-----------------------------------------------------------------------------
(* What the driver takes from its queue. *)

LEMMA CommandWire ==
  ASSUME Wire, Handles, Closes, NEW c \in Conns, Command(c)
  PROVE  Wire' /\ Closes' /\ \A d \in Conns : Live(d)' => Live(d)
<1> DEFINE q == conn[c].commands
           cmd == Head(q)
           took == [conn[c] EXCEPT !.commands = Tail(q)]
<1>0. /\ conn \in [Conns -> Links] /\ conn[c] \in Links /\ q \in Seq(Orders) /\ q # <<>>
      /\ Live(c) /\ call \in [Tasks -> Asks]
  BY DEF Wire, WireTyped, Links, Command
<1>1. /\ Tail(q) \in Seq(Orders) /\ cmd = q[1] /\ 1 \in DOMAIN q /\ cmd \in Orders
      /\ \A i \in DOMAIN Tail(q) : i + 1 \in DOMAIN q /\ Tail(q)[i] = q[i + 1]
      /\ \A j \in DOMAIN q : j = 1 \/ (j - 1 \in DOMAIN Tail(q) /\ Tail(q)[j - 1] = q[j])
  <2> HIDE DEF q
  <2> QED  BY <1>0, TailOf
<1>2. took \in Links /\ took.commands = Tail(q) /\ took.pending = conn[c].pending
      /\ took.asked = conn[c].asked /\ took.lines = conn[c].lines /\ took.next = conn[c].next
      /\ took.driver = conn[c].driver /\ Took(c) = [conn EXCEPT ![c] = took]
  BY <1>0, <1>1 DEF Links, Took
<1>3. Narrows(conn[c], took)
  <2> HIDE DEF took
  <2> QED  BY <1>1, <1>2 DEF Narrows
<1>4. McpNumbered(c) /\ count'.launches = count.launches /\ watch' = watch
  BY DEF Wire, Command
<1>5. \A t \in Tasks : Waiting(t) => OfItsOwn(t)
  BY DEF Wire
<1>6. ASSUME NEW t \in Tasks, Unanswered(t), call[t].c = c
      PROVE  \/ call[t].id \in conn[c].pending
             \/ call[t].id = cmd.id
             \/ \E i \in DOMAIN Tail(q) : Tail(q)[i].id = call[t].id
  <2>1. CoveredBy(conn[c], call[t].id, call[t].what)
    BY <1>6 DEF Wire
  <2>2. (\E i \in DOMAIN q : q[i].id = call[t].id) \/ call[t].id \in conn[c].pending
    BY <1>0, <2>1 DEF CoveredBy, Live
  <2> QED  BY <1>1, <2>2
<1>7. ASSUME NEW t \in Tasks, Unanswered(t), call[t].c = c, call[t].id = cmd.id
      PROVE  cmd.what = call[t].what /\ cmd.kind # "cancel"
  BY <1>0, <1>1, <1>5, <1>7 DEF OfItsOwn, Unanswered
<1>8. cmd.id \in Nat /\ cmd.what \in Whats /\ cmd.kind \in {"call", "notify", "close", "cancel"}
      /\ (cmd.kind = "close" => cmd.what = "close")
  BY <1>1, <1>4 DEF Orders, McpNumbered
<1>9. CASE cmd.kind = "close" /\ Leave(c, Took(c), {})
  <2> DEFINE ids == {}
             cn == Took(c)
  <2>1. \A t \in Tasks : Unanswered(t) /\ call[t].c = c =>
            \/ call[t].id \in took.pending \cup ids
            \/ \E i \in DOMAIN took.commands : took.commands[i].id = call[t].id
            \/ call[t].what = "close"
    BY <1>2, <1>6, <1>7, <1>8, <1>9
  <2>2. /\ Leave(c, cn, ids) /\ cn \in [Conns -> Links] /\ cn[c] = took
        /\ \A d \in Conns : d # c => cn[d] = conn[d]
    BY <1>0, <1>2, <1>9
  <2> HIDE DEF took, cmd, q, ids, cn
  <2> QED  BY <1>2, <1>3, <1>4, <2>1, <2>2, LeaveWire
<1>10. CASE cmd.kind \in {"call", "notify"} /\ ~conn[c].up /\ Leave(c, Took(c), {cmd.id})
  <2> DEFINE ids == {cmd.id}
             cn == Took(c)
  <2>1. \A t \in Tasks : Unanswered(t) /\ call[t].c = c =>
            \/ call[t].id \in took.pending \cup ids
            \/ \E i \in DOMAIN took.commands : took.commands[i].id = call[t].id
            \/ call[t].what = "close"
    BY <1>2, <1>6
  <2>2. /\ Leave(c, cn, ids) /\ cn \in [Conns -> Links] /\ cn[c] = took
        /\ \A d \in Conns : d # c => cn[d] = conn[d]
    BY <1>0, <1>2, <1>10
  <2> HIDE DEF took, cmd, q, ids, cn
  <2> QED  BY <1>2, <1>3, <1>4, <2>1, <2>2, LeaveWire
<1>11. CASE /\ cmd.kind = "call" /\ conn[c].up
            /\ conn' = [Took(c) EXCEPT ![c].pending = @ \cup {cmd.id},
                          ![c].asked = @ \cup {[id |-> cmd.id, what |-> cmd.what]}]
            /\ UNCHANGED call
  <2> DEFINE k == [took EXCEPT !.pending = @ \cup {cmd.id},
                               !.asked = @ \cup {[id |-> cmd.id, what |-> cmd.what]}]
  <2>1. /\ k \in Links /\ k.commands = Tail(q) /\ k.pending = conn[c].pending \cup {cmd.id}
        /\ k.asked = conn[c].asked \cup {[id |-> cmd.id, what |-> cmd.what]}
        /\ k.lines = conn[c].lines /\ k.next = conn[c].next /\ k.driver = conn[c].driver
    <3>1. [id |-> cmd.id, what |-> cmd.what] \in [id : Nat, what : Whats]
      BY <1>8
    <3> DEFINE r == [id |-> cmd.id, what |-> cmd.what]
               asks == [id : Nat, what : Whats]
    <3>2. conn[c].asked \cup {r} \in SUBSET asks /\ conn[c].pending \cup {cmd.id} \in SUBSET Nat
      BY <1>0, <1>8, <3>1 DEF Links
    <3> HIDE DEF took, cmd, q, r
    <3> QED  BY <1>2, <3>2 DEF Links, r
  <2>2. conn' = [conn EXCEPT ![c] = k]
    <3> HIDE DEF took, cmd, q
    <3> QED  BY <1>0, <1>2, <1>11
  <2>3. Narrows(conn[c], k)
    <3> HIDE DEF k, cmd, took
    <3> QED  BY <1>1, <1>11, <2>1 DEF Narrows
  <2>4. Tells
    BY <1>0, <1>11 DEF Wire, OwnAnswer, Tells
  <2>5. \A t \in Tasks : Waiting(t) /\ call[t].c = c /\ call'[t].reply = NoReply
                            => CoveredBy(k, call[t].id, call[t].what)
    <3> HIDE DEF k, cmd, took
    <3> QED  BY <1>0, <1>6, <1>11, <2>1 DEF CoveredBy, Live, Unanswered
  <2>6. call' = call
    BY <1>11
  <2> HIDE DEF k, cmd, took, q
  <2> QED  BY <1>4, <2>1, <2>2, <2>3, <2>4, <2>5, <2>6, DriveWire
<1>12. CASE /\ cmd.kind = "notify" /\ conn[c].up
            /\ conn' = Took(c)
            /\ call' = Told(c, {cmd.id}, [NoReply EXCEPT !.got = "ok", !.to = cmd.what])
  <2> DEFINE reply == [NoReply EXCEPT !.got = "ok", !.to = cmd.what]
  <2>1. reply \in Replies /\ reply # NoReply /\ reply.to = cmd.what
    <3> HIDE DEF cmd
    <3> QED  BY <1>8 DEF NoReply, Replies
  <2>2. \A t \in Tasks : AwaitsOneOf(t, c, {cmd.id}) => cmd.what = call[t].what
    BY <1>0, <1>1, <1>5 DEF AwaitsOneOf, Waiting, OfItsOwn
  <2>3. /\ Tells
        /\ \A t \in Tasks : AwaitsOneOf(t, c, {cmd.id}) => call'[t].reply # NoReply
        /\ \A t \in Tasks : call'[t].reply # call[t].reply => AwaitsOneOf(t, c, {cmd.id})
    <3> DEFINE ids == {cmd.id}
    <3>1. /\ call' = Told(c, ids, reply)
          /\ \A t \in Tasks : AwaitsOneOf(t, c, ids) /\ reply.got = "ok" => reply.to = call[t].what
      BY <1>12, <2>1, <2>2
    <3> HIDE DEF reply, ids
    <3>2. /\ Tells
          /\ \A t \in Tasks : AwaitsOneOf(t, c, ids) => call'[t].reply # NoReply
          /\ \A t \in Tasks : call'[t].reply # call[t].reply => AwaitsOneOf(t, c, ids)
      BY <2>1, <3>1, ToldTells
    <3> QED  BY <3>2 DEF ids
  <2>4. \A t \in Tasks : Waiting(t) /\ call[t].c = c /\ call'[t].reply = NoReply
                            => CoveredBy(took, call[t].id, call[t].what)
    <3>1. SUFFICES ASSUME NEW t \in Tasks, Waiting(t), call[t].c = c, call'[t].reply = NoReply
                   PROVE  CoveredBy(took, call[t].id, call[t].what)
      OBVIOUS
    <3>2. Unanswered(t) /\ call[t].id # cmd.id
      BY <2>3, <3>1 DEF Tells, Unanswered, AwaitsOneOf, Waiting
    <3> HIDE DEF cmd, took
    <3> QED  BY <1>0, <1>2, <1>6, <3>1, <3>2 DEF CoveredBy, Live
  <2>5. ~(watch.at = "closing" /\ call'[Watch].reply # call[Watch].reply)
    <3>1. Watch \in Tasks
      BY DEF Tasks
    <3> SUFFICES ASSUME watch.at = "closing", AwaitsOneOf(Watch, c, {cmd.id})
                 PROVE  FALSE
      BY <2>3, <3>1
    <3>2. call[Watch].c = c /\ call[Watch].id = cmd.id
      BY DEF AwaitsOneOf
    <3>3. watch.c = c /\ \A i \in DOMAIN q : q[i].id = cmd.id => q[i].kind \notin {"call", "notify"}
      BY <3>2 DEF Closes
    <3> HIDE DEF cmd, q
    <3> QED  BY <1>1, <1>12, <3>3
  <2>6. conn' = Took(c)
    BY <1>12
  <2> HIDE DEF cmd, took, q
  <2> QED  BY <1>2, <1>3, <1>4, <2>3, <2>4, <2>5, <2>6, DriveWire
<1>13. CASE /\ cmd.kind = "cancel"
            /\ LET forgot == [Took(c) EXCEPT ![c].pending = @ \ {cmd.id}]
               IN  IF conn[c].up THEN conn' = forgot /\ UNCHANGED call ELSE Leave(c, forgot, {})
  <2> DEFINE k == [took EXCEPT !.pending = @ \ {cmd.id}]
             cn == [Took(c) EXCEPT ![c].pending = @ \ {cmd.id}]
  <2>1. /\ k \in Links /\ k.commands = Tail(q) /\ k.pending = conn[c].pending \ {cmd.id}
        /\ k.asked = conn[c].asked /\ k.lines = conn[c].lines /\ k.next = conn[c].next
        /\ k.driver = conn[c].driver
    <3> HIDE DEF took, cmd, q
    <3> QED  BY <1>2, <1>8 DEF Links
  <2>2. cn = [conn EXCEPT ![c] = k]
    <3> HIDE DEF took, cmd, q
    <3> QED  BY <1>0, <1>2
  <2>3. Narrows(conn[c], k)
    <3> HIDE DEF k, cmd, took
    <3> QED  BY <1>1, <2>1 DEF Narrows
  <2>4. \A t \in Tasks : Unanswered(t) /\ call[t].c = c =>
            \/ call[t].id \in k.pending
            \/ \E i \in DOMAIN k.commands : k.commands[i].id = call[t].id
    <3> HIDE DEF k, took
    <3> QED  BY <1>6, <1>7, <1>13, <2>1
  <2>5. CASE conn[c].up
    <3>1. conn' = cn /\ UNCHANGED call
      BY <1>13, <2>5
    <3>2. Tells
      BY <1>0, <3>1 DEF Wire, OwnAnswer, Tells
    <3>3. \A t \in Tasks : Waiting(t) /\ call[t].c = c /\ call'[t].reply = NoReply
                            => CoveredBy(k, call[t].id, call[t].what)
      <4> HIDE DEF k, cmd, took, cn
      <4> QED  BY <1>0, <2>1, <2>4, <3>1 DEF CoveredBy, Live, Unanswered
    <3> HIDE DEF k, cmd, took, q, cn
    <3> QED  BY <1>4, <2>1, <2>2, <2>3, <3>1, <3>2, <3>3, DriveWire
  <2>6. CASE ~conn[c].up
    <3> DEFINE ids == {}
    <3>1. Leave(c, cn, ids)
      BY <1>13, <2>6
    <3>4. cn \in [Conns -> Links] /\ cn[c] = k /\ \A d \in Conns : d # c => cn[d] = conn[d]
      <4> HIDE DEF k, cmd, took, q, cn
      <4> QED  BY <1>0, <2>1, <2>2
    <3> HIDE DEF k, cmd, took, q, cn, ids
    <3>2. \A t \in Tasks : Unanswered(t) /\ call[t].c = c =>
            \/ call[t].id \in k.pending \cup ids
            \/ \E i \in DOMAIN k.commands : k.commands[i].id = call[t].id
            \/ call[t].what = "close"
      BY <2>4
    <3> QED  BY <1>4, <2>1, <2>3, <3>1, <3>2, <3>4, LeaveWire
  <2> QED  BY <2>5, <2>6
<1> QED  BY <1>9, <1>10, <1>11, <1>12, <1>13 DEF Command

-----------------------------------------------------------------------------
(* What the driver reads, and how it ends. *)

LEMMA StillCovered ==
  ASSUME Wire, NEW c \in Conns, Live(c), NEW t \in Tasks, Unanswered(t), call[t].c = c
  PROVE  \/ call[t].id \in conn[c].pending
         \/ \E i \in DOMAIN conn[c].commands : conn[c].commands[i].id = call[t].id
<1>1. CoveredBy(conn[c], call[t].id, call[t].what)
  BY DEF Wire
<1> QED  BY <1>1 DEF CoveredBy, Live

LEMMA ReadWire ==
  ASSUME Wire, Handles, Closes, NEW c \in Conns, Read(c)
  PROVE  Wire' /\ Closes' /\ \A d \in Conns : Live(d)' => Live(d)
<1> DEFINE q == conn[c].lines
           line == Head(q)
           read == [conn[c] EXCEPT !.lines = Tail(q)]
           cn == [conn EXCEPT ![c].lines = Tail(@)]
<1>0. /\ conn \in [Conns -> Links] /\ conn[c] \in Links /\ q \in Seq(Lines) /\ q # <<>>
      /\ Live(c) /\ call \in [Tasks -> Asks]
  BY DEF Wire, WireTyped, Links, Read
<1>1. /\ Tail(q) \in Seq(Lines) /\ line = q[1] /\ 1 \in DOMAIN q /\ line \in Lines
      /\ \A i \in DOMAIN Tail(q) : i + 1 \in DOMAIN q /\ Tail(q)[i] = q[i + 1]
      /\ \A j \in DOMAIN q : j = 1 \/ (j - 1 \in DOMAIN Tail(q) /\ Tail(q)[j - 1] = q[j])
  <2> HIDE DEF q
  <2> QED  BY <1>0, TailOf
<1>2. read \in Links /\ read.lines = Tail(q) /\ read.pending = conn[c].pending
      /\ read.asked = conn[c].asked /\ read.commands = conn[c].commands /\ read.next = conn[c].next
      /\ read.driver = conn[c].driver /\ cn = [conn EXCEPT ![c] = read]
  BY <1>0, <1>1 DEF Links
<1>3. Narrows(conn[c], read)
  <2> HIDE DEF read
  <2> QED  BY <1>1, <1>2 DEF Narrows
<1>4. McpNumbered(c) /\ count'.launches = count.launches /\ watch' = watch
  BY DEF Wire, Read
<1>5. CASE /\ line.kind = "answer"
           /\ conn' = [cn EXCEPT ![c].pending = @ \ {line.id}]
           /\ call' = Told(c, {line.id} \cap conn[c].pending, line.reply)
  <2> DEFINE ids == {line.id} \cap conn[c].pending
             reply == line.reply
             k == [read EXCEPT !.pending = @ \ {line.id}]
  <2>1. reply \in Replies /\ line.id \in Nat
    BY <1>1, <1>5 DEF Lines
  <2>2. reply.got \in {"ok", "fault"}
    BY <1>1, <1>4, <1>5 DEF McpNumbered
  <2>3. reply # NoReply
    BY <2>2 DEF NoReply
  <2>4. \A t \in Tasks : AwaitsOneOf(t, c, ids) /\ reply.got = "ok" => reply.to = call[t].what
    <3>1. SUFFICES ASSUME NEW t \in Tasks, AwaitsOneOf(t, c, ids)
                   PROVE  reply.to = call[t].what
      OBVIOUS
    <3>2. OfItsOwn(t) /\ call[t].c = c /\ call[t].id = line.id
      BY <3>1 DEF Wire, AwaitsOneOf, Waiting
    <3> HIDE DEF line
    <3> QED  BY <1>1, <1>5, <3>2 DEF OfItsOwn
  <2>5. call' = Told(c, ids, reply)
    BY <1>5
  <2>6. /\ Tells
        /\ \A t \in Tasks : AwaitsOneOf(t, c, ids) => call'[t].reply # NoReply
        /\ \A t \in Tasks : call'[t].reply # call[t].reply => AwaitsOneOf(t, c, ids)
    <3> HIDE DEF ids, reply
    <3> QED  BY <2>1, <2>3, <2>4, <2>5, ToldTells
  <2>7. /\ k \in Links /\ k.commands = conn[c].commands /\ k.pending = conn[c].pending \ {line.id}
        /\ k.asked = conn[c].asked /\ k.lines = Tail(q) /\ k.next = conn[c].next
        /\ k.driver = conn[c].driver
    <3> HIDE DEF read, line, q
    <3> QED  BY <1>2, <2>1 DEF Links
  <2>8. conn' = [conn EXCEPT ![c] = k]
    <3> HIDE DEF read, line, q, cn
    <3> QED  BY <1>0, <1>2, <1>5
  <2>9. Narrows(conn[c], k)
    <3> HIDE DEF k, read, line
    <3> QED  BY <1>1, <2>7 DEF Narrows
  <2>10. \A t \in Tasks : Waiting(t) /\ call[t].c = c /\ call'[t].reply = NoReply
                            => CoveredBy(k, call[t].id, call[t].what)
    <3>1. SUFFICES ASSUME NEW t \in Tasks, Waiting(t), call[t].c = c, call'[t].reply = NoReply
                   PROVE  CoveredBy(k, call[t].id, call[t].what)
      OBVIOUS
    <3>2. Unanswered(t)
      BY <2>6, <3>1 DEF Tells, Unanswered
    <3>3. call[t].id # line.id \/ call[t].id \notin conn[c].pending
      BY <2>6, <3>1 DEF AwaitsOneOf, Waiting
    <3>4. \/ call[t].id \in conn[c].pending
          \/ \E i \in DOMAIN conn[c].commands : conn[c].commands[i].id = call[t].id
      BY <1>0, <3>1, <3>2, StillCovered
    <3> HIDE DEF k, read, line
    <3> QED  BY <1>0, <2>7, <3>3, <3>4 DEF CoveredBy, Live
  <2>11. ~(watch.at = "closing" /\ call'[Watch].reply # call[Watch].reply)
    <3>1. Watch \in Tasks
      BY DEF Tasks
    <3> SUFFICES ASSUME watch.at = "closing", AwaitsOneOf(Watch, c, ids)
                 PROVE  FALSE
      BY <2>6, <3>1
    <3>2. call[Watch].c = c /\ call[Watch].id \in conn[c].pending
      BY DEF AwaitsOneOf
    <3> QED  BY <3>2 DEF Closes
  <2> HIDE DEF k, read, line, q, ids, reply
  <2> QED  BY <1>4, <2>6, <2>7, <2>8, <2>9, <2>10, <2>11, DriveWire
<1>6. CASE conn' = cn /\ UNCHANGED call
  <2>1. Tells
    BY <1>0, <1>6 DEF Wire, OwnAnswer, Tells
  <2>2. \A t \in Tasks : Waiting(t) /\ call[t].c = c /\ call'[t].reply = NoReply
                            => CoveredBy(read, call[t].id, call[t].what)
    <3>1. SUFFICES ASSUME NEW t \in Tasks, Waiting(t), call[t].c = c, call'[t].reply = NoReply
                   PROVE  CoveredBy(read, call[t].id, call[t].what)
      OBVIOUS
    <3>2. Unanswered(t)
      BY <1>6, <3>1 DEF Unanswered
    <3> HIDE DEF read
    <3> QED  BY <1>0, <1>2, <3>1, <3>2, StillCovered DEF CoveredBy, Live
  <2>3. conn' = [conn EXCEPT ![c] = read] /\ call' = call
    BY <1>2, <1>6
  <2> HIDE DEF read, cn, line, q
  <2> QED  BY <1>2, <1>3, <1>4, <2>1, <2>2, <2>3, DriveWire
<1>7. CASE Leave(c, cn, {})
  <2> DEFINE ids == {}
  <2>1. \A t \in Tasks : Unanswered(t) /\ call[t].c = c =>
            \/ call[t].id \in read.pending \cup ids
            \/ \E i \in DOMAIN read.commands : read.commands[i].id = call[t].id
            \/ call[t].what = "close"
    BY <1>0, <1>2, StillCovered
  <2>2. cn \in [Conns -> Links] /\ cn[c] = read /\ \A d \in Conns : d # c => cn[d] = conn[d]
    <3> HIDE DEF read, cn
    <3> QED  BY <1>0, <1>2
  <2>3. Leave(c, cn, ids)
    BY <1>7
  <2>4. read \in Links
    BY <1>2
  <2> HIDE DEF read, cn, ids, line, q
  <2> QED  BY <1>3, <1>4, <2>1, <2>2, <2>3, <2>4, LeaveWire
<1>8. \/ /\ line.kind = "answer"
         /\ conn' = [cn EXCEPT ![c].pending = @ \ {line.id}]
         /\ call' = Told(c, {line.id} \cap conn[c].pending, line.reply)
      \/ conn' = cn /\ UNCHANGED call
      \/ Leave(c, cn, {})
  BY DEF Read
<1> QED  BY <1>5, <1>6, <1>7, <1>8

LEMMA NarrowsItself == ASSUME NEW k \in Links PROVE Narrows(k, k)
BY DEF Narrows

LEMMA DepartsWire ==
  ASSUME Wire, Handles, Closes, NEW c \in Conns, Departs(c)
  PROVE  Wire' /\ Closes' /\ \A d \in Conns : Live(d)' => Live(d)
<1> DEFINE ids == {}
           k == conn[c]
           cn == conn
<1>1. /\ conn \in [Conns -> Links] /\ k \in Links /\ Live(c) /\ Leave(c, cn, ids)
      /\ count'.launches = count.launches /\ watch' = watch
  BY DEF Wire, WireTyped, Departs
<1>2. Narrows(conn[c], k)
  BY <1>1, NarrowsItself
<1>3. \A t \in Tasks : Unanswered(t) /\ call[t].c = c =>
            \/ call[t].id \in k.pending \cup ids
            \/ \E i \in DOMAIN k.commands : k.commands[i].id = call[t].id
            \/ call[t].what = "close"
  BY <1>1, StillCovered
<1>4. cn \in [Conns -> Links] /\ cn[c] = k /\ \A d \in Conns : d # c => cn[d] = conn[d]
  BY <1>1
<1> HIDE DEF ids, k, cn
<1> QED  BY <1>1, <1>2, <1>3, <1>4, LeaveWire

LEMMA StopPeerWire ==
  ASSUME Wire, Handles, Closes, NEW c \in Conns, StopPeer(c)
  PROVE  Wire' /\ Closes' /\ \A d \in Conns : Live(d)' => Live(d)
<1> DEFINE k == [conn[c] EXCEPT !.driver = "gone", !.up = FALSE]
           told(t) == call[t].what = "close" /\ call[t].c = c /\ call[t].id \notin Queued(c)
<1>0. /\ conn \in [Conns -> Links] /\ conn[c] \in Links /\ call \in [Tasks -> Asks]
      /\ conn[c].driver = "stopping" /\ count'.launches = count.launches /\ watch' = watch
  BY DEF Wire, WireTyped, StopPeer
<1>1. /\ k \in Links /\ k.commands = conn[c].commands /\ k.pending = conn[c].pending
      /\ k.asked = conn[c].asked /\ k.lines = conn[c].lines /\ k.next = conn[c].next
      /\ k.driver = "gone" /\ conn' = [conn EXCEPT ![c] = k]
  BY <1>0 DEF Links, StopPeer
<1>2. Narrows(conn[c], k)
  <2> HIDE DEF k
  <2> QED  BY <1>1 DEF Narrows
<1>3. ASSUME NEW t \in Tasks
      PROVE  /\ call'[t] \in Asks
             /\ call'[t].at = call[t].at /\ call'[t].c = call[t].c /\ call'[t].id = call[t].id
             /\ call'[t].what = call[t].what
             /\ call'[t].reply = IF told(t) THEN Fault ELSE call[t].reply
  <2>1. CASE told(t)
    <3>1. call'[t] = [call[t] EXCEPT !.reply = Fault]
      BY <2>1 DEF StopPeer
    <3>2. Fault \in Replies
      BY FaultReply
    <3> QED  BY <1>0, <2>1, <3>1, <3>2 DEF Asks
  <2>2. CASE ~told(t)
    <3>1. call'[t] = call[t]
      BY <2>2 DEF StopPeer
    <3> QED  BY <1>0, <2>2, <3>1
  <2> QED  BY <2>1, <2>2
<1>4. call' \in [Tasks -> Asks]
  BY <1>3 DEF StopPeer
<1>5. Tells
  BY <1>3, <1>4, FaultReply DEF Tells, Wire, OwnAnswer
<1>6. \A t \in Tasks : Waiting(t) /\ call[t].c = c /\ call'[t].reply = NoReply
                            => CoveredBy(k, call[t].id, call[t].what)
  <2>1. SUFFICES ASSUME NEW t \in Tasks, Waiting(t), call[t].c = c, call'[t].reply = NoReply
                 PROVE  CoveredBy(k, call[t].id, call[t].what)
    OBVIOUS
  <2>2. Unanswered(t) /\ ~told(t)
    BY <1>3, <2>1, FaultReply DEF Unanswered
  <2>3. CoveredBy(conn[c], call[t].id, call[t].what)
    BY <2>1, <2>2 DEF Wire
  <2>4. \E i \in DOMAIN conn[c].commands : conn[c].commands[i].id = call[t].id
    BY <1>0, <2>1, <2>2, <2>3 DEF CoveredBy, Queued
  <2> QED  BY <1>1, <2>4 DEF CoveredBy
<1>7. watch.at = "closing" /\ call'[Watch].reply # call[Watch].reply
        => watch.c = c /\ k.driver # "open"
  <2>1. Watch \in Tasks
    BY DEF Tasks
  <2>2. call'[Watch].reply # call[Watch].reply => call[Watch].c = c
    BY <1>3, <2>1
  <2> HIDE DEF k
  <2> QED  BY <1>1, <2>2 DEF Closes
<1> HIDE DEF k, told
<1> QED  BY <1>0, <1>1, <1>2, <1>5, <1>6, <1>7, DriveWire

LEMMA LateWire ==
  ASSUME Wire, Handles, Closes, NEW c \in Conns, Late(c)
  PROVE  Wire' /\ Closes' /\ \A d \in Conns : Live(d)' => Live(d)
<1> DEFINE q == conn[c].commands
           cmd == Head(q)
           k == [conn[c] EXCEPT !.commands = Tail(q)]
           ids == {cmd.id}
<1>0. /\ conn \in [Conns -> Links] /\ conn[c] \in Links /\ q \in Seq(Orders) /\ q # <<>>
      /\ conn[c].driver = "gone" /\ call \in [Tasks -> Asks] /\ count'.launches = count.launches
      /\ watch' = watch
  BY DEF Wire, WireTyped, Links, Late
<1>1. /\ Tail(q) \in Seq(Orders) /\ cmd = q[1] /\ 1 \in DOMAIN q /\ cmd \in Orders
      /\ \A i \in DOMAIN Tail(q) : i + 1 \in DOMAIN q /\ Tail(q)[i] = q[i + 1]
      /\ \A j \in DOMAIN q : j = 1 \/ (j - 1 \in DOMAIN Tail(q) /\ Tail(q)[j - 1] = q[j])
  <2> HIDE DEF q
  <2> QED  BY <1>0, TailOf
<1>2. k \in Links /\ k.commands = Tail(q) /\ k.pending = conn[c].pending
      /\ k.asked = conn[c].asked /\ k.lines = conn[c].lines /\ k.next = conn[c].next
      /\ k.driver = "gone" /\ conn' = [conn EXCEPT ![c] = k]
  BY <1>0, <1>1 DEF Links, Took, Late
<1>3. Narrows(conn[c], k)
  <2> HIDE DEF k
  <2> QED  BY <1>1, <1>2 DEF Narrows
<1>4. ASSUME NEW t \in Tasks, Unanswered(t), call[t].c = c
      PROVE  \/ call[t].id = cmd.id /\ cmd.kind # "cancel"
             \/ \E i \in DOMAIN Tail(q) : Tail(q)[i].id = call[t].id
  <2>1. CoveredBy(conn[c], call[t].id, call[t].what) /\ OfItsOwn(t)
    BY <1>4 DEF Wire, Unanswered
  <2>2. \E i \in DOMAIN q : q[i].id = call[t].id
    BY <1>0, <2>1 DEF CoveredBy
  <2>3. \A i \in DOMAIN q : q[i].id = call[t].id => q[i].kind # "cancel"
    BY <1>4, <2>1 DEF OfItsOwn, Unanswered
  <2>4. PICK i \in DOMAIN q : q[i].id = call[t].id
    BY <2>2
  <2>5. q[i].kind # "cancel"
    BY <2>3, <2>4
  <2>6. \A j \in DOMAIN q : j = 1 \/ (j - 1 \in DOMAIN Tail(q) /\ Tail(q)[j - 1] = q[j])
    BY <1>1
  <2>7. CASE i = 1
    <3> HIDE DEF q, cmd
    <3> QED  BY <1>1, <2>4, <2>5, <2>7
  <2>8. CASE i - 1 \in DOMAIN Tail(q) /\ Tail(q)[i - 1] = q[i]
    <3> HIDE DEF q, cmd
    <3> QED  BY <2>4, <2>8
  <2> QED  BY <2>6, <2>7, <2>8
<1>5. CASE cmd.kind = "cancel"
  <2>1. call' = call
    BY <1>5 DEF Late
  <2>2. Tells
    BY <1>0, <2>1 DEF Wire, OwnAnswer, Tells
  <2>3. \A t \in Tasks : Waiting(t) /\ call[t].c = c /\ call'[t].reply = NoReply
                            => CoveredBy(k, call[t].id, call[t].what)
    <3> HIDE DEF k, cmd
    <3> QED  BY <1>2, <1>4, <1>5, <2>1 DEF CoveredBy, Unanswered
  <2> HIDE DEF k, cmd, q, ids
  <2> QED  BY <1>0, <1>2, <1>3, <2>1, <2>2, <2>3, DriveWire
<1>6. CASE cmd.kind # "cancel"
  <2>1. call' = Told(c, ids, Fault)
    BY <1>6 DEF Late
  <2>2. Fault.got # "ok"
    BY FaultReply
  <2>3. /\ Tells
        /\ \A t \in Tasks : AwaitsOneOf(t, c, ids) => call'[t].reply # NoReply
        /\ \A t \in Tasks : call'[t].reply # call[t].reply => AwaitsOneOf(t, c, ids)
    <3> HIDE DEF ids
    <3> QED  BY <2>1, <2>2, FaultReply, ToldTells
  <2>4. \A t \in Tasks : Waiting(t) /\ call[t].c = c /\ call'[t].reply = NoReply
                            => CoveredBy(k, call[t].id, call[t].what)
    <3>1. SUFFICES ASSUME NEW t \in Tasks, Waiting(t), call[t].c = c, call'[t].reply = NoReply
                   PROVE  CoveredBy(k, call[t].id, call[t].what)
      OBVIOUS
    <3>2. Unanswered(t) /\ call[t].id # cmd.id
      BY <2>3, <3>1 DEF Tells, Unanswered, AwaitsOneOf, Waiting
    <3> HIDE DEF cmd, k
    <3> QED  BY <1>2, <1>4, <3>1, <3>2 DEF CoveredBy
  <2>5. watch.at = "closing" /\ call'[Watch].reply # call[Watch].reply
          => watch.c = c /\ k.driver # "open"
    <3>1. Watch \in Tasks
      BY DEF Tasks
    <3> HIDE DEF k
    <3> QED  BY <1>2, <2>3, <3>1 DEF Closes, AwaitsOneOf
  <2> HIDE DEF k, cmd, q, ids
  <2> QED  BY <1>0, <1>2, <1>3, <2>3, <2>4, <2>5, DriveWire
<1> QED  BY <1>5, <1>6

-----------------------------------------------------------------------------
(* The server answers, speaks and ends. *)

(* What leaves the callers alone, and their requests on the way.           *)
LEMMA ServeWire ==
  ASSUME Wire, Handles, Closes, NEW c \in Conns, Live(c), NEW k \in Links, Narrows(conn[c], k),
         conn' = [conn EXCEPT ![c] = k], call' = call, count'.launches = count.launches,
         k.commands = conn[c].commands, k.pending = conn[c].pending, k.driver = "open", watch' = watch
  PROVE  Wire' /\ Closes' /\ \A d \in Conns : Live(d)' => Live(d)
<1>1. Tells
  BY DEF Wire, WireTyped, OwnAnswer, Tells
<1>2. \A t \in Tasks : Waiting(t) /\ call[t].c = c /\ call'[t].reply = NoReply
                            => CoveredBy(k, call[t].id, call[t].what)
  <2>1. SUFFICES ASSUME NEW t \in Tasks, Waiting(t), call[t].c = c, call'[t].reply = NoReply
                 PROVE  CoveredBy(k, call[t].id, call[t].what)
    OBVIOUS
  <2>2. Unanswered(t)
    BY <2>1 DEF Unanswered
  <2>3. \/ call[t].id \in conn[c].pending
        \/ \E i \in DOMAIN conn[c].commands : conn[c].commands[i].id = call[t].id
    BY <2>1, <2>2, StillCovered
  <2> QED  BY <2>3 DEF CoveredBy
<1> QED  BY <1>1, <1>2, DriveWire

LEMMA AnswerWire ==
  ASSUME Wire, Handles, Closes, NEW c \in Conns, Live(c), NEW r, NEW got \in {"ok", "fault"}, Answer(c, r, got)
  PROVE  Wire' /\ Closes' /\ \A d \in Conns : Live(d)' => Live(d)
<1> DEFINE tools == IF r.what = "list" /\ got = "ok" THEN conn[c].serves ELSE {}
           reply == [got |-> got, to |-> r.what, tools |-> tools]
           line == [kind |-> "answer", id |-> r.id, reply |-> reply]
           q == conn[c].lines
           k == [conn[c] EXCEPT !.asked = @ \ {r}, !.lines = Append(q, line)]
<1>0. /\ conn \in [Conns -> Links] /\ conn[c] \in Links /\ q \in Seq(Lines)
      /\ r \in conn[c].asked /\ r \in [id : Nat, what : Whats] /\ conn[c].serves \in SUBSET Tools
      /\ conn[c].driver = "open" /\ call' = call /\ count' = count /\ watch' = watch
  BY DEF Wire, WireTyped, Links, Answer, Live
<1>1. reply \in Replies
  <2>1. tools \in SUBSET Tools
    BY <1>0
  <2> HIDE DEF tools
  <2> QED  BY <1>0, <2>1 DEF Replies
<1>2. line \in Lines /\ line.kind = "answer" /\ line.id = r.id /\ line.reply = reply
  <2> HIDE DEF reply
  <2> QED  BY <1>0, <1>1 DEF Lines
<1>3. reply.got \in {"ok", "fault"} /\ reply.to = r.what
  OBVIOUS
<1> HIDE DEF reply, tools
<1>4. /\ Append(q, line) \in Seq(Lines)
      /\ \A i \in DOMAIN Append(q, line) : \/ i \in DOMAIN q /\ Append(q, line)[i] = q[i]
                                           \/ Append(q, line)[i] = line
  <2> HIDE DEF q, line
  <2> QED  BY <1>0, <1>2, AppendOf
<1>5. /\ k \in Links /\ k.commands = conn[c].commands /\ k.pending = conn[c].pending
      /\ k.asked = conn[c].asked \ {r} /\ k.lines = Append(q, line) /\ k.next = conn[c].next
      /\ k.driver = "open"
  <2> HIDE DEF q, line
  <2> QED  BY <1>0, <1>4 DEF Links
<1>6. conn' = [conn EXCEPT ![c] = k]
  <2>1. conn' = [conn EXCEPT ![c].asked = @ \ {r}, ![c].lines = Append(@, line)]
    BY DEF Answer, reply, tools
  <2> HIDE DEF line
  <2> QED  BY <1>0, <2>1
<1>7. Narrows(conn[c], k)
  <2> HIDE DEF k, line
  <2> QED  BY <1>0, <1>2, <1>3, <1>4, <1>5 DEF Narrows
<1> HIDE DEF k, line, q
<1> QED  BY <1>0, <1>5, <1>6, <1>7, ServeWire

LEMMA SpeakWire ==
  ASSUME Wire, Handles, Closes, NEW c \in Conns, Live(c), NEW kind \in {"changed", "other", "garbage"},
         NEW serves \in Menus, Speak(c, kind, serves)
  PROVE  Wire' /\ Closes' /\ \A d \in Conns : Live(d)' => Live(d)
<1> DEFINE line == [kind |-> kind]
           q == conn[c].lines
           k == [conn[c] EXCEPT !.lines = Append(q, line), !.serves = serves]
<1>0. /\ conn \in [Conns -> Links] /\ conn[c] \in Links /\ q \in Seq(Lines)
      /\ conn[c].driver = "open" /\ call' = call /\ watch' = watch
  BY DEF Wire, WireTyped, Links, Speak, Live
<1>9. count'.launches = count.launches
  <2>1. count' = [count EXCEPT !.spoken = @ + 1]
    BY DEF Speak
  <2> QED  BY <2>1
<1>1. serves \in SUBSET Tools
  BY DEF Tools
<1>2. line \in Lines /\ line.kind # "answer"
  BY DEF Lines
<1>4. /\ Append(q, line) \in Seq(Lines)
      /\ \A i \in DOMAIN Append(q, line) : \/ i \in DOMAIN q /\ Append(q, line)[i] = q[i]
                                           \/ Append(q, line)[i] = line
  <2> HIDE DEF q, line
  <2> QED  BY <1>0, <1>2, AppendOf
<1>5. /\ k \in Links /\ k.commands = conn[c].commands /\ k.pending = conn[c].pending
      /\ k.asked = conn[c].asked /\ k.lines = Append(q, line) /\ k.next = conn[c].next
      /\ k.driver = "open"
  <2> HIDE DEF q, line
  <2> QED  BY <1>0, <1>1, <1>4 DEF Links
<1>6. conn' = [conn EXCEPT ![c] = k]
  BY <1>0 DEF Speak
<1>7. Narrows(conn[c], k)
  <2> HIDE DEF k, line
  <2> QED  BY <1>0, <1>2, <1>4, <1>5 DEF Narrows
<1> HIDE DEF k, line, q
<1> QED  BY <1>0, <1>5, <1>6, <1>7, <1>9, ServeWire

LEMMA ExitWire ==
  ASSUME Wire, Handles, Closes, NEW c \in Conns, Live(c), Exit(c)
  PROVE  Wire' /\ Closes' /\ \A d \in Conns : Live(d)' => Live(d)
<1> DEFINE k == [conn[c] EXCEPT !.up = FALSE, !.asked = {}]
<1>0. /\ conn \in [Conns -> Links] /\ conn[c] \in Links /\ conn[c].driver = "open"
      /\ call' = call /\ count' = count /\ watch' = watch
  BY DEF Wire, WireTyped, Exit, Live
<1>1. /\ k \in Links /\ k.commands = conn[c].commands /\ k.pending = conn[c].pending
      /\ k.asked = {} /\ k.lines = conn[c].lines /\ k.next = conn[c].next /\ k.driver = "open"
  BY <1>0 DEF Links
<1>2. conn' = [conn EXCEPT ![c] = k]
  BY <1>0 DEF Exit
<1> HIDE DEF k
<1>3. Narrows(conn[c], k)
  BY <1>0, <1>1 DEF Narrows
<1> QED  BY <1>0, <1>1, <1>2, <1>3, ServeWire

-----------------------------------------------------------------------------
(* A request of one's own, under a number nobody has. *)

LEMMA AskWire ==
  ASSUME Wire, NEW t \in Tasks, NEW c \in Conns, NEW b \in Links, NEW what \in Whats,
         NEW kind \in {"call", "notify", "close"}, kind = "close" => what = "close",
         \/ b = conn[c]
         \/ c > count.launches /\ b.next = 1 /\ b.commands = <<>> /\ b.pending = {} /\ b.asked = {}
            /\ b.lines = <<>>,
         NEW k \in Links,
         k.commands = Append(b.commands, [kind |-> kind, id |-> b.next, by |-> t, what |-> what]),
         k.next = b.next + 1, k.driver = b.driver, k.pending = b.pending, k.asked = b.asked,
         k.lines = b.lines,
         conn' = [conn EXCEPT ![c] = k], call' = Waits(call, c, t, what),
         count'.launches \in 0 .. MaxLaunches, count.launches <= count'.launches,
         c <= count'.launches
  PROVE  Wire'
<1> DEFINE cmd == [kind |-> kind, id |-> b.next, by |-> t, what |-> what]
           mine == [at |-> "waiting", c |-> c, id |-> conn[c].next, what |-> what, reply |-> NoReply]
<1>0. /\ conn \in [Conns -> Links] /\ conn[c] \in Links /\ call \in [Tasks -> Asks]
      /\ b.commands \in Seq(Orders) /\ b.next \in Nat /\ b.next = conn[c].next
      /\ b.pending \in SUBSET Nat /\ b.asked \in SUBSET [id : Nat, what : Whats]
      /\ b.lines \in Seq(Lines) /\ count.launches \in 0 .. MaxLaunches /\ MaxLaunches \in Nat
  BY McpAssumption DEF Wire, WireTyped, Links
<1>1. /\ conn' \in [Conns -> Links] /\ conn'[c] = k
      /\ \A d \in Conns : d # c => conn'[d] = conn[d]
  BY <1>0
<1>2. call' = [call EXCEPT ![t] = mine]
  <2> DEFINE z == [at |-> "idle", c |-> 0, id |-> 0, what |-> "none", reply |-> NoReply]
             w == [z EXCEPT !.at = "waiting", !.c = c, !.id = conn[c].next, !.what = what]
  <2>1. NoCall = z
    BY DEF NoCall
  <2>2. DOMAIN w = DOMAIN mine
    OBVIOUS
  <2>3. w.at = mine.at /\ w.c = mine.c /\ w.id = mine.id
    OBVIOUS
  <2>4. w.what = mine.what /\ w.reply = mine.reply
    OBVIOUS
  <2>5. \A f \in DOMAIN mine : w[f] = mine[f]
    BY <2>3, <2>4
  <2>6. w = mine
    BY <2>2, <2>5
  <2>7. call' = [call EXCEPT ![t] = w]
    BY <2>1 DEF Waits
  <2> HIDE DEF w, mine
  <2> QED  BY <2>6, <2>7
<1>3. mine \in Asks /\ NoReply \in Replies
  BY <1>0 DEF Asks, Conns, NoReply, Replies, Whats, Links
<1>4. /\ call' \in [Tasks -> Asks] /\ call'[t] = mine
      /\ \A u \in Tasks : u # t => call'[u] = call[u]
  <2> HIDE DEF mine
  <2> QED  BY <1>0, <1>2, <1>3
<1>5. cmd \in Orders /\ cmd.id = b.next /\ cmd.kind = kind /\ cmd.what = what
  BY <1>0 DEF Orders
<1>6. /\ \A i \in DOMAIN k.commands :
            (i \in DOMAIN b.commands /\ k.commands[i] = b.commands[i]) \/ k.commands[i] = cmd
      /\ \A i \in DOMAIN b.commands : i \in DOMAIN k.commands /\ k.commands[i] = b.commands[i]
      /\ Len(b.commands) + 1 \in DOMAIN k.commands /\ k.commands[Len(b.commands) + 1] = cmd
  <2> HIDE DEF cmd
  <2>1. k.commands = Append(b.commands, cmd)
    BY DEF cmd
  <2> QED  BY <1>0, <1>5, <2>1, AppendOf
<1> HIDE DEF cmd
<1>7. /\ \A i \in DOMAIN b.commands : b.commands[i].id < b.next
           /\ (b.commands[i].kind = "close" => b.commands[i].what = "close")
      /\ \A p \in b.pending : p < b.next
      /\ \A r \in b.asked : r.id < b.next
      /\ \A i \in DOMAIN b.lines : b.lines[i].kind = "answer" =>
           b.lines[i].id < b.next /\ b.lines[i].reply.got \in {"ok", "fault"}
  BY DEF Wire, McpNumbered
<1>8. McpNumbered(c)'
  <2>1. \A i \in DOMAIN k.commands : k.commands[i].id < k.next
           /\ (k.commands[i].kind = "close" => k.commands[i].what = "close")
    <3>1. SUFFICES ASSUME NEW i \in DOMAIN k.commands
                   PROVE  k.commands[i].id < k.next
                          /\ (k.commands[i].kind = "close" => k.commands[i].what = "close")
      OBVIOUS
    <3>2. CASE k.commands[i] = cmd
      BY <1>0, <1>5, <3>2
    <3>3. CASE i \in DOMAIN b.commands /\ k.commands[i] = b.commands[i]
      <4>1. b.commands[i] \in Orders
        BY <1>0, <3>3
      <4> QED  BY <1>0, <1>7, <3>3, <4>1 DEF Orders
    <3> QED  BY <1>6, <3>2, <3>3
  <2>2. \A p \in k.pending : p < k.next
    BY <1>0, <1>7
  <2>3. \A r \in k.asked : r.id < k.next
    BY <1>0, <1>7
  <2>4. \A i \in DOMAIN k.lines : k.lines[i].kind = "answer" =>
           k.lines[i].id < k.next /\ k.lines[i].reply.got \in {"ok", "fault"}
    <3>1. SUFFICES ASSUME NEW i \in DOMAIN b.lines, b.lines[i].kind = "answer"
                   PROVE  b.lines[i].id < k.next /\ b.lines[i].reply.got \in {"ok", "fault"}
      OBVIOUS
    <3>2. b.lines[i] \in Lines
      BY <1>0
    <3>3. b.lines[i].id \in Nat
      BY <3>1, <3>2 DEF Lines
    <3> QED  BY <1>0, <1>7, <3>1, <3>3
  <2> QED  BY <1>1, <2>1, <2>2, <2>3, <2>4 DEF McpNumbered
<1>9. \A d \in Conns : McpNumbered(d)'
  BY <1>1, <1>8 DEF Wire, McpNumbered
<1>10. OwnAnswer'
  BY <1>4 DEF Wire, OwnAnswer, NoReply
<1>11. \A d \in Conns : d > count'.launches => conn'[d].next = 1
  BY <1>0, <1>1 DEF Wire, Conns
<1>12. \A u \in Tasks : call'[u].at # "idle" => call'[u].c \in 1 .. count'.launches
  BY <1>0, <1>4 DEF Wire, Conns
<1>13. \A u \in Tasks : Waiting(u) /\ u # t /\ call[u].c = c => b = conn[c]
  <2>1. \A u \in Tasks : Waiting(u) => call[u].c \in 1 .. count.launches
    BY DEF Wire, Waiting
  <2> QED  BY <1>0, <2>1 DEF Conns
<1>14. \A u \in Tasks : Waiting(u) => OfItsOwn(u) /\ call[u].id < conn[call[u].c].next
  BY DEF Wire, OfItsOwn
<1>15. ASSUME NEW u \in Tasks, Waiting(u)' PROVE OfItsOwn(u)'
  <2>1. CASE u = t
    <3>1. call'[u].c = c /\ call'[u].id = b.next /\ call'[u].what = what
      BY <1>0, <1>4, <2>1
    <3>2. \A i \in DOMAIN k.commands : k.commands[i].id = b.next =>
               k.commands[i].what = what /\ k.commands[i].kind # "cancel"
      <4>1. SUFFICES ASSUME NEW i \in DOMAIN k.commands, k.commands[i].id = b.next
                     PROVE  k.commands[i] = cmd
        BY <1>5
      <4>2. i \in DOMAIN b.commands => b.commands[i].id < b.next
        BY <1>7
      <4> QED  BY <1>0, <1>6, <4>1, <4>2
    <3>3. \A r \in k.asked : r.id # b.next
      BY <1>0, <1>7
    <3>4. \A i \in DOMAIN k.lines : k.lines[i].kind = "answer" => k.lines[i].id # b.next
      BY <1>0, <1>7
    <3>5. conn'[call'[u].c] = k /\ call'[u].id < k.next
      BY <1>0, <1>1, <3>1
    <3> HIDE DEF mine
    <3> QED  BY <3>1, <3>2, <3>3, <3>4, <3>5 DEF OfItsOwn
  <2>2. CASE u # t /\ call[u].c = c
    <3>1. Waiting(u) /\ call'[u] = call[u] /\ b = conn[c] /\ OfItsOwn(u)
      BY <1>4, <1>13, <1>14, <1>15, <2>2 DEF Waiting
    <3>2. /\ call[u].id < b.next /\ call[u].id \in Nat
          /\ \A i \in DOMAIN b.commands : b.commands[i].id = call[u].id =>
               /\ b.commands[i].what = call[u].what
               /\ b.commands[i].kind = "cancel" => call[u].reply # NoReply
          /\ \A r \in b.asked : r.id = call[u].id => r.what = call[u].what
          /\ \A i \in DOMAIN b.lines : b.lines[i].kind = "answer" /\ b.lines[i].id = call[u].id =>
               b.lines[i].reply.to = call[u].what
      BY <1>0, <2>2, <3>1 DEF OfItsOwn, Asks
    <3>3. call[u].id < k.next
      BY <1>0, <3>2
    <3>4. \A i \in DOMAIN k.commands : k.commands[i].id = call[u].id =>
               /\ k.commands[i].what = call[u].what
               /\ k.commands[i].kind = "cancel" => call[u].reply # NoReply
      <4>1. cmd.id # call[u].id
        BY <1>0, <1>5, <3>2
      <4> QED  BY <1>6, <3>2, <4>1
    <3>5. /\ \A r \in k.asked : r.id = call[u].id => r.what = call[u].what
          /\ \A i \in DOMAIN k.lines : k.lines[i].kind = "answer" /\ k.lines[i].id = call[u].id =>
               k.lines[i].reply.to = call[u].what
      BY <3>2
    <3>6. conn'[call'[u].c] = k
      BY <1>1, <2>2, <3>1
    <3>7. /\ call'[u].id = call[u].id /\ call'[u].what = call[u].what
          /\ call'[u].reply = call[u].reply
      BY <3>1
    <3> HIDE DEF mine
    <3> QED  BY <3>3, <3>4, <3>5, <3>6, <3>7 DEF OfItsOwn
  <2>3. CASE u # t /\ call[u].c # c
    <3>1. Waiting(u) /\ call'[u] = call[u] /\ OfItsOwn(u)
      BY <1>4, <1>14, <1>15, <2>3 DEF Waiting
    <3>2. call[u].c \in Conns
      <4>1. call[u].at # "idle"
        BY <3>1 DEF Waiting
      <4> QED  BY <4>1, AskedOfOne
    <3> QED  BY <1>1, <2>3, <3>1, <3>2 DEF OfItsOwn
  <2> QED  BY <2>1, <2>2, <2>3
<1>16. ASSUME NEW u \in Tasks, Unanswered(u)'
       PROVE  CoveredBy(conn[call[u].c], call[u].id, call[u].what)'
  <2>1. CASE u = t
    <3>1. call'[u].c = c /\ call'[u].id = b.next
      BY <1>0, <1>4, <2>1
    <3> QED  BY <1>1, <1>5, <1>6, <3>1 DEF CoveredBy
  <2>2. CASE u # t
    <3>1. Unanswered(u) /\ Waiting(u) /\ call'[u] = call[u]
      BY <1>4, <1>16, <2>2 DEF Unanswered, Waiting
    <3>2. CoveredBy(conn[call[u].c], call[u].id, call[u].what)
      BY <3>1 DEF Wire
    <3>3. CASE call[u].c = c
      <4>1. b = conn[c]
        BY <1>13, <2>2, <3>1, <3>3
      <4>2. CoveredBy(b, call[u].id, call[u].what)
        BY <3>2, <3>3, <4>1
      <4>3. CoveredBy(k, call[u].id, call[u].what)
        BY <1>6, <4>2 DEF CoveredBy
      <4> QED  BY <1>1, <3>1, <3>3, <4>3 DEF CoveredBy
    <3>4. CASE call[u].c # c
      <4>1. call[u].c \in Conns
        <5>1. call[u].at # "idle"
          BY <3>1 DEF Waiting
        <5> QED  BY <5>1, AskedOfOne
      <4> QED  BY <1>1, <3>1, <3>2, <3>4, <4>1 DEF CoveredBy
    <3> QED  BY <3>3, <3>4
  <2> QED  BY <2>1, <2>2
<1>17. Distinct'
  <2>1. SUFFICES ASSUME NEW u \in Tasks, NEW v \in Tasks, Waiting(u)', Waiting(v)',
                        call'[u].c = call'[v].c, call'[u].id = call'[v].id
                 PROVE  u = v
    BY DEF Distinct
  <2>2. ASSUME NEW w \in Tasks, w # t, Waiting(w)', call'[w].c = c PROVE call'[w].id # conn[c].next
    <3>1. Waiting(w) /\ call[w].c = c /\ call'[w].id = call[w].id
      BY <1>4, <2>2 DEF Waiting
    <3>2. call[w].id < conn[c].next /\ call[w].id \in Nat
      BY <1>0, <1>14, <3>1 DEF Asks
    <3> QED  BY <1>0, <3>1, <3>2
  <2>3. CASE u = t \/ v = t
    BY <1>4, <2>1, <2>2, <2>3
  <2>4. CASE u # t /\ v # t
    <3>1. Waiting(u) /\ Waiting(v) /\ call[u].c = call[v].c /\ call[u].id = call[v].id
      BY <1>4, <2>1, <2>4 DEF Waiting
    <3> QED  BY <3>1 DEF Wire, Distinct
  <2> QED  BY <2>3, <2>4
<1> QED  BY <1>1, <1>4, <1>9, <1>10, <1>11, <1>12, <1>15, <1>16, <1>17 DEF Wire, WireTyped

LEMMA RequestWire ==
  ASSUME Wire, NEW t \in Tasks, NEW c \in 1 .. count.launches, NEW what \in Whats,
         NEW kind \in {"call", "notify", "close"}, kind = "close" => what = "close",
         Request(t, c, kind, what), count'.launches = count.launches
  PROVE  Wire'
<1> DEFINE b == conn[c]
           cmd == [kind |-> kind, id |-> b.next, by |-> t, what |-> what]
           k == [b EXCEPT !.commands = Append(@, cmd), !.next = @ + 1]
<1>0. /\ conn \in [Conns -> Links] /\ b \in Links /\ c \in Conns /\ b.next \in Nat
      /\ b.commands \in Seq(Orders) /\ b.next + 1 \in Nat
      /\ count.launches \in 0 .. MaxLaunches /\ MaxLaunches \in Nat
  <2>1. conn \in [Conns -> Links] /\ count.launches \in 0 .. MaxLaunches /\ MaxLaunches \in Nat
    BY McpAssumption DEF Wire, WireTyped
  <2>2. c \in Conns
    BY <2>1 DEF Conns
  <2>3. b \in Links
    BY <2>1, <2>2
  <2> HIDE DEF b
  <2> QED  BY <2>1, <2>2, <2>3 DEF Links
<1>1. cmd \in Orders
  BY <1>0 DEF Orders
<1>2. Append(b.commands, cmd) \in Seq(Orders)
  <2> HIDE DEF cmd, b
  <2> QED  BY <1>0, <1>1
<1>3. /\ k \in Links /\ k.commands = Append(b.commands, cmd) /\ k.next = b.next + 1
      /\ k.driver = b.driver /\ k.pending = b.pending /\ k.asked = b.asked /\ k.lines = b.lines
  <2> HIDE DEF cmd, b
  <2> QED  BY <1>0, <1>2 DEF Links
<1>4. conn' = [conn EXCEPT ![c] = k]
  BY <1>0 DEF Request, Sent
<1>5. call' = Waits(call, c, t, what)
  BY DEF Request
<1>6. count'.launches \in 0 .. MaxLaunches /\ count.launches <= count'.launches
      /\ c <= count'.launches
  BY <1>0
<1>7. k.commands = Append(b.commands, [kind |-> kind, id |-> b.next, by |-> t, what |-> what])
  <2> HIDE DEF k
  <2> QED  BY <1>3 DEF cmd
<1>8. b = conn[c]
  OBVIOUS
<1> HIDE DEF k, cmd, b
<1> QED  BY <1>0, <1>3, <1>4, <1>5, <1>6, <1>7, <1>8, AskWire

(* Whoever stops waiting, or has only picked whom to ask, asks nothing.    *)
LEMMA CallSetWire ==
  ASSUME Wire, NEW t \in Tasks, NEW e \in Asks, e.at # "waiting", e.reply.got # "ok",
         e.at # "idle" => e.c \in 1 .. count.launches,
         call' = [call EXCEPT ![t] = e], conn' = conn, count'.launches = count.launches
  PROVE  Wire'
<1>0. /\ conn \in [Conns -> Links] /\ call \in [Tasks -> Asks]
      /\ count.launches \in 0 .. MaxLaunches
  BY DEF Wire, WireTyped
<1>1. /\ call' \in [Tasks -> Asks] /\ call'[t] = e
      /\ \A u \in Tasks : u # t => call'[u] = call[u]
  BY <1>0
<1>2. ASSUME NEW u \in Tasks, Waiting(u)' PROVE u # t /\ Waiting(u) /\ call'[u] = call[u]
  <2>1. u # t
    BY <1>1, <1>2 DEF Waiting
  <2> QED  BY <1>1, <1>2, <2>1 DEF Waiting
<1>3. WireTyped'
  BY <1>0, <1>1 DEF WireTyped
<1>4. (\A c \in Conns : McpNumbered(c))' /\ (\A c \in Conns : c > count.launches => conn[c].next = 1)'
  BY DEF Wire, McpNumbered
<1>5. OwnAnswer'
  BY <1>1 DEF Wire, OwnAnswer
<1>6. \A u \in Tasks : call'[u].at # "idle" => call'[u].c \in 1 .. count'.launches
  BY <1>0, <1>1 DEF Wire
<1>7. \A u \in Tasks : Waiting(u)' => OfItsOwn(u)'
  <2>1. \A u \in Tasks : Waiting(u) => OfItsOwn(u)
    BY DEF Wire
  <2>2. \A u \in Tasks : Waiting(u)' => Waiting(u) /\ call'[u] = call[u]
    BY <1>2
  <2> QED  BY <2>1, <2>2 DEF OfItsOwn
<1>8. \A u \in Tasks : Unanswered(u)' => CoveredBy(conn[call[u].c], call[u].id, call[u].what)'
  BY <1>2 DEF Wire, Unanswered, CoveredBy, Waiting
<1>9. Distinct'
  BY <1>2 DEF Wire, Distinct
<1> QED  BY <1>3, <1>4, <1>5, <1>6, <1>7, <1>8, <1>9 DEF Wire

LEMMA SameWire ==
  ASSUME Wire, conn' = conn, call' = call, count'.launches = count.launches
  PROVE  Wire'
<1>1. WireTyped' /\ OwnAnswer' /\ Distinct'
  BY DEF Wire, WireTyped, OwnAnswer, Distinct, Waiting
<1>2. (\A c \in Conns : McpNumbered(c))' /\ (\A c \in Conns : c > count.launches => conn[c].next = 1)'
  BY DEF Wire, McpNumbered
<1>3. \A u \in Tasks : call'[u].at # "idle" => call'[u].c \in 1 .. count'.launches
  BY DEF Wire
<1>4. \A u \in Tasks : Waiting(u)' => OfItsOwn(u)'
  BY DEF Wire, OfItsOwn, Waiting
<1>5. \A u \in Tasks : Unanswered(u)' => CoveredBy(conn[call[u].c], call[u].id, call[u].what)'
  BY DEF Wire, Unanswered, CoveredBy, Waiting
<1> QED  BY <1>1, <1>2, <1>3, <1>4, <1>5 DEF Wire

(* The one who gives up is told at once, and nobody else has its number.   *)
LEMMA ExpireWire ==
  ASSUME Wire, NEW t \in Tasks, Expire(t)
  PROVE  Wire'
<1> DEFINE c == call[t].c
           b == conn[c]
           cmd == [kind |-> "cancel", id |-> call[t].id, by |-> t, what |-> call[t].what]
           k == [b EXCEPT !.commands = Append(@, cmd)]
           mine == [call[t] EXCEPT !.reply.got = "timeout"]
<1>0. /\ conn \in [Conns -> Links] /\ call \in [Tasks -> Asks] /\ call[t] \in Asks
      /\ Waiting(t) /\ call[t].reply = NoReply
  BY DEF Wire, WireTyped, Expire, Waiting
<1>1. c \in Conns
  <2>1. call[t].at # "idle"
    BY <1>0 DEF Waiting
  <2> QED  BY <2>1, AskedOfOne
<1>2. count'.launches = count.launches
  <2>1. count' = [count EXCEPT !.expired = @ + 1]
    BY DEF Expire
  <2> QED  BY <2>1
<1>3. b \in Links /\ b.commands \in Seq(Orders) /\ b.next \in Nat
  BY <1>0, <1>1 DEF Links
<1>4. cmd \in Orders /\ cmd.id = call[t].id /\ cmd.kind = "cancel" /\ cmd.what = call[t].what
  BY <1>0 DEF Orders, Asks
<1>5. /\ Append(b.commands, cmd) \in Seq(Orders)
      /\ \A i \in DOMAIN Append(b.commands, cmd) :
            \/ i \in DOMAIN b.commands /\ Append(b.commands, cmd)[i] = b.commands[i]
            \/ Append(b.commands, cmd)[i] = cmd
      /\ \A i \in DOMAIN b.commands :
            i \in DOMAIN Append(b.commands, cmd) /\ Append(b.commands, cmd)[i] = b.commands[i]
  <2> HIDE DEF cmd, b
  <2> QED  BY <1>3, <1>4, AppendOf
<1>6. /\ k \in Links /\ k.commands = Append(b.commands, cmd) /\ k.next = b.next
      /\ k.driver = b.driver /\ k.pending = b.pending /\ k.asked = b.asked /\ k.lines = b.lines
  <2> HIDE DEF cmd, b
  <2> QED  BY <1>3, <1>5 DEF Links
<1>7. conn' = [conn EXCEPT ![c] = k]
  BY <1>0, <1>1 DEF Expire
<1>8. /\ conn' \in [Conns -> Links] /\ conn'[c] = k
      /\ \A d \in Conns : d # c => conn'[d] = conn[d]
  <2> HIDE DEF k, c
  <2> QED  BY <1>0, <1>1, <1>6, <1>7
<1>9. /\ mine \in Asks /\ mine.at = "waiting" /\ mine.c = call[t].c /\ mine.id = call[t].id
      /\ mine.what = call[t].what /\ mine.reply.got = "timeout"
  <2>1. call[t].reply \in Replies
    BY <1>0 DEF Asks
  <2>2. [call[t].reply EXCEPT !.got = "timeout"] \in Replies
    BY <2>1 DEF Replies
  <2> DEFINE reply == [call[t].reply EXCEPT !.got = "timeout"]
  <2>3. mine = [call[t] EXCEPT !.reply = reply] /\ reply.got = "timeout"
    BY <1>0, <2>1 DEF Asks, Replies
  <2> HIDE DEF reply, mine
  <2> QED  BY <1>0, <2>2, <2>3 DEF Asks, Waiting, reply
<1>10. /\ call' \in [Tasks -> Asks] /\ call'[t] = mine
       /\ \A u \in Tasks : u # t => call'[u] = call[u]
  <2>1. call' = [call EXCEPT ![t] = mine]
    BY <1>0 DEF Expire
  <2> HIDE DEF mine
  <2> QED  BY <1>0, <1>9, <2>1
<1> HIDE DEF mine, k, cmd
<1>11. mine.reply # NoReply
  BY <1>9 DEF NoReply
<1>12. \A u \in Tasks : Waiting(u) => OfItsOwn(u)
  BY DEF Wire
<1>13. WireTyped'
  BY <1>2, <1>8, <1>10 DEF Wire, WireTyped
<1>15. ASSUME NEW d \in Conns PROVE McpNumbered(d)'
  <2>1. McpNumbered(d)
    BY DEF Wire
  <2>2. CASE d # c
    BY <1>8, <2>1, <2>2 DEF McpNumbered
  <2>3. CASE d = c
    <3>1. conn[d] = b /\ conn'[d] = k
      BY <1>8, <2>3
    <3> HIDE DEF b, c
    <3>2. call[t].id < b.next
      BY <1>0, <1>12 DEF OfItsOwn, b, c
    <3>3. \A i \in DOMAIN k.commands : k.commands[i].id < k.next
             /\ (k.commands[i].kind = "close" => k.commands[i].what = "close")
      BY <1>4, <1>5, <1>6, <2>1, <3>1, <3>2 DEF McpNumbered
    <3>4. /\ \A p \in k.pending : p < k.next
          /\ \A r \in k.asked : r.id < k.next
          /\ \A i \in DOMAIN k.lines : k.lines[i].kind = "answer" =>
               k.lines[i].id < k.next /\ k.lines[i].reply.got \in {"ok", "fault"}
      BY <1>6, <2>1, <3>1 DEF McpNumbered
    <3> QED  BY <3>1, <3>3, <3>4 DEF McpNumbered
  <2> QED  BY <2>2, <2>3
<1>16. OwnAnswer'
  BY <1>9, <1>10 DEF Wire, OwnAnswer
<1>17. \A d \in Conns : d > count'.launches => conn'[d].next = 1
  BY <1>2, <1>6, <1>8 DEF Wire
<1>18. \A u \in Tasks : call'[u].at # "idle" => call'[u].c \in 1 .. count'.launches
  BY <1>0, <1>2, <1>9, <1>10 DEF Wire, Waiting
<1>19. \A u \in Tasks : /\ call'[u].c = call[u].c /\ call'[u].id = call[u].id
                        /\ call'[u].what = call[u].what /\ Waiting(u)' = Waiting(u)
                        /\ call[u].reply # NoReply => call'[u].reply # NoReply
  BY <1>0, <1>9, <1>10, <1>11 DEF Waiting
<1>20. Distinct'
  BY <1>19 DEF Wire, Distinct
<1>21. ASSUME NEW u \in Tasks, Waiting(u)' PROVE OfItsOwn(u)'
  <2>1. Waiting(u) /\ OfItsOwn(u)
    BY <1>12, <1>19, <1>21
  <2>2. CASE call[u].c # c
    <3>1. call[u].at # "idle"
      BY <2>1 DEF Waiting
    <3>2. call[u].c \in Conns
      BY <3>1, AskedOfOne
    <3>3. conn'[call'[u].c] = conn[call[u].c]
      BY <1>8, <1>19, <2>2, <3>2
    <3> HIDE DEF b, c
    <3> QED  BY <1>19, <2>1, <3>3 DEF OfItsOwn
  <2>3. CASE call[u].c = c
    <3>1. /\ call[u].id < b.next
          /\ \A i \in DOMAIN b.commands : b.commands[i].id = call[u].id =>
               /\ b.commands[i].what = call[u].what
               /\ b.commands[i].kind = "cancel" => call[u].reply # NoReply
          /\ \A r \in b.asked : r.id = call[u].id => r.what = call[u].what
          /\ \A i \in DOMAIN b.lines : b.lines[i].kind = "answer" /\ b.lines[i].id = call[u].id =>
               b.lines[i].reply.to = call[u].what
      BY <2>1, <2>3 DEF OfItsOwn
    <3>2. call[u].id = cmd.id => u = t
      BY <1>0, <1>4, <2>1, <2>3 DEF Wire, Distinct
    <3>3. \A i \in DOMAIN k.commands : k.commands[i].id = call[u].id =>
               /\ k.commands[i].what = call[u].what
               /\ k.commands[i].kind = "cancel" => call'[u].reply # NoReply
      <4>1. SUFFICES ASSUME NEW i \in DOMAIN k.commands, k.commands[i].id = call[u].id
                     PROVE  /\ k.commands[i].what = call[u].what
                            /\ k.commands[i].kind = "cancel" => call'[u].reply # NoReply
        OBVIOUS
      <4>2. CASE i \in DOMAIN b.commands /\ k.commands[i] = b.commands[i]
        BY <1>19, <3>1, <4>1, <4>2
      <4>3. CASE k.commands[i] = cmd
        BY <1>4, <1>10, <1>11, <3>2, <4>1, <4>3
      <4> QED  BY <1>5, <1>6, <4>2, <4>3
    <3>4. conn'[call'[u].c] = k
      BY <1>1, <1>8, <1>19, <2>3
    <3> HIDE DEF b, c
    <3> QED  BY <1>6, <1>19, <3>1, <3>3, <3>4 DEF OfItsOwn
  <2> QED  BY <2>2, <2>3
<1>22. ASSUME NEW u \in Tasks, Unanswered(u)'
       PROVE  CoveredBy(conn[call[u].c], call[u].id, call[u].what)'
  <2>1. Waiting(u) /\ Unanswered(u)
    BY <1>19, <1>22 DEF Unanswered
  <2>2. CoveredBy(conn[call[u].c], call[u].id, call[u].what)
    BY <2>1 DEF Wire
  <2>3. CASE call[u].c # c
    <3>1. call[u].at # "idle"
      BY <2>1 DEF Waiting
    <3>2. call[u].c \in Conns
      BY <3>1, AskedOfOne
    <3>3. conn'[call'[u].c] = conn[call[u].c]
      BY <1>8, <1>19, <2>3, <3>2
    <3> HIDE DEF b, c
    <3> QED  BY <1>19, <2>2, <3>3 DEF CoveredBy
  <2>4. CASE call[u].c = c
    <3>1. CoveredBy(b, call[u].id, call[u].what)
      BY <2>2, <2>4
    <3>2. CoveredBy(k, call[u].id, call[u].what)
      <4> HIDE DEF b, c
      <4> QED  BY <1>5, <1>6, <3>1 DEF CoveredBy
    <3>3. conn'[call'[u].c] = k
      BY <1>1, <1>8, <1>19, <2>4
    <3> HIDE DEF b, c
    <3> QED  BY <1>19, <3>2, <3>3 DEF CoveredBy
  <2> QED  BY <2>3, <2>4
<1> QED  BY <1>13, <1>15, <1>16, <1>17, <1>18, <1>20, <1>21, <1>22 DEF Wire

-----------------------------------------------------------------------------
(* What a step leaves to the supervisor. *)

Counts == [launches : Nat, stable : Nat, spoken : Nat, expired : Nat]

LEMMA Steady ==
  ASSUME SupervisorTyped, Handles, OnlyWatched, watch' = watch, UNCHANGED supervisor,
         count' \in Counts, count'.launches = count.launches,
         \A d \in Conns : Live(d)' => Live(d)
  PROVE  SupervisorTyped' /\ Handles' /\ OnlyWatched'
<1>1. state' = state /\ stopped' = stopped /\ woken' = woken /\ shut' = shut
  BY DEF supervisor
<1>2. SupervisorTyped'
  BY <1>1 DEF SupervisorTyped, Counts
<1>3. Handles'
  BY <1>1 DEF Handles
<1>4. OnlyWatched'
  BY <1>1 DEF OnlyWatched
<1> QED  BY <1>2, <1>3, <1>4

LEMMA DrivenInv ==
  ASSUME McpInv, NEW c \in Conns, Drive(c) \/ Serve(c)
  PROVE  McpInv'
<1>0. Wire /\ SupervisorTyped /\ Handles /\ OnlyWatched /\ Closes
  BY DEF McpInv
<1>1. /\ Wire' /\ Closes' /\ \A d \in Conns : Live(d)' => Live(d)
      /\ watch' = watch /\ UNCHANGED supervisor
      /\ \/ count' = count
         \/ count' = [count EXCEPT !.spoken = @ + 1]
  <2>1. CASE Command(c)
    BY <1>0, <2>1, CommandWire DEF Command
  <2>2. CASE Read(c)
    BY <1>0, <2>2, ReadWire DEF Read
  <2>3. CASE Departs(c)
    BY <1>0, <2>3, DepartsWire DEF Departs
  <2>4. CASE StopPeer(c)
    BY <1>0, <2>4, StopPeerWire DEF StopPeer
  <2>5. CASE Late(c)
    BY <1>0, <2>5, LateWire DEF Late
  <2>6. CASE Live(c) /\ Exit(c)
    BY <1>0, <2>6, ExitWire DEF Exit
  <2>7. ASSUME Live(c), NEW r \in conn[c].asked, NEW got \in {"ok", "fault"}, Answer(c, r, got)
        PROVE  /\ Wire' /\ Closes' /\ \A d \in Conns : Live(d)' => Live(d)
               /\ watch' = watch /\ UNCHANGED supervisor /\ count' = count
    BY <1>0, <2>7, AnswerWire DEF Answer
  <2>8. ASSUME Live(c), NEW kind \in {"changed", "other", "garbage"}, NEW serves \in Menus,
               Speak(c, kind, serves)
        PROVE  /\ Wire' /\ Closes' /\ \A d \in Conns : Live(d)' => Live(d)
               /\ watch' = watch /\ UNCHANGED supervisor
               /\ count' = [count EXCEPT !.spoken = @ + 1]
    <3>1. Wire' /\ Closes' /\ \A d \in Conns : Live(d)' => Live(d)
      BY <1>0, <2>8, SpeakWire
    <3> QED  BY <2>8, <3>1 DEF Speak
  <2> QED  BY <2>1, <2>2, <2>3, <2>4, <2>5, <2>6, <2>7, <2>8 DEF Drive, Serve
<1>2. count \in Counts
  BY <1>0 DEF SupervisorTyped, Counts
<1>3. count' \in Counts /\ count'.launches = count.launches
  BY <1>1, <1>2 DEF Counts
<1> QED  BY <1>0, <1>1, <1>3, Steady DEF McpInv

LEMMA RequestLive ==
  ASSUME Wire, NEW t, NEW c, NEW kind, NEW what, Request(t, c, kind, what)
  PROVE  \A d \in Conns : Live(d)' <=> Live(d)
<1>1. conn \in [Conns -> Links]
  BY DEF Wire, WireTyped
<1>2. conn' = Sent(conn, c, kind, t, what)
  BY DEF Request
<1>3. SUFFICES ASSUME NEW d \in Conns PROVE conn'[d].driver = conn[d].driver
  BY DEF Live
<1>4. CASE d # c
  <2>1. conn'[d] = conn[d]
    BY <1>1, <1>2, <1>4 DEF Sent
  <2> QED  BY <2>1
<1>5. CASE d = c
  BY <1>1, <1>2, <1>5 DEF Sent, Links
<1> QED  BY <1>4, <1>5

(* Another's request does not touch the one a closing supervisor waits for. *)
LEMMA RequestCloses ==
  ASSUME Wire, Closes, NEW t \in Tasks, t # Watch, NEW c \in 1 .. count.launches,
         NEW kind, NEW what, Request(t, c, kind, what), watch' = watch
  PROVE  Closes'
<1>1. SUFFICES ASSUME watch.at = "closing"
               PROVE  /\ Waiting(Watch)' /\ call'[Watch].c = watch.c /\ call'[Watch].what = "close"
                      /\ \A i \in DOMAIN conn'[watch.c].commands :
                           conn'[watch.c].commands[i].id = call'[Watch].id
                             => conn'[watch.c].commands[i].kind \notin {"call", "notify"}
                      /\ call'[Watch].id \notin conn'[watch.c].pending
                      /\ call'[Watch].reply # NoReply => ~Live(watch.c)'
  BY DEF Closes
<1>2. /\ Waiting(Watch) /\ call[Watch].c = watch.c /\ call[Watch].what = "close"
      /\ \A i \in DOMAIN conn[watch.c].commands :
           conn[watch.c].commands[i].id = call[Watch].id
             => conn[watch.c].commands[i].kind \notin {"call", "notify"}
      /\ call[Watch].id \notin conn[watch.c].pending
      /\ call[Watch].reply # NoReply => ~Live(watch.c)
  BY <1>1 DEF Closes
<1>3. Watch \in Tasks
  BY DEF Tasks
<1>4. watch.c \in Conns /\ OfItsOwn(Watch)
  <2>1. call[Watch].at # "idle"
    BY <1>2 DEF Waiting
  <2>2. call[Watch].c \in Conns
    BY <1>3, <2>1, AskedOfOne
  <2> QED  BY <1>2, <1>3, <2>2 DEF Wire
<1>5. call'[Watch] = call[Watch]
  BY <1>3 DEF Wire, WireTyped, Request, Waits
<1>6. Live(watch.c)' <=> Live(watch.c)
  BY <1>4, RequestLive
<1>7. /\ conn'[watch.c].pending = conn[watch.c].pending
      /\ \A i \in DOMAIN conn'[watch.c].commands :
           \/ i \in DOMAIN conn[watch.c].commands
              /\ conn'[watch.c].commands[i] = conn[watch.c].commands[i]
           \/ conn'[watch.c].commands[i].id = conn[watch.c].next
  <2>1. conn \in [Conns -> Links] /\ conn[watch.c] \in Links
    BY <1>4 DEF Wire, WireTyped
  <2>2. conn' = Sent(conn, c, kind, t, what)
    BY DEF Request
  <2>3. CASE c # watch.c
    <3>1. conn'[watch.c] = conn[watch.c]
      BY <1>4, <2>1, <2>2, <2>3 DEF Sent
    <3> QED  BY <3>1
  <2>4. CASE c = watch.c
    <3> DEFINE cmd == [kind |-> kind, id |-> conn[c].next, by |-> t, what |-> what]
               q == conn[c].commands
    <3>1. /\ conn'[c].pending = conn[c].pending /\ conn'[c].commands = Append(q, cmd)
          /\ q \in Seq(Orders) /\ cmd.id = conn[c].next
      BY <1>4, <2>1, <2>2, <2>4 DEF Sent, Links
    <3> HIDE DEF cmd, q
    <3>2. \A i \in DOMAIN Append(q, cmd) : (i \in DOMAIN q /\ Append(q, cmd)[i] = q[i])
                                            \/ Append(q, cmd)[i] = cmd
      BY <3>1
    <3> QED  BY <2>4, <3>1, <3>2 DEF q
  <2> QED  BY <2>3, <2>4
<1>8. call[Watch].id # conn[watch.c].next
  BY <1>2, <1>3, <1>4 DEF Wire, WireTyped, Asks, Links, OfItsOwn
<1> QED  BY <1>2, <1>5, <1>6, <1>7, <1>8 DEF Waiting

LEMMA CallSetCloses ==
  ASSUME Wire, Closes, NEW t \in Tasks, t # Watch, NEW e,
         call' = [call EXCEPT ![t] = e], conn' = conn, watch' = watch
  PROVE  Closes'
<1>1. Watch \in Tasks
  BY DEF Tasks
<1>2. call'[Watch] = call[Watch]
  BY <1>1 DEF Wire, WireTyped
<1> QED  BY <1>2 DEF Closes, Waiting, Live

LEMMA ExpireRest ==
  ASSUME Wire, Handles, Closes, NEW t \in Tasks, Expire(t)
  PROVE  Closes' /\ \A d \in Conns : Live(d)' => Live(d)
<1> DEFINE cmd == [kind |-> "cancel", id |-> call[t].id, by |-> t, what |-> call[t].what]
<1>0. /\ conn \in [Conns -> Links] /\ call \in [Tasks -> Asks] /\ Waiting(t)
      /\ call[t].what # "close" /\ watch' = watch
      /\ conn' = [conn EXCEPT ![call[t].c].commands = Append(@, cmd)]
  BY DEF Wire, WireTyped, Expire, Waiting
<1>1. call[t].c \in Conns
  <2>1. call[t].at # "idle"
    BY <1>0 DEF Waiting
  <2> QED  BY <2>1, AskedOfOne
<1>2. cmd.kind = "cancel"
  OBVIOUS
<1>3. ASSUME NEW d \in Conns
      PROVE  /\ conn'[d].driver = conn[d].driver /\ conn'[d].pending = conn[d].pending
             /\ \A i \in DOMAIN conn'[d].commands :
                  \/ i \in DOMAIN conn[d].commands /\ conn'[d].commands[i] = conn[d].commands[i]
                  \/ conn'[d].commands[i].kind = "cancel"
  <2> HIDE DEF cmd
  <2>1. CASE d # call[t].c
    <3>1. conn'[d] = conn[d]
      BY <1>0, <1>1, <2>1
    <3> QED  BY <3>1
  <2>2. CASE d = call[t].c
    <3> DEFINE q == conn[d].commands
    <3>1. /\ conn'[d].driver = conn[d].driver /\ conn'[d].pending = conn[d].pending
          /\ conn'[d].commands = Append(q, cmd) /\ q \in Seq(Orders)
      BY <1>0, <1>1, <2>2 DEF Links
    <3> HIDE DEF q
    <3>2. \A i \in DOMAIN Append(q, cmd) : (i \in DOMAIN q /\ Append(q, cmd)[i] = q[i])
                                            \/ Append(q, cmd)[i] = cmd
      BY <3>1
    <3> QED  BY <1>2, <3>1, <3>2 DEF q
  <2> QED  BY <2>1, <2>2
<1>4. \A d \in Conns : Live(d)' => Live(d)
  BY <1>3 DEF Live
<1>5. ASSUME watch.at = "closing"
      PROVE  /\ Waiting(Watch)' /\ call'[Watch].c = watch.c /\ call'[Watch].what = "close"
             /\ \A i \in DOMAIN conn'[watch.c].commands :
                  conn'[watch.c].commands[i].id = call'[Watch].id
                    => conn'[watch.c].commands[i].kind \notin {"call", "notify"}
             /\ call'[Watch].id \notin conn'[watch.c].pending
             /\ call'[Watch].reply # NoReply => ~Live(watch.c)'
  <2>1. /\ Waiting(Watch) /\ call[Watch].c = watch.c /\ call[Watch].what = "close"
        /\ \A i \in DOMAIN conn[watch.c].commands :
             conn[watch.c].commands[i].id = call[Watch].id
               => conn[watch.c].commands[i].kind \notin {"call", "notify"}
        /\ call[Watch].id \notin conn[watch.c].pending
        /\ call[Watch].reply # NoReply => ~Live(watch.c)
    BY <1>5 DEF Closes
  <2>2. Watch \in Tasks
    BY DEF Tasks
  <2>3. call'[Watch] = call[Watch]
    BY <1>0, <2>1, <2>2 DEF Expire
  <2>4. watch.c \in Conns
    <3>1. call[Watch].at # "idle"
      BY <2>1 DEF Waiting
    <3> QED  BY <2>1, <2>2, <3>1, AskedOfOne
  <2> HIDE DEF cmd
  <2>5. /\ \A i \in DOMAIN conn'[watch.c].commands :
                  conn'[watch.c].commands[i].id = call[Watch].id
                    => conn'[watch.c].commands[i].kind \notin {"call", "notify"}
        /\ call[Watch].id \notin conn'[watch.c].pending
    BY <1>3, <2>1, <2>4
  <2>6. call[Watch].reply # NoReply => ~Live(watch.c)'
    <3>1. watch' = watch
      BY <1>0
    <3>2. conn'[watch.c].driver = conn[watch.c].driver
      BY <1>3, <2>4
    <3> QED  BY <2>1, <3>1, <3>2 DEF Live
  <2> QED  BY <2>1, <2>3, <2>5, <2>6 DEF Waiting
<1>6. Closes'
  BY <1>0, <1>5 DEF Closes
<1> QED  BY <1>4, <1>6

LEMMA NoCallAsks == NoCall \in Asks /\ NoCall.at = "idle" /\ NoCall.reply = NoReply /\ NoReply.got = "none"
<1>1. NoReply \in Replies /\ NoReply.got = "none"
  BY DEF NoReply, Replies, Whats
<1>2. "none" \in Whats
  BY DEF Whats
<1> HIDE DEF NoReply
<1> QED  BY <1>1, <1>2 DEF NoCall, Asks

(* What the callers do, and the budgets that run out.                      *)
LEMMA CallerInv ==
  ASSUME McpInv, NEW t \in Tasks,
         Expire(t) \/ (t \in Callers /\ (Calling(t) \/ \E tool \in Tools : Pick(t, tool)))
  PROVE  McpInv'
<1>0. Wire /\ SupervisorTyped /\ Handles /\ OnlyWatched /\ Closes
  BY DEF McpInv
<1>1. t \in Callers => t # Watch
  BY McpAssumption
<1>2. count \in Counts /\ conn \in [Conns -> Links] /\ call \in [Tasks -> Asks] /\ call[t] \in Asks
      /\ count.launches \in 0 .. MaxLaunches
  BY <1>0 DEF SupervisorTyped, Counts, Wire, WireTyped
<1>3. CASE Expire(t)
  <2>1. Wire' /\ Closes' /\ \A d \in Conns : Live(d)' => Live(d)
    BY <1>0, <1>3, ExpireWire, ExpireRest
  <2>2. count' = [count EXCEPT !.expired = @ + 1] /\ watch' = watch /\ UNCHANGED supervisor
    BY <1>3 DEF Expire
  <2>3. count' \in Counts /\ count'.launches = count.launches
    BY <1>2, <2>2 DEF Counts
  <2> QED  BY <1>0, <2>1, <2>2, <2>3, Steady DEF McpInv
<1>4. ASSUME t \in Callers, NEW tool \in Tools, Pick(t, tool) PROVE McpInv'
  <2> DEFINE e == [NoCall EXCEPT !.at = "picked", !.c = state.client, !.what = tool]
  <2>1. tool \in Whats
    BY DEF Whats
  <2>2. state.client \in Nat /\ state.client \in 1 .. count.launches
    <3>1. state.client \in 0 .. count.launches /\ state.client # 0
      BY <1>0, <1>4 DEF Pick, Handles
    <3> QED  BY <1>2, <3>1
  <2>3. e \in Asks /\ e.at = "picked" /\ e.c = state.client /\ e.reply.got # "ok"
    BY <2>1, <2>2, NoCallAsks DEF Asks
  <2>4. /\ call' = [call EXCEPT ![t] = e] /\ conn' = conn /\ count' = count
        /\ watch' = watch /\ UNCHANGED supervisor
    BY <1>4 DEF Pick
  <2> HIDE DEF e
  <2>5. Wire'
    BY <1>0, <2>2, <2>3, <2>4, CallSetWire
  <2>6. Closes'
    BY <1>0, <1>1, <1>4, <2>4, CallSetCloses
  <2>7. \A d \in Conns : Live(d)' => Live(d)
    BY <2>4 DEF Live
  <2> QED  BY <1>0, <1>2, <2>4, <2>5, <2>6, <2>7, Steady DEF McpInv
<1>5. CASE t \in Callers /\ Put(t)
  <2> DEFINE c == call[t].c
             what == call[t].what
             kind == "call"
  <2>1. /\ Request(t, c, kind, what) /\ watch' = watch /\ UNCHANGED supervisor
        /\ count' = count /\ what \in Whats /\ c \in 1 .. count.launches
        /\ kind \in {"call", "notify", "close"} /\ kind # "close"
    BY <1>0, <1>2, <1>5 DEF Put, Wire, Asks
  <2> HIDE DEF c, what, kind
  <2>2. Wire'
    BY <1>0, <2>1, RequestWire
  <2>3. Closes'
    BY <1>0, <1>1, <1>5, <2>1, RequestCloses
  <2>4. \A d \in Conns : Live(d)' => Live(d)
    BY <1>0, <2>1, RequestLive
  <2> QED  BY <1>0, <1>2, <2>1, <2>2, <2>3, <2>4, Steady DEF McpInv
<1>6. CASE t \in Callers /\ Return(t)
  <2>1. /\ call' = [call EXCEPT ![t] = NoCall] /\ conn' = conn /\ count' = count
        /\ watch' = watch /\ UNCHANGED supervisor
    BY <1>6 DEF Return, Returned
  <2>2. Wire'
    BY <1>0, <2>1, CallSetWire, NoCallAsks
  <2>3. Closes'
    BY <1>0, <1>1, <1>6, <2>1, CallSetCloses
  <2>4. \A d \in Conns : Live(d)' => Live(d)
    BY <2>1 DEF Live
  <2> QED  BY <1>0, <1>2, <2>1, <2>2, <2>3, <2>4, Steady DEF McpInv
<1> QED  BY <1>3, <1>4, <1>5, <1>6 DEF Calling

-----------------------------------------------------------------------------
(* The watching task. *)

(* One more request of the watching task, on the connection it has.        *)
LEMMA WatchAsks ==
  ASSUME McpInv, watch.at \in Connected, NEW kind \in {"call", "notify", "close"},
         NEW what \in Whats, kind = "close" => what = "close",
         Request(Watch, watch.c, kind, what), NEW at \in WatchPlaces, Goto(at),
         at \in Connected, at = "closing" => kind = "close" /\ what = "close",
         state' = state, stopped' = stopped, woken' = woken \/ woken' = FALSE, shut' = shut,
         count' = count
  PROVE  McpInv'
<1> DEFINE c == watch.c
<1>0. Wire /\ SupervisorTyped /\ Handles /\ OnlyWatched /\ Closes
  BY DEF McpInv
<1>1. /\ conn \in [Conns -> Links] /\ call \in [Tasks -> Asks]
      /\ count.launches \in 0 .. MaxLaunches /\ MaxLaunches \in Nat /\ Watch \in Tasks
  BY <1>0, McpAssumption DEF Wire, WireTyped, Tasks
<1>2. c \in 1 .. count.launches /\ c \in Conns
  BY <1>0, <1>1 DEF Handles, Conns
<1>3. Wire'
  <2> HIDE DEF c
  <2>1. Request(Watch, c, kind, what)
    BY DEF c
  <2> QED  BY <1>0, <1>1, <1>2, <2>1, RequestWire
<1>4. \A d \in Conns : Live(d)' <=> Live(d)
  BY <1>0, RequestLive
<1>5. /\ watch' \in [at : WatchPlaces, c : Nat, budget : Nat, first : BOOLEAN, enabled : BOOLEAN]
      /\ watch'.at = at /\ watch'.c = c
  BY <1>0 DEF Goto, SupervisorTyped
<1>6. SupervisorTyped'
  BY <1>0, <1>5 DEF SupervisorTyped
<1>7. Handles'
  BY <1>0, <1>2, <1>5 DEF Handles
<1>8. OnlyWatched'
  BY <1>0, <1>4, <1>5 DEF OnlyWatched, Connected
<1>9. Closes'
  <2>1. SUFFICES ASSUME at = "closing"
                 PROVE  Closes'
    BY <1>5 DEF Closes
  <2>2. kind = "close" /\ what = "close"
    BY <2>1
  <2> DEFINE cmd == [kind |-> kind, id |-> conn[c].next, by |-> Watch, what |-> what]
             q == conn[c].commands
  <2>3. conn[c] \in Links /\ q \in Seq(Orders) /\ conn[c].next \in Nat
    BY <1>1, <1>2 DEF Links
  <2>4. /\ call'[Watch].at = "waiting" /\ call'[Watch].c = c /\ call'[Watch].id = conn[c].next
        /\ call'[Watch].what = what /\ call'[Watch].reply = NoReply
    BY <1>1 DEF Request, Waits, NoCall
  <2>5. conn'[c].pending = conn[c].pending /\ conn'[c].commands = Append(q, cmd)
    BY <1>1, <1>2, <2>3 DEF Request, Sent
  <2>6. cmd.kind = "close" /\ McpNumbered(c)
    BY <1>0, <1>2, <2>2 DEF Wire
  <2> HIDE DEF cmd, q
  <2>7. \A i \in DOMAIN Append(q, cmd) : (i \in DOMAIN q /\ Append(q, cmd)[i] = q[i])
                                          \/ Append(q, cmd)[i] = cmd
    BY <2>3
  <2>8. ASSUME NEW i \in DOMAIN Append(q, cmd), Append(q, cmd)[i].id = conn[c].next
        PROVE  Append(q, cmd)[i].kind \notin {"call", "notify"}
    <3>1. CASE Append(q, cmd)[i] = cmd
      BY <2>6, <3>1
    <3>2. CASE i \in DOMAIN q /\ Append(q, cmd)[i] = q[i]
      <4>1. q[i].id < conn[c].next
        BY <2>6, <3>2 DEF McpNumbered, q
      <4> QED  BY <2>3, <2>8, <3>2, <4>1
    <3> QED  BY <2>7, <3>1, <3>2
  <2>9. conn[c].next \notin conn[c].pending
    BY <2>3, <2>6 DEF McpNumbered
  <2> HIDE DEF c
  <2> QED  BY <1>5, <2>2, <2>4, <2>5, <2>8, <2>9 DEF Closes, Waiting
<1> QED  BY <1>0, <1>3, <1>6, <1>7, <1>8, <1>9 DEF McpInv

(* What the watching task does with the answer it has, or without one.     *)
LEMMA WatchMoves ==
  ASSUME McpInv, call' = call \/ Returned(Watch), conn' = conn, count' \in Counts,
         count'.launches = count.launches,
         watch' \in [at : WatchPlaces, c : Nat, budget : Nat, first : BOOLEAN, enabled : BOOLEAN],
         watch'.c = watch.c, watch'.at # "closing", watch'.at \in Connected => watch.at \in Connected,
         watch'.at \in {"launch", "retry", "waiting"} => \A d \in Conns : ~Live(d),
         watch'.at = "lost" /\ ~stopped => \A d \in Conns : ~Live(d),
         state' \in [client : Nat, tools : SUBSET Tools,
                     health : {"Up", "Reconnecting", "GaveUp", "Stopped"}],
         state'.client \in {0, state.client, watch.c}, state'.health = "Up" => state'.client # 0,
         stopped' = stopped, woken' = woken \/ woken' = FALSE, shut' = shut
  PROVE  McpInv'
<1>0. Wire /\ SupervisorTyped /\ Handles /\ OnlyWatched /\ Closes
  BY DEF McpInv
<1>1. Wire'
  <2>1. CASE call' = call
    BY <1>0, <2>1, SameWire
  <2>2. CASE Returned(Watch)
    <3>1. Watch \in Tasks
      BY DEF Tasks
    <3> QED  BY <1>0, <2>2, <3>1, CallSetWire, NoCallAsks DEF Returned
  <2> QED  BY <2>1, <2>2
<1>2. \A d \in Conns : Live(d)' <=> Live(d)
  BY DEF Live
<1>3. SupervisorTyped'
  BY <1>0 DEF SupervisorTyped, Counts
<1>4. Handles'
  <2>1. count.launches \in Nat
    BY <1>0 DEF SupervisorTyped
  <2> QED  BY <1>0, <2>1 DEF Handles
<1>5. OnlyWatched'
  BY <1>0, <1>2 DEF OnlyWatched
<1>6. Closes'
  BY DEF Closes
<1> QED  BY <1>1, <1>3, <1>4, <1>5, <1>6 DEF McpInv

LEMMA LaunchInv ==
  ASSUME McpInv, Launch
  PROVE  McpInv'
<1> DEFINE d == count.launches + 1
<1>0. Wire /\ SupervisorTyped /\ Handles /\ OnlyWatched /\ Closes
  BY DEF McpInv
<1>1. /\ conn \in [Conns -> Links] /\ call \in [Tasks -> Asks] /\ count \in Counts
      /\ count.launches \in 0 .. MaxLaunches /\ MaxLaunches \in Nat /\ Watch \in Tasks
      /\ watch.at = "launch" /\ count.launches < MaxLaunches
      /\ state' = state /\ stopped' = stopped /\ woken' = woken /\ shut' = shut
  BY <1>0, McpAssumption DEF Wire, WireTyped, Tasks, SupervisorTyped, Counts, Launch, supervisor
<1>2. d \in Conns /\ d > count.launches /\ d \in Nat
  BY <1>1 DEF Conns
<1>3. count' = [count EXCEPT !.launches = @ + 1]
  BY DEF Launch
<1>4. count' \in Counts /\ count'.launches = d
  BY <1>1, <1>3 DEF Counts
<1>5. \A e \in Conns : ~Live(e)
  BY <1>0, <1>1 DEF OnlyWatched
<1>6. CASE /\ Goto(IF watch.first THEN "ended" ELSE "retry")
           /\ UNCHANGED <<conn, call>>
  <2>1. Wire'
    <3>1. WireTyped' /\ OwnAnswer' /\ Distinct'
      BY <1>0, <1>1, <1>2, <1>4, <1>6 DEF Wire, WireTyped, OwnAnswer, Distinct, Waiting
    <3>2. \A e \in Conns : McpNumbered(e)'
      BY <1>0, <1>6 DEF Wire, McpNumbered
    <3>3. \A e \in Conns : e > count'.launches => conn'[e].next = 1
      BY <1>0, <1>1, <1>4, <1>6 DEF Wire, Conns
    <3>4. \A t \in Tasks : call'[t].at # "idle" => call'[t].c \in 1 .. count'.launches
      BY <1>0, <1>1, <1>4, <1>6 DEF Wire
    <3>5. \A t \in Tasks : Waiting(t)' => OfItsOwn(t)'
      BY <1>0, <1>6 DEF Wire, OfItsOwn, Waiting
    <3>6. \A t \in Tasks : Unanswered(t)' => CoveredBy(conn[call[t].c], call[t].id, call[t].what)'
      BY <1>0, <1>6 DEF Wire, Unanswered, CoveredBy, Waiting
    <3> QED  BY <3>1, <3>2, <3>3, <3>4, <3>5, <3>6 DEF Wire
  <2>2. /\ watch' \in [at : WatchPlaces, c : Nat, budget : Nat, first : BOOLEAN, enabled : BOOLEAN]
        /\ watch'.at \in {"ended", "retry"} /\ watch'.c = watch.c
    BY <1>0, <1>6 DEF Goto, SupervisorTyped, WatchPlaces
  <2>3. SupervisorTyped'
    BY <1>0, <1>1, <1>4, <2>2 DEF SupervisorTyped, Counts
  <2>4. Handles'
    BY <1>0, <1>1, <1>4, <2>2 DEF Handles, Connected
  <2>5. OnlyWatched'
    BY <1>0, <1>1, <1>5, <1>6, <2>2 DEF OnlyWatched, Live
  <2>6. Closes'
    BY <2>2 DEF Closes
  <2> QED  BY <2>1, <2>3, <2>4, <2>5, <2>6 DEF McpInv
<1>7. ASSUME NEW tools \in Menus,
             LET c == count.launches + 1
                 fresh == [conn EXCEPT ![c] =
                   [Unlaunched EXCEPT !.driver = "open", !.up = TRUE, !.serves = tools]]
             IN  /\ conn' = Sent(fresh, c, "call", Watch, "initialize")
                 /\ call' = Waits(call, c, Watch, "initialize")
                 /\ watch' = [watch EXCEPT !.at = "handshake", !.c = c]
      PROVE  McpInv'
  <2> DEFINE b == [driver |-> "open", commands |-> <<>>, pending |-> {}, lines |-> <<>>,
                   asked |-> {}, up |-> TRUE, serves |-> tools, next |-> 1]
             what == "initialize"
             kind == "call"
             cmd == [kind |-> kind, id |-> 1, by |-> Watch, what |-> what]
             k == [b EXCEPT !.commands = Append(@, cmd), !.next = @ + 1]
             fresh == [conn EXCEPT ![d] = b]
  <2>1. tools \in SUBSET Tools
    BY DEF Tools
  <2>2. b \in Links
    BY <2>1 DEF Links
  <2>3. [Unlaunched EXCEPT !.driver = "open", !.up = TRUE, !.serves = tools] = b
    <3> DEFINE u == [driver |-> "none", commands |-> <<>>, pending |-> {}, lines |-> <<>>,
                     asked |-> {}, up |-> FALSE, serves |-> {}, next |-> 1]
               w == [u EXCEPT !.driver = "open", !.up = TRUE, !.serves = tools]
    <3>1. Unlaunched = u
      BY DEF Unlaunched
    <3>2. DOMAIN w = DOMAIN b
      OBVIOUS
    <3>3. w.driver = b.driver /\ w.commands = b.commands /\ w.pending = b.pending /\ w.lines = b.lines
      OBVIOUS
    <3>4. w.asked = b.asked /\ w.up = b.up /\ w.serves = b.serves /\ w.next = b.next
      OBVIOUS
    <3>5. \A f \in DOMAIN b : w[f] = b[f]
      BY <3>3, <3>4
    <3>6. w = b
      BY <3>2, <3>5
    <3> QED  BY <3>1, <3>6
  <2>4. /\ b.next = 1 /\ b.commands = <<>> /\ b.pending = {} /\ b.asked = {} /\ b.lines = <<>>
        /\ b.driver = "open"
    OBVIOUS
  <2>5. conn' = Sent(fresh, d, kind, Watch, what) /\ call' = Waits(call, d, Watch, what)
        /\ watch' = [watch EXCEPT !.at = "handshake", !.c = d]
    BY <1>7, <2>3
  <2> HIDE DEF b
  <2>6. cmd \in Orders
    BY <1>1 DEF Orders, Whats
  <2>7. /\ k \in Links /\ k.commands = Append(b.commands, cmd) /\ k.next = b.next + 1
        /\ k.driver = b.driver /\ k.pending = b.pending /\ k.asked = b.asked /\ k.lines = b.lines
    <3>1. Append(b.commands, cmd) \in Seq(Orders) /\ b.next + 1 \in Nat
      <4> HIDE DEF cmd
      <4> QED  BY <2>4, <2>6
    <3> HIDE DEF cmd
    <3> QED  BY <2>2, <3>1 DEF Links
  <2>8. conn' = [conn EXCEPT ![d] = k]
    <3>1. fresh[d] = b
      BY <1>1, <1>2
    <3> HIDE DEF fresh, d
    <3>2. conn' = [fresh EXCEPT ![d].commands = Append(@, cmd), ![d].next = @ + 1]
      BY <2>4, <2>5, <3>1 DEF Sent
    <3>3. conn' = [fresh EXCEPT ![d] = k]
      BY <1>1, <1>2, <2>2, <3>1, <3>2 DEF fresh
    <3> HIDE DEF k
    <3> QED  BY <1>1, <1>2, <3>3 DEF fresh
  <2>9. what \in Whats /\ kind \in {"call", "notify", "close"} /\ kind # "close"
    BY DEF Whats
  <2>10. k.commands = Append(b.commands, [kind |-> kind, id |-> b.next, by |-> Watch, what |-> what])
    BY <2>4, <2>7
  <2>11. count'.launches \in 0 .. MaxLaunches /\ count.launches <= count'.launches
         /\ d <= count'.launches
    BY <1>1, <1>4
  <2> HIDE DEF what, kind, d, cmd, k, fresh
  <2>12. Wire'
    <3>1. \/ b = conn[d]
          \/ d > count.launches /\ b.next = 1 /\ b.commands = <<>> /\ b.pending = {} /\ b.asked = {}
             /\ b.lines = <<>>
      BY <1>2, <2>4
    <3>2. /\ k \in Links /\ k.next = b.next + 1
          /\ k.driver = b.driver /\ k.pending = b.pending /\ k.asked = b.asked /\ k.lines = b.lines
      BY <2>7
    <3>3. call' = Waits(call, d, Watch, what)
      BY <2>5
    <3> QED  BY <1>0, <1>1, <1>2, <2>2, <2>8, <2>9, <2>10, <2>11, <3>1, <3>2, <3>3, AskWire
  <2>13. /\ watch' \in [at : WatchPlaces, c : Nat, budget : Nat, first : BOOLEAN, enabled : BOOLEAN]
         /\ watch'.at = "handshake" /\ watch'.c = d
    BY <1>0, <1>2, <2>5 DEF SupervisorTyped, WatchPlaces
  <2>14. SupervisorTyped'
    BY <1>0, <1>1, <1>4, <2>13 DEF SupervisorTyped, Counts
  <2>15. Handles'
    BY <1>0, <1>1, <1>4, <2>13 DEF Handles, Connected, d
  <2>16. \A e \in Conns : Live(e)' => e = d
    BY <1>1, <1>5, <2>8 DEF Live
  <2>17. OnlyWatched'
    BY <1>0, <1>1, <2>13, <2>16 DEF OnlyWatched
  <2>18. Closes'
    BY <2>13 DEF Closes
  <2> QED  BY <2>12, <2>14, <2>15, <2>17, <2>18 DEF McpInv
<1> QED  BY <1>6, <1>7 DEF Launch

Watches == [at : WatchPlaces, c : Nat, budget : Nat, first : BOOLEAN, enabled : BOOLEAN]
States == [client : Nat, tools : SUBSET Tools, health : {"Up", "Reconnecting", "GaveUp", "Stopped"}]

LEMMA DownState ==
  ASSUME NEW why \in {"Up", "Reconnecting", "GaveUp", "Stopped"}
  PROVE  Down(why) \in States /\ Down(why).client = 0 /\ Down(why).health = why
BY DEF Down, States

LEMMA BecomesState ==
  ASSUME SupervisorTyped, Handles, NEW why \in {"Reconnecting", "GaveUp"}, Becomes(why)
  PROVE  /\ state' \in States /\ state'.client \in {0, state.client}
         /\ state'.health = "Up" => state'.client # 0
<1>1. state \in States /\ (state.health = "Up" => state.client # 0)
  BY DEF SupervisorTyped, States, Handles
<1>2. CASE state.health = "Stopped"
  <2>1. state' = state
    BY <1>2 DEF Becomes
  <2> QED  BY <1>1, <2>1
<1>3. CASE state.health # "Stopped"
  <2>1. state' = Down(why)
    BY <1>3 DEF Becomes
  <2> QED  BY <2>1, DownState
<1> QED  BY <1>2, <1>3

LEMMA WatchingInv ==
  ASSUME McpInv, Watching
  PROVE  McpInv'
<1>0. Wire /\ SupervisorTyped /\ Handles /\ OnlyWatched /\ Closes
  BY DEF McpInv
<1>1. /\ watch \in Watches /\ state \in States /\ (state.health = "Up" => state.client # 0)
      /\ count \in Counts /\ MaxAttempts \in Nat /\ Watch \in Tasks /\ call[Watch] \in Asks
      /\ call[Watch].reply.tools \in SUBSET Tools
  <2>1. call \in [Tasks -> Asks] /\ Watch \in Tasks
    BY <1>0 DEF Wire, WireTyped, Tasks
  <2>2. call[Watch] \in Asks
    BY <2>1
  <2>3. call[Watch].reply.tools \in SUBSET Tools
    BY <2>2 DEF Asks, Replies
  <2> QED  BY <1>0, <2>1, <2>2, <2>3, McpAssumption DEF SupervisorTyped, Watches, States, Counts, Handles
<1>2. {"initialize", "initialized", "list", "close"} \subseteq Whats
  BY DEF Whats
<1>3. ASSUME NEW at \in WatchPlaces, watch' = [watch EXCEPT !.at = at]
      PROVE  watch' \in Watches /\ watch'.at = at /\ watch'.c = watch.c
  BY <1>1, <1>3 DEF Watches
<1>4. CASE Launch
  BY <1>4, LaunchInv
<1>5. CASE Shake
  <2> DEFINE kind == "notify"
             what == "initialized"
             at == "initialized"
  <2>1. /\ Request(Watch, watch.c, kind, what) /\ Goto(at)
        /\ state' = state /\ stopped' = stopped /\ woken' = woken /\ shut' = shut /\ count' = count
        /\ watch.at \in Connected /\ at \in Connected /\ at \in WatchPlaces
        /\ kind \in {"call", "notify", "close"} /\ kind # "close" /\ at # "closing" /\ what \in Whats
    BY <1>2, <1>5 DEF Shake, supervisor, Connected, WatchPlaces
  <2> HIDE DEF kind, what, at
  <2> QED  BY <2>1, WatchAsks
<1>6. CASE Discover
  <2> DEFINE kind == "call"
             what == "list"
             at == "discover"
  <2>1. /\ Request(Watch, watch.c, kind, what) /\ Goto(at)
        /\ state' = state /\ stopped' = stopped /\ woken' = woken /\ shut' = shut /\ count' = count
        /\ watch.at \in Connected /\ at \in Connected /\ at \in WatchPlaces
        /\ kind \in {"call", "notify", "close"} /\ kind # "close" /\ at # "closing" /\ what \in Whats
    BY <1>2, <1>6 DEF Discover, supervisor, Connected, WatchPlaces
  <2> HIDE DEF kind, what, at
  <2> QED  BY <2>1, WatchAsks
<1>7. CASE Fails
  <2>1. CASE Closing
    <3> DEFINE kind == "close"
               what == "close"
               at == "closing"
    <3>1. /\ Request(Watch, watch.c, kind, what) /\ Goto(at)
          /\ state' = state /\ stopped' = stopped /\ woken' = woken /\ shut' = shut /\ count' = count
          /\ watch.at \in Connected /\ at \in Connected /\ at \in WatchPlaces
          /\ kind \in {"call", "notify", "close"} /\ what = "close" /\ kind = "close" /\ what \in Whats
      BY <1>2, <1>7, <2>1 DEF Fails, Closing, supervisor, Connected, WatchPlaces
    <3> HIDE DEF kind, what, at
    <3> QED  BY <3>1, WatchAsks
  <2>2. CASE Returned(Watch) /\ Goto("ended") /\ UNCHANGED conn
    <3>1. watch' \in Watches /\ watch'.at = "ended" /\ watch'.c = watch.c
      BY <1>1, <2>2 DEF Goto, Watches, WatchPlaces
    <3>2. state' = state /\ stopped' = stopped /\ woken' = woken /\ shut' = shut /\ count' = count
      BY <1>7 DEF Fails, supervisor
    <3> QED  BY <1>1, <2>2, <3>1, <3>2, WatchMoves DEF Watches, States, Connected
  <2> QED  BY <1>7, <2>1, <2>2 DEF Fails
<1>8. CASE Closed
  <2>1. \A d \in Conns : ~Live(d)
    BY <1>0, <1>8 DEF Closed, Replied, Closes, OnlyWatched
  <2>2. watch' \in Watches /\ watch'.at \in {"ended", "retry"} /\ watch'.c = watch.c
    BY <1>1, <1>8 DEF Closed, Goto, Watches, WatchPlaces
  <2>3. /\ state' = state /\ stopped' = stopped /\ woken' = woken /\ shut' = shut /\ count' = count
        /\ conn' = conn /\ Returned(Watch)
    BY <1>8 DEF Closed, supervisor
  <2> QED  BY <1>1, <2>1, <2>2, <2>3, WatchMoves DEF Watches, States, Connected
<1>9. CASE Adopt
  <2>1. watch' \in Watches /\ watch'.at = "adopted" /\ watch'.c = watch.c
    BY <1>1, <1>9 DEF Adopt, Watches, WatchPlaces
  <2>2. /\ stopped' = stopped /\ woken' = woken /\ shut' = shut /\ count' = count
        /\ conn' = conn /\ Returned(Watch) /\ watch.at \in Connected
    BY <1>9 DEF Adopt, rest, Connected
  <2>3. watch.c # 0 /\ watch.c \in Nat
    BY <1>0, <1>1, <2>2 DEF Handles, Watches
  <2>4. state' \in States /\ state'.client = watch.c
    BY <1>1, <1>9, <2>3 DEF Adopt, States
  <2> QED  BY <1>1, <2>1, <2>2, <2>3, <2>4, WatchMoves DEF Watches, States
<1>10. CASE Subscribe
  <2>1. watch' \in Watches /\ watch'.at = "serving" /\ watch'.c = watch.c
    BY <1>1, <1>10 DEF Subscribe, Goto, Watches, WatchPlaces
  <2>2. /\ state' = state /\ stopped' = stopped /\ woken' = woken /\ shut' = shut /\ count' = count
        /\ conn' = conn /\ call' = call /\ watch.at \in Connected
    BY <1>10 DEF Subscribe, supervisor, Connected
  <2> QED  BY <1>1, <2>1, <2>2, WatchMoves DEF Watches, States
<1>11. CASE Notice
  <2>1. /\ state' = state /\ stopped' = stopped /\ woken' = FALSE /\ shut' = shut /\ count' = count
        /\ watch.at = "serving" /\ watch.at \in Connected
    BY <1>11 DEF Notice, Connected
  <2>2. CASE Head(notices) = "changed"
    <3> DEFINE kind == "call"
               what == "list"
               at == "relisting"
    <3>1. /\ Request(Watch, watch.c, kind, what) /\ Goto(at)
          /\ at \in Connected /\ at \in WatchPlaces
          /\ kind \in {"call", "notify", "close"} /\ kind # "close" /\ at # "closing" /\ what \in Whats
      BY <1>2, <1>11, <2>2 DEF Notice, Connected, WatchPlaces
    <3> HIDE DEF kind, what, at
    <3> QED  BY <2>1, <3>1, WatchAsks
  <2>3. CASE Head(notices) # "changed"
    <3>1. conn' = conn /\ call' = call /\ watch' = watch
      BY <1>11, <2>3 DEF Notice
    <3> QED  BY <1>1, <2>1, <3>1, WatchMoves DEF Watches, States
  <2> QED  BY <2>2, <2>3
<1>12. CASE Relisted
  <2>1. watch' \in Watches /\ watch'.at = "serving" /\ watch'.c = watch.c
    BY <1>1, <1>12 DEF Relisted, Goto, Watches, WatchPlaces
  <2>2. /\ stopped' = stopped /\ woken' = woken /\ shut' = shut /\ count' = count
        /\ conn' = conn /\ Returned(Watch) /\ watch.at \in Connected
    BY <1>12 DEF Relisted, rest, Connected
  <2>3. state' \in States /\ state'.client = state.client /\ (state'.health = "Up" => state'.client # 0)
    <3>1. CASE state' = state
      BY <1>1, <3>1
    <3>2. CASE state' = [state EXCEPT !.tools = call[Watch].reply.tools]
      BY <1>1, <3>2 DEF States
    <3> QED  BY <1>12, <3>1, <3>2 DEF Relisted
  <2> QED  BY <1>1, <2>1, <2>2, <2>3, WatchMoves DEF Watches, States
<1>13. CASE ServeEnds
  <2>1. watch' \in Watches /\ watch'.at = "lost" /\ watch'.c = watch.c
    BY <1>1, <1>13 DEF ServeEnds, Goto, Watches, WatchPlaces
  <2>2. /\ state' = state /\ stopped' = stopped /\ woken' = woken /\ shut' = shut /\ count' = count
        /\ conn' = conn /\ call' = call
    BY <1>13 DEF ServeEnds, supervisor
  <2>3. ~stopped => \A d \in Conns : ~Live(d)
    BY <1>0, <1>13 DEF ServeEnds, OnlyWatched
  <2> QED  BY <1>1, <2>1, <2>2, <2>3, WatchMoves DEF Watches, States, Connected
<1>14. CASE GiveUp
  <2>1. watch' \in Watches /\ watch'.at = "ended" /\ watch'.c = watch.c
    BY <1>1, <1>14 DEF GiveUp, Goto, Watches, WatchPlaces
  <2>2. /\ stopped' = stopped /\ woken' = woken /\ shut' = shut /\ count' = count
        /\ conn' = conn /\ call' = call
    BY <1>14 DEF GiveUp, rest
  <2>3. /\ state' \in States /\ state'.client \in {0, state.client}
        /\ state'.health = "Up" => state'.client # 0
    BY <1>0, <1>14, BecomesState DEF GiveUp
  <2> QED  BY <1>1, <2>1, <2>2, <2>3, WatchMoves DEF Watches, States, Connected
<1>15. CASE Retry
  <2>1. watch.budget - 1 \in Nat
    BY <1>1, <1>15 DEF Retry, Watches
  <2>2. watch' \in Watches /\ watch'.at \in {"ended", "waiting"} /\ watch'.c = watch.c
    BY <1>1, <1>15, <2>1 DEF Retry, Watches, WatchPlaces
  <2>3. /\ state' = state /\ stopped' = stopped /\ woken' = woken /\ shut' = shut /\ count' = count
        /\ conn' = conn /\ call' = call
    BY <1>15 DEF Retry, supervisor
  <2>4. \A d \in Conns : ~Live(d)
    BY <1>0, <1>15 DEF Retry, OnlyWatched
  <2> QED  BY <1>1, <2>2, <2>3, <2>4, WatchMoves DEF Watches, States, Connected
<1>16. CASE Elapse
  <2>2. watch' \in Watches /\ watch'.at \in {"ended", "launch"} /\ watch'.c = watch.c
    BY <1>1, <1>16 DEF Elapse, Goto, Watches, WatchPlaces
  <2>3. /\ state' = state /\ stopped' = stopped /\ woken' = woken /\ shut' = shut /\ count' = count
        /\ conn' = conn /\ call' = call
    BY <1>16 DEF Elapse, supervisor
  <2>4. \A d \in Conns : ~Live(d)
    BY <1>0, <1>16 DEF Elapse, OnlyWatched
  <2> QED  BY <1>1, <2>2, <2>3, <2>4, WatchMoves DEF Watches, States, Connected
<1>17. CASE WatchEnds
  <2>1. watch' \in Watches /\ watch'.at = "ended" /\ watch'.c = watch.c
    BY <1>1, <1>17 DEF WatchEnds, Goto, Watches, WatchPlaces
  <2>2. /\ state' = state /\ stopped' = stopped /\ woken' = woken /\ shut' = shut /\ count' = count
        /\ conn' = conn /\ call' = call
    BY <1>17 DEF WatchEnds, supervisor
  <2> QED  BY <1>1, <2>1, <2>2, WatchMoves DEF Watches, States, Connected
<1>18. ASSUME NEW lasted \in BOOLEAN, Lost(lasted) PROVE McpInv'
  <2>1. watch' \in Watches /\ watch'.at = "retry" /\ watch'.c = watch.c
    BY <1>1, <1>18 DEF Lost, Watches, WatchPlaces
  <2>2. stopped' = stopped /\ woken' = woken /\ shut' = shut /\ conn' = conn /\ call' = call
    BY <1>18 DEF Lost, rest
  <2>3. count' \in Counts /\ count'.launches = count.launches
    BY <1>1, <1>18 DEF Lost, Counts
  <2>4. /\ state' \in States /\ state'.client \in {0, state.client}
        /\ state'.health = "Up" => state'.client # 0
    BY <1>0, <1>18, BecomesState DEF Lost
  <2>5. \A d \in Conns : ~Live(d)
    BY <1>0, <1>18 DEF Lost, OnlyWatched
  <2> QED  BY <1>1, <2>1, <2>2, <2>3, <2>4, <2>5, WatchMoves DEF Watches, States, Connected
<1> QED  BY <1>4, <1>5, <1>6, <1>7, <1>8, <1>9, <1>10, <1>11, <1>12, <1>13, <1>14, <1>15, <1>16,
            <1>17, <1>18 DEF Watching

-----------------------------------------------------------------------------
(* Shutdown. *)

LEMMA StoppingInv ==
  ASSUME McpInv, Stopping \/ Flag
  PROVE  McpInv'
<1>0. Wire /\ SupervisorTyped /\ Handles /\ OnlyWatched /\ Closes
  BY DEF McpInv
<1>1. /\ state.client \in Nat /\ shut \in [at : {"no", "flagged", "closing", "done"}, c : Nat]
      /\ count.launches \in Nat /\ Stopper \in Tasks /\ Stopper # Watch
  BY <1>0 DEF SupervisorTyped, Tasks, Stopper, Watch
<1>2. CASE Flag
  <2>1. /\ conn' = conn /\ call' = call /\ count' = count /\ watch' = watch /\ state' = state
        /\ stopped' = TRUE /\ shut' = [shut EXCEPT !.at = "flagged"]
    BY <1>2 DEF Flag
  <2>2. Wire'
    BY <1>0, <2>1, SameWire
  <2>3. SupervisorTyped'
    BY <1>0, <1>1, <2>1 DEF SupervisorTyped
  <2>4. Handles'
    BY <1>0, <2>1 DEF Handles
  <2>5. OnlyWatched'
    BY <1>0, <2>1 DEF OnlyWatched, Live
  <2>6. Closes'
    BY <1>0, <2>1 DEF Closes, Waiting, Live
  <2> QED  BY <2>2, <2>3, <2>4, <2>5, <2>6 DEF McpInv
<1>3. CASE Take
  <2>1. /\ state' \in States /\ state'.client = 0 /\ state'.health = "Stopped"
        /\ watch' = watch /\ count' = count /\ stopped' = stopped /\ woken' = woken
    BY <1>3, DownState DEF Take
  <2>2. shut' \in [at : {"no", "flagged", "closing", "done"}, c : Nat]
    BY <1>1, <1>3 DEF Take
  <2>3. SupervisorTyped'
    BY <1>0, <2>1, <2>2 DEF SupervisorTyped, States
  <2>4. Handles'
    BY <1>0, <1>1, <2>1 DEF Handles
  <2>5. CASE state.client = 0
    <3>1. conn' = conn /\ call' = call
      BY <1>3, <2>5 DEF Take
    <3>2. Wire'
      BY <1>0, <2>1, <3>1, SameWire
    <3>3. OnlyWatched'
      BY <1>0, <2>1, <3>1 DEF OnlyWatched, Live
    <3>4. Closes'
      BY <1>0, <2>1, <3>1 DEF Closes, Waiting, Live
    <3> QED  BY <2>3, <2>4, <3>2, <3>3, <3>4 DEF McpInv
  <2>6. CASE state.client # 0
    <3> DEFINE c == state.client
               kind == "close"
               what == "close"
    <3>1. /\ Request(Stopper, c, kind, what) /\ kind \in {"call", "notify", "close"}
          /\ what = "close" /\ what \in Whats
      BY <1>3, <2>6 DEF Take, Whats
    <3>2. c \in 1 .. count.launches
      BY <1>0, <1>1, <2>6 DEF Handles
    <3> HIDE DEF c, kind, what
    <3>3. Wire'
      BY <1>0, <1>1, <2>1, <3>1, <3>2, RequestWire
    <3>4. Closes'
      BY <1>0, <1>1, <2>1, <3>1, <3>2, RequestCloses
    <3>5. \A d \in Conns : Live(d)' <=> Live(d)
      BY <1>0, <3>1, RequestLive
    <3>6. OnlyWatched'
      BY <1>0, <2>1, <3>5 DEF OnlyWatched
    <3> QED  BY <2>3, <2>4, <3>3, <3>4, <3>6 DEF McpInv
  <2> QED  BY <2>5, <2>6
<1>4. CASE ShutDown
  <2>1. /\ conn' = conn /\ call' = [call EXCEPT ![Stopper] = NoCall] /\ count' = count
        /\ watch' = watch /\ state' = state /\ stopped' = stopped /\ woken' = woken
        /\ shut' = [at |-> "done", c |-> 0]
    BY <1>4 DEF ShutDown, Returned
  <2>2. Wire'
    BY <1>0, <1>1, <2>1, CallSetWire, NoCallAsks
  <2>3. SupervisorTyped'
    BY <1>0, <1>1, <2>1 DEF SupervisorTyped
  <2>4. Handles'
    BY <1>0, <2>1 DEF Handles
  <2>5. OnlyWatched'
    BY <1>0, <2>1 DEF OnlyWatched, Live
  <2>6. Closes'
    BY <1>0, <1>1, <2>1, CallSetCloses
  <2> QED  BY <2>2, <2>3, <2>4, <2>5, <2>6 DEF McpInv
<1> QED  BY <1>2, <1>3, <1>4 DEF Stopping

-----------------------------------------------------------------------------
LEMMA McpInitInv == McpInit => McpInv
<1> SUFFICES ASSUME McpInit PROVE McpInv
  OBVIOUS
<1>1. MaxAttempts \in Nat /\ MaxLaunches \in Nat
  BY McpAssumption
<1>2. Unlaunched = [driver |-> "none", commands |-> <<>>, pending |-> {}, lines |-> <<>>,
                    asked |-> {}, up |-> FALSE, serves |-> {}, next |-> 1]
  BY DEF Unlaunched
<1>3. Unlaunched \in Links
  BY DEF Unlaunched, Links
<1>4. conn = [c \in Conns |-> Unlaunched] /\ call = [t \in Tasks |-> NoCall]
      /\ count = [launches |-> 0, stable |-> 0, spoken |-> 0, expired |-> 0]
      /\ stopped = FALSE /\ woken = FALSE /\ shut = [at |-> "no", c |-> 0]
  BY DEF McpInit
<1>5. watch \in Watches /\ watch.at = "launch" /\ watch.c = 0
  BY <1>1 DEF McpInit, Watches, WatchPlaces
<1>6. state \in States /\ state.client = 0 /\ state.health = "Reconnecting"
  BY DownState DEF McpInit
<1>7. \A c \in Conns : conn[c] = Unlaunched
  BY <1>4
<1>8. \A t \in Tasks : call[t] = NoCall
  BY <1>4
<1>9. Wire
  <2>1. WireTyped
    BY <1>1, <1>3, <1>4, NoCallAsks DEF WireTyped
  <2>2. \A c \in Conns : McpNumbered(c)
    BY <1>2, <1>7 DEF McpNumbered
  <2>3. OwnAnswer
    BY <1>8, NoCallAsks DEF OwnAnswer
  <2>4. \A c \in Conns : c > count.launches => conn[c].next = 1
    BY <1>2, <1>7
  <2>5. \A t \in Tasks : call[t].at = "idle"
    BY <1>8, NoCallAsks
  <2> QED  BY <2>1, <2>2, <2>3, <2>4, <2>5 DEF Wire, Waiting, Unanswered, Distinct
<1>10. SupervisorTyped
  BY <1>4, <1>5, <1>6 DEF SupervisorTyped, Watches, States
<1>11. Handles
  BY <1>4, <1>5, <1>6 DEF Handles, Connected
<1>12. \A c \in Conns : ~Live(c)
  BY <1>2, <1>7 DEF Live
<1>13. OnlyWatched
  BY <1>4, <1>12 DEF OnlyWatched
<1>14. Closes
  BY <1>5 DEF Closes
<1> QED  BY <1>9, <1>10, <1>11, <1>13, <1>14 DEF McpInv

LEMMA McpNextInv == McpInv /\ [McpNext]_mcpVars => McpInv'
<1> SUFFICES ASSUME McpInv, [McpNext]_mcpVars PROVE McpInv'
  OBVIOUS
<1>1. CASE Watching
  BY <1>1, WatchingInv
<1>2. CASE Stopping \/ Flag
  BY <1>2, StoppingInv
<1>3. ASSUME NEW c \in Conns, Drive(c) \/ Serve(c) PROVE McpInv'
  BY <1>3, DrivenInv
<1>4. ASSUME NEW t \in Tasks, Expire(t) PROVE McpInv'
  BY <1>4, CallerInv
<1>5. ASSUME NEW t \in Callers, Calling(t) \/ \E tool \in Tools : Pick(t, tool) PROVE McpInv'
  <2>1. t \in Tasks
    BY DEF Tasks
  <2> QED  BY <1>5, <2>1, CallerInv
<1>6. CASE UNCHANGED mcpVars
  <2>0. Wire /\ SupervisorTyped /\ Handles /\ OnlyWatched /\ Closes
    BY DEF McpInv
  <2>1. /\ conn' = conn /\ call' = call /\ watch' = watch /\ count' = count /\ UNCHANGED supervisor
    BY <1>6 DEF mcpVars, supervisor
  <2>2. Wire'
    BY <2>0, <2>1, SameWire
  <2>3. SupervisorTyped' /\ Handles' /\ OnlyWatched'
    <3>1. count \in Counts
      BY <2>0 DEF SupervisorTyped, Counts
    <3> QED  BY <2>0, <2>1, <3>1, Steady DEF Live
  <2>4. Closes'
    BY <2>0, <2>1 DEF Closes, Waiting, Live
  <2> QED  BY <2>2, <2>3, <2>4 DEF McpInv
<1> QED  BY <1>1, <1>2, <1>3, <1>4, <1>5, <1>6 DEF McpNext

(* No launch leaves an earlier server behind (supervisor.rs, watch and     *)
(* connect): whatever fails, expires or is stopped, at most one connection *)
(* is driven.                                                              *)
THEOREM OneServerOnly == McpSpec => []OneServer
<1>1. McpInv => OneServer
  <2> SUFFICES ASSUME McpInv PROVE OneServer
    OBVIOUS
  <2> DEFINE driven == {c \in Conns : Live(c)}
             one == {watch.c}
  <2>1. driven \subseteq one
    BY DEF McpInv, OnlyWatched
  <2>2. IsFiniteSet(one) /\ Cardinality(one) = 1
    BY FS_Singleton
  <2>3. Cardinality(driven) <= Cardinality(one)
    <3> HIDE DEF driven, one
    <3> QED  BY <2>1, <2>2, FS_Subset
  <2>4. Cardinality(driven) <= 1
    <3> HIDE DEF driven, one
    <3> QED  BY <2>2, <2>3
  <2> QED  BY <2>4 DEF OneServer
<1> QED  BY <1>1, McpInitInv, McpNextInv, PTL DEF McpSpec

(* Whoever calls hears of it, and of its own request: no late answer, no   *)
(* budget that ran out and no server that left is taken for another's      *)
(* (connection.rs, call and drive).                                        *)
THEOREM EveryoneHears == McpSpec => []CallersHear
<1>1. McpInv => CallersHear
  <2> SUFFICES ASSUME McpInv PROVE CallersHear
    OBVIOUS
  <2>1. OwnAnswer /\ \A t \in Tasks : Unanswered(t) => CoveredBy(conn[call[t].c], call[t].id, call[t].what)
    BY DEF McpInv, Wire
  <2>2. NobodyForgotten
    BY <2>1 DEF NobodyForgotten, Unanswered, Waiting, CoveredBy, Queued
  <2> QED  BY <2>1, <2>2 DEF CallersHear
<1> QED  BY <1>1, McpInitInv, McpNextInv, PTL DEF McpSpec

-----------------------------------------------------------------------------
(***************************************************************************)
(* The inbox, for any messages, seed and callers: what a session serves is *)
(* what its next process replays.                                          *)
(***************************************************************************)
Pending == [Targets -> Seq(Inputs \cup {"refused"})]

LEMMA AppliedTyped ==
  ASSUME NEW q \in Pending, NEW s \in Splices, Checks(q, s)
  PROVE  Applied(q, s) \in Pending /\ Applied(q, s) # Refused
<1> DEFINE V == Inputs \cup {"refused"}
           t == s.target
           new == SubSeq(q[t], 1, s.start) \o s.inserted
                    \o SubSeq(q[t], s.start + s.removed + 1, Len(q[t]))
<1>1. /\ t \in Targets /\ q[t] \in Seq(V) /\ s.start \in Nat /\ s.removed \in Nat
      /\ s.inserted \in Seq(V) /\ s.start + s.removed <= Len(q[t]) /\ Len(q[t]) \in Nat
  <2>1. s.inserted \in Seq(Inputs) /\ s.target \in Targets /\ s.start \in Nat /\ s.removed \in Nat
    BY DEF Splices
  <2>2. s.inserted \in Seq(V)
    BY <2>1
  <2>3. s.start + s.removed <= Len(q[s.target])
    BY DEF Checks
  <2> QED  BY <2>1, <2>2, <2>3 DEF Pending
<1> HIDE DEF t, V
<1>2. SubSeq(q[t], 1, s.start) \in Seq(V) /\ SubSeq(q[t], s.start + s.removed + 1, Len(q[t])) \in Seq(V)
  BY <1>1
<1>3. new \in Seq(V)
  BY <1>1, <1>2
<1>4. Applied(q, s) = [q EXCEPT ![t] = new]
  BY DEF Applied, t
<1> HIDE DEF new
<1>5. Applied(q, s) \in Pending
  BY <1>1, <1>3, <1>4 DEF Pending, V
<1>6. Applied(q, s) # Refused
  <2> SUFFICES ASSUME Applied(q, s) = Refused PROVE FALSE
    OBVIOUS
  <2> DEFINE both == <<"refused">> \o <<"refused">>
  <2>1. Refused["next-turn"] = <<"refused">> /\ Refused["next-step"] = <<"refused">>
    BY DEF Refused, Targets
  <2>2. IsInjective(both)
    BY <2>1 DEF Checks
  <2>3. 1 \in DOMAIN both /\ 2 \in DOMAIN both /\ both[1] = both[2]
    OBVIOUS
  <2> HIDE DEF both
  <2> QED  BY <2>2, <2>3 DEF IsInjective
<1> QED  BY <1>5, <1>6

LEMMA ReplayedTyped ==
  ASSUME NEW q \in Pending, NEW s \in Splices
  PROVE  Replayed(q, s) \in Pending
<1>1. Refused \in Pending
  BY DEF Refused, Pending
<1> QED  BY <1>1, AppliedTyped DEF Replayed

(* What the records up to each place leave. *)
Steps(r) == [k \in 1 .. Len(r) |-> [q \in Pending |-> Replayed(q, r[k])]]

LEMMA ReplayIs ==
  ASSUME NEW r \in Seq(Splices)
  PROVE  \E f \in [0 .. Len(r) -> Pending] :
            Carries(f, Len(r), Empty, Steps(r)) /\ replay(r) = f[Len(r)]
<1> DEFINE n == Len(r)
           step == Steps(r)
           Upon(g) == [k \in 0 .. n |-> IF k = 0 THEN Empty ELSE Replayed(g[k - 1], r[k])]
           upTo == CHOOSE g : g = Upon(g)
<1>1. n \in Nat /\ Empty \in Pending /\ \A k \in 1 .. n : r[k] \in Splices
  BY DEF Empty, Pending
<1>2. step \in [1 .. n -> [Pending -> Pending]]
      /\ \A k \in 1 .. n : \A q \in Pending : step[k][q] = Replayed(q, r[k])
  <2>1. \A k \in 1 .. n : \A q \in Pending : Replayed(q, r[k]) \in Pending
    BY <1>1, ReplayedTyped
  <2> QED  BY <2>1 DEF Steps
<1> HIDE DEF step, n
<1>3. PICK f \in [0 .. n -> Pending] : Carries(f, n, Empty, step)
  BY <1>1, <1>2, CarriedExists
<1>4. f = Upon(f)
  <2>1. \A k \in 0 .. n : f[k] = IF k = 0 THEN Empty ELSE Replayed(f[k - 1], r[k])
    <3> SUFFICES ASSUME NEW k \in 0 .. n, k # 0 PROVE f[k] = Replayed(f[k - 1], r[k])
      BY <1>3 DEF Carries
    <3>1. k \in 1 .. n /\ k - 1 \in 0 .. n
      BY <1>1
    <3> QED  BY <1>2, <1>3, <3>1 DEF Carries
  <2> QED  BY <1>3, <2>1
<1>5. upTo = Upon(upTo)
  <2> HIDE DEF Upon
  <2> QED  BY <1>4
<1>6. replay(r) = upTo[n]
  BY DEF replay, n
<1> HIDE DEF upTo
<1>7. \A k \in 0 .. n : upTo[k] = f[k]
  <2> DEFINE Bad == {k \in 0 .. n : upTo[k] # f[k]}
  <2> SUFFICES ASSUME Bad # {} PROVE FALSE
    OBVIOUS
  <2>1. Bad \in SUBSET Nat
    BY <1>1
  <2>2. PICK k \in Bad : \A j \in Bad : k <= j
    <3> HIDE DEF Bad
    <3> QED  BY <2>1, Least
  <2>3. \A j \in 0 .. n : /\ upTo[j] = IF j = 0 THEN Empty ELSE Replayed(upTo[j - 1], r[j])
                          /\ f[j] = IF j = 0 THEN Empty ELSE Replayed(f[j - 1], r[j])
    BY <1>4, <1>5
  <2>4. k # 0 /\ k \in 0 .. n
    BY <2>2, <2>3
  <2>5. k - 1 \in 0 .. n /\ ~(k <= k - 1)
    BY <1>1, <2>4
  <2>6. upTo[k - 1] = f[k - 1]
    BY <2>2, <2>5
  <2>7. upTo[k] = f[k]
    BY <2>3, <2>4, <2>6
  <2> QED  BY <2>2, <2>7
<1>8. n \in 0 .. n
  BY <1>1
<1> QED  BY <1>3, <1>6, <1>7, <1>8 DEF n, step

LEMMA ReplayGrows ==
  ASSUME NEW r \in Seq(Splices), NEW s \in Splices
  PROVE  replay(r) \in Pending /\ replay(Append(r, s)) = Replayed(replay(r), s)
<1> DEFINE n == Len(r)
           l == Append(r, s)
<1>1. /\ n \in Nat /\ l \in Seq(Splices) /\ Len(l) = n + 1 /\ l[n + 1] = s
      /\ \A k \in 1 .. n : l[k] = r[k]
  OBVIOUS
<1>2. PICK f \in [0 .. n -> Pending] : Carries(f, n, Empty, Steps(r)) /\ replay(r) = f[n]
  BY ReplayIs
<1> HIDE DEF l, n
<1>3. PICK g \in [0 .. Len(l) -> Pending] : Carries(g, Len(l), Empty, Steps(l)) /\ replay(l) = g[Len(l)]
  BY <1>1, ReplayIs
<1>4. \A k \in 1 .. n : Steps(r)[k] = Steps(l)[k]
  BY <1>1 DEF Steps, n
<1>5. \A k \in 0 .. n : f[k] = g[k]
  <2>1. n + 1 \in Nat /\ n <= n + 1
    BY <1>1
  <2> QED  BY <1>1, <1>2, <1>3, <1>4, <2>1, CarriedIsOne
<1>6. n \in 0 .. n /\ n + 1 \in 1 .. n + 1 /\ (n + 1) - 1 = n
  BY <1>1
<1>7. f[n] \in Pending /\ f[n] = g[n]
  BY <1>2, <1>5, <1>6
<1>8. g[n + 1] = Steps(l)[n + 1][g[n]]
  BY <1>1, <1>3, <1>6 DEF Carries
<1>9. Steps(l)[n + 1][g[n]] = Replayed(g[n], s)
  BY <1>1, <1>6, <1>7 DEF Steps
<1> QED  BY <1>1, <1>2, <1>3, <1>7, <1>8, <1>9 DEF l

-----------------------------------------------------------------------------
(* A session whose seed is whole has replayed what it wrote itself.        *)
InboxInv ==
  /\ torn \in Nat
  /\ torn = 0 => /\ log \in Seq(Splices) /\ Len(log) >= Len(Seed)
                 /\ queues \in Pending /\ queues # Refused
                 /\ queues = replay(own_suffix(log))

LEMMA OwnSuffixGrows ==
  ASSUME NEW l \in Seq(Splices), Len(l) >= Len(Seed), NEW s \in Splices
  PROVE  own_suffix(l) \in Seq(Splices) /\ own_suffix(Append(l, s)) = Append(own_suffix(l), s)
<1> DEFINE a == Len(Seed)
           n == Len(l)
           m == Append(l, s)
<1>1. a \in Nat /\ n \in Nat /\ n >= a
  BY InboxConstants
<1>2. m \in Seq(Splices) /\ Len(m) = n + 1 /\ m[n + 1] = s /\ \A k \in 1 .. n : m[k] = l[k]
  OBVIOUS
<1> HIDE DEF m
<1>3. own_suffix(l) = SubSeq(l, a + 1, n)
  <2>1. (IF Len(Seed) < Len(l) THEN Len(Seed) ELSE Len(l)) = a
    BY <1>1
  <2> HIDE DEF a
  <2> QED  BY <2>1 DEF own_suffix
<1>4. own_suffix(m) = SubSeq(m, a + 1, n + 1)
  <2>1. (IF Len(Seed) < Len(m) THEN Len(Seed) ELSE Len(m)) = a
    BY <1>1, <1>2
  <2> HIDE DEF a, n
  <2> QED  BY <1>2, <2>1 DEF own_suffix
<1> HIDE DEF a, n
<1> DEFINE x == SubSeq(l, a + 1, n)
           y == SubSeq(m, a + 1, n + 1)
           z == Append(x, s)
<1>5. /\ x \in Seq(Splices) /\ Len(x) = n - a /\ \A k \in 1 .. n - a : x[k] = l[a + k]
  BY <1>1 DEF n
<1>6. /\ y \in Seq(Splices) /\ Len(y) = (n + 1) - a /\ \A k \in 1 .. (n + 1) - a : y[k] = m[a + k]
  BY <1>1, <1>2
<1> HIDE DEF x, y
<1>7. /\ z \in Seq(Splices) /\ Len(z) = (n + 1) - a /\ z[(n + 1) - a] = s
      /\ \A k \in 1 .. n - a : z[k] = x[k]
  BY <1>1, <1>5
<1> HIDE DEF z
<1>8. \A k \in 1 .. (n + 1) - a : y[k] = z[k]
  <2> SUFFICES ASSUME NEW k \in 1 .. (n + 1) - a PROVE y[k] = z[k]
    OBVIOUS
  <2>1. CASE k = (n + 1) - a
    <3>1. a + k = n + 1
      BY <1>1, <2>1
    <3> QED  BY <1>2, <1>6, <1>7, <2>1, <3>1
  <2>2. CASE k # (n + 1) - a
    <3>1. k \in 1 .. n - a /\ a + k \in 1 .. n
      BY <1>1, <2>2
    <3> QED  BY <1>2, <1>5, <1>6, <1>7, <3>1
  <2> QED  BY <2>1, <2>2
<1>9. y = z
  BY <1>6, <1>7, <1>8
<1> QED  BY <1>3, <1>4, <1>5, <1>9 DEF x, y, z, m

LEMMA MutateKeeps ==
  ASSUME InboxInv, NEW t \in Targets, NEW start \in Int, NEW cut \in Int,
         NEW inserted \in Seq(Inputs), Mutate(t, start, cut, inserted), torn' = torn
  PROVE  InboxInv'
<1> SUFFICES ASSUME torn = 0 PROVE InboxInv'
  BY DEF InboxInv
<1> DEFINE s == Normalized(queues, t, start, cut, inserted)
<1>1. /\ log \in Seq(Splices) /\ Len(log) >= Len(Seed) /\ queues \in Pending /\ queues # Refused
      /\ queues = replay(own_suffix(log)) /\ torn' = 0 /\ Len(Seed) \in Nat
  BY InboxConstants DEF InboxInv
<1>2. s \in Splices
  <2>1. Len(queues[t]) \in Nat
    BY <1>1 DEF Pending
  <2> DEFINE from == normalize_start(start, Len(queues[t]))
  <2>2. from \in Nat /\ from <= Len(queues[t])
    BY <2>1 DEF normalize_start
  <2>3. normalize_delete(cut, Len(queues[t]) - from) \in Nat
    <3> HIDE DEF from
    <3> QED  BY <2>1, <2>2 DEF normalize_delete
  <2>4. s = [target |-> t, start |-> from, inserted |-> inserted,
             removed |-> normalize_delete(cut, Len(queues[t]) - from)]
    BY DEF Normalized
  <2> HIDE DEF from, s
  <2> QED  BY <2>2, <2>3, <2>4 DEF Splices
<1>3. Checks(queues, s) /\ log' = Append(log, s) /\ queues' = Applied(queues, s)
  BY DEF Mutate
<1> HIDE DEF s
<1>4. queues' \in Pending /\ queues' # Refused /\ Replayed(queues, s) = queues'
  BY <1>1, <1>2, <1>3, AppliedTyped DEF Replayed
<1>5. own_suffix(log') = Append(own_suffix(log), s) /\ own_suffix(log) \in Seq(Splices)
  BY <1>1, <1>2, <1>3, OwnSuffixGrows
<1>6. replay(own_suffix(log')) = queues'
  <2> DEFINE o == own_suffix(log)
  <2>1. o \in Seq(Splices) /\ queues = replay(o)
    BY <1>1, <1>5
  <2> HIDE DEF o
  <2>2. replay(Append(o, s)) = Replayed(replay(o), s)
    BY <1>2, <2>1, ReplayGrows
  <2> QED  BY <1>4, <1>5, <2>1, <2>2 DEF o
<1>7. log' \in Seq(Splices) /\ Len(log') >= Len(Seed)
  BY <1>1, <1>2, <1>3
<1>8. own_suffix(log)' = own_suffix(log')
  BY DEF own_suffix
<1>9. replay(own_suffix(log))' = replay(own_suffix(log'))
  BY <1>8 DEF replay, Replayed
<1> QED  BY <1>1, <1>4, <1>6, <1>7, <1>9 DEF InboxInv, Refused

(* The queues a session serves are those its next process replays: the     *)
(* journal's own splices fit and fold to what is in memory, for any        *)
(* messages, parent's splices and callers, wherever a call is cut, as long *)
(* as the seed was copied whole (Inbox::mutate, replay, own_suffix).       *)
THEOREM InboxReplays == InboxSpec => []ReplayAgrees
<1>1. InboxInit => InboxInv
  <2> SUFFICES ASSUME InboxInit, torn = 0 PROVE InboxInv
    BY InboxConstants DEF InboxInit, InboxInv
  <2>1. Seed \in Seq(Splices) /\ Len(Seed) \in Nat
    BY InboxConstants DEF Splices
  <2>2. log = Seed
    <3>1. log = SubSeq(Seed, 1, Len(Seed))
      BY <2>1 DEF InboxInit
    <3> QED  BY <2>1, <3>1
  <2>3. own_suffix(log) = <<>>
    BY <2>1, <2>2 DEF own_suffix
  <2>4. replay(<<>>) = Empty
    <3>1. <<>> \in Seq(Splices) /\ Len(<<>>) = 0
      OBVIOUS
    <3>2. PICK f \in [0 .. 0 -> Pending] : Carries(f, 0, Empty, Steps(<<>>)) /\ replay(<<>>) = f[0]
      BY <3>1, ReplayIs
    <3> QED  BY <3>2 DEF Carries
  <2>5. Empty \in Pending /\ Empty # Refused
    <3>1. Empty["next-turn"] = <<>> /\ Refused["next-turn"] = <<"refused">>
      BY DEF Empty, Refused, Targets
    <3> QED  BY <3>1 DEF Empty, Pending
  <2> QED  BY <2>1, <2>2, <2>3, <2>4, <2>5 DEF InboxInit, InboxInv
<1>2. InboxInv /\ [InboxNext]_inboxVars => InboxInv'
  <2> SUFFICES ASSUME InboxInv, [InboxNext]_inboxVars PROVE InboxInv'
    OBVIOUS
  <2>0. ASSUME UNCHANGED <<log, torn>>, queues' = queues \/ queues' = replay(own_suffix(log))
        PROVE  InboxInv'
    <3>1. own_suffix(log)' = own_suffix(log)
      BY <2>0 DEF own_suffix
    <3>2. replay(own_suffix(log))' = replay(own_suffix(log))
      BY <3>1 DEF replay, Replayed
    <3> QED  BY <2>0, <3>2 DEF InboxInv, Refused
  <2>1. CASE End
    <3>1. CASE Count(claim.at) = 0 \/ queues["next-turn"] = <<>>
      BY <2>0, <2>1, <3>1 DEF End
    <3>2. CASE ~(Count(claim.at) = 0 \/ queues["next-turn"] = <<>>)
      <4>1. Mutate("next-turn", 0, Count(claim.at), <<>>) /\ torn' = torn
        BY <2>1, <3>2 DEF End
      <4>2. ASSUME torn = 0 PROVE Count(claim.at) \in Int
        <5>1. queues["next-turn"] \in Seq(Inputs \cup {"refused"})
          BY <4>2 DEF InboxInv, Pending, Targets
        <5> QED  BY <5>1 DEF Count
      <4>3. "next-turn" \in Targets /\ <<>> \in Seq(Inputs)
        BY DEF Targets
      <4>4. CASE torn = 0
        <5>1. Count(claim.at) \in Int /\ 0 \in Int
          BY <4>2, <4>4
        <5> QED  BY <4>1, <4>3, <5>1, MutateKeeps
      <4>5. CASE torn # 0
        BY <4>1, <4>5 DEF InboxInv
      <4> QED  BY <4>4, <4>5
    <3> QED  BY <3>1, <3>2
  <2>2. CASE EndFails
    BY <2>0, <2>2 DEF EndFails
  <2>3. CASE Reopen
    BY <2>0, <2>3 DEF Reopen
  <2>4. ASSUME NEW at, Begin(at) PROVE InboxInv'
    <3>1. CASE queues["next-step"] = <<>>
      BY <2>0, <2>4, <3>1 DEF Begin
    <3>2. CASE queues["next-step"] # <<>>
      <4>1. Mutate("next-step", 0, Len(queues["next-step"]), <<>>) /\ torn' = torn
        BY <2>4, <3>2 DEF Begin
      <4>2. ASSUME torn = 0 PROVE Len(queues["next-step"]) \in Int
        <5>1. queues["next-step"] \in Seq(Inputs \cup {"refused"})
          BY <4>2 DEF InboxInv, Pending, Targets
        <5> QED  BY <5>1
      <4>3. "next-step" \in Targets /\ <<>> \in Seq(Inputs)
        BY DEF Targets
      <4>4. CASE torn = 0
        <5>1. Len(queues["next-step"]) \in Int /\ 0 \in Int
          BY <4>2, <4>4
        <5> QED  BY <4>1, <4>3, <5>1, MutateKeeps
      <4>5. CASE torn # 0
        BY <4>1, <4>5 DEF InboxInv
      <4> QED  BY <4>4, <4>5
    <3> QED  BY <3>1, <3>2
  <2>5. ASSUME NEW t \in Targets, NEW start \in -1 .. 1, NEW cut \in 0 .. 1,
               NEW inserted \in {<<>>} \cup {<<id>> : id \in Inputs},
               Splice(t, start, cut, inserted)
        PROVE  InboxInv'
    <3>1. inserted \in Seq(Inputs) /\ start \in Int /\ cut \in Int
      <4>1. \A id \in Inputs : <<id>> \in Seq(Inputs)
        OBVIOUS
      <4>2. <<>> \in Seq(Inputs)
        OBVIOUS
      <4>3. inserted = <<>> \/ \E id \in Inputs : inserted = <<id>>
        OBVIOUS
      <4>4. start \in Int /\ cut \in Int
        OBVIOUS
      <4>5. CASE inserted = <<>>
        BY <4>2, <4>4, <4>5
      <4>6. CASE \E id \in Inputs : inserted = <<id>>
        BY <4>1, <4>4, <4>6
      <4> QED  BY <4>3, <4>5, <4>6
    <3>2. Mutate(t, start, cut, inserted) /\ torn' = torn
      BY <2>5 DEF Splice
    <3> QED  BY <3>1, <3>2, MutateKeeps
  <2>6. CASE UNCHANGED inboxVars
    BY <2>0, <2>6 DEF inboxVars
  <2> QED  BY <2>1, <2>2, <2>3, <2>4, <2>5, <2>6 DEF InboxNext
<1>3. InboxInv => ReplayAgrees
  BY DEF InboxInv, ReplayAgrees
<1> QED  BY <1>1, <1>2, <1>3, PTL DEF InboxSpec

-----------------------------------------------------------------------------
(***************************************************************************)
(* A command that completed is given its own output, for any callers,      *)
(* commands and noise, and however little the transcript keeps.            *)
(*                                                                         *)
(* What is kept and what nobody has read yet are one stream, which grows   *)
(* at its end and is forgotten from its beginning.  Behind the place where *)
(* the latest command began to be waited for there is nothing of another.  *)
(***************************************************************************)
PrintedLines == [k : {"start", "out", "end", "noise"}, n : Nat, i : Nat]

OfCommand(line, c) == line.k # "noise" /\ line.n = c

(* The stream s, of which d lines are forgotten, has of command c, which   *)
(* was waited for from f on and printed p lines, all of them that are not  *)
(* forgotten, in order and between its markers.                            *)
Follows(s, d, c, f, p) ==
  /\ \A i \in DOMAIN s : s[i].k = "noise" \/ s[i].n = c <=> s[i].k = "noise" \/ d + i > f
  /\ \A i, j \in DOMAIN s : OfCommand(s[i], c) /\ OfCommand(s[j], c) /\ i # j =>
       /\ s[i].k = "start" => i < j
       /\ s[j].k = "end" => i < j
  /\ \A i \in OutsOf(s, c) : s[i].i \in 1 .. p
  /\ \A i, j \in OutsOf(s, c) : i < j => s[i].i < s[j].i
  /\ \A x \in 1 .. p : \/ \E i \in OutsOf(s, c) : s[i].i = x
                       \/ d > f /\ \A i \in OutsOf(s, c) : x < s[i].i

(* A stream that grew by one line. *)
LEMMA Grown ==
  ASSUME NEW S, NEW s \in Seq(S), NEW e \in S, NEW t, t = Append(s, e)
  PROVE  /\ t \in Seq(S) /\ Len(t) = Len(s) + 1 /\ Len(s) \in Nat /\ t[Len(s) + 1] = e
         /\ \A i \in 1 .. Len(s) : t[i] = s[i]
         /\ DOMAIN s = 1 .. Len(s) /\ DOMAIN t = 1 .. Len(s) + 1
OBVIOUS

LEMMA FollowsNoise ==
  ASSUME NEW s \in Seq(PrintedLines), NEW d \in Nat, NEW c \in Nat, NEW f \in Nat, NEW p \in Nat,
         Follows(s, d, c, f, p), NEW e \in PrintedLines, e.k = "noise"
  PROVE  Follows(Append(s, e), d, c, f, p)
<1>1. PICK t : t = Append(s, e)
  OBVIOUS
<1>2. /\ t \in Seq(PrintedLines) /\ Len(t) = Len(s) + 1 /\ Len(s) \in Nat /\ t[Len(s) + 1] = e
      /\ \A i \in 1 .. Len(s) : t[i] = s[i]
      /\ DOMAIN s = 1 .. Len(s) /\ DOMAIN t = 1 .. Len(s) + 1
  BY <1>1, Grown
<1>3. OutsOf(t, c) = OutsOf(s, c)
  BY <1>2 DEF OutsOf
<1>4. \A i \in OutsOf(s, c) : i \in DOMAIN s /\ t[i] = s[i]
  BY <1>2 DEF OutsOf
<1>5. \A i \in DOMAIN t : (i \in DOMAIN s /\ t[i] = s[i]) \/ t[i].k = "noise"
  BY <1>2
<1>6. Follows(t, d, c, f, p)
  <2>1. \A i \in DOMAIN t : t[i].k = "noise" \/ t[i].n = c <=> t[i].k = "noise" \/ d + i > f
    BY <1>5 DEF Follows
  <2>2. \A i, j \in DOMAIN t : OfCommand(t[i], c) /\ OfCommand(t[j], c) /\ i # j =>
          /\ t[i].k = "start" => i < j
          /\ t[j].k = "end" => i < j
    BY <1>5 DEF Follows, OfCommand
  <2>3. /\ \A i \in OutsOf(t, c) : t[i].i \in 1 .. p
        /\ \A i, j \in OutsOf(t, c) : i < j => t[i].i < t[j].i
    BY <1>3, <1>4 DEF Follows
  <2>4. \A x \in 1 .. p : \/ \E i \in OutsOf(t, c) : t[i].i = x
                          \/ d > f /\ \A i \in OutsOf(t, c) : x < t[i].i
    BY <1>3, <1>4 DEF Follows
  <2> QED  BY <2>1, <2>2, <2>3, <2>4 DEF Follows
<1> QED  BY <1>1, <1>6

(* The command begins, says one thing more or ends: its line is the last.  *)
LEMMA FollowsMarker ==
  ASSUME NEW s \in Seq(PrintedLines), NEW d \in Nat, NEW c \in Nat, NEW f \in Nat, NEW p \in Nat,
         Follows(s, d, c, f, p), f <= d + Len(s), NEW e \in PrintedLines, e.n = c,
         e.k \in {"start", "end"},
         e.k = "start" => \A i \in DOMAIN s : ~OfCommand(s[i], c),
         \A i \in DOMAIN s : OfCommand(s[i], c) => s[i].k # "end"
  PROVE  Follows(Append(s, e), d, c, f, p)
<1>1. PICK t : t = Append(s, e)
  OBVIOUS
<1>2. /\ t \in Seq(PrintedLines) /\ Len(t) = Len(s) + 1 /\ Len(s) \in Nat /\ t[Len(s) + 1] = e
      /\ \A i \in 1 .. Len(s) : t[i] = s[i]
      /\ DOMAIN s = 1 .. Len(s) /\ DOMAIN t = 1 .. Len(s) + 1
  BY <1>1, Grown
<1>3. OutsOf(t, c) = OutsOf(s, c)
  BY <1>2 DEF OutsOf
<1>4. \A i \in OutsOf(s, c) : i \in DOMAIN s /\ t[i] = s[i]
  BY <1>2 DEF OutsOf
<1>5. Follows(t, d, c, f, p)
  <2>1. ASSUME NEW i \in DOMAIN t
        PROVE  t[i].k = "noise" \/ t[i].n = c <=> t[i].k = "noise" \/ d + i > f
    <3>1. CASE i \in DOMAIN s
      BY <1>2, <3>1 DEF Follows
    <3>2. CASE i = Len(s) + 1
      BY <1>2, <3>2
    <3> QED  BY <1>2, <3>1, <3>2
  <2>2. ASSUME NEW i \in DOMAIN t, NEW j \in DOMAIN t, OfCommand(t[i], c), OfCommand(t[j], c), i # j
        PROVE  /\ t[i].k = "start" => i < j
               /\ t[j].k = "end" => i < j
    <3>1. CASE i \in DOMAIN s /\ j \in DOMAIN s
      BY <1>2, <2>2, <3>1 DEF Follows
    <3>2. CASE i = Len(s) + 1
      <4>1. j \in DOMAIN s /\ t[j] = s[j] /\ OfCommand(s[j], c)
        BY <1>2, <2>2, <3>2
      <4> QED  BY <1>2, <3>2, <4>1
    <3>3. CASE j = Len(s) + 1 /\ i \in DOMAIN s
      BY <1>2, <3>3
    <3> QED  BY <1>2, <3>1, <3>2, <3>3
  <2>3. /\ \A i \in OutsOf(t, c) : t[i].i \in 1 .. p
        /\ \A i, j \in OutsOf(t, c) : i < j => t[i].i < t[j].i
    BY <1>3, <1>4 DEF Follows
  <2>4. \A x \in 1 .. p : \/ \E i \in OutsOf(t, c) : t[i].i = x
                          \/ d > f /\ \A i \in OutsOf(t, c) : x < t[i].i
    BY <1>3, <1>4 DEF Follows
  <2> QED  BY <2>1, <2>2, <2>3, <2>4 DEF Follows
<1> QED  BY <1>1, <1>5

LEMMA FollowsOut ==
  ASSUME NEW s \in Seq(PrintedLines), NEW d \in Nat, NEW c \in Nat, NEW f \in Nat, NEW p \in Nat,
         Follows(s, d, c, f, p), f <= d + Len(s), NEW e \in PrintedLines, e.n = c, e.k = "out",
         e.i = p + 1, \A i \in DOMAIN s : OfCommand(s[i], c) => s[i].k # "end"
  PROVE  Follows(Append(s, e), d, c, f, p + 1)
<1>1. PICK t : t = Append(s, e)
  OBVIOUS
<1>2. /\ t \in Seq(PrintedLines) /\ Len(t) = Len(s) + 1 /\ Len(s) \in Nat /\ t[Len(s) + 1] = e
      /\ \A i \in 1 .. Len(s) : t[i] = s[i]
      /\ DOMAIN s = 1 .. Len(s) /\ DOMAIN t = 1 .. Len(s) + 1
  BY <1>1, Grown
<1>3. OutsOf(t, c) = OutsOf(s, c) \cup {Len(s) + 1}
  BY <1>2 DEF OutsOf
<1>4. \A i \in OutsOf(s, c) : i \in DOMAIN s /\ i \in Nat /\ i < Len(s) + 1 /\ t[i] = s[i] /\ s[i].i \in 1 .. p
  BY <1>2 DEF OutsOf, Follows
<1>5. Follows(t, d, c, f, p + 1)
  <2>1. ASSUME NEW i \in DOMAIN t
        PROVE  t[i].k = "noise" \/ t[i].n = c <=> t[i].k = "noise" \/ d + i > f
    <3>1. CASE i \in DOMAIN s
      BY <1>2, <3>1 DEF Follows
    <3>2. CASE i = Len(s) + 1
      BY <1>2, <3>2
    <3> QED  BY <1>2, <3>1, <3>2
  <2>2. ASSUME NEW i \in DOMAIN t, NEW j \in DOMAIN t, OfCommand(t[i], c), OfCommand(t[j], c), i # j
        PROVE  /\ t[i].k = "start" => i < j
               /\ t[j].k = "end" => i < j
    <3>1. CASE i \in DOMAIN s /\ j \in DOMAIN s
      BY <1>2, <2>2, <3>1 DEF Follows
    <3>2. CASE i = Len(s) + 1
      <4>1. j \in DOMAIN s /\ t[j] = s[j] /\ OfCommand(s[j], c)
        BY <1>2, <2>2, <3>2
      <4> QED  BY <1>2, <3>2, <4>1
    <3>3. CASE j = Len(s) + 1 /\ i \in DOMAIN s
      BY <1>2, <3>3
    <3> QED  BY <1>2, <3>1, <3>2, <3>3
  <2>3. \A i \in OutsOf(t, c) : t[i].i \in 1 .. p + 1
    BY <1>2, <1>3, <1>4
  <2>4. \A i, j \in OutsOf(t, c) : i < j => t[i].i < t[j].i
    <3> TAKE i, j \in OutsOf(t, c)
    <3>1. HAVE i < j
    <3>2. i \in OutsOf(s, c)
      BY <1>2, <1>3, <1>4, <3>1
    <3>3. CASE j \in OutsOf(s, c)
      BY <1>4, <3>1, <3>2, <3>3 DEF Follows
    <3>4. CASE j = Len(s) + 1
      <4>1. t[j].i = p + 1 /\ t[i] = s[i] /\ s[i].i \in 1 .. p
        BY <1>2, <1>4, <3>2, <3>4
      <4> QED  BY <4>1
    <3> QED  BY <1>3, <3>3, <3>4
  <2>5. ASSUME NEW x \in 1 .. p + 1
        PROVE  \/ \E i \in OutsOf(t, c) : t[i].i = x
               \/ d > f /\ \A i \in OutsOf(t, c) : x < t[i].i
    <3>1. CASE x = p + 1
      BY <1>2, <1>3, <3>1
    <3>2. CASE x \in 1 .. p
      <4>1. \/ \E i \in OutsOf(s, c) : s[i].i = x
            \/ d > f /\ \A i \in OutsOf(s, c) : x < s[i].i
        BY <3>2 DEF Follows
      <4> QED  BY <1>2, <1>3, <1>4, <3>2, <4>1
    <3> QED  BY <3>1, <3>2
  <2> QED  BY <2>1, <2>2, <2>3, <2>4, <2>5 DEF Follows
<1> QED  BY <1>1, <1>5

(* The first line is forgotten. *)
LEMMA FollowsLess ==
  ASSUME NEW s \in Seq(PrintedLines), NEW d \in Nat, NEW c \in Nat, NEW f \in Nat, NEW p \in Nat,
         Follows(s, d, c, f, p), s # <<>>
  PROVE  Follows(Tail(s), d + 1, c, f, p)
<1>1. PICK t : t = Tail(s)
  OBVIOUS
<1>2. /\ t \in Seq(PrintedLines) /\ Len(s) \in Nat \ {0} /\ Len(t) = Len(s) - 1
      /\ DOMAIN s = 1 .. Len(s) /\ DOMAIN t = 1 .. Len(s) - 1
      /\ \A i \in 1 .. Len(s) - 1 : t[i] = s[i + 1]
  BY <1>1
<1>3. \A i \in DOMAIN t : i \in Nat /\ i + 1 \in DOMAIN s /\ t[i] = s[i + 1]
  BY <1>2
<1>4. \A i : i \in OutsOf(t, c) => i \in Nat /\ i + 1 \in OutsOf(s, c) /\ t[i] = s[i + 1]
  BY <1>3 DEF OutsOf
<1>5. \A j \in OutsOf(s, c) : j = 1 \/ (j - 1 \in OutsOf(t, c) /\ j - 1 + 1 = j)
  BY SMTT(20), <1>2 DEF OutsOf
<1>6. Follows(t, d + 1, c, f, p)
  <2>1. ASSUME NEW i \in DOMAIN t
        PROVE  t[i].k = "noise" \/ t[i].n = c <=> t[i].k = "noise" \/ (d + 1) + i > f
    <3>1. (d + 1) + i = d + (i + 1)
      BY <1>3
    <3> QED  BY <1>3, <3>1 DEF Follows
  <2>2. ASSUME NEW i \in DOMAIN t, NEW j \in DOMAIN t, OfCommand(t[i], c), OfCommand(t[j], c), i # j
        PROVE  /\ t[i].k = "start" => i < j
               /\ t[j].k = "end" => i < j
    <3>1. i + 1 # j + 1 /\ (i + 1 < j + 1 => i < j)
      BY <1>3, <2>2
    <3> QED  BY <1>3, <2>2, <3>1 DEF Follows
  <2>3. \A i \in OutsOf(t, c) : t[i].i \in 1 .. p
    BY <1>4 DEF Follows
  <2>4. \A i, j \in OutsOf(t, c) : i < j => t[i].i < t[j].i
    <3> TAKE i, j \in OutsOf(t, c)
    <3>1. HAVE i < j
    <3>2. i + 1 < j + 1
      BY <1>4, <3>1
    <3> QED  BY <1>4, <3>2 DEF Follows
  <2>5. ASSUME NEW x \in 1 .. p
        PROVE  \/ \E i \in OutsOf(t, c) : t[i].i = x
               \/ d + 1 > f /\ \A i \in OutsOf(t, c) : x < t[i].i
    <3>1. CASE d > f /\ \A i \in OutsOf(s, c) : x < s[i].i
      BY <1>4, <3>1
    <3>2. ASSUME NEW j \in OutsOf(s, c), s[j].i = x, j # 1
          PROVE  \E i \in OutsOf(t, c) : t[i].i = x
      BY <1>4, <1>5, <3>2
    <3>3. ASSUME 1 \in OutsOf(s, c), s[1].i = x
          PROVE  d + 1 > f /\ \A i \in OutsOf(t, c) : x < t[i].i
      <4>1. d + 1 > f
        <5>1. 1 \in DOMAIN s /\ s[1].k # "noise" /\ s[1].n = c
          BY <3>3 DEF OutsOf
        <5> QED  BY <5>1 DEF Follows
      <4>2. ASSUME NEW i \in OutsOf(t, c) PROVE x < t[i].i
        <5>1. i + 1 \in OutsOf(s, c) /\ 1 < i + 1 /\ t[i] = s[i + 1]
          BY <1>3, <1>4, <1>2 DEF OutsOf
        <5> QED  BY <3>3, <5>1 DEF Follows
      <4> QED  BY <4>1, <4>2
    <3> QED  BY <3>1, <3>2, <3>3 DEF Follows
  <2> QED  BY <2>1, <2>2, <2>3, <2>4, <2>5 DEF Follows
<1> QED  BY <1>1, <1>6

(* Where the last such line is. *)
LEMMA LastIs ==
  ASSUME NEW S, NEW s \in Seq(S), NEW k, NEW c
  PROVE  /\ LastOf(s, k, c) \in 0 .. Len(s)
         /\ LastOf(s, k, c) # 0 => s[LastOf(s, k, c)].k = k /\ s[LastOf(s, k, c)].n = c
         /\ LastOf(s, k, c) = 0 => \A i \in DOMAIN s : ~(s[i].k = k /\ s[i].n = c)
<1> DEFINE P == {i \in DOMAIN s : s[i].k = k /\ s[i].n = c}
           Q == {0} \cup P
           R == {Len(s) - x : x \in Q}
<1>1. LastOf(s, k, c) = Max(Q)
  BY DEF LastOf
<1>2. DOMAIN s = 1 .. Len(s) /\ Len(s) \in Nat
  OBVIOUS
<1>3. \A x \in Q : x \in 0 .. Len(s)
  BY <1>2
<1>4. \E x \in Q : \A y \in Q : x >= y
  <2>1. \A x \in Q : Len(s) - x \in Nat
    BY <1>2, <1>3
  <2>2. R \in SUBSET Nat /\ R # {}
    BY <2>1
  <2>3. PICK z \in R : \A y \in R : z <= y
    BY <2>2, Least
  <2>4. PICK x \in Q : z = Len(s) - x
    OBVIOUS
  <2>5. ASSUME NEW y \in Q PROVE x >= y
    <3>1. Len(s) - x <= Len(s) - y
      BY <2>3, <2>4
    <3> HIDE DEF Q
    <3> QED  BY <1>2, <1>3, <3>1
  <2> QED  BY <2>5
<1>5. Max(Q) \in Q /\ \A y \in Q : Max(Q) >= y
  <2> HIDE DEF Q
  <2> QED  BY <1>4 DEF Max
<1>6. PICK m : m = LastOf(s, k, c)
  OBVIOUS
<1>7. m \in 0 .. Len(s) /\ (m # 0 => m \in P)
  BY <1>1, <1>3, <1>5, <1>6
<1>8. ASSUME m = 0, NEW i \in P PROVE FALSE
  <2>1. 0 >= i
    BY <1>1, <1>5, <1>6, <1>8
  <2> QED  BY <1>2, <2>1
<1> QED  BY <1>6, <1>7, <1>8

(* Nothing but noise is left unread behind the command's last line. *)
LEMMA FollowsRead ==
  ASSUME NEW s \in Seq(PrintedLines), NEW q \in Seq(PrintedLines),
         NEW d \in Nat, NEW c \in Nat, NEW f \in Nat, NEW p \in Nat,
         Follows(s \o q, d, c, f, p), f <= d + Len(s),
         NEW e \in DOMAIN s, s[e].k = "end", s[e].n = c
  PROVE  (\A i \in DOMAIN q : q[i].k = "noise") /\ Follows(s, d, c, f, p)
<1>1. PICK t : t = s \o q
  OBVIOUS
<1>2. /\ t \in Seq(PrintedLines) /\ Len(t) = Len(s) + Len(q) /\ Len(s) \in Nat /\ Len(q) \in Nat
      /\ DOMAIN s = 1 .. Len(s) /\ DOMAIN t = 1 .. Len(s) + Len(q) /\ DOMAIN q = 1 .. Len(q)
      /\ \A i \in 1 .. Len(s) : t[i] = s[i]
      /\ \A i \in Len(s) + 1 .. Len(s) + Len(q) : t[i] = q[i - Len(s)]
  BY <1>1
<1>3. Follows(t, d, c, f, p)
  BY <1>1
<1>4. \A i \in Len(s) + 1 .. Len(s) + Len(q) : t[i].k = "noise"
  <2> SUFFICES ASSUME NEW i \in Len(s) + 1 .. Len(s) + Len(q), t[i].k # "noise" PROVE FALSE
    OBVIOUS
  <2>1. i \in DOMAIN t /\ d + i > f /\ e \in DOMAIN t /\ t[e] = s[e] /\ e < i /\ e # i
    BY <1>2
  <2>2. OfCommand(t[i], c) /\ OfCommand(t[e], c)
    BY <1>3, <2>1 DEF Follows, OfCommand
  <2>3. i < e
    BY <1>3, <2>1, <2>2 DEF Follows
  <2> QED  BY <1>2, <2>1, <2>3
<1>5. \A i \in DOMAIN q : q[i].k = "noise"
  <2> TAKE i \in DOMAIN q
  <2>1. Len(s) + i \in Len(s) + 1 .. Len(s) + Len(q) /\ Len(s) + i - Len(s) = i
    BY SMTT(20), <1>2
  <2>2. t[Len(s) + i] = q[Len(s) + i - Len(s)]
    BY SMTT(20), <1>2, <2>1
  <2> QED  BY <1>4, <2>1, <2>2
<1>6. \A i \in DOMAIN s : i \in DOMAIN t /\ t[i] = s[i]
  BY <1>2
<1>7. OutsOf(t, c) = OutsOf(s, c)
  <2>1. \A i \in DOMAIN t : i \in DOMAIN s \/ t[i].k = "noise"
    BY <1>2, <1>4
  <2> QED  BY <1>6, <2>1 DEF OutsOf
<1>8. \A i \in OutsOf(s, c) : t[i] = s[i]
  BY <1>6 DEF OutsOf
<1>9. Follows(s, d, c, f, p)
  <2>1. \A i \in DOMAIN s : s[i].k = "noise" \/ s[i].n = c <=> s[i].k = "noise" \/ d + i > f
    BY <1>3, <1>6 DEF Follows
  <2>2. \A i, j \in DOMAIN s : OfCommand(s[i], c) /\ OfCommand(s[j], c) /\ i # j =>
          /\ s[i].k = "start" => i < j
          /\ s[j].k = "end" => i < j
    BY <1>3, <1>6 DEF Follows
  <2>3. /\ \A i \in OutsOf(s, c) : s[i].i \in 1 .. p
        /\ \A i, j \in OutsOf(s, c) : i < j => s[i].i < s[j].i
    BY <1>3, <1>7, <1>8 DEF Follows
  <2>4. \A x \in 1 .. p : \/ \E i \in OutsOf(s, c) : s[i].i = x
                          \/ d > f /\ \A i \in OutsOf(s, c) : x < s[i].i
    BY SMTT(20), <1>3, <1>7, <1>8 DEF Follows
  <2> QED  BY <2>1, <2>2, <2>3, <2>4 DEF Follows
<1> QED  BY <1>5, <1>9

(* What stands between the markers of the command. *)
SinceOf(s, d, f) == SubSeq(s, (IF f > d THEN f - d ELSE 0) + 1, Len(s))

HoldsOutput(body, c, p, truncated) ==
  /\ body \in Seq(PrintedLines)
  /\ \A i \in DOMAIN body : body[i].k = "noise" \/ body[i].n = c
  /\ \A i \in OutsOf(body, c) : body[i].i \in 1 .. p
  /\ \A i, j \in OutsOf(body, c) : i < j => body[i].i < body[j].i
  /\ \A x \in 1 .. p : \/ \E i \in OutsOf(body, c) : body[i].i = x
                       \/ truncated /\ \A i \in OutsOf(body, c) : x < body[i].i

LEMMA SeenIs ==
  ASSUME NEW s \in Seq(PrintedLines), NEW d \in Nat, NEW f \in Nat, f <= d + Len(s)
  PROVE  \E a \in Nat :
           /\ a = (IF f > d THEN f - d ELSE 0) /\ a <= Len(s)
           /\ SinceOf(s, d, f) \in Seq(PrintedLines) /\ Len(SinceOf(s, d, f)) = Len(s) - a
           /\ \A i \in 1 .. Len(s) - a : a + i \in DOMAIN s /\ SinceOf(s, d, f)[i] = s[a + i]
<1>1. PICK a : a = IF f > d THEN f - d ELSE 0
  OBVIOUS
<1>2. a \in Nat /\ a <= Len(s) /\ Len(s) \in Nat /\ DOMAIN s = 1 .. Len(s)
  BY <1>1
<1>3. PICK b : b = a + 1
  OBVIOUS
<1>4. PICK m : m = Len(s)
  OBVIOUS
<1>5. PICK v : v = SubSeq(s, b, m)
  OBVIOUS
<1>6. b \in Int /\ m \in Int /\ \A i \in b .. m : s[i] \in PrintedLines
  BY <1>2, <1>3, <1>4
<1>7. /\ v \in Seq(PrintedLines) /\ Len(v) = IF b <= m THEN m - b + 1 ELSE 0
      /\ \A i \in 1 .. m - b + 1 : v[i] = s[b + i - 1]
  BY <1>5, <1>6, SubSeqProperties
<1>8. Len(v) = Len(s) - a
  <2>1. CASE a < Len(s)
    <3>1. b <= m /\ m - b + 1 = Len(s) - a
      BY <1>2, <1>3, <1>4, <2>1
    <3> QED  BY <1>7, <3>1
  <2>2. CASE a = Len(s)
    <3>1. ~(b <= m) /\ Len(s) - a = 0
      BY <1>2, <1>3, <1>4, <2>2
    <3> QED  BY <1>7, <3>1
  <2>3. a < Len(s) \/ a = Len(s)
    <3>1. \A x, y \in Nat : x <= y => x < y \/ x = y
      OBVIOUS
    <3>2. a \in Nat /\ Len(s) \in Nat /\ a <= Len(s)
      BY <1>2
    <3> QED  BY <3>1, <3>2
  <2> QED  BY <2>1, <2>2, <2>3
<1>9. \A i \in 1 .. Len(s) - a : a + i \in DOMAIN s /\ v[i] = s[a + i]
  <2> TAKE i \in 1 .. Len(s) - a
  <2>1. i \in 1 .. m - b + 1 /\ b + i - 1 = a + i /\ a + i \in DOMAIN s
    BY <1>2, <1>3, <1>4
  <2> QED  BY <1>7, <2>1
<1>10. SinceOf(s, d, f) = v
  BY <1>1, <1>3, <1>4, <1>5 DEF SinceOf
<1> QED  BY <1>1, <1>2, <1>7, <1>8, <1>9, <1>10

LEMMA BodyHolds ==
  ASSUME NEW s \in Seq(PrintedLines), NEW d \in Nat, NEW c \in Nat, NEW f \in Nat, NEW p \in Nat,
         Follows(s, d, c, f, p), f <= d + Len(s),
         NEW behind, behind = SinceOf(s, d, f), LastOf(behind, "end", c) # 0
  PROVE  HoldsOutput(Body(behind, c), c, p, d > f)
<1>1. PICK a \in Nat :
        /\ a = (IF f > d THEN f - d ELSE 0) /\ a <= Len(s)
        /\ behind \in Seq(PrintedLines) /\ Len(behind) = Len(s) - a
        /\ \A i \in 1 .. Len(s) - a : a + i \in DOMAIN s /\ behind[i] = s[a + i]
  <2>1. \E a \in Nat :
           /\ a = (IF f > d THEN f - d ELSE 0) /\ a <= Len(s)
           /\ SinceOf(s, d, f) \in Seq(PrintedLines) /\ Len(SinceOf(s, d, f)) = Len(s) - a
           /\ \A i \in 1 .. Len(s) - a : a + i \in DOMAIN s /\ SinceOf(s, d, f)[i] = s[a + i]
    BY SeenIs
  <2> QED  BY <2>1
<1>2. /\ DOMAIN behind = 1 .. Len(s) - a /\ Len(s) \in Nat /\ DOMAIN s = 1 .. Len(s)
      /\ Len(behind) \in Nat
  BY <1>1
<1>3. \A i, j \in DOMAIN behind : OfCommand(behind[i], c) /\ OfCommand(behind[j], c) /\ i # j =>
        /\ behind[i].k = "start" => i < j
        /\ behind[j].k = "end" => i < j
  <2> SUFFICES ASSUME NEW i \in DOMAIN behind, NEW j \in DOMAIN behind,
                      OfCommand(behind[i], c), OfCommand(behind[j], c), i # j
               PROVE  /\ behind[i].k = "start" => i < j
                      /\ behind[j].k = "end" => i < j
    OBVIOUS
  <2>1. /\ a + i \in DOMAIN s /\ a + j \in DOMAIN s /\ behind[i] = s[a + i] /\ behind[j] = s[a + j]
    BY <1>1, <1>2
  <2>2. i \in Nat /\ j \in Nat
    BY <1>2
  <2>3. a + i # a + j /\ (a + i < a + j => i < j)
    BY <2>2
  <2> QED  BY <2>1, <2>3 DEF Follows
<1>6. PICK e : e = LastOf(behind, "end", c)
  OBVIOUS
<1>7. e \in DOMAIN behind /\ e \in Nat /\ behind[e].k = "end" /\ behind[e].n = c
  <2>1. e \in 0 .. Len(behind) /\ (e # 0 => behind[e].k = "end" /\ behind[e].n = c)
    BY <1>1, <1>6, LastIs
  <2> QED  BY <1>1, <1>2, <1>6, <2>1
<1>8. PICK b : b = LastOf(behind, "start", c)
  OBVIOUS
<1>9. /\ b \in 0 .. Len(behind) /\ b \in Nat
      /\ b # 0 => b \in DOMAIN behind /\ behind[b].k = "start" /\ behind[b].n = c
  <2>1. b \in 0 .. Len(behind) /\ (b # 0 => behind[b].k = "start" /\ behind[b].n = c)
    BY <1>1, <1>8, LastIs
  <2> QED  BY <1>1, <1>2, <2>1
<1>10. b < e
  <2>1. CASE b = 0
    BY <1>2, <1>7, <2>1
  <2>2. CASE b # 0
    <3>1. b \in DOMAIN behind /\ OfCommand(behind[b], c) /\ OfCommand(behind[e], c) /\ b # e
      BY <1>7, <1>9, <2>2 DEF OfCommand
    <3> QED  BY <1>3, <1>7, <1>9, <2>2, <3>1
  <2> QED  BY <2>1, <2>2
<1>11. PICK body : body = Body(behind, c)
  OBVIOUS
<1>12. /\ body \in Seq(PrintedLines) /\ Len(body) = e - 1 - b
       /\ \A i \in 1 .. e - 1 - b : b + i \in DOMAIN behind /\ body[i] = behind[b + i]
  <2>1. PICK x : x = b + 1
    OBVIOUS
  <2>2. PICK y : y = e - 1
    OBVIOUS
  <2>3. body = SubSeq(behind, x, y)
    BY <1>6, <1>8, <1>11, <2>1, <2>2 DEF Body
  <2>4. x \in Int /\ y \in Int /\ \A i \in x .. y : behind[i] \in PrintedLines
    BY SMTT(20), <1>1, <1>2, <1>7, <1>9, <2>1, <2>2
  <2>5. /\ body \in Seq(PrintedLines) /\ Len(body) = IF x <= y THEN y - x + 1 ELSE 0
        /\ \A i \in 1 .. y - x + 1 : body[i] = behind[x + i - 1]
    BY SMTT(20), <2>3, <2>4, SubSeqProperties
  <2>6. Len(body) = e - 1 - b
    BY SMTT(20), <1>7, <1>9, <1>10, <2>1, <2>2, <2>5
  <2>7. \A i \in 1 .. e - 1 - b : b + i \in DOMAIN behind /\ body[i] = behind[b + i]
    <3> TAKE i \in 1 .. e - 1 - b
    <3>1. i \in 1 .. y - x + 1 /\ x + i - 1 = b + i /\ b + i \in DOMAIN behind
      BY SMTT(20), <1>2, <1>7, <1>9, <2>1, <2>2
    <3> QED  BY <2>5, <3>1
  <2> QED  BY <2>5, <2>6, <2>7
<1>13. PICK m \in Nat : m = a + b
  BY <1>9
<1>14. /\ DOMAIN body = 1 .. e - 1 - b
       /\ \A i \in DOMAIN body : i \in Nat /\ m + i \in DOMAIN s /\ body[i] = s[m + i] /\ m + i > a
  <2>1. DOMAIN body = 1 .. e - 1 - b
    BY <1>12
  <2>2. ASSUME NEW i \in DOMAIN body
        PROVE  i \in Nat /\ m + i \in DOMAIN s /\ body[i] = s[m + i] /\ m + i > a
    <3>1. b + i \in DOMAIN behind /\ body[i] = behind[b + i] /\ i \in Nat /\ i > 0
      BY <1>12, <2>1
    <3>2. a + (b + i) \in DOMAIN s /\ behind[b + i] = s[a + (b + i)]
      BY <1>1, <1>2, <3>1
    <3>3. a + (b + i) = m + i /\ m + i > a
      BY SMTT(20), <1>9, <1>13, <3>1
    <3> QED  BY <3>1, <3>2, <3>3
  <2> QED  BY <2>1, <2>2
<1>15. \A j \in OutsOf(s, c) : j - m \in DOMAIN body /\ m + (j - m) = j
  <2> TAKE j \in OutsOf(s, c)
  <2>1. j \in 1 .. Len(s) /\ s[j].k = "out" /\ s[j].n = c
    BY <1>2 DEF OutsOf
  <2>2. j > a
    <3>1. d + j > f
      BY <1>2, <2>1 DEF Follows
    <3> QED  BY <1>1, <2>1, <3>1
  <2>3. j - a \in DOMAIN behind /\ behind[j - a] = s[j]
    <3>1. j - a \in 1 .. Len(s) - a /\ a + (j - a) = j
      BY <1>1, <1>2, <2>1, <2>2
    <3> QED  BY <1>1, <1>2, <3>1
  <2>4. OfCommand(behind[j - a], c) /\ OfCommand(behind[e], c) /\ j - a # e
    BY <1>7, <2>1, <2>3 DEF OfCommand
  <2>5. j - a < e
    BY <1>3, <1>7, <2>3, <2>4
  <2>6. j - a > b
    <3>1. CASE b = 0
      BY <1>1, <2>1, <2>2, <3>1
    <3>2. CASE b # 0
      <4>1. b \in DOMAIN behind /\ OfCommand(behind[b], c) /\ behind[b].k = "start" /\ b # j - a
        BY <1>9, <2>1, <2>3, <3>2 DEF OfCommand
      <4>2. b < j - a
        BY <1>3, <2>3, <2>4, <4>1
      <4> QED  BY <1>1, <1>9, <2>1, <4>2
    <3> QED  BY <3>1, <3>2
  <2>7. \A x, y, z, v \in Nat : x - y < z /\ x - y > v =>
          x - (y + v) \in 1 .. z - 1 - v /\ (y + v) + (x - (y + v)) = x
    OBVIOUS
  <2>8. j \in Nat /\ a \in Nat /\ e \in Nat /\ b \in Nat
    BY <1>2, <1>7, <1>9, <2>1
  <2>9. j - (a + b) \in 1 .. e - 1 - b /\ (a + b) + (j - (a + b)) = j
    BY <2>5, <2>6, <2>7, <2>8
  <2>10. DOMAIN body = 1 .. e - 1 - b
    BY <1>14
  <2> QED  BY <1>13, <2>9, <2>10
<1>16. \A i \in DOMAIN body : i \in OutsOf(body, c) <=> m + i \in OutsOf(s, c)
  BY <1>14 DEF OutsOf
<1>17. \A i \in OutsOf(body, c) : i \in Nat /\ m + i \in OutsOf(s, c) /\ body[i] = s[m + i]
  BY <1>14, <1>16 DEF OutsOf
<1>18. \A j \in OutsOf(s, c) : j - m \in OutsOf(body, c) /\ body[j - m] = s[j]
  BY <1>14, <1>15, <1>16
<1>19. \A i \in DOMAIN body : body[i].k = "noise" \/ body[i].n = c
  <2> TAKE i \in DOMAIN body
  <2>1. m + i \in DOMAIN s /\ body[i] = s[m + i] /\ m + i > a
    BY <1>14
  <2>2. \A x \in Nat : x > a => d + x > f
    BY <1>1
  <2>3. m + i \in Nat
    BY <1>2, <2>1
  <2> QED  BY <2>1, <2>2, <2>3 DEF Follows
<1>20. \A i \in OutsOf(body, c) : body[i].i \in 1 .. p
  BY <1>17 DEF Follows
<1>21. \A i, j \in OutsOf(body, c) : i < j => body[i].i < body[j].i
  <2> TAKE i, j \in OutsOf(body, c)
  <2>1. HAVE i < j
  <2>2. m + i < m + j
    BY <1>17, <2>1
  <2> QED  BY <1>17, <2>2 DEF Follows
<1>22. \A x \in 1 .. p : \/ \E i \in OutsOf(body, c) : body[i].i = x
                         \/ d > f /\ \A i \in OutsOf(body, c) : x < body[i].i
  <2> TAKE x \in 1 .. p
  <2>1. CASE \E j \in OutsOf(s, c) : s[j].i = x
    BY <1>18, <2>1
  <2>2. CASE d > f /\ \A j \in OutsOf(s, c) : x < s[j].i
    BY <1>17, <2>2
  <2> QED  BY <2>1, <2>2 DEF Follows
<1> QED  BY <1>11, <1>12, <1>19, <1>20, <1>21, <1>22 DEF HoldsOutput

ShellProcess == [alive : BOOLEAN, doing : Nat, input : Seq(Nat), pipe : Seq(PrintedLines)]
Results == [got : {"none", "ok", "died"}, body : Seq(PrintedLines), truncated : BOOLEAN]
RunPlaces == {"idle", "put", "install", "loop", "closing", "done"}
Runs == [at : RunPlaces, n : Nat, from : Nat, result : Results]

Stream == text.kept \o shell.pipe

ShellTyped ==
  /\ shell \in ShellProcess /\ text \in [kept : Seq(PrintedLines), dropped : Nat]
  /\ nonces \in 0 .. MaxRuns /\ printed \in [Commands -> Nat] /\ noise \in Nat
  /\ run \in [Runners -> Runs]
  /\ shell.doing <= nonces /\ \A i \in DOMAIN shell.input : shell.input[i] \in 1 .. nonces
  /\ \A i \in DOMAIN Stream : Stream[i].n <= nonces
  /\ \A x \in Commands : x > nonces => printed[x] = 0

(* One call at a time is at work, and on the latest command. *)
Active(r) == run[r].at \in {"put", "install", "loop", "closing"}
Following(r) == run[r].at \in {"put", "install", "loop"}

OneRuns ==
  /\ \A r \in Runners : run[r].n <= nonces
  /\ \A r, q \in Runners : Active(r) /\ Active(q) => r = q
  /\ \A r \in Runners : Active(r) => run[r].n = nonces /\ nonces > 0
  /\ \A r, q \in Runners : Active(r) /\ run[q].at = "done" => run[q].n < nonces
  /\ \A r \in Runners : run[r].at = "closing" => life # "none"

(* Between commands a shell that was not closed does nothing. *)
Quiet == /\ shell.input = <<>> /\ shell.doing = 0
         /\ \A i \in DOMAIN shell.pipe : shell.pipe[i].k = "noise"

QuietInv ==
  /\ \A r \in Runners : run[r].at = "put" => Quiet
  /\ (\A r \in Runners : ~Active(r)) /\ life = "none" => Quiet

(* The command is fed, and has not begun. *)
Waited(c) == /\ shell.input = <<c>> /\ shell.doing = 0 /\ printed[c] = 0
             /\ \A i \in DOMAIN Stream : ~OfCommand(Stream[i], c)

FollowInv(r) ==
  LET c == run[r].n IN
  /\ run[r].from <= text.dropped + Len(text.kept)
  /\ Follows(Stream, text.dropped, c, run[r].from, printed[c])
  /\ run[r].at = "put" => printed[c] = 0 /\ \A i \in DOMAIN Stream : ~OfCommand(Stream[i], c)
  /\ run[r].at # "put" => Waited(c) \/ (shell.input = <<>> /\ shell.doing \in {0, c})
  /\ \A i \in DOMAIN Stream : Stream[i].k = "end" /\ Stream[i].n = c => shell.doing # c

(* What a call that completed is given stays true: its command is over. *)
ToldOwn(r) ==
  LET c == run[r].n told == run[r].result IN
  told.got = "ok" =>
    /\ c \in Commands /\ HoldsOutput(told.body, c, printed[c], told.truncated)
    /\ shell.doing # c /\ \A i \in DOMAIN shell.input : shell.input[i] # c

ShellInv ==
  /\ ShellTyped /\ OneRuns /\ QuietInv
  /\ \A r \in Runners : Following(r) => FollowInv(r)
  /\ \A r \in Runners : run[r].at = "done" => ToldOwn(r)

LEMMA StreamIs ==
  ASSUME ShellTyped
  PROVE  /\ text.kept \in Seq(PrintedLines) /\ text.dropped \in Nat /\ shell.pipe \in Seq(PrintedLines)
         /\ shell.input \in Seq(Nat) /\ shell.doing \in Nat /\ Stream \in Seq(PrintedLines)
         /\ nonces \in Nat /\ MaxRuns \in Nat /\ Len(text.kept) \in Nat
         /\ Len(Stream) = Len(text.kept) + Len(shell.pipe)
         /\ \A r \in Runners : run[r] \in Runs /\ run[r].n \in Nat /\ run[r].from \in Nat
         /\ \A x \in Commands : x \in Nat /\ printed[x] \in Nat
<1>1. /\ text.kept \in Seq(PrintedLines) /\ text.dropped \in Nat /\ shell.pipe \in Seq(PrintedLines)
      /\ shell.input \in Seq(Nat) /\ shell.doing \in Nat
  BY DEF ShellTyped, ShellProcess
<1>2. Stream \in Seq(PrintedLines) /\ Len(Stream) = Len(text.kept) + Len(shell.pipe)
  BY <1>1 DEF Stream
<1>3. \A r \in Runners : run[r] \in Runs
  BY DEF ShellTyped
<1>4. \A r \in Runners : run[r].n \in Nat /\ run[r].from \in Nat
  BY <1>3 DEF Runs
<1>5. MaxRuns \in Nat /\ nonces \in Nat /\ Len(text.kept) \in Nat
  BY <1>1, ShellAssumption DEF ShellTyped
<1>6. \A x \in Commands : x \in Nat /\ printed[x] \in Nat
  BY <1>5 DEF ShellTyped, Commands
<1> QED  BY <1>1, <1>2, <1>3, <1>4, <1>5, <1>6

(* A line more at the end, and the border moved by one. *)
LEMMA AppendBehind ==
  ASSUME NEW S, NEW q \in Seq(S), NEW w \in Seq(S), NEW e \in S
  PROVE  q \o Append(w, e) = Append(q \o w, e)
<1>1. PICK v : v = Append(w, e)
  OBVIOUS
<1>2. PICK t : t = q \o w
  OBVIOUS
<1>3. /\ v \in Seq(S) /\ Len(v) = Len(w) + 1 /\ v[Len(w) + 1] = e /\ Len(w) \in Nat /\ Len(q) \in Nat
      /\ \A i \in 1 .. Len(w) : v[i] = w[i]
  BY <1>1
<1>4. /\ t \in Seq(S) /\ Len(t) = Len(q) + Len(w)
      /\ \A i \in 1 .. Len(q) : t[i] = q[i]
      /\ \A i \in Len(q) + 1 .. Len(q) + Len(w) : t[i] = w[i - Len(q)]
  BY <1>2
<1>5. PICK a : a = q \o v
  OBVIOUS
<1>6. PICK b : b = Append(t, e)
  OBVIOUS
<1>7. /\ a \in Seq(S) /\ Len(a) = Len(q) + Len(w) + 1
      /\ \A i \in 1 .. Len(q) : a[i] = q[i]
      /\ \A i \in Len(q) + 1 .. Len(q) + Len(w) + 1 : a[i] = v[i - Len(q)]
  <2>1. /\ a \in Seq(S) /\ Len(a) = Len(q) + Len(v)
        /\ \A i \in 1 .. Len(q) : a[i] = q[i]
        /\ \A i \in Len(q) + 1 .. Len(q) + Len(v) : a[i] = v[i - Len(q)]
    <3>1. v \in Seq(S)
      BY <1>3
    <3> QED  BY <1>5, <3>1
  <2>2. Len(q) + Len(v) = Len(q) + Len(w) + 1
    BY <1>3
  <2> QED  BY <2>1, <2>2
<1>8. /\ b \in Seq(S) /\ Len(b) = Len(q) + Len(w) + 1 /\ b[Len(q) + Len(w) + 1] = e
      /\ \A i \in 1 .. Len(q) + Len(w) : b[i] = t[i]
  BY <1>4, <1>6
<1>9. \A i \in 1 .. Len(a) : a[i] = b[i]
  <2> TAKE i \in 1 .. Len(a)
  <2>0. i \in Nat /\ i <= Len(q) + Len(w) + 1
    BY <1>3, <1>7
  <2>1. CASE i <= Len(q)
    BY <1>3, <1>4, <1>7, <1>8, <2>1
  <2>2. CASE i > Len(q) /\ i <= Len(q) + Len(w)
    <3>1. /\ i \in Len(q) + 1 .. Len(q) + Len(w) + 1 /\ i \in Len(q) + 1 .. Len(q) + Len(w)
          /\ i - Len(q) \in 1 .. Len(w) /\ i \in 1 .. Len(q) + Len(w)
      BY <1>3, <1>7, <2>2
    <3> QED  BY <1>3, <1>4, <1>7, <1>8, <3>1
  <2>3. CASE i = Len(q) + Len(w) + 1
    <3>1. i \in Len(q) + 1 .. Len(q) + Len(w) + 1 /\ i - Len(q) = Len(w) + 1
      BY <1>3, <2>3
    <3>2. a[i] = v[i - Len(q)]
      BY <1>7, <3>1
    <3> QED  BY <1>3, <1>8, <2>3, <3>1, <3>2
  <2>4. i <= Len(q) \/ (i > Len(q) /\ i <= Len(q) + Len(w)) \/ i = Len(q) + Len(w) + 1
    BY <1>3, <2>0
  <2> QED  BY <2>1, <2>2, <2>3, <2>4
<1>10. a = b
  BY <1>7, <1>8, <1>9, SeqEqual
<1> QED  BY <1>1, <1>2, <1>5, <1>6, <1>10

LEMMA ReadOne ==
  ASSUME NEW S, NEW q \in Seq(S), NEW w \in Seq(S), w # <<>>
  PROVE  Append(q, Head(w)) \o Tail(w) = q \o w
<1>1. /\ Len(w) \in Nat \ {0} /\ Tail(w) \in Seq(S) /\ Len(Tail(w)) = Len(w) - 1 /\ Head(w) = w[1]
      /\ Head(w) \in S /\ \A i \in 1 .. Len(w) - 1 : Tail(w)[i] = w[i + 1]
  OBVIOUS
<1>2. PICK a : a = Append(q, Head(w))
  OBVIOUS
<1>3. PICK r : r = Tail(w)
  OBVIOUS
<1>4. /\ a \in Seq(S) /\ Len(a) = Len(q) + 1 /\ Len(q) \in Nat /\ a[Len(q) + 1] = w[1]
      /\ \A i \in 1 .. Len(q) : a[i] = q[i]
  BY <1>1, <1>2
<1>5. PICK b : b = q \o w
  OBVIOUS
<1>6. /\ b \in Seq(S) /\ Len(b) = Len(q) + Len(w)
      /\ \A i \in 1 .. Len(q) : b[i] = q[i]
      /\ \A i \in Len(q) + 1 .. Len(q) + Len(w) : b[i] = w[i - Len(q)]
  BY <1>5
<1>7. PICK d : d = a \o r
  OBVIOUS
<1>8. /\ d \in Seq(S) /\ Len(d) = Len(a) + Len(r)
      /\ \A i \in 1 .. Len(a) : d[i] = a[i]
      /\ \A i \in Len(a) + 1 .. Len(a) + Len(r) : d[i] = r[i - Len(a)]
  <2>1. a \in Seq(S) /\ r \in Seq(S)
    BY <1>1, <1>3, <1>4
  <2> QED  BY <1>7, <2>1
<1>9. Len(d) = Len(b)
  BY <1>1, <1>3, <1>4, <1>6, <1>8
<1>10. \A i \in 1 .. Len(b) : d[i] = b[i]
  <2> TAKE i \in 1 .. Len(b)
  <2>0. i \in Nat
    OBVIOUS
  <2>1. CASE i <= Len(q)
    BY <1>4, <1>6, <1>8, <2>1
  <2>2. CASE i = Len(q) + 1
    <3>1. d[i] = w[1] /\ b[i] = w[i - Len(q)] /\ i - Len(q) = 1
      BY <1>1, <1>4, <1>6, <1>8, <2>2
    <3> QED  BY <3>1
  <2>3. CASE i > Len(q) + 1
    <3>1. i \in Len(a) + 1 .. Len(a) + Len(r) /\ i - Len(a) \in 1 .. Len(w) - 1
          /\ i \in Len(q) + 1 .. Len(q) + Len(w) /\ i - Len(a) + 1 = i - Len(q)
      BY <1>1, <1>3, <1>4, <1>6, <2>3
    <3>2. d[i] = w[i - Len(a) + 1]
      BY <1>1, <1>3, <1>8, <3>1
    <3> QED  BY <1>6, <3>1, <3>2
  <2> QED  BY <1>4, <2>0, <2>1, <2>2, <2>3
<1>11. d = b
  BY <1>6, <1>8, <1>9, <1>10, SeqEqual
<1> QED  BY <1>2, <1>3, <1>5, <1>7, <1>11

(* The shell prints a line. *)
LEMMA PrintsKeeps ==
  ASSUME ShellInv, UNCHANGED <<text, life, run, nonces>>, NEW e \in PrintedLines, e.n <= nonces,
         shell' \in ShellProcess, shell'.pipe = Append(shell.pipe, e), shell'.doing <= nonces,
         \A i \in DOMAIN shell'.input : shell'.input[i] \in 1 .. nonces,
         printed' \in [Commands -> Nat], noise' \in Nat,
         \A x \in Commands : x > nonces => printed'[x] = 0,
         Quiet => Quiet',
         \A r \in Runners : Following(r) =>
           LET c == run[r].n IN
           /\ Follows(Append(Stream, e), text.dropped, c, run[r].from, printed'[c])
           /\ run[r].at = "put" => printed'[c] = 0 /\ ~OfCommand(e, c)
           /\ run[r].at # "put" =>
                \/ Waited(c) /\ shell'.input = shell.input /\ shell'.doing = 0 /\ printed'[c] = 0
                   /\ ~OfCommand(e, c)
                \/ shell'.input = <<>> /\ shell'.doing \in {0, c}
           /\ e.k = "end" /\ e.n = c => shell'.doing # c
           /\ shell'.doing = c => \A i \in DOMAIN Stream : Stream[i].k = "end" => Stream[i].n # c,
         \A r \in Runners : run[r].at = "done" /\ run[r].result.got = "ok" =>
           LET c == run[r].n IN
           /\ printed'[c] = printed[c] /\ shell'.doing # c
           /\ \A i \in DOMAIN shell'.input : shell'.input[i] # c
  PROVE  ShellInv'
<1> USE DEF ShellInv
<1>1. /\ text.kept \in Seq(PrintedLines) /\ shell.pipe \in Seq(PrintedLines) /\ Stream \in Seq(PrintedLines)
      /\ Len(Stream) \in Nat
  BY StreamIs
<1>2. Stream' = Append(Stream, e)
  <2>1. Stream' = text.kept \o Append(shell.pipe, e)
    BY DEF Stream
  <2>2. text.kept \o Append(shell.pipe, e) = Append(text.kept \o shell.pipe, e)
    <3>1. PICK q : q = text.kept
      OBVIOUS
    <3>2. PICK w : w = shell.pipe
      OBVIOUS
    <3>3. q \in Seq(PrintedLines) /\ w \in Seq(PrintedLines)
      BY <1>1, <3>1, <3>2
    <3>4. q \o Append(w, e) = Append(q \o w, e)
      BY <3>3, AppendBehind
    <3> QED  BY <3>1, <3>2, <3>4
  <2>3. Stream = text.kept \o shell.pipe
    BY DEF Stream
  <2> QED  BY <2>1, <2>2, <2>3, Zenon
<1>3. /\ Stream' \in Seq(PrintedLines) /\ Len(Stream') = Len(Stream) + 1 /\ Stream'[Len(Stream) + 1] = e
      /\ \A i \in 1 .. Len(Stream) : Stream'[i] = Stream[i]
      /\ DOMAIN Stream = 1 .. Len(Stream) /\ DOMAIN Stream' = 1 .. Len(Stream) + 1
  BY <1>1, <1>2, Grown
<1>4. \A i \in DOMAIN Stream' : (i \in DOMAIN Stream /\ Stream'[i] = Stream[i]) \/ Stream'[i] = e
  BY <1>1, <1>3
<1>5. ShellTyped'
  <2>1. \A i \in DOMAIN Stream' : Stream'[i].n <= nonces'
    BY <1>4 DEF ShellTyped
  <2> QED  BY <2>1 DEF ShellTyped
<1>6. OneRuns' /\ QuietInv'
  BY DEF OneRuns, QuietInv, Active
<1>7. ASSUME NEW r \in Runners, Following(r)' PROVE FollowInv(r)'
  <2>1. Following(r) /\ FollowInv(r)
    BY <1>7 DEF Following
  <2>2. PICK c : c = run[r].n
    OBVIOUS
  <2>3. run'[r] = run[r] /\ text' = text
    OBVIOUS
  <2>4. Follows(Stream', text.dropped, c, run[r].from, printed'[c])
    BY <1>2, <2>1, <2>2
  <2>5. run[r].at = "put" => printed'[c] = 0 /\ \A i \in DOMAIN Stream' : ~OfCommand(Stream'[i], c)
    BY <1>4, <2>1, <2>2 DEF FollowInv
  <2>6. run[r].at # "put" => Waited(c)' \/ (shell'.input = <<>> /\ shell'.doing \in {0, c})
    <3>1. ASSUME Waited(c), shell'.input = shell.input, shell'.doing = 0, printed'[c] = 0, ~OfCommand(e, c)
          PROVE  Waited(c)'
      BY <1>4, <3>1 DEF Waited
    <3> QED  BY <2>1, <2>2, <3>1
  <2>7. \A i \in DOMAIN Stream' : Stream'[i].k = "end" /\ Stream'[i].n = c => shell'.doing # c
    BY <1>4, <2>1, <2>2
  <2>8. run[r].from <= text.dropped + Len(text.kept)
    BY <2>1 DEF FollowInv
  <2> QED  BY <2>2, <2>3, <2>4, <2>5, <2>6, <2>7, <2>8 DEF FollowInv
<1>8. ASSUME NEW r \in Runners, run'[r].at = "done" PROVE ToldOwn(r)'
  <2>1. run'[r] = run[r] /\ run[r].at = "done" /\ ToldOwn(r)
    BY <1>8
  <2>2. PICK c : c = run[r].n
    OBVIOUS
  <2>3. PICK told : told = run[r].result
    OBVIOUS
  <2>4. told.got = "ok" =>
          /\ c \in Commands /\ HoldsOutput(told.body, c, printed[c], told.truncated)
          /\ printed'[c] = printed[c] /\ shell'.doing # c /\ \A i \in DOMAIN shell'.input : shell'.input[i] # c
    BY <2>1, <2>2, <2>3 DEF ToldOwn
  <2> QED  BY <2>1, <2>2, <2>3, <2>4 DEF ToldOwn
<1> QED  BY <1>5, <1>6, <1>7, <1>8

LEMMA ShellBegins ==
  ASSUME ShellInv, Begins
  PROVE  ShellInv'
<1>1. /\ text.kept \in Seq(PrintedLines) /\ text.dropped \in Nat /\ shell.pipe \in Seq(PrintedLines)
      /\ shell.input \in Seq(Nat) /\ Stream \in Seq(PrintedLines) /\ nonces \in Nat
      /\ Len(text.kept) \in Nat /\ Len(Stream) = Len(text.kept) + Len(shell.pipe)
      /\ \A r \in Runners : run[r].n \in Nat /\ run[r].from \in Nat
      /\ \A x \in Commands : printed[x] \in Nat
  BY StreamIs DEF ShellInv
<1> DEFINE x == Head(shell.input)
           e == Line("start", x, 0)
<1>2. /\ shell.input # <<>> /\ shell.doing = 0 /\ UNCHANGED <<text, life, run, nonces, printed, noise>>
      /\ shell' = [shell EXCEPT !.doing = x, !.input = Tail(@), !.pipe = Append(@, e)]
  BY DEF Begins, others
<1>3. /\ 1 \in DOMAIN shell.input /\ x = shell.input[1] /\ x \in Nat
      /\ Tail(shell.input) \in Seq(Nat)
      /\ \A i \in DOMAIN Tail(shell.input) : i + 1 \in DOMAIN shell.input /\ Tail(shell.input)[i] = shell.input[i + 1]
  BY SMTT(20), <1>1, <1>2
<1>4. x \in 1 .. nonces
  BY <1>3 DEF ShellInv, ShellTyped
<1>5. e \in PrintedLines /\ e.n = x /\ e.k = "start" /\ e.n <= nonces
  BY <1>1, <1>3, <1>4 DEF Line, PrintedLines
<1>6. e.i = 0
  BY DEF Line
<1> HIDE DEF x, e
<1>7. shell' \in ShellProcess /\ shell'.pipe = Append(shell.pipe, e) /\ shell'.doing = x /\ shell'.input = Tail(shell.input)
  <2>1. shell \in ShellProcess /\ Append(shell.pipe, e) \in Seq(PrintedLines)
    BY <1>1, <1>5 DEF ShellInv, ShellTyped
  <2> QED  BY <1>2, <1>3, <2>1 DEF ShellProcess
<1>8. \A i \in DOMAIN shell'.input : shell'.input[i] \in 1 .. nonces
  BY <1>3, <1>7 DEF ShellInv, ShellTyped
<1>9. ~Quiet
  BY <1>2 DEF Quiet
<1>10. ASSUME NEW r \in Runners, Following(r)
       PROVE  LET c == run[r].n IN
              /\ Follows(Append(Stream, e), text.dropped, c, run[r].from, printed'[c])
              /\ run[r].at = "put" => printed'[c] = 0 /\ ~OfCommand(e, c)
              /\ run[r].at # "put" =>
                   \/ Waited(c) /\ shell'.input = shell.input /\ shell'.doing = 0 /\ printed'[c] = 0
                      /\ ~OfCommand(e, c)
                   \/ shell'.input = <<>> /\ shell'.doing \in {0, c}
              /\ e.k = "end" /\ e.n = c => shell'.doing # c
              /\ shell'.doing = c => \A i \in DOMAIN Stream : Stream[i].k = "end" => Stream[i].n # c
  <2>1. PICK c : c = run[r].n
    OBVIOUS
  <2>2. PICK f : f = run[r].from
    OBVIOUS
  <2>3. PICK d : d = text.dropped
    OBVIOUS
  <2>4. run[r].at # "put" /\ FollowInv(r)
    BY <1>9, <1>10 DEF ShellInv, QuietInv
  <2>5. Waited(c) /\ Follows(Stream, d, c, f, printed[c]) /\ f <= d + Len(text.kept)
    BY <1>2, <2>1, <2>2, <2>3, <2>4 DEF FollowInv
  <2>6. shell.input = <<c>> /\ x = c /\ Tail(shell.input) = <<>>
    BY <1>3, <2>5 DEF Waited
  <2>7. \A i \in DOMAIN Stream : ~OfCommand(Stream[i], c)
    BY <2>5 DEF Waited
  <2>8. f <= d + Len(Stream) /\ f \in Nat /\ c \in Nat /\ d \in Nat
    <3>1. f \in Nat /\ c \in Nat /\ d \in Nat /\ Len(shell.pipe) \in Nat
      BY <1>1, <2>1, <2>2, <2>3
    <3>2. \A a, b, g, h \in Nat : g <= h + a => g <= h + (a + b)
      OBVIOUS
    <3> QED  BY <1>1, <2>5, <3>1, <3>2
  <2>9. c \in Commands
    BY <1>1, <1>4, <2>6, ShellAssumption DEF Commands, ShellInv, ShellTyped
  <2>10. Follows(Append(Stream, e), d, c, f, printed[c])
    <3>1. printed[c] \in Nat
      BY <1>1, <2>9
    <3> QED  BY <1>1, <1>5, <2>5, <2>6, <2>7, <2>8, <3>1, FollowsMarker
  <2>11. \A i \in DOMAIN Stream : Stream[i].k = "end" => Stream[i].n # c
    BY <2>7 DEF OfCommand
  <2> QED  BY <1>2, <1>5, <1>7, <2>1, <2>2, <2>3, <2>4, <2>6, <2>10, <2>11
<1>11. ASSUME NEW r \in Runners, run[r].at = "done", run[r].result.got = "ok"
       PROVE  LET c == run[r].n IN
              /\ printed'[c] = printed[c] /\ shell'.doing # c
              /\ \A i \in DOMAIN shell'.input : shell'.input[i] # c
  <2>1. PICK c : c = run[r].n
    OBVIOUS
  <2>2. \A i \in DOMAIN shell.input : shell.input[i] # c
    BY <1>11, <2>1 DEF ShellInv, ToldOwn
  <2> QED  BY <1>2, <1>3, <1>7, <2>1, <2>2
<1>12. /\ shell'.doing <= nonces /\ printed' \in [Commands -> Nat] /\ noise' \in Nat
       /\ \A y \in Commands : y > nonces => printed'[y] = 0
  BY SMTT(20), <1>1, <1>2, <1>4, <1>7 DEF ShellInv, ShellTyped
<1> QED  BY <1>2, <1>5, <1>7, <1>8, <1>9, <1>10, <1>11, <1>12, PrintsKeeps

(* What follows a command that runs. *)
LEMMA FollowsDoing ==
  ASSUME ShellInv, shell.doing # 0
  PROVE  /\ ~Quiet /\ shell.doing \in Commands /\ shell.doing \in Nat /\ shell.doing <= nonces
         /\ \A r \in Runners : Following(r) =>
              /\ run[r].n = shell.doing /\ run[r].at # "put" /\ shell.input = <<>>
              /\ Follows(Stream, text.dropped, shell.doing, run[r].from, printed[shell.doing])
              /\ run[r].from \in Nat /\ run[r].from <= text.dropped + Len(Stream)
              /\ \A i \in DOMAIN Stream : Stream[i].k = "end" => Stream[i].n # shell.doing
         /\ \A r \in Runners : run[r].at = "done" /\ run[r].result.got = "ok" => run[r].n # shell.doing
<1>1. ~Quiet
  BY DEF Quiet
<1>2. shell.doing \in Commands /\ shell.doing \in Nat /\ shell.doing <= nonces
  <2>1. shell.doing \in Nat /\ nonces \in Nat /\ MaxRuns \in Nat /\ nonces <= MaxRuns /\ shell.doing <= nonces
    BY StreamIs DEF ShellInv, ShellTyped
  <2> QED  BY <2>1 DEF Commands
<1>3. ASSUME NEW r \in Runners, Following(r)
      PROVE  /\ run[r].n = shell.doing /\ run[r].at # "put" /\ shell.input = <<>>
             /\ Follows(Stream, text.dropped, shell.doing, run[r].from, printed[shell.doing])
             /\ run[r].from \in Nat /\ run[r].from <= text.dropped + Len(Stream)
             /\ \A i \in DOMAIN Stream : Stream[i].k = "end" => Stream[i].n # shell.doing
  <2>1. run[r].at # "put" /\ FollowInv(r)
    BY <1>1, <1>3 DEF ShellInv, QuietInv
  <2>2. ~Waited(run[r].n)
    BY DEF Waited
  <2>3. shell.input = <<>> /\ shell.doing = run[r].n
    BY <2>1, <2>2 DEF FollowInv
  <2>4. /\ Follows(Stream, text.dropped, shell.doing, run[r].from, printed[shell.doing])
        /\ run[r].from <= text.dropped + Len(text.kept)
        /\ \A i \in DOMAIN Stream : Stream[i].k = "end" => Stream[i].n # shell.doing
    BY <2>1, <2>3 DEF FollowInv
  <2>5. run[r].from <= text.dropped + Len(Stream) /\ run[r].from \in Nat
    <3>1. /\ run[r].from \in Nat /\ text.dropped \in Nat /\ Len(text.kept) \in Nat
          /\ Len(Stream) = Len(text.kept) + Len(shell.pipe) /\ shell.pipe \in Seq(PrintedLines)
      BY StreamIs DEF ShellInv
    <3>2. Len(shell.pipe) \in Nat
      BY <3>1
    <3>3. \A a, b, g, h \in Nat : g <= h + a => g <= h + (a + b)
      OBVIOUS
    <3> QED  BY <2>4, <3>1, <3>2, <3>3
  <2> QED  BY <2>1, <2>3, <2>4, <2>5
<1>4. ASSUME NEW r \in Runners, run[r].at = "done", run[r].result.got = "ok" PROVE run[r].n # shell.doing
  BY <1>4 DEF ShellInv, ToldOwn
<1> QED  BY <1>1, <1>2, <1>3, <1>4

LEMMA ShellSays ==
  ASSUME ShellInv, Says
  PROVE  ShellInv'
<1> DEFINE x == shell.doing
           p == printed[x]
           e == Line("out", x, p + 1)
<1>1. /\ shell.doing # 0 /\ UNCHANGED <<text, life, run, nonces, noise>>
      /\ printed' = [printed EXCEPT ![shell.doing] = @ + 1]
      /\ shell' = [shell EXCEPT !.pipe = Append(@, e)]
  BY DEF Says, others, Prints
<1>2. /\ Stream \in Seq(PrintedLines) /\ shell.pipe \in Seq(PrintedLines) /\ text.dropped \in Nat
      /\ shell \in ShellProcess /\ \A y \in Commands : y \in Nat /\ printed[y] \in Nat
      /\ printed \in [Commands -> Nat]
  BY StreamIs DEF ShellInv, ShellTyped
<1>3. ~Quiet /\ x \in Commands /\ x \in Nat /\ x <= nonces /\ p \in Nat
  BY <1>1, <1>2, FollowsDoing
<1>4. e \in PrintedLines /\ e.k = "out" /\ e.n = x /\ e.i = p + 1
  BY <1>3 DEF Line, PrintedLines
<1>5. /\ printed' \in [Commands -> Nat] /\ printed'[x] = p + 1
      /\ \A y \in Commands \ {x} : printed'[y] = printed[y]
  BY <1>1, <1>2, <1>3
<1>6. \A y \in Commands : y > nonces => printed'[y] = 0
  BY <1>1, <1>3, <1>5 DEF ShellInv, ShellTyped
<1> HIDE DEF e, p
<1>7. shell' \in ShellProcess /\ shell'.pipe = Append(shell.pipe, e) /\ shell'.doing = x /\ shell'.input = shell.input
  <2>1. Append(shell.pipe, e) \in Seq(PrintedLines)
    BY <1>2, <1>4
  <2> QED  BY <1>1, <1>2, <2>1 DEF ShellProcess
<1>8. /\ shell'.doing <= nonces /\ noise' \in Nat
      /\ \A i \in DOMAIN shell'.input : shell'.input[i] \in 1 .. nonces
  BY <1>1, <1>3, <1>7 DEF ShellInv, ShellTyped
<1>9. ASSUME NEW r \in Runners, Following(r)
      PROVE  LET c == run[r].n IN
             /\ Follows(Append(Stream, e), text.dropped, c, run[r].from, printed'[c])
             /\ run[r].at = "put" => printed'[c] = 0 /\ ~OfCommand(e, c)
             /\ run[r].at # "put" =>
                  \/ Waited(c) /\ shell'.input = shell.input /\ shell'.doing = 0 /\ printed'[c] = 0
                     /\ ~OfCommand(e, c)
                  \/ shell'.input = <<>> /\ shell'.doing \in {0, c}
             /\ e.k = "end" /\ e.n = c => shell'.doing # c
             /\ shell'.doing = c => \A i \in DOMAIN Stream : Stream[i].k = "end" => Stream[i].n # c
  <2>1. PICK f : f = run[r].from
    OBVIOUS
  <2>2. /\ run[r].n = x /\ run[r].at # "put" /\ shell.input = <<>>
        /\ Follows(Stream, text.dropped, x, f, p) /\ f \in Nat /\ f <= text.dropped + Len(Stream)
        /\ \A i \in DOMAIN Stream : Stream[i].k = "end" => Stream[i].n # x
    BY <1>1, <1>9, <2>1, FollowsDoing DEF p
  <2>3. \A i \in DOMAIN Stream : OfCommand(Stream[i], x) => Stream[i].k # "end"
    BY <2>2 DEF OfCommand
  <2>4. Follows(Append(Stream, e), text.dropped, x, f, p + 1)
    BY <1>2, <1>3, <1>4, <2>2, <2>3, FollowsOut
  <2> QED  BY <1>4, <1>5, <1>7, <2>1, <2>2, <2>4
<1>10. ASSUME NEW r \in Runners, run[r].at = "done", run[r].result.got = "ok"
       PROVE  LET c == run[r].n IN
              /\ printed'[c] = printed[c] /\ shell'.doing # c
              /\ \A i \in DOMAIN shell'.input : shell'.input[i] # c
  <2>1. PICK c : c = run[r].n
    OBVIOUS
  <2>2. c # x /\ c \in Commands /\ \A i \in DOMAIN shell.input : shell.input[i] # c
    BY <1>1, <1>10, <2>1, FollowsDoing DEF ShellInv, ToldOwn
  <2> QED  BY <1>5, <1>7, <2>1, <2>2
<1>11. e.n <= nonces
  BY <1>3, <1>4
<1> QED  BY <1>1, <1>3, <1>4, <1>5, <1>6, <1>7, <1>8, <1>9, <1>10, <1>11, PrintsKeeps

LEMMA ShellEnds ==
  ASSUME ShellInv, CommandDone
  PROVE  ShellInv'
<1> DEFINE x == shell.doing
           e == Line("end", x, 0)
<1>1. /\ shell.doing # 0 /\ UNCHANGED <<text, life, run, nonces, noise, printed>>
      /\ shell' = [shell EXCEPT !.doing = 0, !.pipe = Append(@, e)]
  BY DEF CommandDone, others
<1>2. /\ Stream \in Seq(PrintedLines) /\ shell.pipe \in Seq(PrintedLines) /\ text.dropped \in Nat
      /\ shell \in ShellProcess /\ \A y \in Commands : y \in Nat /\ printed[y] \in Nat
      /\ nonces \in Nat
  BY StreamIs DEF ShellInv, ShellTyped
<1>3. ~Quiet /\ x \in Commands /\ x \in Nat /\ x <= nonces /\ printed[x] \in Nat
  BY <1>1, <1>2, FollowsDoing
<1>4. e \in PrintedLines /\ e.k = "end" /\ e.n = x
  BY <1>3 DEF Line, PrintedLines
<1> HIDE DEF e
<1>5. shell' \in ShellProcess /\ shell'.pipe = Append(shell.pipe, e) /\ shell'.doing = 0 /\ shell'.input = shell.input
  <2>1. Append(shell.pipe, e) \in Seq(PrintedLines)
    BY <1>2, <1>4
  <2> QED  BY <1>1, <1>2, <2>1 DEF ShellProcess
<1>6. /\ shell'.doing <= nonces /\ noise' \in Nat /\ printed' \in [Commands -> Nat]
      /\ \A i \in DOMAIN shell'.input : shell'.input[i] \in 1 .. nonces
      /\ \A y \in Commands : y > nonces => printed'[y] = 0
  BY <1>1, <1>2, <1>3, <1>5 DEF ShellInv, ShellTyped
<1>7. ASSUME NEW r \in Runners, Following(r)
      PROVE  LET c == run[r].n IN
             /\ Follows(Append(Stream, e), text.dropped, c, run[r].from, printed'[c])
             /\ run[r].at = "put" => printed'[c] = 0 /\ ~OfCommand(e, c)
             /\ run[r].at # "put" =>
                  \/ Waited(c) /\ shell'.input = shell.input /\ shell'.doing = 0 /\ printed'[c] = 0
                     /\ ~OfCommand(e, c)
                  \/ shell'.input = <<>> /\ shell'.doing \in {0, c}
             /\ e.k = "end" /\ e.n = c => shell'.doing # c
             /\ shell'.doing = c => \A i \in DOMAIN Stream : Stream[i].k = "end" => Stream[i].n # c
  <2>1. PICK f : f = run[r].from
    OBVIOUS
  <2>2. /\ run[r].n = x /\ run[r].at # "put" /\ shell.input = <<>>
        /\ Follows(Stream, text.dropped, x, f, printed[x]) /\ f \in Nat /\ f <= text.dropped + Len(Stream)
        /\ \A i \in DOMAIN Stream : Stream[i].k = "end" => Stream[i].n # x
    BY <1>1, <1>7, <2>1, FollowsDoing
  <2>3. \A i \in DOMAIN Stream : OfCommand(Stream[i], x) => Stream[i].k # "end"
    BY <2>2 DEF OfCommand
  <2>4. Follows(Append(Stream, e), text.dropped, x, f, printed[x])
    BY <1>2, <1>3, <1>4, <2>2, <2>3, FollowsMarker
  <2> QED  BY <1>1, <1>4, <1>5, <2>1, <2>2, <2>4
<1>8. ASSUME NEW r \in Runners, run[r].at = "done", run[r].result.got = "ok"
      PROVE  LET c == run[r].n IN
             /\ printed'[c] = printed[c] /\ shell'.doing # c
             /\ \A i \in DOMAIN shell'.input : shell'.input[i] # c
  <2>1. PICK c : c = run[r].n
    OBVIOUS
  <2>2. c # 0 /\ \A i \in DOMAIN shell.input : shell.input[i] # c
    BY <1>8, <2>1 DEF ShellInv, ToldOwn, Commands
  <2> QED  BY <1>1, <1>5, <2>1, <2>2
<1>9. e.n <= nonces
  BY <1>3, <1>4
<1> QED  BY <1>1, <1>3, <1>4, <1>5, <1>6, <1>7, <1>8, <1>9, PrintsKeeps

LEMMA ShellNoise ==
  ASSUME ShellInv, LeftBehind
  PROVE  ShellInv'
<1> DEFINE e == Line("noise", 0, noise)
<1>1. /\ UNCHANGED <<text, life, run, nonces, printed>> /\ noise' = noise + 1
      /\ shell' = [shell EXCEPT !.pipe = Append(@, e)]
  BY DEF LeftBehind, others, Prints
<1>2. /\ Stream \in Seq(PrintedLines) /\ shell.pipe \in Seq(PrintedLines) /\ text.dropped \in Nat
      /\ shell \in ShellProcess /\ nonces \in Nat /\ noise \in Nat
      /\ \A r \in Runners : run[r].n \in Nat /\ run[r].from \in Nat
  BY StreamIs DEF ShellInv, ShellTyped
<1>3. e \in PrintedLines /\ e.k = "noise" /\ e.n = 0
  BY <1>2 DEF Line, PrintedLines
<1> HIDE DEF e
<1>4. shell' \in ShellProcess /\ shell'.pipe = Append(shell.pipe, e) /\ shell'.doing = shell.doing /\ shell'.input = shell.input
  <2>1. Append(shell.pipe, e) \in Seq(PrintedLines)
    BY <1>2, <1>3
  <2> QED  BY <1>1, <1>2, <2>1 DEF ShellProcess
<1>5. /\ shell'.doing <= nonces /\ noise' \in Nat /\ printed' \in [Commands -> Nat]
      /\ \A i \in DOMAIN shell'.input : shell'.input[i] \in 1 .. nonces
      /\ \A y \in Commands : y > nonces => printed'[y] = 0
  BY <1>1, <1>2, <1>4 DEF ShellInv, ShellTyped
<1>6. Quiet => Quiet'
  <2>1. \A i \in DOMAIN Append(shell.pipe, e) : (i \in DOMAIN shell.pipe /\ Append(shell.pipe, e)[i] = shell.pipe[i])
                                               \/ Append(shell.pipe, e)[i] = e
    BY <1>2
  <2> QED  BY <1>3, <1>4, <2>1 DEF Quiet
<1>7. ASSUME NEW r \in Runners, Following(r)
      PROVE  LET c == run[r].n IN
             /\ Follows(Append(Stream, e), text.dropped, c, run[r].from, printed'[c])
             /\ run[r].at = "put" => printed'[c] = 0 /\ ~OfCommand(e, c)
             /\ run[r].at # "put" =>
                  \/ Waited(c) /\ shell'.input = shell.input /\ shell'.doing = 0 /\ printed'[c] = 0
                     /\ ~OfCommand(e, c)
                  \/ shell'.input = <<>> /\ shell'.doing \in {0, c}
             /\ e.k = "end" /\ e.n = c => shell'.doing # c
             /\ shell'.doing = c => \A i \in DOMAIN Stream : Stream[i].k = "end" => Stream[i].n # c
  <2>1. PICK f : f = run[r].from
    OBVIOUS
  <2>2. PICK c : c = run[r].n
    OBVIOUS
  <2>3. FollowInv(r) /\ OneRuns
    BY <1>7 DEF ShellInv
  <2>4. c \in Commands /\ printed[c] \in Nat /\ c \in Nat /\ f \in Nat
    <3>1. c = nonces /\ nonces > 0 /\ nonces <= MaxRuns
      BY <1>7, <2>2, <2>3 DEF OneRuns, Active, Following, ShellInv, ShellTyped
    <3>2. c \in Commands
      BY <1>2, <3>1 DEF Commands
    <3> QED  BY <1>2, <2>1, <2>2, <3>2 DEF ShellInv, ShellTyped
  <2>5. Follows(Stream, text.dropped, c, f, printed[c])
    BY <2>1, <2>2, <2>3 DEF FollowInv
  <2>6. Follows(Append(Stream, e), text.dropped, c, f, printed[c])
    BY <1>2, <1>3, <2>4, <2>5, FollowsNoise
  <2>7. ~OfCommand(e, c)
    BY <1>3 DEF OfCommand
  <2>8. run[r].at = "put" => printed[c] = 0
    BY <2>2, <2>3 DEF FollowInv
  <2>9. run[r].at # "put" => Waited(c) \/ (shell.input = <<>> /\ shell.doing \in {0, c})
    BY <2>2, <2>3 DEF FollowInv
  <2>10. Waited(c) => shell.doing = 0 /\ printed[c] = 0
    BY DEF Waited
  <2>11. shell.doing = c => \A i \in DOMAIN Stream : Stream[i].k = "end" => Stream[i].n # c
    BY <2>2, <2>3 DEF FollowInv
  <2> QED  BY <1>1, <1>3, <1>4, <2>1, <2>2, <2>6, <2>7, <2>8, <2>9, <2>10, <2>11
<1>8. ASSUME NEW r \in Runners, run[r].at = "done", run[r].result.got = "ok"
      PROVE  LET c == run[r].n IN
             /\ printed'[c] = printed[c] /\ shell'.doing # c
             /\ \A i \in DOMAIN shell'.input : shell'.input[i] # c
  <2>1. PICK c : c = run[r].n
    OBVIOUS
  <2>2. shell.doing # c /\ \A i \in DOMAIN shell.input : shell.input[i] # c
    BY <1>8, <2>1 DEF ShellInv, ToldOwn
  <2> QED  BY <1>1, <1>4, <2>1, <2>2
<1>9. e.n <= nonces
  BY <1>2, <1>3
<1> QED  BY <1>1, <1>3, <1>4, <1>5, <1>6, <1>7, <1>8, <1>9, PrintsKeeps

(* The transcript forgets its first line. *)
LEMMA TailFront ==
  ASSUME NEW S, NEW q \in Seq(S), NEW w \in Seq(S), q # <<>>
  PROVE  Tail(q) \o w = Tail(q \o w) /\ q \o w # <<>>
<1>1. /\ Len(q) \in Nat \ {0} /\ Len(w) \in Nat /\ Tail(q) \in Seq(S) /\ Len(Tail(q)) = Len(q) - 1
      /\ \A i \in 1 .. Len(q) - 1 : Tail(q)[i] = q[i + 1]
  OBVIOUS
<1>2. PICK b : b = q \o w
  OBVIOUS
<1>3. /\ b \in Seq(S) /\ Len(b) = Len(q) + Len(w)
      /\ \A i \in 1 .. Len(q) : b[i] = q[i]
      /\ \A i \in Len(q) + 1 .. Len(q) + Len(w) : b[i] = w[i - Len(q)]
  BY <1>2
<1>4. b # <<>>
  BY <1>1, <1>3
<1>5. PICK c : c = Tail(b)
  OBVIOUS
<1>6. /\ c \in Seq(S) /\ Len(c) = Len(q) + Len(w) - 1
      /\ \A i \in 1 .. Len(q) + Len(w) - 1 : c[i] = b[i + 1]
  BY <1>1, <1>3, <1>4, <1>5
<1>7. PICK r : r = Tail(q)
  OBVIOUS
<1>8. PICK d : d = r \o w
  OBVIOUS
<1>9. /\ d \in Seq(S) /\ Len(d) = Len(q) - 1 + Len(w)
      /\ \A i \in 1 .. Len(q) - 1 : d[i] = r[i]
      /\ \A i \in Len(q) .. Len(q) - 1 + Len(w) : d[i] = w[i - (Len(q) - 1)]
  <2>1. r \in Seq(S) /\ Len(r) = Len(q) - 1
    BY <1>1, <1>7
  <2>2. /\ d \in Seq(S) /\ Len(d) = Len(r) + Len(w)
        /\ \A i \in 1 .. Len(r) : d[i] = r[i]
        /\ \A i \in Len(r) + 1 .. Len(r) + Len(w) : d[i] = w[i - Len(r)]
    <3>1. PICK u : u = w
      OBVIOUS
    <3>2. u \in Seq(S) /\ r \in Seq(S) /\ d = r \o u
      BY <1>8, <2>1, <3>1
    <3>3. /\ d \in Seq(S) /\ Len(d) = Len(r) + Len(u)
          /\ \A i \in 1 .. Len(r) : d[i] = r[i]
          /\ \A i \in Len(r) + 1 .. Len(r) + Len(u) : d[i] = u[i - Len(r)]
      BY <3>2
    <3> QED  BY <3>1, <3>3
  <2> QED  BY <1>1, <2>1, <2>2
<1>10. Len(d) = Len(c)
  BY <1>1, <1>6, <1>9
<1>11. \A i \in 1 .. Len(c) : d[i] = c[i]
  <2> TAKE i \in 1 .. Len(c)
  <2>0. i \in Nat
    OBVIOUS
  <2>1. CASE i < Len(q)
    <3>1. i \in 1 .. Len(q) - 1 /\ i + 1 \in 1 .. Len(q) /\ i \in 1 .. Len(q) + Len(w) - 1
      BY <1>1, <1>6, <2>0, <2>1
    <3>2. d[i] = q[i + 1]
      BY <1>1, <1>7, <1>9, <3>1
    <3> QED  BY <1>3, <1>6, <3>1, <3>2
  <2>2. CASE i >= Len(q)
    <3>1. /\ i \in Len(q) .. Len(q) - 1 + Len(w) /\ i + 1 \in Len(q) + 1 .. Len(q) + Len(w)
          /\ i - (Len(q) - 1) = i + 1 - Len(q) /\ i \in 1 .. Len(q) + Len(w) - 1
      BY <1>1, <1>6, <2>0, <2>2
    <3>2. d[i] = w[i - (Len(q) - 1)]
      BY <1>9, <3>1
    <3>3. c[i] = b[i + 1] /\ b[i + 1] = w[i + 1 - Len(q)]
      BY <1>3, <1>6, <3>1
    <3> QED  BY <3>1, <3>2, <3>3
  <2> QED  BY <1>1, <2>0, <2>1, <2>2
<1>12. d = c
  BY <1>6, <1>9, <1>10, <1>11, SeqEqual
<1> QED  BY <1>2, <1>4, <1>5, <1>7, <1>8, <1>12

(* A line is read: the stream stays, or loses its first line. *)
LEMMA PumpReads ==
  ASSUME ShellInv, Pump
  PROVE  /\ shell' \in ShellProcess /\ text' \in [kept : Seq(PrintedLines), dropped : Nat]
         /\ shell'.doing = shell.doing /\ shell'.input = shell.input /\ shell'.pipe = Tail(shell.pipe)
         /\ shell.pipe # <<>>
         /\ \/ /\ Stream' = Stream /\ text'.dropped = text.dropped
               /\ Len(text'.kept) = Len(text.kept) + 1
            \/ /\ Stream' = Tail(Stream) /\ Stream # <<>> /\ text'.dropped = text.dropped + 1
               /\ Len(text'.kept) = Len(text.kept)
<1>1. /\ text.kept \in Seq(PrintedLines) /\ text.dropped \in Nat /\ shell.pipe \in Seq(PrintedLines)
      /\ shell \in ShellProcess /\ text \in [kept : Seq(PrintedLines), dropped : Nat]
  BY StreamIs DEF ShellInv, ShellTyped
<1>2. PICK w : w = shell.pipe
  OBVIOUS
<1>3. PICK q : q = text.kept
  OBVIOUS
<1>4. /\ w # <<>> /\ w \in Seq(PrintedLines) /\ q \in Seq(PrintedLines)
      /\ Head(w) \in PrintedLines /\ Tail(w) \in Seq(PrintedLines) /\ Len(q) \in Nat
  BY <1>1, <1>2, <1>3 DEF Pump
<1>5. shell' = [shell EXCEPT !.pipe = Tail(@)]
  BY DEF Pump
<1>6. /\ shell' \in ShellProcess /\ shell'.doing = shell.doing /\ shell'.input = shell.input
      /\ shell'.pipe = Tail(w)
  BY <1>1, <1>2, <1>4, <1>5 DEF ShellProcess
<1>7. Stream = q \o w
  BY <1>2, <1>3 DEF Stream
<1>8. CASE Len(text.kept) < Keep
  <2>1. text' = [text EXCEPT !.kept = Append(@, Head(w))]
    BY <1>2, <1>8 DEF Pump, Push
  <2>2. text'.kept = Append(q, Head(w)) /\ text'.dropped = text.dropped
    BY <1>1, <1>3, <2>1
  <2>3. Append(q, Head(w)) \in Seq(PrintedLines) /\ Len(Append(q, Head(w))) = Len(q) + 1
    BY <1>4
  <2>4. text' \in [kept : Seq(PrintedLines), dropped : Nat]
    BY <1>1, <1>3, <2>1, <2>3
  <2>5. Stream' = Append(q, Head(w)) \o Tail(w)
    BY <1>6, <2>2 DEF Stream
  <2>6. Append(q, Head(w)) \o Tail(w) = q \o w
    BY <1>4, ReadOne
  <2>7. Stream' = Stream
    BY <1>7, <2>5, <2>6, Zenon
  <2>8. Len(text'.kept) = Len(text.kept) + 1
    BY <1>3, <2>2, <2>3
  <2> QED  BY <1>2, <1>4, <1>6, <2>2, <2>4, <2>7, <2>8
<1>9. CASE ~(Len(text.kept) < Keep)
  <2>1. text' = [kept |-> Append(Tail(q), Head(w)), dropped |-> text.dropped + 1]
    BY <1>2, <1>3, <1>9 DEF Pump, Push
  <2>2. q # <<>>
    BY <1>3, <1>4, <1>9, ShellAssumption
  <2>3. /\ Tail(q) \in Seq(PrintedLines) /\ Len(Tail(q)) = Len(q) - 1
        /\ Append(Tail(q), Head(w)) \in Seq(PrintedLines)
        /\ Len(Append(Tail(q), Head(w))) = Len(q)
    BY <1>4, <2>2
  <2>4. text'.kept = Append(Tail(q), Head(w)) /\ text'.dropped = text.dropped + 1
    BY <2>1
  <2>5. text' \in [kept : Seq(PrintedLines), dropped : Nat]
    BY <1>1, <2>1, <2>3
  <2>6. Stream' = Append(Tail(q), Head(w)) \o Tail(w)
    BY <1>6, <2>4 DEF Stream
  <2>7. Append(Tail(q), Head(w)) \o Tail(w) = Tail(q) \o w
    BY <1>4, <2>3, ReadOne
  <2>8. Tail(q) \o w = Tail(q \o w) /\ q \o w # <<>>
    BY <1>4, <2>2, TailFront
  <2>9. Stream' = Tail(Stream) /\ Stream # <<>>
    BY <1>7, <2>6, <2>7, <2>8, Zenon
  <2>10. Len(text'.kept) = Len(text.kept)
    BY <1>3, <2>3, <2>4
  <2> QED  BY <1>2, <1>4, <1>6, <2>4, <2>5, <2>9, <2>10
<1> QED  BY <1>8, <1>9

LEMMA ShellPumps ==
  ASSUME ShellInv, Pump
  PROVE  ShellInv'
<1> USE DEF ShellInv
<1>1. /\ shell' \in ShellProcess /\ text' \in [kept : Seq(PrintedLines), dropped : Nat]
      /\ shell'.doing = shell.doing /\ shell'.input = shell.input /\ shell'.pipe = Tail(shell.pipe)
      /\ shell.pipe # <<>>
  BY PumpReads
<1>2. UNCHANGED <<life, run, nonces, printed, noise>>
  BY DEF Pump
<1>3. /\ shell.pipe \in Seq(PrintedLines) /\ Stream \in Seq(PrintedLines) /\ text.dropped \in Nat
      /\ Len(text.kept) \in Nat /\ MaxRuns \in Nat /\ nonces \in Nat
      /\ \A r \in Runners : run[r].n \in Nat /\ run[r].from \in Nat
      /\ \A x \in Commands : printed[x] \in Nat
  BY StreamIs
<1>4. \A i \in DOMAIN Stream' : \E j \in DOMAIN Stream : Stream'[i] = Stream[j]
  <2>1. CASE Stream' = Stream
    BY <2>1
  <2>2. CASE Stream' = Tail(Stream) /\ Stream # <<>>
    <3>1. PICK s : s = Stream
      OBVIOUS
    <3>2. PICK t : t = Tail(s)
      OBVIOUS
    <3>3. \A i \in DOMAIN t : i + 1 \in DOMAIN s /\ t[i] = s[i + 1]
      BY <1>3, <2>2, <3>1, <3>2
    <3>4. Stream' = t
      BY <2>2, <3>1, <3>2
    <3> QED  BY <3>1, <3>3, <3>4
  <2> QED  BY <2>1, <2>2, PumpReads
<1>5. ShellTyped'
  <2>1. \A i \in DOMAIN Stream' : Stream'[i].n <= nonces'
    BY <1>2, <1>4 DEF ShellTyped
  <2> QED  BY <1>1, <1>2, <2>1 DEF ShellTyped
<1>6. OneRuns'
  BY <1>2 DEF OneRuns, Active
<1>7. Quiet => Quiet'
  <2>1. PICK w : w = shell.pipe
    OBVIOUS
  <2>2. \A i \in DOMAIN Tail(w) : i + 1 \in DOMAIN w /\ Tail(w)[i] = w[i + 1]
    BY <1>1, <1>3, <2>1
  <2> QED  BY <1>1, <2>1, <2>2 DEF Quiet
<1>8. QuietInv'
  BY <1>2, <1>7 DEF QuietInv, Active
<1>9. ASSUME NEW r \in Runners, Following(r)' PROVE FollowInv(r)'
  <2>1. Following(r) /\ FollowInv(r)
    BY <1>2, <1>9 DEF Following
  <2>2. PICK c : c = run[r].n
    OBVIOUS
  <2>3. PICK f : f = run[r].from
    OBVIOUS
  <2>4. PICK d : d = text.dropped
    OBVIOUS
  <2>5. PICK p : p = printed[c]
    OBVIOUS
  <2>6. c \in Nat /\ f \in Nat /\ d \in Nat /\ p \in Nat /\ f <= d + Len(text.kept)
        /\ Follows(Stream, d, c, f, p)
    <3>1. c = nonces /\ nonces > 0 /\ nonces <= MaxRuns
      BY <2>1, <2>2 DEF OneRuns, Active, Following, ShellTyped
    <3>2. c \in Commands
      BY <1>3, <3>1 DEF Commands
    <3>3. f <= d + Len(text.kept) /\ Follows(Stream, d, c, f, p)
      BY <2>1, <2>2, <2>3, <2>4, <2>5 DEF FollowInv
    <3> QED  BY <1>3, <2>2, <2>3, <2>4, <2>5, <3>2, <3>3
  <2>7. f <= text'.dropped + Len(text'.kept) /\ Follows(Stream', text'.dropped, c, f, p)
    <3>1. CASE Stream' = Stream /\ text'.dropped = text.dropped /\ Len(text'.kept) = Len(text.kept) + 1
      <4>1. \A x, y, z \in Nat : x <= y + z => x <= y + (z + 1)
        OBVIOUS
      <4> QED  BY <1>3, <2>4, <2>6, <3>1, <4>1
    <3>2. CASE Stream' = Tail(Stream) /\ Stream # <<>> /\ text'.dropped = text.dropped + 1 /\ Len(text'.kept) = Len(text.kept)
      <4>1. \A x, y, z \in Nat : x <= y + z => x <= (y + 1) + z
        OBVIOUS
      <4>2. Follows(Tail(Stream), d + 1, c, f, p)
        BY <1>3, <2>6, <3>2, FollowsLess
      <4> QED  BY <1>3, <2>4, <2>6, <3>2, <4>1, <4>2
    <3> QED  BY <3>1, <3>2, PumpReads
  <2>8. run[r].at = "put" => p = 0 /\ \A i \in DOMAIN Stream' : ~OfCommand(Stream'[i], c)
    BY <1>4, <2>1, <2>2, <2>5 DEF FollowInv
  <2>9. Waited(c) => Waited(c)'
    BY <1>1, <1>2, <1>4 DEF Waited
  <2>10. run[r].at # "put" => Waited(c) \/ (shell.input = <<>> /\ shell.doing \in {0, c})
    BY <2>1, <2>2 DEF FollowInv
  <2>11. \A i \in DOMAIN Stream' : Stream'[i].k = "end" /\ Stream'[i].n = c => shell.doing # c
    BY <1>4, <2>1, <2>2 DEF FollowInv
  <2> QED  BY <1>1, <1>2, <2>2, <2>3, <2>5, <2>7, <2>8, <2>9, <2>10, <2>11 DEF FollowInv
<1>10. ASSUME NEW r \in Runners, run'[r].at = "done" PROVE ToldOwn(r)'
  BY <1>1, <1>2, <1>10 DEF ToldOwn
<1> QED  BY <1>5, <1>6, <1>8, <1>9, <1>10

(* The process ends, its exit is published, its owner closes it. *)
LEMMA ShellGoes ==
  ASSUME ShellInv, Publish \/ Dies \/ OwnerCloses
  PROVE  ShellInv'
<1> USE DEF ShellInv
<1>1. /\ UNCHANGED <<text, run, nonces, printed, noise>>
      /\ life' = "none" => life = "none"
      /\ shell' \in ShellProcess
      /\ shell'.doing = shell.doing /\ shell'.input = shell.input /\ shell'.pipe = shell.pipe
  <2>1. shell \in ShellProcess
    BY DEF ShellTyped
  <2>2. CASE Publish
    BY <2>1, <2>2 DEF Publish
  <2>3. CASE Dies
    BY <2>1, <2>3 DEF Dies, others, ShellProcess
  <2>4. CASE OwnerCloses
    BY <2>1, <2>4 DEF OwnerCloses
  <2> QED  BY <2>2, <2>3, <2>4
<1>2. Stream' = Stream
  BY <1>1 DEF Stream
<1>3. ShellTyped'
  BY <1>1, <1>2 DEF ShellTyped
<1>4. OneRuns' /\ QuietInv'
  BY <1>1 DEF OneRuns, QuietInv, Active, Quiet
<1>5. ASSUME NEW r \in Runners, Following(r)' PROVE FollowInv(r)'
  BY <1>1, <1>2, <1>5 DEF FollowInv, Following, Waited
<1>6. ASSUME NEW r \in Runners, run'[r].at = "done" PROVE ToldOwn(r)'
  BY <1>1, <1>6 DEF ToldOwn
<1> QED  BY <1>3, <1>4, <1>5, <1>6

(* A call goes on, or comes back, and the shell is left alone. *)
LEMMA CallMoves ==
  ASSUME ShellInv, NEW r \in Runners, NEW g \in Runs, run' = [run EXCEPT ![r] = g],
         UNCHANGED <<shell, text, nonces, printed, noise>>, life' = "none" => life = "none",
         g.n \in {0, run[r].n}, g.at # "put",
         g.at \in {"install", "loop"} =>
           run[r].at = "install" /\ g.n = run[r].n /\ g.from = run[r].from,
         g.at \in {"closing", "done"} => Active(r) /\ g.n = run[r].n,
         g.at = "closing" => life' # "none",
         g.at \in {"idle", "done"} /\ Active(r) /\ life' = "none" => Quiet,
         g.at = "done" /\ g.result.got = "ok" =>
           /\ HoldsOutput(g.result.body, g.n, printed[g.n], g.result.truncated)
           /\ shell.doing # g.n /\ \A i \in DOMAIN shell.input : shell.input[i] # g.n
  PROVE  ShellInv'
<1> USE DEF ShellInv
<1>1. /\ run'[r] = g /\ \A q \in Runners \ {r} : run'[q] = run[q]
      /\ run \in [Runners -> Runs]
  BY DEF ShellTyped
<1>2. g.at \in RunPlaces /\ g.n \in Nat /\ g.from \in Nat /\ nonces \in Nat /\ MaxRuns \in Nat
  BY StreamIs DEF Runs
<1>3. Stream' = Stream
  BY DEF Stream
<1>4. g.n <= nonces
  BY <1>2 DEF OneRuns
<1>5. ShellTyped'
  <2>1. run' \in [Runners -> Runs]
    BY <1>1
  <2> QED  BY <1>3, <2>1 DEF ShellTyped
<1>6. \A q \in Runners : Active(q)' => Active(q)
  BY <1>1 DEF Active
<1>7. \A q \in Runners : Active(q)' => run'[q].n = run[q].n
  BY <1>1 DEF Active
<1>8. OneRuns'
  <2>1. \A q \in Runners : run'[q].n <= nonces'
    BY <1>1, <1>4 DEF OneRuns
  <2>2. \A q, k \in Runners : Active(q)' /\ Active(k)' => q = k
    BY <1>6 DEF OneRuns
  <2>3. \A q \in Runners : Active(q)' => run'[q].n = nonces' /\ nonces' > 0
    BY <1>6, <1>7 DEF OneRuns
  <2>4. ASSUME NEW q \in Runners, NEW k \in Runners, Active(q)', run'[k].at = "done"
        PROVE  run'[k].n < nonces'
    <3>1. k # r
      <4>1. SUFFICES ASSUME k = r PROVE FALSE
        OBVIOUS
      <4>2. Active(r) /\ ~Active(r)'
        BY <1>1, <2>4, <4>1 DEF Active
      <4> QED  BY <1>6, <2>4, <4>2 DEF OneRuns
    <3> QED  BY <1>1, <1>6, <2>4, <3>1 DEF OneRuns
  <2>5. \A q \in Runners : run'[q].at = "closing" => life' # "none"
    BY <1>1 DEF OneRuns
  <2> QED  BY <2>1, <2>2, <2>3, <2>4, <2>5 DEF OneRuns
<1>9. Quiet' <=> Quiet
  BY DEF Quiet
<1>10. QuietInv'
  <2>1. \A q \in Runners : run'[q].at = "put" => Quiet'
    BY <1>1, <1>9 DEF QuietInv
  <2>2. ASSUME \A q \in Runners : ~Active(q)', life' = "none" PROVE Quiet'
    <3>1. CASE Active(r)
      <4>1. ~Active(r)'
        BY <2>2
      <4>2. g.at \in {"idle", "done"}
        BY <1>1, <1>2, <4>1 DEF Active, RunPlaces
      <4> QED  BY <1>9, <2>2, <3>1, <4>2
    <3>2. CASE ~Active(r)
      <4>1. \A q \in Runners : ~Active(q)
        BY <1>1, <2>2, <3>2 DEF Active
      <4> QED  BY <1>9, <2>2, <4>1 DEF QuietInv
    <3> QED  BY <3>1, <3>2
  <2> QED  BY <2>1, <2>2 DEF QuietInv
<1>11. ASSUME NEW q \in Runners, Following(q)' PROVE FollowInv(q)'
  <2>1. CASE q # r
    <3>1. Following(q) /\ FollowInv(q) /\ run'[q] = run[q]
      BY <1>1, <1>11, <2>1 DEF Following
    <3> QED  BY <1>3, <3>1 DEF FollowInv, Waited
  <2>2. CASE q = r
    <3>1. g.at \in {"install", "loop"} /\ run[r].at = "install" /\ g.n = run[r].n /\ g.from = run[r].from
      BY <1>1, <1>11, <2>2 DEF Following
    <3>2. FollowInv(r)
      BY <3>1 DEF Following
    <3> QED  BY <1>1, <1>3, <2>2, <3>1, <3>2 DEF FollowInv, Waited
  <2> QED  BY <2>1, <2>2
<1>12. ASSUME NEW q \in Runners, run'[q].at = "done" PROVE ToldOwn(q)'
  <2>1. CASE q # r
    <3>1. run'[q] = run[q] /\ ToldOwn(q)
      BY <1>1, <1>12, <2>1
    <3> QED  BY <3>1 DEF ToldOwn
  <2>2. CASE q = r
    <3>1. g.at = "done" /\ g.n = nonces /\ nonces > 0
      BY <1>1, <1>12, <2>2 DEF OneRuns
    <3>2. g.n \in Commands
      BY <1>2, <3>1 DEF ShellTyped, Commands
    <3> QED  BY <1>1, <2>2, <3>1, <3>2 DEF ToldOwn
  <2> QED  BY <2>1, <2>2
<1> QED  BY <1>5, <1>8, <1>10, <1>11, <1>12

(* The simple moves: the handle is installed, the run was cut off or      *)
(* waited for its shell to close, and the call returns.                    *)
LEMMA CallSteps ==
  ASSUME ShellInv, NEW r \in Runners,
         \/ Install(r) \/ CutOff(r) \/ WasCut(r) \/ RunReturns(r)
         \/ WriteCommand(r) /\ UNCHANGED shell
  PROVE  ShellInv'
<1>1. /\ run \in [Runners -> Runs] /\ run[r] \in Runs /\ nonces \in Nat
      /\ run[r].result \in Results /\ run[r].n \in Nat /\ run[r].from \in Nat /\ run[r].at \in RunPlaces
  BY StreamIs DEF ShellInv, ShellTyped, Runs
<1>2. UNCHANGED <<shell, text, nonces, printed, noise>>
  BY DEF Install, CutOff, WasCut, RunReturns, WriteCommand
<1>3. CASE Install(r)
  <2>1. PICK g : g = [run[r] EXCEPT !.at = "loop"]
    OBVIOUS
  <2>2. /\ run' = [run EXCEPT ![r] = g] /\ run[r].at = "install" /\ life' = life
    BY <1>1, <1>3, <2>1 DEF Install, RunnerAt
  <2>3. g \in Runs /\ g.at = "loop" /\ g.n = run[r].n /\ g.from = run[r].from
    BY <1>1, <2>1 DEF Runs, RunPlaces
  <2> QED  BY <1>2, <2>2, <2>3, CallMoves
<1>4. CASE CutOff(r)
  <2>1. PICK g : g = [run[r] EXCEPT !.at = "closing"]
    OBVIOUS
  <2>2. /\ run' = [run EXCEPT ![r] = g] /\ run[r].at = "loop" /\ life' # "none"
    BY <1>1, <1>4, <2>1 DEF CutOff, Unfinished, RunnerAt
  <2>3. g \in Runs /\ g.at = "closing" /\ g.n = run[r].n
    BY <1>1, <2>1 DEF Runs, RunPlaces
  <2>4. Active(r)
    BY <2>2 DEF Active
  <2> QED  BY <1>2, <2>2, <2>3, <2>4, CallMoves
<1>5. CASE WasCut(r)
  <2>1. PICK g : g = [run[r] EXCEPT !.at = "idle"]
    OBVIOUS
  <2>2. /\ run' = [run EXCEPT ![r] = g] /\ run[r].at = "closing" /\ life' = life
    BY <1>1, <1>5, <2>1 DEF WasCut, RunnerAt
  <2>3. g \in Runs /\ g.at = "idle" /\ g.n = run[r].n
    BY <1>1, <2>1 DEF Runs, RunPlaces
  <2>4. life' # "none"
    BY <2>2 DEF ShellInv, OneRuns
  <2> QED  BY <1>2, <2>2, <2>3, <2>4, CallMoves
<1>6. CASE RunReturns(r)
  <2>1. PICK g : g = NoRun
    OBVIOUS
  <2>2. /\ run' = [run EXCEPT ![r] = g] /\ run[r].at = "done" /\ life' = life
    BY <1>1, <1>6, <2>1 DEF RunReturns
  <2>3. g \in Runs /\ g.at = "idle" /\ g.n = 0
    BY <2>1 DEF NoRun, NoResult, Runs, RunPlaces, Results
  <2>4. ~Active(r)
    BY <2>2 DEF Active
  <2> QED  BY <1>2, <2>2, <2>3, <2>4, CallMoves
<1>7. CASE WriteCommand(r) /\ UNCHANGED shell /\ ~(open /\ shell.alive)
  <2>1. PICK g : g = [run[r] EXCEPT !.at = "idle"]
    OBVIOUS
  <2>2. /\ run' = [run EXCEPT ![r] = g] /\ run[r].at = "put" /\ life' = life
    BY <1>1, <1>7, <2>1 DEF WriteCommand, RunnerAt
  <2>3. g \in Runs /\ g.at = "idle" /\ g.n = run[r].n
    BY <1>1, <2>1 DEF Runs, RunPlaces
  <2>4. Quiet
    BY <2>2 DEF ShellInv, QuietInv
  <2> QED  BY <1>2, <2>2, <2>3, <2>4, CallMoves
<1>8. CASE WriteCommand(r) /\ UNCHANGED shell /\ open /\ shell.alive
  <2>1. shell' = [shell EXCEPT !.input = Append(@, run[r].n)]
    BY <1>8 DEF WriteCommand
  <2>2. shell.input = Append(shell.input, run[r].n) /\ shell.input \in Seq(Nat)
    <3>1. shell \in ShellProcess /\ shell.input \in Seq(Nat)
      BY StreamIs DEF ShellInv, ShellTyped
    <3> QED  BY <1>8, <2>1, <3>1 DEF ShellProcess
  <2>3. Len(shell.input) = Len(shell.input) + 1 /\ Len(shell.input) \in Nat
    <3>1. PICK q : q = shell.input
      OBVIOUS
    <3>2. q = Append(q, run[r].n) /\ q \in Seq(Nat)
      BY <2>2, <3>1
    <3>3. Len(Append(q, run[r].n)) = Len(q) + 1 /\ Len(q) \in Nat
      BY <1>1, <3>2
    <3> QED  BY <3>1, <3>2, <3>3
  <2> QED  BY <2>3
<1> QED  BY <1>3, <1>4, <1>5, <1>6, <1>7, <1>8

(* The end marker never came: what there is of the output is handed over. *)
LEMMA CallDied ==
  ASSUME ShellInv, NEW r \in Runners, Died(r)
  PROVE  ShellInv'
<1>1. PICK s : s = text.kept
  OBVIOUS
<1>2. PICK d : d = text.dropped
  OBVIOUS
<1>3. PICK f : f = run[r].from
  OBVIOUS
<1>4. PICK behind : behind = SinceOf(s, d, f)
  OBVIOUS
<1>5. PICK c : c = run[r].n
  OBVIOUS
<1>6. PICK body : body = SubSeq(behind, LastOf(behind, "start", c) + 1, Len(behind))
  OBVIOUS
<1>7. /\ s \in Seq(PrintedLines) /\ d \in Nat /\ f \in Nat /\ run[r] \in Runs
      /\ run \in [Runners -> Runs]
  BY <1>1, <1>2, <1>3, StreamIs DEF ShellInv, ShellTyped
<1>8. since(run[r].from) = behind
  BY <1>1, <1>2, <1>3, <1>4 DEF since, SinceOf
<1>9. run[r].at = "loop" /\ UNCHANGED <<shell, text, nonces, printed, noise>> /\ life' # "none"
  BY DEF Died, Unfinished
<1>10. run' = [run EXCEPT ![r].at = "done",
                          ![r].result = [got |-> "died", body |-> body, truncated |-> FALSE]]
  BY <1>5, <1>6, <1>8 DEF Died, Result
<1>11. f <= d + Len(s)
  <2>1. FollowInv(r)
    BY <1>9 DEF ShellInv, Following
  <2> QED  BY <1>1, <1>2, <1>3, <2>1 DEF FollowInv
<1>12. behind \in Seq(PrintedLines)
  <2>1. \E a \in Nat :
           /\ a = (IF f > d THEN f - d ELSE 0) /\ a <= Len(s)
           /\ SinceOf(s, d, f) \in Seq(PrintedLines) /\ Len(SinceOf(s, d, f)) = Len(s) - a
           /\ \A i \in 1 .. Len(s) - a : a + i \in DOMAIN s /\ SinceOf(s, d, f)[i] = s[a + i]
    BY <1>7, <1>11, SeenIs
  <2> QED  BY <1>4, <2>1
<1>13. body \in Seq(PrintedLines)
  <2>1. LastOf(behind, "start", c) \in 0 .. Len(behind)
    BY <1>12, LastIs
  <2>2. PICK x : x = LastOf(behind, "start", c) + 1
    OBVIOUS
  <2>3. PICK y : y = Len(behind)
    OBVIOUS
  <2>4. x \in Int /\ y \in Int /\ \A i \in x .. y : i \in DOMAIN behind /\ behind[i] \in PrintedLines
    BY <1>12, <2>1, <2>2, <2>3
  <2>5. SubSeq(behind, x, y) \in Seq(PrintedLines)
    BY <2>4, SubSeqProperties
  <2> QED  BY <1>6, <2>2, <2>3, <2>5
<1>14. PICK g : g = [run[r] EXCEPT !.at = "done",
                                   !.result = [got |-> "died", body |-> body, truncated |-> FALSE]]
  OBVIOUS
<1>15. run' = [run EXCEPT ![r] = g]
  BY <1>7, <1>10, <1>14
<1>16. g \in Runs /\ g.at = "done" /\ g.n = run[r].n /\ g.result.got = "died"
  BY <1>7, <1>13, <1>14 DEF Runs, RunPlaces, Results
<1>17. Active(r)
  BY <1>9 DEF Active
<1> QED  BY <1>9, <1>15, <1>16, <1>17, CallMoves

(* The end marker is there: the command is over, and its output is all *)
(* that was kept.                                                      *)
LEMMA CallCompletes ==
  ASSUME ShellInv, NEW r \in Runners, Completes(r)
  PROVE  ShellInv'
<1>1. PICK s : s = text.kept
  OBVIOUS
<1>2. PICK d : d = text.dropped
  OBVIOUS
<1>3. PICK f : f = run[r].from
  OBVIOUS
<1>4. PICK behind : behind = SinceOf(s, d, f)
  OBVIOUS
<1>5. PICK c : c = run[r].n
  OBVIOUS
<1>6. PICK w : w = shell.pipe
  OBVIOUS
<1>7. /\ s \in Seq(PrintedLines) /\ d \in Nat /\ f \in Nat /\ c \in Nat /\ run[r] \in Runs
      /\ w \in Seq(PrintedLines) /\ run \in [Runners -> Runs] /\ nonces \in Nat /\ MaxRuns \in Nat
  BY <1>1, <1>2, <1>3, <1>5, <1>6, StreamIs DEF ShellInv, ShellTyped
<1>8. since(run[r].from) = behind
  BY <1>1, <1>2, <1>3, <1>4 DEF since, SinceOf
<1>9. /\ run[r].at = "loop" /\ UNCHANGED <<shell, text, nonces, printed, noise, life>>
      /\ LastOf(behind, "end", c) # 0
  BY <1>5, <1>8 DEF Completes
<1>10. run' = [run EXCEPT ![r].at = "done",
                          ![r].result = [got |-> "ok", body |-> Body(behind, c), truncated |-> d > f]]
  BY <1>2, <1>3, <1>5, <1>8 DEF Completes, Result
<1>11. Active(r) /\ FollowInv(r)
  BY <1>9 DEF ShellInv, Following, Active
<1>12. c \in Commands /\ c # 0 /\ printed[c] \in Nat
  <2>1. c = nonces /\ nonces > 0 /\ nonces <= MaxRuns
    BY <1>5, <1>11 DEF ShellInv, OneRuns, ShellTyped
  <2>2. c \in Commands
    BY <1>7, <2>1 DEF Commands
  <2> QED  BY <1>7, <2>1, <2>2, StreamIs DEF ShellInv
<1>13. f <= d + Len(s) /\ Follows(s \o w, d, c, f, printed[c])
  BY <1>1, <1>2, <1>3, <1>5, <1>6, <1>11 DEF FollowInv, Stream
<1>14. \E e \in DOMAIN s : s[e].k = "end" /\ s[e].n = c
  <2>1. \E a \in Nat :
           /\ a = (IF f > d THEN f - d ELSE 0) /\ a <= Len(s)
           /\ SinceOf(s, d, f) \in Seq(PrintedLines) /\ Len(SinceOf(s, d, f)) = Len(s) - a
           /\ \A i \in 1 .. Len(s) - a : a + i \in DOMAIN s /\ SinceOf(s, d, f)[i] = s[a + i]
    BY <1>7, <1>13, SeenIs
  <2>2. PICK a \in Nat : /\ a <= Len(s) /\ behind \in Seq(PrintedLines) /\ Len(behind) = Len(s) - a
                         /\ \A i \in 1 .. Len(s) - a : a + i \in DOMAIN s /\ behind[i] = s[a + i]
    BY <1>4, <2>1
  <2>3. PICK l : l = LastOf(behind, "end", c)
    OBVIOUS
  <2>4. l \in 0 .. Len(behind) /\ l # 0 /\ behind[l].k = "end" /\ behind[l].n = c
    BY <1>9, <2>2, <2>3, LastIs
  <2>5. l \in 1 .. Len(s) - a
    BY <1>7, <2>2, <2>4
  <2> QED  BY <2>2, <2>4, <2>5
<1>15. (\A i \in DOMAIN w : w[i].k = "noise") /\ Follows(s, d, c, f, printed[c])
  BY <1>7, <1>12, <1>13, <1>14, FollowsRead
<1>16. HoldsOutput(Body(behind, c), c, printed[c], d > f)
  BY <1>4, <1>7, <1>9, <1>12, <1>13, <1>15, BodyHolds
<1>17. \E i \in DOMAIN Stream : Stream[i].k = "end" /\ Stream[i].n = c
  <2>1. PICK t : t = s \o w
    OBVIOUS
  <2>2. \A i \in DOMAIN s : i \in DOMAIN t /\ t[i] = s[i]
    BY <1>7, <2>1
  <2>3. Stream = t
    BY <1>1, <1>6, <2>1 DEF Stream
  <2> QED  BY <1>14, <2>2, <2>3
<1>18. shell.doing # c /\ ~Waited(c)
  BY <1>5, <1>11, <1>17 DEF FollowInv, Waited, OfCommand
<1>19. shell.input = <<>> /\ shell.doing = 0
  BY <1>5, <1>9, <1>11, <1>18 DEF FollowInv
<1>20. Quiet /\ \A i \in DOMAIN shell.input : shell.input[i] # c
  BY <1>6, <1>15, <1>19 DEF Quiet
<1>21. PICK g : g = [run[r] EXCEPT !.at = "done",
                      !.result = [got |-> "ok", body |-> Body(behind, c), truncated |-> d > f]]
  OBVIOUS
<1>22. run' = [run EXCEPT ![r] = g]
  BY <1>7, <1>10, <1>21
<1>23. g \in Runs /\ g.at = "done" /\ g.n = c /\ g.result.body = Body(behind, c) /\ g.result.truncated = (d > f)
  <2>1. Body(behind, c) \in Seq(PrintedLines)
    BY <1>16 DEF HoldsOutput
  <2>2. (d > f) \in BOOLEAN
    BY <1>7
  <2> QED  BY <1>5, <1>7, <1>21, <2>1, <2>2 DEF Runs, RunPlaces, Results
<1> QED  BY <1>5, <1>9, <1>11, <1>16, <1>18, <1>20, <1>22, <1>23, CallMoves

(* The command is fed to a shell that does nothing. *)
LEMMA CallWrites ==
  ASSUME ShellInv, NEW r \in Runners, WriteCommand(r), open /\ shell.alive
  PROVE  ShellInv'
<1> USE DEF ShellInv
<1>1. PICK c : c = run[r].n
  OBVIOUS
<1>2. /\ run[r] \in Runs /\ run \in [Runners -> Runs] /\ c \in Nat /\ nonces \in Nat
      /\ shell \in ShellProcess
  BY <1>1, StreamIs DEF ShellTyped
<1>3. /\ run[r].at = "put" /\ run' = [run EXCEPT ![r].at = "install"]
      /\ shell' = [shell EXCEPT !.input = Append(@, run[r].n)]
      /\ UNCHANGED <<text, life, nonces, printed, noise>>
  BY DEF WriteCommand, RunnerAt
<1>4. Quiet /\ Active(r) /\ FollowInv(r)
  BY <1>3 DEF QuietInv, Active, Following
<1>5. c = nonces /\ c > 0 /\ c \in 1 .. nonces
  BY <1>1, <1>2, <1>4 DEF OneRuns
<1>6. /\ shell'.doing = 0 /\ shell'.pipe = shell.pipe /\ shell.doing = 0
      /\ shell'.input = Append(<<>>, c)
  BY <1>1, <1>2, <1>3, <1>4 DEF Quiet, ShellProcess
<1>7. Append(<<>>, c) = <<c>> /\ <<c>> \in Seq(Nat) /\ \A i \in DOMAIN <<c>> : <<c>>[i] = c
  BY <1>2
<1>8. shell'.input = <<c>> /\ shell' \in ShellProcess
  <2>1. shell'.input = <<c>>
    BY <1>6, <1>7
  <2>2. shell' = [shell EXCEPT !.input = <<c>>]
    BY <1>1, <1>2, <1>3, <1>4, <1>7 DEF Quiet
  <2> QED  BY <1>2, <1>7, <2>1, <2>2 DEF ShellProcess
<1>9. Stream' = Stream
  BY <1>3, <1>6 DEF Stream
<1>10. /\ run'[r] = [run[r] EXCEPT !.at = "install"] /\ run'[r] \in Runs
       /\ run'[r].at = "install" /\ run'[r].n = c /\ run'[r].from = run[r].from
       /\ \A q \in Runners \ {r} : run'[q] = run[q]
       /\ run' \in [Runners -> Runs]
  BY <1>1, <1>2, <1>3 DEF Runs, RunPlaces
<1>11. \A q \in Runners : (Active(q)' <=> Active(q)) /\ run'[q].n = run[q].n
  BY <1>1, <1>4, <1>10 DEF Active
<1>12. ShellTyped'
  <2>1. \A i \in DOMAIN shell'.input : shell'.input[i] \in 1 .. nonces'
    BY <1>3, <1>5, <1>7, <1>8
  <2>2. shell'.doing <= nonces' /\ \A i \in DOMAIN Stream' : Stream'[i].n <= nonces'
    BY <1>2, <1>3, <1>6, <1>9 DEF ShellTyped
  <2> QED  BY <1>3, <1>8, <1>10, <2>1, <2>2 DEF ShellTyped
<1>13. OneRuns'
  <2>1. \A q \in Runners : run'[q].at = "closing" => life' # "none"
    BY <1>3, <1>10 DEF OneRuns
  <2>2. \A q, k \in Runners : Active(q)' /\ run'[k].at = "done" => run'[k].n < nonces'
    BY <1>3, <1>10, <1>11 DEF OneRuns
  <2> QED  BY <1>3, <1>11, <2>1, <2>2 DEF OneRuns
<1>14. QuietInv'
  <2>1. ASSUME NEW q \in Runners, run'[q].at = "put" PROVE FALSE
    <3>1. q # r /\ Active(q)'
      BY <1>10, <2>1 DEF Active
    <3> QED  BY <1>4, <1>11, <3>1 DEF OneRuns
  <2> QED  BY <1>4, <1>11, <2>1 DEF QuietInv
<1>15. ASSUME NEW q \in Runners, Following(q)' PROVE FollowInv(q)'
  <2>1. q = r
    <3>1. Active(q)'
      BY <1>15 DEF Following, Active
    <3> QED  BY <1>4, <1>11, <3>1 DEF OneRuns
  <2>2. printed[c] = 0 /\ \A i \in DOMAIN Stream : ~OfCommand(Stream[i], c)
    BY <1>1, <1>3, <1>4 DEF FollowInv
  <2>3. Waited(c)'
    BY <1>3, <1>6, <1>8, <1>9, <2>2 DEF Waited
  <2>4. /\ run[r].from <= text.dropped + Len(text.kept)
        /\ Follows(Stream, text.dropped, c, run[r].from, printed[c])
    BY <1>1, <1>4 DEF FollowInv
  <2>5. shell'.doing # c
    BY <1>5, <1>6
  <2> QED  BY <1>3, <1>9, <1>10, <2>1, <2>3, <2>4, <2>5 DEF FollowInv
<1>16. ASSUME NEW q \in Runners, run'[q].at = "done" PROVE ToldOwn(q)'
  <2>1. run'[q] = run[q] /\ ToldOwn(q) /\ run[q].n < nonces
    <3>1. run'[q] = run[q]
      BY <1>10, <1>16
    <3> QED  BY <1>4, <1>16, <3>1 DEF OneRuns
  <2>2. run[q].n # c
    BY <1>2, <1>5, <2>1
  <2> QED  BY ZenonT(40), <1>3, <1>6, <1>7, <1>8, <2>1, <2>2 DEF ToldOwn
<1> QED  BY <1>12, <1>13, <1>14, <1>15, <1>16

(* A call takes the shell: nothing of another command is still to come. *)
LEMMA CallEnters ==
  ASSUME ShellInv, NEW r \in Runners, Enter(r)
  PROVE  ShellInv'
<1> USE DEF ShellInv
<1>1. PICK c : c = nonces + 1
  OBVIOUS
<1>2. PICK f : f = Length
  OBVIOUS
<1>3. PICK d : d = text.dropped
  OBVIOUS
<1>4. /\ \A q \in Runners : run[q].at \in {"idle", "done"}
      /\ run[r].at = "idle" /\ life = "none" /\ nonces < MaxRuns /\ nonces' = c
      /\ run' = [run EXCEPT ![r] = [NoRun EXCEPT !.at = "put", !.n = c, !.from = f]]
      /\ UNCHANGED <<shell, text, life, printed, noise>>
  BY <1>1, <1>2 DEF Enter, Gone
<1>5. /\ nonces \in Nat /\ MaxRuns \in Nat /\ run \in [Runners -> Runs] /\ d \in Nat
      /\ Len(text.kept) \in Nat /\ text.kept \in Seq(PrintedLines) /\ shell.pipe \in Seq(PrintedLines)
      /\ Stream \in Seq(PrintedLines) /\ \A q \in Runners : run[q].n \in Nat
  BY <1>3, StreamIs DEF ShellTyped
<1>6. f \in Nat /\ f = d + Len(text.kept)
  BY <1>2, <1>3, <1>5 DEF Length
<1>7. c \in Nat /\ c <= MaxRuns /\ c > nonces /\ c > 0 /\ c \in Commands
  BY <1>1, <1>4, <1>5 DEF Commands
<1>8. /\ run'[r] \in Runs /\ run'[r].at = "put" /\ run'[r].n = c /\ run'[r].from = f
      /\ \A q \in Runners \ {r} : run'[q] = run[q]
      /\ run' \in [Runners -> Runs]
  <2>1. [NoRun EXCEPT !.at = "put", !.n = c, !.from = f] \in Runs
    <3>1. NoRun \in Runs
      <4>1. <<>> \in Seq(PrintedLines)
        OBVIOUS
      <4> QED  BY <4>1 DEF NoRun, NoResult, Runs, RunPlaces, Results
    <3>2. PICK z : z = NoRun
      OBVIOUS
    <3>3. [z EXCEPT !.at = "put", !.n = c, !.from = f] \in Runs
      BY <1>6, <1>7, <3>1, <3>2 DEF Runs, RunPlaces
    <3> QED  BY <3>2, <3>3
  <2>2. run'[r] = [NoRun EXCEPT !.at = "put", !.n = c, !.from = f]
    BY <1>4, <1>5
  <2> QED  BY <1>4, <1>5, <2>1, <2>2 DEF NoRun
<1>9. Quiet /\ Quiet'
  <2>1. \A q \in Runners : ~Active(q)
    BY <1>4 DEF Active
  <2> QED  BY <1>4, <2>1 DEF QuietInv, Quiet
<1>10. Stream' = Stream
  BY <1>4 DEF Stream
<1>11. \A i \in DOMAIN Stream : Stream[i].n \in Nat /\ Stream[i].n <= nonces
  <2>1. \A i \in DOMAIN Stream : Stream[i] \in PrintedLines
    BY <1>5
  <2>2. \A i \in DOMAIN Stream : Stream[i].n \in Nat
    BY <2>1 DEF PrintedLines
  <2> QED  BY <2>2 DEF ShellTyped
<1>12. printed[c] = 0
  BY <1>7 DEF ShellTyped
<1>13. \A i \in DOMAIN Stream : Stream[i].n # c
  BY <1>5, <1>7, <1>11
<1>14. ShellTyped'
  <2>1. nonces' \in 0 .. MaxRuns
    BY <1>4, <1>7
  <2>2. \A i \in DOMAIN Stream' : Stream'[i].n <= nonces'
    BY <1>4, <1>5, <1>7, <1>10, <1>11
  <2>3. shell'.doing <= nonces' /\ \A i \in DOMAIN shell'.input : shell'.input[i] \in 1 .. nonces'
    BY <1>4, <1>7, <1>9 DEF Quiet
  <2>4. \A x \in Commands : x > nonces' => printed'[x] = 0
    <3> SUFFICES ASSUME NEW x \in Commands, x > nonces' PROVE printed'[x] = 0
      OBVIOUS
    <3>1. x \in Nat
      BY <1>5 DEF Commands
    <3>2. x > nonces
      BY <1>4, <1>5, <1>7, <3>1
    <3> QED  BY <1>4, <3>2 DEF ShellTyped
  <2> QED  BY <1>4, <1>8, <2>1, <2>2, <2>3, <2>4 DEF ShellTyped
<1>15. \A q \in Runners : Active(q)' => q = r
  BY <1>4, <1>8 DEF Active
<1>16. OneRuns'
  <2>1. \A q \in Runners : run[q].n <= nonces
    BY DEF OneRuns
  <2>2. \A q \in Runners : run'[q].n <= nonces'
    BY <1>4, <1>5, <1>7, <1>8, <2>1
  <2>3. \A q \in Runners : Active(q)' => run'[q].n = nonces' /\ nonces' > 0
    BY <1>4, <1>7, <1>8, <1>15
  <2>4. ASSUME NEW k \in Runners, run'[k].at = "done" PROVE run'[k].n < nonces'
    <3>1. k # r /\ run'[k] = run[k]
      BY <1>8, <2>4
    <3> QED  BY <1>4, <1>5, <1>7, <2>1, <3>1
  <2>5. \A q \in Runners : run'[q].at # "closing"
    BY <1>4, <1>8
  <2> QED  BY <1>15, <2>2, <2>3, <2>4, <2>5 DEF OneRuns
<1>17. QuietInv'
  BY <1>9 DEF QuietInv
<1>18. Follows(Stream, d, c, f, 0)
  <2>1. ASSUME NEW i \in DOMAIN Stream
        PROVE  Stream[i].k = "noise" \/ Stream[i].n = c <=> Stream[i].k = "noise" \/ d + i > f
    <3>1. CASE i <= Len(text.kept)
      <4>1. i \in Nat
        BY <1>5
      <4>2. ~(d + i > f)
        BY <1>5, <1>6, <3>1, <4>1
      <4> QED  BY <1>13, <4>2
    <3>2. CASE i > Len(text.kept)
      <4>1. PICK s : s = text.kept
        OBVIOUS
      <4>2. PICK w : w = shell.pipe
        OBVIOUS
      <4>3. PICK t : t = s \o w
        OBVIOUS
      <4>4. Stream = t /\ s \in Seq(PrintedLines) /\ w \in Seq(PrintedLines)
        BY <1>5, <4>1, <4>2, <4>3 DEF Stream
      <4>5. /\ DOMAIN t = 1 .. Len(s) + Len(w) /\ Len(s) \in Nat /\ DOMAIN w = 1 .. Len(w) /\ Len(w) \in Nat
            /\ \A k \in Len(s) + 1 .. Len(s) + Len(w) : t[k] = w[k - Len(s)]
        BY <4>3, <4>4
      <4>6. i \in Len(s) + 1 .. Len(s) + Len(w) /\ i - Len(s) \in DOMAIN w
        BY <3>2, <4>1, <4>4, <4>5
      <4>7. w[i - Len(s)].k = "noise"
        BY <1>9, <4>2, <4>6 DEF Quiet
      <4> QED  BY <4>4, <4>5, <4>6, <4>7
    <3>3. i \in Nat
      BY <1>5
    <3> QED  BY <1>5, <3>1, <3>2, <3>3
  <2>2. \A i \in DOMAIN Stream : ~OfCommand(Stream[i], c)
    BY <1>13 DEF OfCommand
  <2>3. OutsOf(Stream, c) = {}
    BY <1>13 DEF OutsOf
  <2> QED  BY <2>1, <2>2, <2>3 DEF Follows
<1>19. ASSUME NEW q \in Runners, Following(q)' PROVE FollowInv(q)'
  <2>1. q = r
    BY <1>15, <1>19 DEF Following, Active
  <2>2. \A i \in DOMAIN Stream : ~OfCommand(Stream[i], c)
    BY <1>13 DEF OfCommand
  <2>3. f <= d + Len(text.kept)
    BY <1>5, <1>6
  <2> QED  BY <1>3, <1>4, <1>8, <1>10, <1>12, <1>13, <1>18, <2>1, <2>2, <2>3 DEF FollowInv
<1>20. ASSUME NEW q \in Runners, run'[q].at = "done" PROVE ToldOwn(q)'
  <2>1. run'[q] = run[q] /\ run[q].at = "done" /\ ToldOwn(q)
    BY <1>8, <1>20
  <2> QED  BY <1>4, <2>1 DEF ToldOwn
<1> QED  BY <1>14, <1>16, <1>17, <1>19, <1>20

LEMMA ShellStarts ==
  ASSUME ShellInit
  PROVE  ShellInv
<1>1. /\ shell = [alive |-> TRUE, doing |-> 0, input |-> <<>>, pipe |-> <<>>]
      /\ text = [kept |-> <<>>, dropped |-> 0] /\ life = "none"
      /\ run = [r \in Runners |-> NoRun] /\ nonces = 0
      /\ printed = [n \in Commands |-> 0] /\ noise = 0
  BY DEF ShellInit
<1>2. <<>> \in Seq(PrintedLines) /\ <<>> \in Seq(Nat) /\ MaxRuns \in Nat
  BY ShellAssumption
<1>3. NoRun \in Runs /\ NoRun.at = "idle" /\ NoRun.n = 0
  BY <1>2 DEF NoRun, NoResult, Runs, RunPlaces, Results
<1>4. Stream = <<>>
  <2>1. Stream = <<>> \o <<>>
    BY <1>1 DEF Stream
  <2>2. <<>> \o <<>> = <<>>
    OBVIOUS
  <2> QED  BY <2>1, <2>2
<1>5. ShellTyped
  <2>1. shell \in ShellProcess
    BY <1>1, <1>2 DEF ShellProcess
  <2>2. text \in [kept : Seq(PrintedLines), dropped : Nat]
    BY <1>1, <1>2
  <2>3. \A i \in DOMAIN shell.input : FALSE
    BY <1>1
  <2>4. \A i \in DOMAIN Stream : FALSE
    BY <1>4
  <2>5. \A x \in Commands : x > nonces => printed[x] = 0
    BY <1>1
  <2> QED  BY <1>1, <1>2, <1>3, <2>1, <2>2, <2>3, <2>4, <2>5 DEF ShellTyped
<1>6. \A r \in Runners : run[r].at = "idle" /\ run[r].n = 0
  BY <1>1, <1>3
<1>7. OneRuns /\ QuietInv
  <2>1. Quiet
    BY <1>1 DEF Quiet
  <2> QED  BY <1>1, <1>6, <2>1 DEF OneRuns, QuietInv, Active
<1> QED  BY <1>5, <1>6, <1>7 DEF ShellInv, Following

LEMMA ShellSteps ==
  ASSUME ShellInv, [ShellNext]_shellVars
  PROVE  ShellInv'
<1>1. CASE Pump
  BY <1>1, ShellPumps
<1>2. CASE Publish \/ Dies \/ OwnerCloses
  BY <1>2, ShellGoes
<1>3. CASE Begins
  BY <1>3, ShellBegins
<1>4. CASE Says
  BY <1>4, ShellSays
<1>5. CASE CommandDone
  BY <1>5, ShellEnds
<1>6. CASE LeftBehind
  BY <1>6, ShellNoise
<1>7. ASSUME NEW r \in Runners, Enter(r) PROVE ShellInv'
  BY <1>7, CallEnters
<1>8. ASSUME NEW r \in Runners, WriteCommand(r) PROVE ShellInv'
  <2>1. CASE open /\ shell.alive
    BY <1>8, <2>1, CallWrites
  <2>2. CASE ~(open /\ shell.alive)
    <3>1. UNCHANGED shell
      BY <1>8, <2>2 DEF WriteCommand
    <3> QED  BY <1>8, <3>1, CallSteps
  <2> QED  BY <2>1, <2>2
<1>9. ASSUME NEW r \in Runners, Completes(r) PROVE ShellInv'
  BY <1>9, CallCompletes
<1>10. ASSUME NEW r \in Runners, Died(r) PROVE ShellInv'
  BY <1>10, CallDied
<1>11. ASSUME NEW r \in Runners, Install(r) \/ CutOff(r) \/ WasCut(r) \/ RunReturns(r) PROVE ShellInv'
  BY <1>11, CallSteps
<1>12. CASE UNCHANGED shellVars
  BY <1>12 DEF shellVars, ShellInv, ShellTyped, OneRuns, QuietInv, Active, Quiet, Following, FollowInv,
     Waited, ToldOwn, Stream
<1> QED  BY <1>1, <1>2, <1>3, <1>4, <1>5, <1>6, <1>7, <1>8, <1>9, <1>10, <1>11, <1>12 DEF ShellNext

(* A call whose command completed is given the command's own output and    *)
(* nobody else's, in order, and all of it unless it is told that the       *)
(* transcript forgot its beginning (run_watching, Transcript::since).      *)
THEOREM GivesOwnOutput == ShellInit /\ [][ShellNext]_shellVars => []OwnOutput
<1>1. ShellInit => ShellInv
  BY ShellStarts
<1>2. ShellInv /\ [ShellNext]_shellVars => ShellInv'
  BY ShellSteps
<1>3. ShellInv => OwnOutput
  <2> SUFFICES ASSUME ShellInv, NEW r \in Runners, run[r].at = "done", run[r].result.got = "ok"
               PROVE  LET n == run[r].n body == run[r].result.body outs == OutsOf(body, n)
                      IN  /\ \A i \in DOMAIN body : body[i].k = "noise" \/ body[i].n = n
                          /\ \A i \in outs : body[i].i \in 1 .. printed[n]
                          /\ \A i, j \in outs : i < j => body[i].i < body[j].i
                          /\ \A x \in 1 .. printed[n] :
                               \/ \E i \in outs : body[i].i = x
                               \/ run[r].result.truncated /\ \A i \in outs : x < body[i].i
    BY DEF OwnOutput
  <2>1. HoldsOutput(run[r].result.body, run[r].n, printed[run[r].n], run[r].result.truncated)
    BY DEF ShellInv, ToldOwn
  <2> QED  BY <2>1 DEF HoldsOutput
<1> QED  BY <1>1, <1>2, <1>3, PTL

-----------------------------------------------------------------------------
(***************************************************************************)
(* Theorems about the schedule store, for any schedules, rules, clock and  *)
(* number of restarts and refusals: what a poll leaves due, where the      *)
(* grid arithmetic keeps a recurrence, and that no occurrence runs twice.  *)
(***************************************************************************)
-----------------------------------------------------------------------------
(* The inductive invariant. *)

Instants == Nat \cup {Never}
Decisions == {"released", "run", "held", "skipped"}
Records == [rule : Rules \cup {Never}, overlap : Overlaps, at : Instants, held : Instants,
            active : BOOLEAN]
Changes(ops) == [id : Names, op : ops, at : Nat, rule : Rules \cup {Never}, overlap : Overlaps]
Polls == [phase : {"idle", "release", "decide"}, now : Nat, running : SUBSET Names,
          found : SUBSET Names, todo : SUBSET [id : Names, sch : Records],
          fired : SUBSET [id : Names, at : Instants, decision : Decisions]]

ScheduleTypeOK == /\ now \in Nat /\ running \in SUBSET Names
                  /\ schedules \in [Names -> Records] /\ stored \in [Names -> Records]
                  /\ judged \in [Threads -> Changes({"create", "delete"}) \cup {NoChange}]
                  /\ poll \in Polls

OnGrid(rule, t) == \E k \in 0..t : t = rule.anchor + k * rule.every

(* What a record is between any two of its transitions, in the process and *)
(* in the file.                                                            *)
Sound(s) == /\ s.rule = Never => ~s.active /\ s.held = Never
            /\ s.rule # Never => s.at \in Nat
            /\ s.rule # Never /\ ~s.rule.once => OnGrid(s.rule, s.at)

(* A creation that was judged has an instant of its grid.                  *)
SoundChange(c) == c.op = "create" => /\ c.rule \in Rules
                                     /\ ~c.rule.once => OnGrid(c.rule, c.at)

(* What is held is older than what is due.                                 *)
HeldFirst(s) == s.rule # Never /\ ~s.rule.once /\ s.held # Never => s.held < s.at

(* A copy in a poll's list is of a record that has its rule still, and, of *)
(* what is due, its instant; nothing due of what the poll found is missing *)
(* from the list.                                                          *)
Copies == \A d \in poll.todo : d.sch.rule # Never /\ schedules[d.id].rule = d.sch.rule
DueCopies == poll.phase = "decide" => \A d \in poll.todo : /\ schedules[d.id].at = d.sch.at
                                                           /\ d.sch.at <= poll.now
OneCopy == poll.phase = "decide" => \A d, e \in poll.todo : d.id = e.id => d = e
NoneMissing == poll.phase = "decide" =>
  \A id \in poll.found :
    /\ Exists(id)
    /\ schedules[id].active /\ schedules[id].at <= poll.now => \E d \in poll.todo : d.id = id
PollLists == Copies /\ DueCopies /\ OneCopy /\ NoneMissing

ScheduleInv == /\ ScheduleTypeOK
               /\ \A id \in Names : Sound(schedules[id]) /\ Sound(stored[id])
               /\ \A id \in Names \ stale : HeldFirst(schedules[id])
               /\ \A c \in Threads : judged[c] # NoChange => SoundChange(judged[c])
               /\ PollLists

-----------------------------------------------------------------------------
(* The grid. *)

LEMMA Division ==
  ASSUME NEW a \in Nat, NEW b \in Nat, b > 0
  PROVE  /\ a \div b \in Nat
         /\ (a \div b) * b <= a
         /\ a < (a \div b + 1) * b
<1>1. a \div b \in Int
  BY SMT
<1>2. a = b * (a \div b) + (a % b)
  BY SMT
<1>3. a % b \in 0 .. b - 1
  BY SMT
<1> QED
  BY <1>1, <1>2, <1>3, SMT

LEMMA Multiple ==
  ASSUME NEW k \in Nat, NEW b \in Nat, b > 0
  PROVE  k <= k * b /\ k * b \in Nat
BY SMT

LEMMA RuleParts ==
  ASSUME NEW rule \in Rules
  PROVE  /\ rule.anchor \in Nat /\ rule.every \in Nat
         /\ ~rule.once => rule.every > 0
BY ScheduleAssumption

(* The next instant of a grid is on it and after t.                        *)
LEMMA NextOnGrid ==
  ASSUME NEW rule \in Rules, ~rule.once, NEW t \in Nat
  PROVE  /\ next_on_grid(rule, t) \in Nat /\ next_on_grid(rule, t) > t
         /\ OnGrid(rule, next_on_grid(rule, t))
<1> DEFINE a == rule.anchor  b == rule.every
<1>1. a \in Nat /\ b \in Nat /\ b > 0
  BY RuleParts
<1> HIDE DEF a, b
<1>2. CASE a > t
  <2>1. next_on_grid(rule, t) = a
    BY <1>2 DEF next_on_grid, a
  <2>2. a = a + 0 * b /\ 0 \in 0 .. a
    BY <1>1, SMT
  <2> QED
    BY <1>1, <1>2, <2>1, <2>2 DEF OnGrid, a, b
<1>3. CASE ~(a > t)
  <2> DEFINE q == (t - a) \div b
  <2>1. next_on_grid(rule, t) = a + (q + 1) * b
    BY <1>3 DEF next_on_grid, a, b
  <2>2. t - a \in Nat
    BY <1>1, <1>3, SMT
  <2>3. q \in Nat /\ t - a < (q + 1) * b
    BY <1>1, <2>2, Division
  <2> HIDE DEF q
  <2>4. q + 1 <= (q + 1) * b /\ (q + 1) * b \in Nat /\ q + 1 \in Nat
    BY <1>1, <2>3, Multiple
  <2>5. a + (q + 1) * b \in Nat /\ a + (q + 1) * b > t /\ q + 1 \in 0 .. a + (q + 1) * b
    <3> DEFINE m == (q + 1) * b
    <3>1. m \in Nat /\ t - a < m /\ q + 1 <= m
      BY <2>3, <2>4
    <3> HIDE DEF m
    <3>2. a + m \in Nat /\ a + m > t /\ q + 1 \in 0 .. a + m
      BY <1>1, <2>3, <3>1, SMT
    <3> QED
      BY <3>2 DEF m
  <2> QED
    BY <2>1, <2>5 DEF OnGrid, a, b
<1> QED
  BY <1>2, <1>3

LEMMA LatestOnGrid ==
  ASSUME NEW rule \in Rules, ~rule.once, NEW t \in Nat, ~(rule.anchor > t)
  PROVE  latest_on_grid(rule, t) \in Nat /\ latest_on_grid(rule, t) <= t
<1> DEFINE a == rule.anchor  b == rule.every  q == (t - a) \div b
<1>1. a \in Nat /\ b \in Nat /\ b > 0
  BY RuleParts
<1>2. t - a \in Nat
  BY <1>1, SMT
<1>3. q \in Nat /\ q * b <= t - a
  BY <1>1, <1>2, Division
<1>4. q * b \in Nat
  BY <1>1, <1>3, Multiple
<1>5. latest_on_grid(rule, t) = a + q * b
  BY DEF latest_on_grid
<1> HIDE DEF a, b, q
<1> QED
  BY <1>1, <1>3, <1>4, <1>5, SMT

(* An instant of a grid is not before its anchor.                          *)
LEMMA NotBeforeAnchor ==
  ASSUME NEW rule \in Rules, ~rule.once, NEW t \in Nat, OnGrid(rule, t)
  PROVE  rule.anchor <= t
<1> DEFINE a == rule.anchor  b == rule.every
<1>1. a \in Nat /\ b \in Nat /\ b > 0
  BY RuleParts
<1>2. PICK k \in 0 .. t : t = a + k * b
  BY DEF OnGrid
<1>3. k * b \in Nat
  BY <1>1, <1>2, Multiple
<1> HIDE DEF a, b
<1>4. a <= t
  BY <1>1, <1>2, <1>3, SMT
<1> QED
  BY <1>4 DEF a

LEMMA Monotone ==
  ASSUME NEW k \in Nat, NEW m \in Nat, NEW b \in Nat, b > 0, k * b < (m + 1) * b
  PROVE  k * b <= m * b
<1>1. k <= m
  <2>1. SUFFICES ASSUME k >= m + 1 PROVE FALSE
    OBVIOUS
  <2>2. PICK j \in Nat : k = m + 1 + j
    <3>1. k - (m + 1) \in Nat /\ k = m + 1 + (k - (m + 1))
      BY <2>1
    <3> QED
      BY <3>1
  <2>3. k * b = (m + 1) * b + j * b
    BY <2>2, SMT
  <2>4. j * b \in Nat /\ (m + 1) * b \in Nat
    BY <2>2, SMT
  <2> QED
    BY <2>3, <2>4
<1>2. PICK j \in Nat : m = k + j
  <2>1. m - k \in Nat /\ m = k + (m - k)
    BY <1>1
  <2> QED
    BY <2>1
<1>3. m * b = k * b + j * b /\ j * b \in Nat /\ k * b \in Nat
  BY <1>2, SMT
<1> QED
  BY <1>3

(* The latest instant of a grid is not before any other that has passed.   *)
LEMMA LatestIsLast ==
  ASSUME NEW rule \in Rules, ~rule.once, NEW t \in Nat, NEW u \in Nat,
         OnGrid(rule, u), u <= t
  PROVE  u <= latest_on_grid(rule, t)
<1> DEFINE a == rule.anchor  b == rule.every  q == (t - a) \div b
<1>1. a \in Nat /\ b \in Nat /\ b > 0
  BY RuleParts
<1>2. PICK k \in 0 .. u : u = a + k * b
  BY DEF OnGrid
<1>3. k * b \in Nat
  BY <1>1, <1>2, Multiple
<1>4. t - a \in Nat
  <2> HIDE DEF a, b
  <2> QED
    BY <1>1, <1>2, <1>3
<1>5. q \in Nat /\ t - a < (q + 1) * b
  BY <1>1, <1>4, Division
<1>6. latest_on_grid(rule, t) = a + q * b
  BY DEF latest_on_grid
<1> HIDE DEF a, b, q
<1>7. (q + 1) * b \in Nat /\ q * b \in Nat
  BY <1>1, <1>5, Multiple
<1>8. k * b < (q + 1) * b
  BY <1>1, <1>2, <1>3, <1>4, <1>5, <1>7
<1>9. k * b <= q * b
  BY <1>1, <1>2, <1>5, <1>8, Monotone
<1> QED
  BY <1>1, <1>2, <1>3, <1>6, <1>7, <1>9

-----------------------------------------------------------------------------
(* One record. *)

LEMMA Fields ==
  ASSUME NEW s \in Records
  PROVE  /\ s.rule \in Rules \cup {Never} /\ s.overlap \in Overlaps
         /\ s.at \in Instants /\ s.held \in Instants /\ s.active \in BOOLEAN
BY DEF Records

LEMMA OccurrenceKind ==
  ASSUME NEW s \in Records, s.rule # Never, NEW t \in Nat
  PROVE  occurrence_of(s, t) \in Instants
<1>1. s.rule \in Rules /\ s.at \in Instants
  BY Fields
<1>2. CASE s.rule.once
  BY <1>1, <1>2, RuleParts DEF occurrence_of, Instants
<1>3. CASE ~s.rule.once /\ s.rule.anchor > t
  BY <1>1, <1>3 DEF occurrence_of
<1>4. CASE ~s.rule.once /\ ~(s.rule.anchor > t)
  BY <1>1, <1>4, LatestOnGrid DEF occurrence_of, Instants
<1> QED
  BY <1>2, <1>3, <1>4

(* What a decision makes of a record: it is sound, and keeps its rule.     *)
LEMMA Dispatching ==
  ASSUME NEW s \in Records, Sound(s), s.rule # Never, NEW t \in Nat, NEW decision
  PROVE  /\ Dispatched(s, t, decision) \in Records
         /\ Sound(Dispatched(s, t, decision))
         /\ Dispatched(s, t, decision).rule = s.rule
         /\ Dispatched(s, t, decision).overlap = s.overlap
<1> DEFINE n == Dispatched(s, t, decision)
<1>1. /\ s.rule \in Rules /\ s.at \in Nat /\ s.held \in Instants /\ s.overlap \in Overlaps
      /\ s.active \in BOOLEAN
      /\ ~s.rule.once => OnGrid(s.rule, s.at)
  BY Fields DEF Sound
<1>2. CASE decision = "released"
  <2>1. n = [s EXCEPT !.held = Never]
    BY <1>2 DEF Dispatched
  <2>2. /\ n.rule = s.rule /\ n.at = s.at /\ n.held = Never /\ n.active = s.active
        /\ n.overlap = s.overlap
    BY <2>1 DEF Records
  <2>3. n \in Records
    BY <2>1 DEF Records, Instants
  <2> HIDE DEF n
  <2>4. Sound(n)
    BY <2>2 DEF Sound
  <2> QED
    BY <2>2, <2>3, <2>4 DEF n
<1>3. CASE decision # "released"
  <2> DEFINE A == IF s.rule.once THEN s.at ELSE next_on_grid(s.rule, t)
             H == IF decision = "held" THEN occurrence_of(s, t) ELSE s.held
             B == s.active /\ ~s.rule.once
  <2>1. n = [s EXCEPT !.held = H, !.active = B, !.at = A]
    BY <1>3 DEF Dispatched
  <2>2. A \in Nat
    BY <1>1, NextOnGrid
  <2>3. H \in Instants
    BY <1>1, OccurrenceKind
  <2>4. B \in BOOLEAN
    OBVIOUS
  <2>5. n.rule = s.rule /\ n.overlap = s.overlap /\ n.held = H /\ n.at = A
    BY <2>1 DEF Records
  <2>6. ~s.rule.once => OnGrid(s.rule, A)
    BY <1>1, NextOnGrid
  <2>7. n \in Records
    <3>1. n = [rule |-> s.rule, overlap |-> s.overlap, at |-> A, held |-> H, active |-> B]
      BY <2>1 DEF Records
    <3> HIDE DEF n, A, H, B
    <3> QED
      BY <1>1, <2>2, <2>3, <2>4, <3>1 DEF Records, Instants
  <2>8. Sound(n)
    <3> HIDE DEF n, A, H, B
    <3> QED
      BY <1>1, <2>2, <2>5, <2>6 DEF Sound
  <2> QED
    BY <2>5, <2>7, <2>8
<1> QED
  BY <1>2, <1>3

(* What one makes of a record that is due: it is not due again at that     *)
(* instant, and what it holds is still older than what is due.             *)
LEMMA Advancing ==
  ASSUME NEW s \in Records, Sound(s), s.rule # Never, NEW t \in Nat, s.at <= t,
         NEW decision, decision # "released"
  PROVE  /\ Dispatched(s, t, decision).active => Dispatched(s, t, decision).at > t
         /\ HeldFirst(s) => HeldFirst(Dispatched(s, t, decision))
<1> DEFINE A == IF s.rule.once THEN s.at ELSE next_on_grid(s.rule, t)
           H == IF decision = "held" THEN occurrence_of(s, t) ELSE s.held
           B == s.active /\ ~s.rule.once
           n == Dispatched(s, t, decision)
<1>1. n = [s EXCEPT !.held = H, !.active = B, !.at = A]
  BY DEF Dispatched
<1>2. /\ s.rule \in Rules /\ s.at \in Nat /\ s.held \in Instants
      /\ ~s.rule.once => OnGrid(s.rule, s.at)
  BY Fields DEF Sound
<1>3. n.rule = s.rule /\ n.held = H /\ n.at = A /\ n.active = B
  BY <1>1 DEF Records
<1>4. ~s.rule.once => A \in Nat /\ A > t
  BY <1>2, NextOnGrid
<1>5. B => ~s.rule.once
  OBVIOUS
<1>6. HeldFirst(s) /\ ~s.rule.once /\ H # Never => H < A
  <2> SUFFICES ASSUME HeldFirst(s), ~s.rule.once, H # Never PROVE H < A
    OBVIOUS
  <2>1. s.rule.anchor <= s.at /\ s.rule.anchor \in Nat
    BY <1>2, NotBeforeAnchor, RuleParts
  <2>2. ~(s.rule.anchor > t)
    BY <1>2, <2>1
  <2>3. CASE decision = "held"
    BY <1>2, <1>4, <2>2, <2>3, LatestOnGrid DEF occurrence_of
  <2>4. CASE decision # "held"
    BY <1>2, <1>4, <2>4 DEF Instants, HeldFirst
  <2> QED
    BY <2>3, <2>4
<1> HIDE DEF n, A, H, B
<1>7. HeldFirst(s) => HeldFirst(n)
  BY <1>3, <1>6 DEF HeldFirst
<1> QED
  BY <1>3, <1>4, <1>5, <1>7 DEF n

LEMMA Releasing ==
  ASSUME NEW s \in Records, NEW t
  PROVE  LET n == Dispatched(s, t, "released")
         IN  n.held = Never /\ n.at = s.at /\ n.active = s.active /\ HeldFirst(n)
BY DEF Dispatched, Records, HeldFirst

(* What a line makes of the record it is about, whatever came before it.   *)
LEMMA Folding ==
  ASSUME NEW s \in Records, Sound(s),
         NEW c \in Changes({"create", "delete"} \cup Decisions), SoundChange(c)
  PROVE  /\ Folded(s, c) \in Records /\ Sound(Folded(s, c))
         /\ s.rule # Never => Folded(s, c).rule = s.rule
         /\ s.rule # Never /\ c.op = "create" => Folded(s, c) = s
         /\ s.rule # Never /\ c.op = "delete" =>
              Folded(s, c) = [s EXCEPT !.active = FALSE, !.held = Never]
         /\ s.rule # Never /\ c.op \in Decisions => Folded(s, c) = Dispatched(s, c.at, c.op)
<1>1. /\ c.op \in {"create", "delete"} \cup Decisions /\ c.at \in Nat
      /\ c.overlap \in Overlaps
      /\ c.op = "create" => c.rule \in Rules
  BY DEF Changes, SoundChange
<1>2. CASE c.op = "create" /\ s.rule = Never
  <2> DEFINE new == [rule |-> c.rule, overlap |-> c.overlap, at |-> c.at, held |-> Never,
                     active |-> TRUE]
  <2>1. Folded(s, c) = new
    BY <1>2 DEF Folded
  <2>2. new \in Records
    BY <1>1, <1>2 DEF Records, Instants
  <2>3. Sound(new)
    BY <1>1, <1>2, ScheduleAssumption DEF Sound, SoundChange
  <2> QED
    BY <1>2, <2>1, <2>2, <2>3
<1>3. CASE c.op = "create" /\ s.rule # Never
  <2>1. Folded(s, c) = s
    BY <1>3 DEF Folded
  <2> QED
    BY <1>3, <2>1 DEF Decisions
<1>4. CASE c.op # "create" /\ s.rule = Never
  <2>1. Folded(s, c) = s
    BY <1>4 DEF Folded
  <2> QED
    BY <1>4, <2>1
<1>5. CASE c.op = "delete" /\ s.rule # Never
  <2> DEFINE new == [s EXCEPT !.active = FALSE, !.held = Never]
  <2>1. Folded(s, c) = new
    BY <1>5 DEF Folded
  <2>2. new \in Records
    BY DEF Records, Instants
  <2>3. new.rule = s.rule /\ new.at = s.at /\ new.held = Never /\ new.active = FALSE
    BY DEF Records
  <2> HIDE DEF new
  <2>4. Sound(new)
    BY <1>5, <2>3 DEF Sound
  <2> QED
    BY <1>5, <2>1, <2>2, <2>3, <2>4 DEF Decisions, new
<1>6. CASE c.op \in Decisions /\ s.rule # Never
  <2>1. Folded(s, c) = Dispatched(s, c.at, c.op)
    BY <1>6 DEF Folded, Decisions
  <2> QED
    BY <1>1, <1>6, <2>1, Dispatching DEF Decisions
<1> QED
  BY <1>1, <1>2, <1>3, <1>4, <1>5, <1>6

(* The same of a file or a store the line is folded into.                  *)
LEMMA FoldSound ==
  ASSUME NEW F \in [Names -> Records], \A id \in Names : Sound(F[id]),
         NEW c \in Changes({"create", "delete"} \cup Decisions), SoundChange(c)
  PROVE  /\ WithChange(F, c) \in [Names -> Records] /\ c.id \in Names
         /\ \A id \in Names : Sound(WithChange(F, c)[id])
         /\ \A id \in Names : F[id].rule # Never => WithChange(F, c)[id].rule = F[id].rule
         /\ WithChange(F, c)[c.id] = Folded(F[c.id], c)
         /\ \A id \in Names \ {c.id} : WithChange(F, c)[id] = F[id]
<1> DEFINE new == Folded(F[c.id], c)
<1>1. c.id \in Names
  BY DEF Changes
<1>2. /\ new \in Records /\ Sound(new)
      /\ F[c.id].rule # Never => new.rule = F[c.id].rule
  BY <1>1, Folding
<1>3. WithChange(F, c) = [F EXCEPT ![c.id] = new]
  BY DEF WithChange
<1> HIDE DEF new
<1>4. /\ WithChange(F, c) \in [Names -> Records] /\ WithChange(F, c)[c.id] = new
      /\ \A id \in Names \ {c.id} : WithChange(F, c)[id] = F[id]
  BY <1>1, <1>2, <1>3
<1> QED
  BY <1>1, <1>2, <1>4 DEF new

(* What a record that is due is due for: its own instant or a later one.   *)
LEMMA OccurrenceDue ==
  ASSUME NEW s \in Records, Sound(s), s.rule # Never, NEW t \in Nat, s.at <= t
  PROVE  /\ occurrence_of(s, t) \in Nat
         /\ ~s.rule.once => s.at <= occurrence_of(s, t) /\ occurrence_of(s, t) <= t
<1>1. /\ s.rule \in Rules /\ s.at \in Nat
      /\ ~s.rule.once => OnGrid(s.rule, s.at)
  BY Fields DEF Sound
<1>2. CASE s.rule.once
  BY <1>1, <1>2, RuleParts DEF occurrence_of
<1>3. CASE ~s.rule.once
  <2>1. s.rule.anchor <= s.at /\ s.rule.anchor \in Nat
    BY <1>1, <1>3, NotBeforeAnchor, RuleParts
  <2>2. ~(s.rule.anchor > t)
    BY <1>1, <2>1
  <2>3. occurrence_of(s, t) = latest_on_grid(s.rule, t)
    BY <1>3, <2>2 DEF occurrence_of
  <2> QED
    BY <1>1, <1>3, <2>2, <2>3, LatestOnGrid, LatestIsLast
<1> QED
  BY <1>2, <1>3

-----------------------------------------------------------------------------
(* The invariant is inductive. *)

LEMMA InitInv == ScheduleInit => ScheduleInv
<1> SUFFICES ASSUME ScheduleInit PROVE ScheduleInv
  OBVIOUS
<1> USE DEF ScheduleInit, NoPoll
<1>1. NoSchedule \in Records
  BY DEF NoSchedule, Records, Instants, Overlaps
<1>2. ScheduleTypeOK
  BY <1>1 DEF ScheduleTypeOK, Polls
<1>3. Sound(NoSchedule) /\ HeldFirst(NoSchedule)
  BY DEF Sound, HeldFirst, NoSchedule
<1>4. PollLists
  BY DEF PollLists, Copies, DueCopies, OneCopy, NoneMissing
<1> QED
  BY <1>2, <1>3, <1>4 DEF ScheduleInv

(* A step that leaves the schedules and the poll, or that ends the poll.   *)
LEMMA Resting ==
  ASSUME ScheduleInv, UNCHANGED entries, poll' = poll \/ poll' = NoPoll,
         judged' = judged, now' \in Nat, running' \in SUBSET Names
  PROVE  ScheduleInv'
<1>1. ScheduleTypeOK'
  BY DEF ScheduleInv, ScheduleTypeOK, entries, Polls, NoPoll
<1>2. PollLists'
  <2>1. CASE poll' = NoPoll
    BY <2>1 DEF PollLists, Copies, DueCopies, OneCopy, NoneMissing, NoPoll
  <2>2. CASE poll' = poll
    BY <2>2 DEF ScheduleInv, PollLists, Copies, DueCopies, OneCopy, NoneMissing, Exists, entries
  <2> QED
    BY <2>1, <2>2
<1> QED
  BY <1>1, <1>2 DEF ScheduleInv, entries, Sound, HeldFirst

(* A restart takes what the file says.                                     *)
LEMMA Restarting ==
  ASSUME ScheduleInv, Restart
  PROVE  ScheduleInv'
<1> USE DEF Restart
<1>1. ScheduleTypeOK'
  BY DEF ScheduleInv, ScheduleTypeOK, Polls, NoPoll
<1>2. PollLists'
  BY DEF PollLists, Copies, DueCopies, OneCopy, NoneMissing, NoPoll
<1>3. ASSUME NEW id \in Names \ stale' PROVE HeldFirst(schedules'[id])
  <2>1. id \notin stale /\ schedules'[id] = schedules[id]
    BY <1>3
  <2> QED
    BY <2>1 DEF ScheduleInv
<1>4. \A id \in Names : Sound(schedules[id])' /\ Sound(stored[id])'
  BY DEF ScheduleInv
<1>5. \A c \in Threads : judged'[c] = NoChange
  OBVIOUS
<1> QED
  BY <1>1, <1>2, <1>3, <1>4, <1>5 DEF ScheduleInv

-----------------------------------------------------------------------------
(* Callers. *)

(* A creation that is judged has a rule, and an instant of its grid.       *)
LEMMA Creating ==
  ASSUME ScheduleInv, NEW c \in Threads, NEW id \in Names, NEW rule \in Rules,
         NEW overlap \in Overlaps, Create(c, id, rule, overlap)
  PROVE  ScheduleInv'
<1> DEFINE at == IF rule.once THEN rule.anchor ELSE next_on_grid(rule, now)
           new == [id |-> id, op |-> "create", rule |-> rule, overlap |-> overlap, at |-> at]
<1>1. now \in Nat
  BY DEF ScheduleInv, ScheduleTypeOK
<1>2. at \in Nat /\ (~rule.once => OnGrid(rule, at))
  BY <1>1, RuleParts, NextOnGrid
<1>3. judged' = [judged EXCEPT ![c] = new] /\ UNCHANGED <<now, entries, poll, running>>
  BY DEF Create
<1> HIDE DEF at
<1>4. new \in Changes({"create", "delete"}) /\ SoundChange(new)
  BY <1>2 DEF Changes, SoundChange
<1> HIDE DEF new
<1>5. ScheduleTypeOK'
  BY <1>3, <1>4 DEF ScheduleInv, ScheduleTypeOK, entries
<1>6. \A b \in Threads : judged'[b] # NoChange => SoundChange(judged'[b])
  BY <1>3, <1>4 DEF ScheduleInv, ScheduleTypeOK
<1>7. PollLists'
  BY <1>3 DEF ScheduleInv, PollLists, Copies, DueCopies, OneCopy, NoneMissing, Exists, entries
<1> QED
  BY <1>3, <1>5, <1>6, <1>7 DEF ScheduleInv, entries

LEMMA Deleting ==
  ASSUME ScheduleInv, NEW c \in Threads, NEW id \in Names, Delete(c, id)
  PROVE  ScheduleInv'
<1> DEFINE new == Change(id, "delete", 0)
<1>1. judged' = [judged EXCEPT ![c] = new] /\ UNCHANGED <<now, entries, poll, running>>
  BY DEF Delete
<1>2. new \in Changes({"create", "delete"}) /\ SoundChange(new)
  BY DEF Changes, SoundChange, Change, Overlaps
<1> HIDE DEF new
<1>3. ScheduleTypeOK'
  BY <1>1, <1>2 DEF ScheduleInv, ScheduleTypeOK, entries
<1>4. \A b \in Threads : judged'[b] # NoChange => SoundChange(judged'[b])
  BY <1>1, <1>2 DEF ScheduleInv, ScheduleTypeOK
<1>5. PollLists'
  BY <1>1 DEF ScheduleInv, PollLists, Copies, DueCopies, OneCopy, NoneMissing, Exists, entries
<1> QED
  BY <1>1, <1>3, <1>4, <1>5 DEF ScheduleInv, entries

(* What an append leaves of the process and the file, or a refused one.    *)
LEMMA Appending ==
  ASSUME ScheduleInv, NEW c \in Changes({"create", "delete"} \cup Decisions), SoundChange(c),
         Appended(c) \/ Unwritable(c)
  PROVE  /\ schedules' \in [Names -> Records] /\ stored' \in [Names -> Records]
         /\ \A id \in Names : Sound(schedules'[id]) /\ Sound(stored'[id])
         /\ \A id \in Names : schedules[id].rule # Never => schedules'[id].rule = schedules[id].rule
         /\ c.id \in Names /\ schedules'[c.id] \in {schedules[c.id], Folded(schedules[c.id], c)}
         /\ \A id \in Names \ {c.id} : schedules'[id] = schedules[id]
         /\ stale' = stale
<1>1. /\ schedules \in [Names -> Records] /\ stored \in [Names -> Records]
      /\ \A id \in Names : Sound(schedules[id]) /\ Sound(stored[id])
  BY DEF ScheduleInv, ScheduleTypeOK
<1>2. /\ schedules' \in {schedules, WithChange(schedules, c)} /\ stored' \in {stored, WithChange(stored, c)}
      /\ stale' = stale
  BY DEF Appended, Unwritable
<1>3. /\ WithChange(stored, c) \in [Names -> Records]
      /\ \A id \in Names : Sound(WithChange(stored, c)[id])
  BY <1>1, FoldSound
<1>4. /\ WithChange(schedules, c) \in [Names -> Records] /\ c.id \in Names
      /\ \A id \in Names : Sound(WithChange(schedules, c)[id])
      /\ \A id \in Names : schedules[id].rule # Never =>
                             WithChange(schedules, c)[id].rule = schedules[id].rule
      /\ WithChange(schedules, c)[c.id] = Folded(schedules[c.id], c)
      /\ \A id \in Names \ {c.id} : WithChange(schedules, c)[id] = schedules[id]
  BY <1>1, FoldSound
<1> QED
  BY <1>1, <1>2, <1>3, <1>4

(* What a caller's change makes of the record: one that was there keeps    *)
(* its rule and its instant, and is no more active than it was.            *)
LEMMA Judging ==
  ASSUME ScheduleInv, NEW c \in Threads, Settle(c)
  PROVE  /\ judged[c].id \in Names
         /\ \A id \in Names :
              LET s == schedules[id] n == schedules'[id]
              IN  /\ s.rule # Never =>
                       /\ n.rule = s.rule /\ n.at = s.at /\ n.overlap = s.overlap
                       /\ n.active => s.active
                       /\ n.held = s.held \/ n.held = Never
                       /\ n = s \/ (~n.active /\ n.held = Never)
                  /\ s.rule = Never => n = s \/ (n.rule \in Rules /\ n.active /\ n.held = Never)
<1>1. /\ judged[c] \in Changes({"create", "delete"}) /\ SoundChange(judged[c])
      /\ schedules \in [Names -> Records] /\ \A id \in Names : Sound(schedules[id])
  BY DEF Settle, ScheduleInv, ScheduleTypeOK
<1> DEFINE ch == judged[c]  s == schedules[ch.id]  n == schedules'[ch.id]
<1>2. ch \in Changes({"create", "delete"} \cup Decisions) /\ ch.op \in {"create", "delete"}
  BY <1>1 DEF Changes
<1>3. /\ ch.id \in Names /\ n \in {s, Folded(s, ch)}
      /\ \A id \in Names \ {ch.id} : schedules'[id] = schedules[id]
  BY <1>1, <1>2, Appending DEF Settle
<1>4. s \in Records /\ Sound(s)
  BY <1>1, <1>3
<1>5. s.rule # Never =>
        n = s \/ n = [s EXCEPT !.active = FALSE, !.held = Never]
  BY <1>1, <1>2, <1>3, <1>4, Folding
<1>6. s.rule = Never => n = s \/ (n.rule \in Rules /\ n.active /\ n.held = Never)
  <2> SUFFICES ASSUME s.rule = Never, n # s
               PROVE  n.rule \in Rules /\ n.active /\ n.held = Never
    OBVIOUS
  <2>1. n = Folded(s, ch)
    BY <1>3
  <2>2. ch.op = "create"
    BY <1>2, <2>1 DEF Folded
  <2>3. n = [rule |-> ch.rule, overlap |-> ch.overlap, at |-> ch.at, held |-> Never,
             active |-> TRUE]
    BY <2>1, <2>2 DEF Folded
  <2>4. ch.rule \in Rules
    BY <1>1, <2>2 DEF SoundChange
  <2> HIDE DEF ch
  <2> QED
    BY <2>3, <2>4
<1> HIDE DEF s
<1>7. s.rule # Never =>
        /\ n.rule = s.rule /\ n.at = s.at /\ n.overlap = s.overlap
        /\ n.active => s.active
        /\ n.held = s.held \/ n.held = Never
        /\ n = s \/ (~n.active /\ n.held = Never)
  <2> DEFINE e == [s EXCEPT !.active = FALSE, !.held = Never]
  <2>1. /\ e.rule = s.rule /\ e.at = s.at /\ e.overlap = s.overlap
        /\ e.active = FALSE /\ e.held = Never
    BY <1>4 DEF Records
  <2> HIDE DEF e
  <2> QED
    BY <1>5, <2>1 DEF e
<1> QED
  <2> SUFFICES ASSUME NEW id \in Names
               PROVE  LET t == schedules[id] u == schedules'[id]
                      IN  /\ t.rule # Never =>
                               /\ u.rule = t.rule /\ u.at = t.at /\ u.overlap = t.overlap
                               /\ u.active => t.active
                               /\ u.held = t.held \/ u.held = Never
                               /\ u = t \/ (~u.active /\ u.held = Never)
                          /\ t.rule = Never => u = t \/ (u.rule \in Rules /\ u.active /\ u.held = Never)
    BY <1>3
  <2>1. CASE id = ch.id
    BY <1>6, <1>7, <2>1 DEF s
  <2>2. CASE id # ch.id
    BY <1>3, <2>2
  <2> QED
    BY <2>1, <2>2

LEMMA Settling ==
  ASSUME ScheduleInv, NEW c \in Threads, Settle(c)
  PROVE  ScheduleInv'
<1>1. /\ judged[c] \in Changes({"create", "delete"}) /\ SoundChange(judged[c])
      /\ poll \in Polls
  BY DEF Settle, ScheduleInv, ScheduleTypeOK
<1>2. judged[c] \in Changes({"create", "delete"} \cup Decisions)
  BY <1>1 DEF Changes
<1>3. /\ schedules' \in [Names -> Records] /\ stored' \in [Names -> Records]
      /\ \A id \in Names : Sound(schedules'[id]) /\ Sound(stored'[id])
      /\ stale' = stale
  BY <1>1, <1>2, Appending DEF Settle
<1>4. judged' = [judged EXCEPT ![c] = NoChange] /\ UNCHANGED <<now, poll, running>>
  BY DEF Settle
<1>5. ScheduleTypeOK'
  BY <1>3, <1>4 DEF ScheduleInv, ScheduleTypeOK
<1>6. \A b \in Threads : judged'[b] # NoChange => SoundChange(judged'[b])
  BY <1>4 DEF ScheduleInv, ScheduleTypeOK
<1>7. ASSUME NEW id \in Names \ stale PROVE HeldFirst(schedules'[id])
  BY Judging DEF ScheduleInv, HeldFirst
<1>8. poll.found \in SUBSET Names /\ \A d \in poll.todo : d.id \in Names
  BY <1>1 DEF Polls
<1>9. \A id \in Names : schedules[id].rule # Never =>
        /\ schedules'[id].rule = schedules[id].rule /\ schedules'[id].at = schedules[id].at
        /\ schedules'[id].active => schedules[id].active
  BY Judging
<1>10. Copies' /\ DueCopies' /\ OneCopy'
  BY <1>4, <1>8, <1>9 DEF ScheduleInv, PollLists, Copies, DueCopies, OneCopy
<1>11. NoneMissing'
  BY <1>4, <1>8, <1>9 DEF ScheduleInv, PollLists, NoneMissing, Exists
<1> QED
  BY <1>3, <1>4, <1>5, <1>6, <1>7, <1>10, <1>11 DEF ScheduleInv, PollLists

-----------------------------------------------------------------------------
(* The steps of a poll. *)

LEMMA Polling ==
  ASSUME ScheduleInv, Poll
  PROVE  ScheduleInv'
<1> DEFINE list == {[id |-> id, sch |-> schedules[id]] :
                      id \in {n \in Names \ running : schedules[n].held # Never}}
<1>1. /\ now \in Nat /\ schedules \in [Names -> Records] /\ running \in SUBSET Names
      /\ \A id \in Names : Sound(schedules[id])
  BY DEF ScheduleInv, ScheduleTypeOK
<1>2. /\ poll' = [phase |-> "release", now |-> now, running |-> running, found |-> {},
                  todo |-> list, fired |-> {}]
      /\ UNCHANGED <<now, entries, judged, running>>
  BY DEF Poll, NoPoll
<1>3. list \in SUBSET [id : Names, sch : Records]
  BY <1>1
<1>4. \A d \in list : /\ d.sch = schedules[d.id] /\ d.id \in Names
                      /\ d.sch.held # Never
  OBVIOUS
<1> HIDE DEF list
<1>5. ScheduleTypeOK'
  BY <1>1, <1>2, <1>3 DEF ScheduleInv, ScheduleTypeOK, Polls, entries
<1>6. Copies'
  BY <1>1, <1>2, <1>4 DEF Copies, Sound, entries
<1>7. DueCopies' /\ OneCopy' /\ NoneMissing'
  BY <1>2 DEF DueCopies, OneCopy, NoneMissing
<1> QED
  BY <1>2, <1>5, <1>6, <1>7 DEF ScheduleInv, PollLists, entries

LEMMA Listing ==
  ASSUME ScheduleInv, Due
  PROVE  ScheduleInv'
<1> DEFINE list == {[id |-> id, sch |-> schedules[id]] :
                      id \in {n \in Names : /\ schedules[n].active
                                            /\ schedules[n].at <= poll.now}}
           there == {n \in Names : Exists(n)}
<1>1. /\ schedules \in [Names -> Records] /\ poll \in Polls
      /\ \A id \in Names : Sound(schedules[id])
  BY DEF ScheduleInv, ScheduleTypeOK
<1>2. /\ poll' = [poll EXCEPT !.phase = "decide", !.found = there, !.todo = list]
      /\ UNCHANGED <<now, entries, judged, running>>
  BY DEF Due
<1>3. list \in SUBSET [id : Names, sch : Records] /\ there \in SUBSET Names
  BY <1>1
<1>4. \A d \in list : /\ d.sch = schedules[d.id] /\ d.id \in Names
                      /\ d.sch.active /\ d.sch.at <= poll.now
  OBVIOUS
<1>5. \A d, e \in list : d.id = e.id => d = e
  OBVIOUS
<1>6. \A id \in Names : schedules[id].active /\ schedules[id].at <= poll.now =>
        \E d \in list : d.id = id
  <2> SUFFICES ASSUME NEW id \in Names, schedules[id].active, schedules[id].at <= poll.now
               PROVE  \E d \in list : d.id = id
    OBVIOUS
  <2>1. [id |-> id, sch |-> schedules[id]] \in list
    OBVIOUS
  <2> QED
    BY <2>1
<1>7. \A id \in there : id \in Names /\ Exists(id)
  OBVIOUS
<1> HIDE DEF list, there
<1>8. /\ poll' \in Polls /\ poll'.now = poll.now /\ poll'.todo = list
      /\ poll'.phase = "decide" /\ poll'.found = there
  BY <1>1, <1>2, <1>3 DEF Polls
<1>9. ScheduleTypeOK'
  BY <1>2, <1>8 DEF ScheduleInv, ScheduleTypeOK, entries
<1>10. Copies'
  BY <1>1, <1>2, <1>4, <1>8 DEF Copies, Sound, entries
<1>11. DueCopies'
  BY <1>2, <1>4, <1>8 DEF DueCopies, entries
<1>12. OneCopy'
  BY <1>5, <1>8 DEF OneCopy
<1>13. NoneMissing'
  BY <1>2, <1>6, <1>7, <1>8 DEF NoneMissing, Exists, entries
<1> QED
  BY <1>2, <1>9, <1>10, <1>11, <1>12, <1>13 DEF ScheduleInv, PollLists, entries

(* What a poll records of the copy whose turn it is.                       *)
LEMMA Dispatches ==
  ASSUME ScheduleInv, NEW d \in poll.todo, InTurn(d)
  PROVE  /\ Dispatch(d) \in Changes({"create", "delete"} \cup Decisions)
         /\ SoundChange(Dispatch(d)) /\ Dispatch(d).id = d.id
         /\ d.id \in Names /\ d.sch \in Records /\ schedules[d.id] \in Records
         /\ d.sch.rule # Never /\ schedules[d.id].rule = d.sch.rule
         /\ Sound(schedules[d.id]) /\ poll.now \in Nat
         /\ Decision(d) \in Decisions /\ (poll.phase = "release" <=> Decision(d) = "released")
         /\ Folded(schedules[d.id], Dispatch(d)) =
              Dispatched(schedules[d.id], poll.now, Decision(d))
         /\ poll.phase # "release" => poll.phase = "decide"
<1>1. /\ d.id \in Names /\ d.sch \in Records /\ schedules[d.id] \in Records
      /\ Sound(schedules[d.id]) /\ poll.now \in Nat
  BY DEF ScheduleInv, ScheduleTypeOK, Polls
<1>2. d.sch.rule # Never /\ schedules[d.id].rule = d.sch.rule
  BY DEF ScheduleInv, PollLists, Copies
<1>3. Decision(d) \in Decisions /\ (poll.phase = "release" <=> Decision(d) = "released")
  BY DEF Decision, Decisions
<1>4. /\ Dispatch(d).id = d.id /\ Dispatch(d).op = Decision(d) /\ Dispatch(d).at = poll.now
      /\ Dispatch(d) = [id |-> d.id, op |-> Decision(d), at |-> poll.now, rule |-> Never,
                        overlap |-> "skip"]
  BY DEF Dispatch, Change
<1>5. Dispatch(d) \in Changes({"create", "delete"} \cup Decisions)
  BY <1>1, <1>3, <1>4 DEF Changes, Overlaps
<1>6. SoundChange(Dispatch(d))
  BY <1>3, <1>4 DEF SoundChange, Decisions
<1>7. Folded(schedules[d.id], Dispatch(d)) = Dispatched(schedules[d.id], poll.now, Decision(d))
  BY <1>1, <1>2, <1>3, <1>4, <1>5, <1>6, Folding
<1>8. poll.phase # "release" => poll.phase = "decide"
  BY DEF InTurn
<1> QED
  BY <1>1, <1>2, <1>3, <1>4, <1>5, <1>6, <1>7, <1>8

(* A decision about one copy of the list, which leaves it: the others are  *)
(* what they were.                                                         *)
LEMMA DecideInv ==
  ASSUME ScheduleInv, NEW d \in poll.todo, Decide(d)
  PROVE  ScheduleInv'
<1> DEFINE at == IF poll.phase = "release" THEN d.sch.held ELSE occurrence_of(d.sch, poll.now)
           fire == [id |-> d.id, at |-> at, decision |-> Decision(d)]
           new == Dispatched(schedules[d.id], poll.now, Decision(d))
<1>1. InTurn(d) /\ Appended(Dispatch(d)) /\ UNCHANGED <<now, judged, running>>
  BY DEF Decide
<1>2. /\ Dispatch(d) \in Changes({"create", "delete"} \cup Decisions)
      /\ SoundChange(Dispatch(d)) /\ Dispatch(d).id = d.id
      /\ d.id \in Names /\ d.sch \in Records /\ schedules[d.id] \in Records
      /\ d.sch.rule # Never /\ schedules[d.id].rule = d.sch.rule
      /\ Sound(schedules[d.id]) /\ poll.now \in Nat
      /\ Decision(d) \in Decisions /\ (poll.phase = "release" <=> Decision(d) = "released")
      /\ Folded(schedules[d.id], Dispatch(d)) = new
      /\ poll.phase # "release" => poll.phase = "decide"
  BY <1>1, Dispatches
<1>3. /\ schedules \in [Names -> Records] /\ poll \in Polls
      /\ \A e \in poll.todo : e.id \in Names /\ poll.found \in SUBSET Names
  BY DEF ScheduleInv, ScheduleTypeOK, Polls
<1>4. at \in Instants
  BY <1>2, OccurrenceKind, Fields
<1>5. fire \in [id : Names, at : Instants, decision : Decisions]
  BY <1>2, <1>4
<1>6. poll' = [poll EXCEPT !.todo = @ \ {d}, !.fired = @ \cup {fire}]
  BY <1>3 DEF Decide
<1> HIDE DEF fire, new
<1>7. /\ poll' \in Polls /\ poll'.now = poll.now /\ poll'.phase = poll.phase
      /\ poll'.todo = poll.todo \ {d} /\ poll'.found = poll.found
  BY <1>3, <1>5, <1>6 DEF Polls
<1>8. /\ schedules' \in [Names -> Records] /\ stored' \in [Names -> Records]
      /\ \A id \in Names : Sound(schedules'[id]) /\ Sound(stored'[id])
      /\ \A id \in Names : schedules[id].rule # Never => schedules'[id].rule = schedules[id].rule
      /\ \A id \in Names \ {d.id} : schedules'[id] = schedules[id]
      /\ stale' = stale
  BY <1>1, <1>2, Appending
<1>9. schedules'[d.id] = new
  BY <1>1, <1>2, <1>3, FoldSound DEF Appended, ScheduleInv
<1>10. poll.phase = "decide" => /\ schedules[d.id].at <= poll.now
                                /\ new.active => new.at > poll.now
  BY <1>2, Advancing DEF ScheduleInv, PollLists, DueCopies, new
<1>11. ScheduleTypeOK'
  BY <1>1, <1>7, <1>8 DEF ScheduleInv, ScheduleTypeOK
<1>12. ASSUME NEW id \in Names \ stale PROVE HeldFirst(schedules'[id])
  <2>1. CASE id # d.id
    BY <1>8, <2>1 DEF ScheduleInv
  <2>2. CASE id = d.id /\ poll.phase = "release"
    BY <1>2, <1>9, <2>2, Releasing DEF new
  <2>3. CASE id = d.id /\ poll.phase = "decide"
    BY <1>2, <1>9, <1>10, <2>3, Advancing DEF ScheduleInv, new
  <2> QED
    BY <1>2, <2>1, <2>2, <2>3
<1>13. Copies'
  BY <1>3, <1>7, <1>8 DEF ScheduleInv, PollLists, Copies
<1>14. DueCopies'
  <2> SUFFICES ASSUME poll.phase = "decide", NEW e \in poll.todo, e # d
               PROVE  schedules'[e.id].at = e.sch.at /\ e.sch.at <= poll.now
    BY <1>7 DEF DueCopies
  <2>1. e.id # d.id
    BY DEF ScheduleInv, PollLists, OneCopy
  <2> QED
    BY <1>3, <1>8, <2>1 DEF ScheduleInv, PollLists, DueCopies
<1>15. OneCopy'
  BY <1>7 DEF ScheduleInv, PollLists, OneCopy
<1>16. NoneMissing'
  <2> SUFFICES ASSUME poll.phase = "decide", NEW n \in poll.found
               PROVE  /\ schedules'[n].rule # Never
                      /\ schedules'[n].active /\ schedules'[n].at <= poll.now =>
                           \E e \in poll.todo \ {d} : e.id = n
    BY <1>7 DEF NoneMissing, Exists
  <2>1. n \in Names /\ schedules[n].rule # Never
    BY <1>3 DEF ScheduleInv, PollLists, NoneMissing, Exists
  <2>2. ASSUME schedules'[n].active, schedules'[n].at <= poll.now
        PROVE  \E e \in poll.todo \ {d} : e.id = n
    <3>1. schedules'[n].at \in Nat
      BY <1>8, <2>1 DEF Sound
    <3>2. n # d.id
      BY <1>2, <1>9, <1>10, <2>2, <3>1
    <3>3. PICK e \in poll.todo : e.id = n
      BY <1>8, <2>1, <2>2, <3>2 DEF ScheduleInv, PollLists, NoneMissing
    <3> QED
      BY <3>2, <3>3
  <2> QED
    BY <1>8, <2>1, <2>2
<1> QED
  BY <1>1, <1>8, <1>11, <1>12, <1>13, <1>14, <1>15, <1>16 DEF ScheduleInv, PollLists

(* A decision that is refused ends the poll.                               *)
LEMMA RefuseInv ==
  ASSUME ScheduleInv, NEW d \in poll.todo, Refuse(d)
  PROVE  ScheduleInv'
<1>1. InTurn(d) /\ Unwritable(Dispatch(d)) /\ UNCHANGED <<now, judged, running>> /\ poll' = NoPoll
  BY DEF Refuse
<1>2. /\ stored' \in [Names -> Records] /\ \A id \in Names : Sound(stored'[id])
  BY <1>1, Dispatches, Appending
<1>3. UNCHANGED <<schedules, stale>>
  BY <1>1 DEF Unwritable
<1>4. ScheduleTypeOK'
  BY <1>1, <1>2, <1>3 DEF ScheduleInv, ScheduleTypeOK, Polls, NoPoll
<1>5. PollLists'
  BY <1>1 DEF PollLists, Copies, DueCopies, OneCopy, NoneMissing, NoPoll
<1> QED
  BY <1>1, <1>2, <1>3, <1>4, <1>5 DEF ScheduleInv

LEMMA NextInv == ScheduleInv /\ [ScheduleNext]_scheduleVars => ScheduleInv'
<1> SUFFICES ASSUME ScheduleInv, [ScheduleNext]_scheduleVars PROVE ScheduleInv'
  OBVIOUS
<1>1. /\ now \in Nat /\ running \in SUBSET Names
      /\ poll.fired \in SUBSET [id : Names, at : Instants, decision : Decisions]
  BY DEF ScheduleInv, ScheduleTypeOK, Polls
<1>2. CASE Tick
  BY <1>1, <1>2, Resting DEF Tick
<1>3. CASE Restart
  BY <1>3, Restarting
<1>4. CASE Poll
  BY <1>4, Polling
<1>5. CASE Due
  BY <1>5, Listing
<1>6. CASE Give
  <2>1. running' \in SUBSET Names
    BY <1>1, <1>6 DEF Give, Answered
  <2> QED
    BY <1>1, <1>6, <2>1, Resting DEF Give
<1>7. ASSUME NEW d \in poll.todo, Decide(d) PROVE ScheduleInv'
  BY <1>7, DecideInv
<1>8. ASSUME NEW d \in poll.todo, Refuse(d) PROVE ScheduleInv'
  BY <1>8, RefuseInv
<1>9. ASSUME NEW c \in Threads, Settle(c) PROVE ScheduleInv'
  BY <1>9, Settling
<1>10. ASSUME NEW c \in Threads, NEW id \in Names, Delete(c, id) PROVE ScheduleInv'
  BY <1>10, Deleting
<1>11. ASSUME NEW c \in Threads, NEW id \in Names, NEW rule \in Rules,
              NEW overlap \in Overlaps, Create(c, id, rule, overlap)
       PROVE  ScheduleInv'
  BY <1>11, Creating
<1>12. ASSUME NEW id \in Names, RunEnds(id) PROVE ScheduleInv'
  BY <1>1, <1>12, Resting DEF RunEnds
<1>13. CASE UNCHANGED scheduleVars
  BY <1>1, <1>13, Resting DEF scheduleVars
<1> QED
  BY <1>2, <1>3, <1>4, <1>5, <1>6, <1>7, <1>8, <1>9, <1>10, <1>11, <1>12, <1>13
     DEF ScheduleNext, Deciding, Caller

-----------------------------------------------------------------------------
(* That occurrences advance: a second invariant, over the first, of the    *)
(* schedules no restart has found otherwise than they were.                *)

Below(id, t) == given[id] = Never \/ given[id] < t
NoneOf(id) == \A f \in Answered : f.id # id
Sure == {f \in Answered : f.id \notin stale}

(* A schedule's next instant, and what it holds, are later than what the   *)
(* runner was given of it and what the poll is about to give.              *)
Ahead(id) ==
  LET s == schedules[id]
  IN  /\ s.rule = Never => given[id] = Never /\ NoneOf(id)
      /\ s.rule # Never /\ ~s.rule.once =>
           Below(id, s.at) /\ \A f \in Answered : f.id = id => f.at < s.at
      /\ s.rule # Never /\ s.rule.once /\ s.active =>
           given[id] = Never /\ s.held = Never /\ NoneOf(id)
      /\ s.held # Never => Below(id, s.held) /\ NoneOf(id) /\ s.overlap # "concurrent"
      /\ s.held # Never /\ poll.phase = "decide" => id \in poll.running
      /\ s.held # Never /\ poll.phase = "release" =>
           id \in poll.running \/ \E d \in poll.todo : d.id = id

(* What the poll is about to give: of a schedule at most what it held and, *)
(* later than that, what was due, and no more than one unless it overlaps. *)
Fires ==
  /\ \A f \in Sure :
       /\ f.at \in Nat /\ Below(f.id, f.at)
       /\ f.id \notin poll.running \/ schedules[f.id].overlap = "concurrent"
       /\ poll.phase = "release" => f.decision = "released"
  /\ \A f, g \in Sure : f.id = g.id =>
       /\ f.decision = g.decision => f = g
       /\ f.decision = "released" /\ g.decision = "run" => f.at < g.at

(* A copy whose turn has not come has nothing of its kind given yet.       *)
HeldBack(d) == LET s == schedules[d.id]
           IN  /\ d.id \notin poll.running /\ NoneOf(d.id)
               /\ d.sch.held \in Nat /\ Below(d.id, d.sch.held)
               /\ s.rule.once => ~s.active
               /\ ~s.rule.once => d.sch.held < s.at
Listed ==
  \A d \in poll.todo : d.id \notin stale =>
    /\ schedules[d.id].overlap = d.sch.overlap
    /\ poll.phase = "release" => HeldBack(d)
    /\ poll.phase = "release" => \A e \in poll.todo : d.id = e.id => d = e
    /\ poll.phase = "decide" => \A f \in Answered : f.id = d.id => f.decision # "run"
    /\ poll.phase = "decide" /\ d.sch.rule.once => given[d.id] = Never /\ NoneOf(d.id)

AdvanceInv == /\ \A id \in Names \ stale : given[id] \in Instants /\ Ahead(id)
              /\ Fires /\ Listed

(* Steps that touch no schedule, and those that end a poll.                *)
LEMMA AdvInit == ScheduleInit => AdvanceInv
<1> SUFFICES ASSUME ScheduleInit PROVE AdvanceInv
  OBVIOUS
<1>1. poll.todo = {} /\ Answered = {} /\ poll.phase = "idle"
  BY DEF ScheduleInit, NoPoll, Answered
<1>2. \A id \in Names : given[id] = Never /\ given[id] \in Instants
  BY DEF ScheduleInit, Instants
<1>3. \A id \in Names : schedules[id].rule = Never /\ schedules[id].held = Never
  BY DEF ScheduleInit, NoSchedule
<1>4. Fires /\ Listed
  BY <1>1 DEF Fires, Listed, Sure
<1>5. \A id \in Names : Ahead(id)
  BY <1>1, <1>2, <1>3 DEF Ahead, NoneOf
<1> QED
  BY <1>2, <1>4, <1>5 DEF AdvanceInv

LEMMA AdvRest ==
  ASSUME AdvanceInv, UNCHANGED <<entries, poll, given>>
  PROVE  AdvanceInv'
BY DEF AdvanceInv, Ahead, Below, NoneOf, Answered, Sure, Fires, Listed, HeldBack, entries

LEMMA AdvStop ==
  ASSUME AdvanceInv, UNCHANGED given, poll' = NoPoll, stale \subseteq stale',
         \A id \in Names \ stale' : schedules'[id] = schedules[id]
  PROVE  AdvanceInv'
<1>1. Answered' = {} /\ Sure' = {} /\ poll'.todo = {} /\ poll'.phase = "idle"
  BY DEF Answered, Sure, NoPoll
<1>2. Fires' /\ Listed'
  BY <1>1 DEF Fires, Listed
<1>3. (\A id \in Names \ stale : given[id] \in Instants /\ Ahead(id))'
  BY <1>1 DEF AdvanceInv, Ahead, Below, NoneOf
<1> QED
  BY <1>2, <1>3 DEF AdvanceInv

(* What the runner is given of a schedule is one of the answers, and when  *)
(* there are none, what it was given stays.                                *)
LEMMA Giving ==
  ASSUME ScheduleInv, AdvanceInv, Give, NEW id \in Names \ stale
  PROVE  /\ NoneOf(id) => given'[id] = given[id]
         /\ ~NoneOf(id) => \E f \in Answered : f.id = id /\ given'[id] = f.at
<1> DEFINE mine == {f \in Answered : f.id = id}
<1>1. given'[id] = IF mine = {} THEN given[id]
                   ELSE (CHOOSE f \in mine : \A g \in mine : g.at <= f.at).at
  BY DEF Give
<1>2. CASE NoneOf(id)
  BY <1>1, <1>2 DEF NoneOf
<1>3. CASE ~NoneOf(id)
  <2>1. PICK e \in mine : TRUE
    BY <1>3 DEF NoneOf
  <2>2. \A f \in mine : f.at \in Nat /\ f.decision \in {"run", "released"}
    BY DEF AdvanceInv, Fires, Sure, Answered
  <2>3. \A f, g \in mine : f.decision = g.decision => f = g
    BY DEF AdvanceInv, Fires, Sure
  <2>4. \A f, g \in mine : f.decision = "released" /\ g.decision = "run" => f.at < g.at
    BY DEF AdvanceInv, Fires, Sure
  <2> HIDE DEF mine
  <2>5. \E f \in mine : \A g \in mine : g.at <= f.at
    <3>1. CASE \E f \in mine : f.decision = "run"
      <4>1. PICK f \in mine : f.decision = "run"
        BY <3>1
      <4>2. ASSUME NEW g \in mine PROVE g.at <= f.at
        BY <2>2, <2>3, <2>4, <4>1
      <4> QED
        BY <4>1, <4>2
    <3>2. CASE ~\E f \in mine : f.decision = "run"
      <4>1. \A g \in mine : g = e
        BY <2>1, <2>2, <2>3, <3>2
      <4> QED
        BY <2>1, <2>2, <4>1
    <3> QED
      BY <3>1, <3>2
  <2>6. PICK f \in mine : given'[id] = f.at
    BY <1>1, <2>1, <2>5
  <2> QED
    BY <1>3, <2>6 DEF mine
<1> QED
  BY <1>2, <1>3

LEMMA AdvGive ==
  ASSUME ScheduleInv, AdvanceInv, Give
  PROVE  AdvanceInv'
<1>1. /\ Answered' = {} /\ Sure' = {} /\ poll'.todo = {} /\ poll'.phase = "idle"
      /\ UNCHANGED entries
  BY DEF Give, Answered, Sure, NoPoll
<1>2. Fires' /\ Listed'
  BY <1>1 DEF Fires, Listed
<1>3. ASSUME NEW id \in Names \ stale
      PROVE  \/ given'[id] = given[id] /\ NoneOf(id)
             \/ \E f \in Answered : f.id = id /\ given'[id] = f.at /\ f.at \in Nat
  BY Giving DEF AdvanceInv, Fires, Sure
<1>4. ASSUME NEW id \in Names \ stale PROVE given'[id] \in Instants
  BY <1>3 DEF AdvanceInv, Instants
<1>5. ASSUME NEW id \in Names \ stale PROVE Ahead(id)'
  <2>1. CASE given'[id] = given[id]
    BY <1>1, <2>1 DEF AdvanceInv, Ahead, Below, NoneOf, entries
  <2>2. CASE \E f \in Answered : f.id = id /\ given'[id] = f.at
    BY <1>1, <2>2 DEF AdvanceInv, Ahead, Below, NoneOf, entries
  <2> QED
    BY <1>3, <2>1, <2>2
<1> QED
  BY <1>1, <1>2, <1>4, <1>5 DEF AdvanceInv, entries

(* What another schedule's change does not touch.                          *)
LEMMA AheadKept ==
  ASSUME NEW n \in Names, Ahead(n), UNCHANGED given,
         schedules'[n] = schedules[n],
         \A f \in Answered' : f.id = n => f \in Answered,
         poll'.phase = poll.phase, poll'.running = poll.running,
         \A d \in poll.todo : d.id = n => d \in poll'.todo
  PROVE  Ahead(n)'
<1>1. NoneOf(n) => NoneOf(n)'
  BY DEF NoneOf
<1>2. \A t : Below(n, t) => Below(n, t)'
  BY DEF Below
<1> QED
  BY <1>1, <1>2 DEF Ahead

(* A caller's change, which creates a schedule or stops one.               *)
LEMMA AdvSettle ==
  ASSUME ScheduleInv, AdvanceInv, NEW c \in Threads, Settle(c)
  PROVE  AdvanceInv'
<1>1. poll \in Polls
  BY DEF ScheduleInv, ScheduleTypeOK
<1>2. UNCHANGED <<poll, given, stale>>
  BY DEF Settle, Appended, Unwritable
<1>3. Answered' = Answered /\ Sure' = Sure
  BY <1>2 DEF Answered, Sure
<1>4. \A n : NoneOf(n)' = NoneOf(n) /\ \A t : Below(n, t)' = Below(n, t)
  BY <1>2, <1>3 DEF NoneOf, Below
<1>5. ASSUME NEW n \in Names \ stale PROVE Ahead(n)'
  <2> DEFINE s == schedules[n]  u == schedules'[n]
  <2>1. Ahead(n)
    BY DEF AdvanceInv
  <2>2. /\ s.rule # Never =>
             /\ u.rule = s.rule /\ u.at = s.at /\ u.overlap = s.overlap
             /\ u = s \/ (~u.active /\ u.held = Never)
        /\ s.rule = Never => u = s \/ (u.rule \in Rules /\ u.active /\ u.held = Never)
    BY Judging
  <2>3. CASE s.rule # Never
    BY <1>2, <1>3, <1>4, <2>1, <2>2, <2>3 DEF Ahead
  <2>4. CASE s.rule = Never /\ u = s
    BY <1>2, <1>3, <1>4, <2>1, <2>4 DEF Ahead
  <2>5. CASE s.rule = Never /\ u # s
    <3>1. given[n] = Never /\ NoneOf(n)
      BY <2>1, <2>5 DEF Ahead
    <3>2. given'[n] = Never /\ NoneOf(n)'
      BY <1>2, <1>4, <3>1
    <3>3. u.rule # Never /\ u.held = Never
      BY <2>2, <2>5, ScheduleAssumption
    <3> QED
      BY <3>2, <3>3 DEF Ahead, Below, NoneOf
  <2> QED
    BY <2>3, <2>4, <2>5
<1>6. \A f \in Sure : f.id \in Names /\ schedules[f.id].rule # Never
  <2>1. \A f \in Sure : f.id \in Names /\ f.id \notin stale /\ ~NoneOf(f.id)
    BY <1>1 DEF Sure, Answered, NoneOf, Polls
  <2> QED
    BY <2>1 DEF AdvanceInv, Ahead
<1>7. \A d \in poll.todo : d.id \in Names /\ schedules[d.id].rule # Never
  BY <1>1 DEF ScheduleInv, PollLists, Copies, Polls
<1>8. \A n \in Names : schedules[n].rule # Never =>
        /\ schedules'[n].rule = schedules[n].rule
        /\ schedules'[n].at = schedules[n].at
        /\ schedules'[n].overlap = schedules[n].overlap
        /\ schedules'[n].active => schedules[n].active
  BY Judging
<1>9. Fires'
  BY <1>2, <1>3, <1>4, <1>6, <1>8 DEF AdvanceInv, Fires
<1>10. Listed'
  BY <1>2, <1>3, <1>4, <1>7, <1>8 DEF AdvanceInv, Listed, HeldBack
<1> QED
  BY <1>2, <1>5, <1>9, <1>10 DEF AdvanceInv

LEMMA AdvPoll ==
  ASSUME ScheduleInv, AdvanceInv, Poll
  PROVE  AdvanceInv'
<1> DEFINE list == {[id |-> id, sch |-> schedules[id]] :
                      id \in {n \in Names \ running : schedules[n].held # Never}}
<1>1. schedules \in [Names -> Records] /\ \A id \in Names : Sound(schedules[id])
  BY DEF ScheduleInv, ScheduleTypeOK
<1>2. /\ poll' = [phase |-> "release", now |-> now, running |-> running, found |-> {},
                  todo |-> list, fired |-> {}]
      /\ UNCHANGED <<entries, given>>
  BY DEF Poll, NoPoll
<1>3. \A d \in list : /\ d.sch = schedules[d.id] /\ d.id \in Names \ running
                      /\ d.sch.held # Never
  OBVIOUS
<1>4. \A d, e \in list : d.id = e.id => d = e
  OBVIOUS
<1>5. \A id \in Names : schedules[id].held # Never => id \in running \/ \E d \in list : d.id = id
  <2> SUFFICES ASSUME NEW id \in Names, schedules[id].held # Never, id \notin running
               PROVE  \E d \in list : d.id = id
    OBVIOUS
  <2>1. [id |-> id, sch |-> schedules[id]] \in list
    OBVIOUS
  <2> QED
    BY <2>1
<1> HIDE DEF list
<1>6. /\ poll'.phase = "release" /\ poll'.running = running /\ poll'.todo = list
      /\ Answered' = {} /\ Sure' = {} /\ UNCHANGED <<schedules, stale>>
  BY <1>2 DEF Answered, Sure, entries
<1>7. Fires'
  BY <1>6 DEF Fires
<1>8. ASSUME NEW id \in Names \ stale PROVE Ahead(id)'
  BY <1>2, <1>5, <1>6 DEF AdvanceInv, Ahead, Below, NoneOf
<1>9. ASSUME NEW d \in list, d.id \notin stale PROVE HeldBack(d)'
  <2> DEFINE s == schedules[d.id]
  <2>1. /\ d.sch = s /\ d.id \in Names /\ s.held # Never /\ d.id \notin running
        /\ Ahead(d.id) /\ Sound(s) /\ HeldFirst(s) /\ s \in Records
    BY <1>1, <1>3, <1>9 DEF AdvanceInv, ScheduleInv
  <2>2. s.held \in Nat /\ s.rule # Never
    BY <2>1, Fields DEF Sound, Instants
  <2>3. Below(d.id, s.held) /\ (s.rule.once => ~s.active) /\ (~s.rule.once => s.held < s.at)
    BY <2>1, <2>2 DEF Ahead, HeldFirst
  <2> QED
    BY <1>2, <1>6, <2>1, <2>2, <2>3 DEF HeldBack, Below, NoneOf
<1>10. Listed'
  BY <1>2, <1>3, <1>4, <1>6, <1>9 DEF Listed
<1> QED
  BY <1>2, <1>6, <1>7, <1>8, <1>10 DEF AdvanceInv

LEMMA AdvDue ==
  ASSUME ScheduleInv, AdvanceInv, Due
  PROVE  AdvanceInv'
<1> DEFINE list == {[id |-> id, sch |-> schedules[id]] :
                      id \in {n \in Names : /\ schedules[n].active
                                            /\ schedules[n].at <= poll.now}}
<1>1. /\ schedules \in [Names -> Records] /\ poll \in Polls
      /\ \A id \in Names : Sound(schedules[id])
  BY DEF ScheduleInv, ScheduleTypeOK
<1>2. /\ poll' = [poll EXCEPT !.phase = "decide", !.found = {n \in Names : Exists(n)},
                             !.todo = list]
      /\ UNCHANGED <<schedules, stale, given>> /\ poll.phase = "release" /\ poll.todo = {}
  BY DEF Due, entries
<1>3. \A d \in list : /\ d.sch = schedules[d.id] /\ d.id \in Names
                      /\ d.sch.active
  OBVIOUS
<1> HIDE DEF list
<1>4. /\ poll'.phase = "decide" /\ poll'.running = poll.running /\ poll'.todo = list
      /\ poll'.fired = poll.fired /\ Answered' = Answered /\ Sure' = Sure
  BY <1>1, <1>2 DEF Answered, Sure, Polls
<1>5. \A n : NoneOf(n)' = NoneOf(n) /\ \A t : Below(n, t)' = Below(n, t)
  BY <1>2, <1>4 DEF NoneOf, Below
<1>6. Fires'
  BY <1>2, <1>4, <1>5 DEF AdvanceInv, Fires
<1>7. ASSUME NEW id \in Names \ stale PROVE Ahead(id)'
  <2>1. Ahead(id)
    BY DEF AdvanceInv
  <2> QED
    BY <1>2, <1>4, <1>5, <2>1 DEF Ahead
<1>8. \A f \in Sure : f.decision = "released"
  BY <1>2 DEF AdvanceInv, Fires
<1>9. ASSUME NEW d \in list, d.id \notin stale, d.sch.rule.once
      PROVE  given[d.id] = Never /\ NoneOf(d.id)
  <2>1. Ahead(d.id) /\ Sound(schedules[d.id])
    BY <1>1, <1>3, <1>9 DEF AdvanceInv
  <2> QED
    BY <1>3, <1>9, <2>1 DEF Ahead, Sound
<1>10. Listed'
  <2> SUFFICES ASSUME NEW d \in list, d.id \notin stale
               PROVE  /\ schedules[d.id].overlap = d.sch.overlap
                      /\ \A f \in Answered : f.id = d.id => f.decision # "run"
                      /\ d.sch.rule.once => given[d.id] = Never /\ NoneOf(d.id)
    BY <1>2, <1>4, <1>5 DEF Listed
  <2> QED
    BY <1>3, <1>8, <1>9 DEF Sure
<1> QED
  BY <1>2, <1>6, <1>7, <1>10 DEF AdvanceInv

(* A decision takes one copy off the list, and answers it or does not.     *)
LEMMA Answering ==
  ASSUME ScheduleInv, NEW d \in poll.todo, Decide(d)
  PROVE  LET s == schedules[d.id]
             at == IF poll.phase = "release" THEN d.sch.held ELSE occurrence_of(d.sch, poll.now)
             fire == [id |-> d.id, at |-> at, decision |-> Decision(d)]
         IN  /\ d.id \in Names /\ s \in Records /\ Sound(s) /\ s.rule = d.sch.rule
             /\ d.sch \in Records /\ d.sch.rule # Never
             /\ schedules'[d.id] = Dispatched(s, poll.now, Decision(d))
             /\ \A n \in Names \ {d.id} : schedules'[n] = schedules[n]
             /\ poll'.phase = poll.phase /\ poll'.running = poll.running
             /\ poll'.todo = poll.todo \ {d}
             /\ Decision(d) \in {"run", "released"} => Answered' = Answered \cup {fire}
             /\ Decision(d) \notin {"run", "released"} => Answered' = Answered
             /\ \A f \in Answered : f.id \in Names /\ f.decision \in {"run", "released"}
             /\ \A e \in poll.todo : e.id \in Names
             /\ UNCHANGED <<given, stale>> /\ poll.now \in Nat
             /\ poll.phase = "release" <=> Decision(d) = "released"
             /\ poll.phase # "release" => poll.phase = "decide"
<1> DEFINE s == schedules[d.id]
           at == IF poll.phase = "release" THEN d.sch.held ELSE occurrence_of(d.sch, poll.now)
           fire == [id |-> d.id, at |-> at, decision |-> Decision(d)]
<1>1. schedules \in [Names -> Records] /\ poll \in Polls
      /\ \A id \in Names : Sound(schedules[id])
  BY DEF ScheduleInv, ScheduleTypeOK
<1>2. InTurn(d) /\ Appended(Dispatch(d)) /\ UNCHANGED <<given, stale>>
  BY DEF Decide, Appended
<1>3. /\ Dispatch(d) \in Changes({"create", "delete"} \cup Decisions)
      /\ SoundChange(Dispatch(d)) /\ Dispatch(d).id = d.id
      /\ d.id \in Names /\ d.sch \in Records /\ s \in Records
      /\ d.sch.rule # Never /\ s.rule = d.sch.rule /\ Sound(s) /\ poll.now \in Nat
      /\ poll.phase = "release" <=> Decision(d) = "released"
      /\ Folded(s, Dispatch(d)) = Dispatched(s, poll.now, Decision(d))
      /\ poll.phase # "release" => poll.phase = "decide"
  BY <1>2, Dispatches
<1>4. /\ schedules'[d.id] = Dispatched(s, poll.now, Decision(d))
      /\ \A n \in Names \ {d.id} : schedules'[n] = schedules[n]
  BY <1>1, <1>2, <1>3, FoldSound DEF Appended
<1>5. poll' = [poll EXCEPT !.todo = @ \ {d}, !.fired = @ \cup {fire}]
  BY <1>1 DEF Decide
<1>6. fire.decision = Decision(d)
  OBVIOUS
<1> HIDE DEF fire
<1>7. /\ poll'.phase = poll.phase /\ poll'.running = poll.running
      /\ poll'.todo = poll.todo \ {d} /\ poll'.fired = poll.fired \cup {fire}
  BY <1>1, <1>5 DEF Polls
<1>8. /\ Decision(d) \in {"run", "released"} => Answered' = Answered \cup {fire}
      /\ Decision(d) \notin {"run", "released"} => Answered' = Answered
  BY <1>6, <1>7 DEF Answered
<1>9. /\ \A f \in Answered : f.id \in Names /\ f.decision \in {"run", "released"}
      /\ \A e \in poll.todo : e.id \in Names
  BY <1>1 DEF Polls, Answered
<1> QED
  BY <1>2, <1>3, <1>4, <1>7, <1>8, <1>9 DEF fire

(* One about a schedule of which nothing is claimed.                       *)
LEMMA AdvStale ==
  ASSUME ScheduleInv, AdvanceInv, NEW d \in poll.todo, Decide(d), d.id \in stale
  PROVE  AdvanceInv'
<1>1. /\ d.id \in Names
      /\ \A n \in Names \ {d.id} : schedules'[n] = schedules[n]
      /\ poll'.phase = poll.phase /\ poll'.running = poll.running
      /\ poll'.todo = poll.todo \ {d}
      /\ \A f \in Answered : f.id \in Names
      /\ \A e \in poll.todo : e.id \in Names
      /\ UNCHANGED <<given, stale>>
  BY Answering
<1>2. Answered \subseteq Answered' /\ \A f \in Answered' : f \in Answered \/ f.id = d.id
  BY Answering
<1>3. Sure' = Sure
  BY <1>1, <1>2 DEF Sure
<1>4. \A n \in Names \ stale : NoneOf(n)' = NoneOf(n)
  BY <1>2 DEF NoneOf
<1>5. \A n, t : Below(n, t)' = Below(n, t)
  BY <1>1 DEF Below
<1>6. ASSUME NEW n \in Names \ stale PROVE Ahead(n)'
  BY <1>1, <1>2, AheadKept DEF AdvanceInv
<1>7. \A n \in Names \ stale : schedules'[n] = schedules[n]
  BY <1>1
<1>8. Fires'
  <2>1. \A f \in Sure : f.id \in Names \ stale
    BY <1>1 DEF Sure
  <2> QED
    BY <1>1, <1>3, <1>5, <1>7, <2>1 DEF AdvanceInv, Fires
<1>9. Listed'
  <2> SUFFICES ASSUME NEW e \in poll.todo, e.id \notin stale
               PROVE  /\ schedules'[e.id].overlap = e.sch.overlap
                      /\ poll.phase = "release" => HeldBack(e)'
                      /\ poll.phase = "release" => \A g \in poll.todo : e.id = g.id => e = g
                      /\ poll.phase = "decide" =>
                           \A f \in Answered' : f.id = e.id => f.decision # "run"
                      /\ poll.phase = "decide" /\ e.sch.rule.once =>
                           given'[e.id] = Never /\ NoneOf(e.id)'
    BY <1>1 DEF Listed
  <2>1. e.id \in Names \ stale
    BY <1>1
  <2>2. /\ schedules[e.id].overlap = e.sch.overlap
        /\ poll.phase = "release" => HeldBack(e)
        /\ poll.phase = "release" => \A g \in poll.todo : e.id = g.id => e = g
        /\ poll.phase = "decide" => \A f \in Answered : f.id = e.id => f.decision # "run"
        /\ poll.phase = "decide" /\ e.sch.rule.once => given[e.id] = Never /\ NoneOf(e.id)
    BY DEF AdvanceInv, Listed
  <2>3. HeldBack(e) => HeldBack(e)'
    BY <1>1, <1>4, <1>5, <1>7, <2>1 DEF HeldBack
  <2> QED
    BY <1>1, <1>2, <1>4, <1>7, <2>1, <2>2, <2>3
<1> QED
  BY <1>1, <1>6, <1>8, <1>9 DEF AdvanceInv

LEMMA AdvRelease ==
  ASSUME ScheduleInv, AdvanceInv, NEW d \in poll.todo, Decide(d), poll.phase = "release",
         d.id \notin stale
  PROVE  AdvanceInv'
<1> DEFINE s == schedules[d.id]
           fire == [id |-> d.id, at |-> d.sch.held, decision |-> "released"]
<1>1. poll.phase = "release" /\ UNCHANGED <<given, stale>> /\ Decision(d) = "released"
  BY Answering
<1>2. /\ d.id \in Names /\ s \in Records /\ s.rule # Never
      /\ schedules'[d.id] = Dispatched(s, poll.now, "released")
      /\ \A n \in Names \ {d.id} : schedules'[n] = schedules[n]
      /\ poll'.phase = "release" /\ poll'.running = poll.running
      /\ poll'.todo = poll.todo \ {d}
      /\ Answered' = Answered \cup {fire}
      /\ \A f \in Answered : f.id \in Names
      /\ \A e \in poll.todo : e.id \in Names
  BY <1>1, Answering
<1>3. /\ schedules'[d.id].rule = s.rule /\ schedules'[d.id].overlap = s.overlap
      /\ schedules'[d.id].at = s.at /\ schedules'[d.id].held = Never
      /\ schedules'[d.id].active = s.active
  BY <1>2 DEF Dispatched, Records
<1>4. /\ d.id \notin poll.running /\ NoneOf(d.id)
      /\ d.sch.held \in Nat /\ Below(d.id, d.sch.held)
      /\ s.rule.once => ~s.active
      /\ ~s.rule.once => d.sch.held < s.at
  BY <1>1 DEF AdvanceInv, Listed, HeldBack
<1>5. fire.id = d.id /\ fire.at = d.sch.held /\ fire.decision = "released"
  OBVIOUS
<1> HIDE DEF fire
<1>6. Sure' = Sure \cup {fire} /\ \A f \in Sure : f \in Answered /\ f.id # d.id
  BY <1>1, <1>2, <1>4, <1>5 DEF Sure, NoneOf
<1>7. ASSUME NEW n \in Names \ stale PROVE Ahead(n)'
  <2>1. CASE n = d.id
    <3>1. Ahead(d.id)
      BY <1>2 DEF AdvanceInv
    <3>2. ~s.rule.once => /\ Below(d.id, s.at)
                          /\ \A f \in Answered' : f.id = d.id => f.at < s.at
      BY <1>2, <1>4, <1>5, <3>1 DEF Ahead, NoneOf
    <3> QED
      BY <1>1, <1>2, <1>3, <1>4, <2>1, <3>2 DEF Ahead, Below
  <2>2. CASE n # d.id
    BY <1>1, <1>2, <1>5, <2>2, AheadKept DEF AdvanceInv
  <2> QED
    BY <2>1, <2>2
<1>8. Fires'
  <2>1. \A n \in Names : schedules'[n].overlap = schedules[n].overlap
    BY <1>2, <1>3
  <2>2. ASSUME NEW f \in Sure'
        PROVE  /\ f.at \in Nat /\ Below(f.id, f.at)'
               /\ f.id \notin poll.running \/ schedules'[f.id].overlap = "concurrent"
               /\ f.decision = "released"
    <3>1. CASE f \in Sure
      BY <1>1, <1>2, <1>6, <2>1, <3>1 DEF AdvanceInv, Fires, Below
    <3>2. CASE f = fire
      BY <1>1, <1>4, <1>5, <3>2 DEF Below
    <3> QED
      BY <1>6, <3>1, <3>2
  <2>3. ASSUME NEW f \in Sure', NEW g \in Sure', f.id = g.id PROVE f = g
    <3>1. CASE f \in Sure /\ g \in Sure
      BY <2>2, <2>3, <3>1 DEF AdvanceInv, Fires
    <3>2. CASE f = fire \/ g = fire
      BY <1>5, <1>6, <2>3, <3>2
    <3> QED
      BY <1>6, <3>1, <3>2
  <2>4. \A f, g \in Sure' : f.id = g.id =>
          /\ f.decision = g.decision => f = g
          /\ f.decision = "released" /\ g.decision = "run" => f.at < g.at
    BY <2>2, <2>3
  <2> QED
    BY <1>2, <2>2, <2>4 DEF Fires
<1>9. Listed'
  <2> SUFFICES ASSUME NEW e \in poll.todo, e # d, e.id \notin stale
               PROVE  /\ schedules'[e.id].overlap = e.sch.overlap
                      /\ HeldBack(e)'
                      /\ \A g \in poll.todo : e.id = g.id => e = g
    BY <1>1, <1>2 DEF Listed
  <2>1. /\ e.id \in Names /\ e.id # d.id /\ HeldBack(e)
        /\ schedules[e.id].overlap = e.sch.overlap
        /\ \A g \in poll.todo : e.id = g.id => e = g
    BY <1>1, <1>2 DEF AdvanceInv, Listed
  <2>2. schedules'[e.id] = schedules[e.id]
    BY <1>2, <2>1
  <2>3. NoneOf(e.id) => NoneOf(e.id)'
    BY <1>2, <1>5, <2>1 DEF NoneOf
  <2>4. HeldBack(e)'
    BY <1>1, <1>2, <2>1, <2>2, <2>3 DEF HeldBack, Below
  <2> QED
    BY <2>1, <2>2, <2>4
<1> QED
  BY <1>1, <1>7, <1>8, <1>9 DEF AdvanceInv

LEMMA AdvDecide ==
  ASSUME ScheduleInv, AdvanceInv, NEW d \in poll.todo, Decide(d), poll.phase = "decide",
         d.id \notin stale
  PROVE  AdvanceInv'
<1> DEFINE s == schedules[d.id]
           decision == Decision(d)
           occ == occurrence_of(d.sch, poll.now)
           fire == [id |-> d.id, at |-> occ, decision |-> decision]
<1>1. poll.phase = "decide" /\ UNCHANGED <<given, stale>>
  BY Answering
<1>2. /\ decision \in {"run", "held", "skipped"}
      /\ decision = "run" => d.id \notin poll.running \/ d.sch.overlap = "concurrent"
      /\ decision = "held" => d.id \in poll.running /\ d.sch.overlap = "queue"
  BY <1>1 DEF Decision
<1>3. /\ d.id \in Names /\ s \in Records /\ Sound(s) /\ s.rule = d.sch.rule
      /\ d.sch.rule # Never /\ s.overlap = d.sch.overlap
      /\ schedules'[d.id] = Dispatched(s, poll.now, decision)
      /\ \A n \in Names \ {d.id} : schedules'[n] = schedules[n]
      /\ poll'.phase = "decide" /\ poll'.running = poll.running
      /\ poll'.todo = poll.todo \ {d}
      /\ decision = "run" => Answered' = Answered \cup {fire}
      /\ decision # "run" => Answered' = Answered
      /\ \A f \in Answered : f.id \in Names /\ f.decision \in {"run", "released"}
      /\ \A e \in poll.todo : e.id \in Names
  BY <1>1, <1>2, Answering DEF AdvanceInv, Listed
<1> HIDE DEF decision, occ
<1>4. s.at = d.sch.at /\ s.at <= poll.now /\ poll.now \in Nat
  BY <1>1 DEF ScheduleInv, ScheduleTypeOK, Polls, PollLists, DueCopies
<1>5. occ = occurrence_of(s, poll.now)
  BY <1>3, <1>4 DEF occurrence_of, occ
<1>6. /\ occ \in Nat
      /\ ~s.rule.once => s.at <= occ /\ occ <= poll.now
  BY <1>3, <1>4, <1>5, OccurrenceDue
<1>7. s.rule \in Rules /\ s.at \in Nat
  BY <1>3, Fields DEF Sound
<1>8. /\ schedules'[d.id].rule = s.rule /\ schedules'[d.id].overlap = s.overlap
      /\ schedules'[d.id].held = IF decision = "held" THEN occ ELSE s.held
      /\ schedules'[d.id].active = (s.active /\ ~s.rule.once)
      /\ schedules'[d.id].at = IF s.rule.once THEN s.at ELSE next_on_grid(s.rule, poll.now)
  BY <1>2, <1>3, <1>5 DEF Dispatched, Records
<1>9. ~s.rule.once => /\ schedules'[d.id].at \in Nat
                      /\ s.at < schedules'[d.id].at /\ occ < schedules'[d.id].at
  BY <1>4, <1>6, <1>7, <1>8, NextOnGrid
<1>10. Ahead(d.id)
  BY <1>3 DEF AdvanceInv
<1>11. given[d.id] \in Instants /\ \A f \in Answered : f.id = d.id => f.at \in Nat
  BY <1>3 DEF AdvanceInv, Fires, Sure
<1>12. s.rule.once => given[d.id] = Never /\ NoneOf(d.id)
  BY <1>1, <1>3 DEF AdvanceInv, Listed
<1>13. Below(d.id, occ)
  BY <1>3, <1>6, <1>7, <1>10, <1>11, <1>12 DEF Ahead, Below, Instants
<1>14. fire.id = d.id /\ fire.at = occ /\ fire.decision = decision
  OBVIOUS
<1>15. \A f \in Answered : f.id = d.id =>
         /\ f.decision = "released" /\ f.at < occ
         /\ d.id \notin poll.running \/ s.overlap = "concurrent"
  <2>1. \A f \in Answered : f.id = d.id => f.decision = "released"
    BY <1>1, <1>3 DEF AdvanceInv, Listed
  <2>2. \A f \in Answered : f.id = d.id => f.at < occ
    BY <1>3, <1>6, <1>7, <1>10, <1>11, <1>12 DEF Ahead, NoneOf
  <2>3. \A f \in Answered : f.id = d.id => d.id \notin poll.running \/ s.overlap = "concurrent"
    BY DEF AdvanceInv, Fires, Sure
  <2> QED
    BY <2>1, <2>2, <2>3
<1> HIDE DEF fire
<1>16. ASSUME NEW n \in Names \ stale PROVE Ahead(n)'
  <2>1. CASE n = d.id
    <3>1. ~s.rule.once => /\ Below(d.id, schedules'[d.id].at)
                          /\ \A f \in Answered' : f.id = d.id => f.at < schedules'[d.id].at
      <4> SUFFICES ASSUME ~s.rule.once
                   PROVE  /\ Below(d.id, schedules'[d.id].at)
                          /\ \A f \in Answered' : f.id = d.id => f.at < schedules'[d.id].at
        OBVIOUS
      <4>1. Below(d.id, schedules'[d.id].at)
        BY <1>6, <1>9, <1>11, <1>13 DEF Below, Instants
      <4>2. ASSUME NEW f \in Answered', f.id = d.id PROVE f.at < schedules'[d.id].at
        <5>1. CASE f \in Answered
          BY <1>6, <1>9, <1>11, <1>15, <4>2, <5>1
        <5>2. CASE f = fire
          BY <1>9, <1>14, <5>2
        <5> QED
          BY <1>3, <5>1, <5>2
      <4> QED
        BY <4>1, <4>2
    <3>2. schedules'[d.id].held # Never =>
            /\ Below(d.id, schedules'[d.id].held) /\ NoneOf(d.id)'
            /\ s.overlap # "concurrent" /\ d.id \in poll.running
      <4>1. CASE decision = "held"
        <5>1. d.id \in poll.running /\ s.overlap = "queue" /\ Answered' = Answered
          BY <1>2, <1>3, <4>1
        <5>2. NoneOf(d.id)'
          BY <1>15, <5>1 DEF NoneOf
        <5>3. schedules'[d.id].held = occ
          BY <1>8, <4>1
        <5> QED
          BY <1>13, <5>1, <5>2, <5>3
      <4>2. CASE decision # "held" /\ s.held # Never
        <5>1. /\ Below(d.id, s.held) /\ NoneOf(d.id) /\ s.overlap # "concurrent"
              /\ d.id \in poll.running
          BY <1>1, <1>10, <4>2 DEF Ahead
        <5>2. Answered' = Answered
          BY <1>2, <1>3, <5>1
        <5>3. schedules'[d.id].held = s.held /\ NoneOf(d.id)'
          BY <1>8, <4>2, <5>1, <5>2 DEF NoneOf
        <5> QED
          BY <5>1, <5>3
      <4>3. CASE decision # "held" /\ s.held = Never
        BY <1>8, <4>3
      <4> QED
        BY <4>1, <4>2, <4>3
    <3>3. /\ schedules'[d.id].rule # Never /\ schedules'[d.id].rule = s.rule
          /\ schedules'[d.id].overlap = s.overlap
          /\ s.rule.once => ~schedules'[d.id].active
      BY <1>3, <1>8
    <3> QED
      BY <1>1, <1>3, <2>1, <3>1, <3>2, <3>3 DEF Ahead, Below
  <2>2. CASE n # d.id
    BY <1>1, <1>3, <1>14, <2>2, AheadKept DEF AdvanceInv
  <2> QED
    BY <2>1, <2>2
<1>17. \A n \in Names : schedules'[n].overlap = schedules[n].overlap
  BY <1>3, <1>8
<1>18. /\ decision = "run" => Sure' = Sure \cup {fire}
       /\ decision # "run" => Sure' = Sure
       /\ \A f \in Sure : f \in Answered /\ f.id \in Names
  BY <1>1, <1>3, <1>14 DEF Sure
<1>19. Fires'
  <2>1. ASSUME NEW f \in Sure'
        PROVE  /\ f.at \in Nat /\ Below(f.id, f.at)'
               /\ f.id \notin poll.running \/ schedules'[f.id].overlap = "concurrent"
    <3>1. CASE f \in Sure
      BY <1>1, <1>17, <1>18, <3>1 DEF AdvanceInv, Fires, Below
    <3>2. CASE f = fire /\ decision = "run"
      BY <1>1, <1>2, <1>3, <1>6, <1>8, <1>13, <1>14, <3>2 DEF Below
    <3> QED
      BY <1>18, <3>1, <3>2
  <2>2. ASSUME NEW f \in Sure', NEW g \in Sure', f.id = g.id
        PROVE  /\ f.decision = g.decision => f = g
               /\ f.decision = "released" /\ g.decision = "run" => f.at < g.at
    <3>1. CASE f \in Sure /\ g \in Sure
      BY <2>2, <3>1 DEF AdvanceInv, Fires
    <3>2. CASE f = fire /\ g \in Sure /\ decision = "run"
      BY <1>14, <1>15, <1>18, <2>2, <3>2
    <3>3. CASE f \in Sure /\ g = fire /\ decision = "run"
      BY <1>14, <1>15, <1>18, <2>2, <3>3
    <3>4. CASE f = fire /\ g = fire /\ decision = "run"
      BY <1>14, <3>4
    <3> QED
      BY <1>18, <3>1, <3>2, <3>3, <3>4
  <2> QED
    BY <1>3, <2>1, <2>2 DEF Fires
<1>20. Listed'
  <2> SUFFICES ASSUME NEW e \in poll.todo, e # d, e.id \notin stale
               PROVE  /\ schedules'[e.id].overlap = e.sch.overlap
                      /\ \A f \in Answered' : f.id = e.id => f.decision # "run"
                      /\ e.sch.rule.once => given'[e.id] = Never /\ NoneOf(e.id)'
    BY <1>1, <1>3 DEF Listed
  <2>1. /\ schedules[e.id].overlap = e.sch.overlap
        /\ \A f \in Answered : f.id = e.id => f.decision # "run"
        /\ e.sch.rule.once => given[e.id] = Never /\ NoneOf(e.id)
    BY <1>1 DEF AdvanceInv, Listed
  <2>2. e.id # d.id
    BY <1>1 DEF ScheduleInv, PollLists, OneCopy
  <2>3. \A f \in Answered' : f.id = e.id => f \in Answered
    BY <1>3, <1>14, <2>2
  <2> QED
    BY <1>1, <1>3, <1>17, <2>1, <2>3 DEF NoneOf
<1> QED
  BY <1>1, <1>16, <1>19, <1>20 DEF AdvanceInv

LEMMA AdvNext ==
  ASSUME ScheduleInv, AdvanceInv, [ScheduleNext]_scheduleVars
  PROVE  AdvanceInv'
<1>1. CASE Tick
  BY <1>1, AdvRest DEF Tick
<1>2. CASE Restart
  <2>1. stale \subseteq stale' /\ \A id \in Names \ stale' : schedules'[id] = schedules[id]
    BY <1>2 DEF Restart
  <2> QED
    BY <1>2, <2>1, AdvStop DEF Restart
<1>3. CASE Poll
  BY <1>3, AdvPoll
<1>4. CASE Due
  BY <1>4, AdvDue
<1>5. CASE Give
  BY <1>5, AdvGive
<1>6. ASSUME NEW d \in poll.todo, Decide(d) PROVE AdvanceInv'
  <2>1. poll.phase \in {"release", "decide"}
    BY <1>6 DEF Decide, InTurn
  <2> QED
    BY <1>6, <2>1, AdvStale, AdvRelease, AdvDecide
<1>7. ASSUME NEW d \in poll.todo, Refuse(d) PROVE AdvanceInv'
  BY <1>7, AdvStop DEF Refuse, Unwritable
<1>8. ASSUME NEW c \in Threads, Settle(c) PROVE AdvanceInv'
  BY <1>8, AdvSettle
<1>9. ASSUME NEW c \in Threads, NEW id \in Names, Delete(c, id) PROVE AdvanceInv'
  BY <1>9, AdvRest DEF Delete
<1>10. ASSUME NEW c \in Threads, NEW id \in Names, NEW rule \in Rules,
              NEW overlap \in Overlaps, Create(c, id, rule, overlap)
       PROVE  AdvanceInv'
  BY <1>10, AdvRest DEF Create
<1>11. ASSUME NEW id \in Names, RunEnds(id) PROVE AdvanceInv'
  BY <1>11, AdvRest DEF RunEnds
<1>12. CASE UNCHANGED scheduleVars
  BY <1>12, AdvRest DEF scheduleVars
<1> QED
  BY <1>1, <1>2, <1>3, <1>4, <1>5, <1>6, <1>7, <1>8, <1>9, <1>10, <1>11, <1>12
     DEF ScheduleNext, Deciding, Caller

-----------------------------------------------------------------------------
(* Theorems. *)

(* The schedules, the file, the changes judged and not appended, the poll  *)
(* and its lists always have their types, and what they are between any    *)
(* two steps (ScheduleStore).                                              *)
THEOREM ScheduleInvariant == ScheduleSpec => []ScheduleInv
BY InitInv, NextInv, PTL DEF ScheduleSpec

(* A finished poll leaves nothing due at the instant it was asked about of *)
(* what it found when it looked (poll, fold): for every set of schedules   *)
(* and callers, who judge and append at any time between its decisions,    *)
(* and any restarts and refused writes.                                    *)
THEOREM LeavesNothingDue == ScheduleSpec => []NothingLeftDue
<1>1. ScheduleInv => NothingLeftDue
  <2> SUFFICES ASSUME ScheduleInv, poll.phase = "decide", poll.todo = {},
                      NEW id \in poll.found, schedules[id].active
               PROVE  schedules[id].at > poll.now
    BY DEF NothingLeftDue
  <2>1. id \in Names /\ poll.now \in Nat /\ Sound(schedules[id])
    BY DEF ScheduleInv, ScheduleTypeOK, Polls
  <2>2. ~(schedules[id].at <= poll.now) /\ schedules[id].rule # Never
    BY DEF ScheduleInv, PollLists, NoneMissing, Exists
  <2>3. schedules[id].at \in Nat
    BY <2>1, <2>2 DEF Sound
  <2> QED
    BY <2>1, <2>2, <2>3
<1> QED
  BY <1>1, ScheduleInvariant, PTL

(* A recurrence stays on the grid of its anchor, whatever a restart reads  *)
(* back, and what is held is older than what is due where no restart found *)
(* otherwise (next_on_grid, latest_on_grid, fold): for every anchor,       *)
(* interval and length of the time nobody polled.                          *)
THEOREM RecurrencesStayOnGrid == ScheduleSpec => []StaysOnGrid
<1>1. ScheduleInv => StaysOnGrid
  BY DEF ScheduleInv, Sound, HeldFirst, OnGrid, StaysOnGrid, Exists
<1> QED
  BY <1>1, ScheduleInvariant, PTL

(* No occurrence is run twice, or after a later one of its schedule (poll, *)
(* fold), unless a restart found the schedule otherwise than it was: for   *)
(* any schedules, and over polls that race callers, restarts and refused   *)
(* writes whose lines stay in the file.                                    *)
THEOREM OccurrencesOnlyAdvance == ScheduleSpec => []OccurrencesAdvance
<1>1. ScheduleInv /\ AdvanceInv => OccurrencesAdvance
  <2> SUFFICES ASSUME ScheduleInv, AdvanceInv, NEW f \in Answered, f.id \notin stale
               PROVE  /\ given[f.id] = Never \/ f.at > given[f.id]
                      /\ \A g \in Answered : f.id = g.id /\ f # g => f.at # g.at
    BY DEF OccurrencesAdvance
  <2>1. f.at \in Nat /\ Below(f.id, f.at) /\ f.id \in Names
    BY DEF AdvanceInv, Fires, Sure, ScheduleInv, ScheduleTypeOK, Polls, Answered
  <2>2. given[f.id] \in Instants
    BY <2>1 DEF AdvanceInv
  <2>3. given[f.id] = Never \/ f.at > given[f.id]
    BY <2>1, <2>2 DEF Below, Instants
  <2>4. ASSUME NEW g \in Answered, f.id = g.id, f # g PROVE f.at # g.at
    <3>1. g.at \in Nat /\ f.decision # g.decision
      BY <2>4 DEF AdvanceInv, Fires, Sure
    <3>2. f.decision \in {"run", "released"} /\ g.decision \in {"run", "released"}
      BY DEF Answered
    <3>3. f.at < g.at \/ g.at < f.at
      BY <2>4, <3>1, <3>2 DEF AdvanceInv, Fires, Sure
    <3> QED
      BY <2>1, <3>1, <3>3
  <2> QED
    BY <2>3, <2>4
<1>2. ScheduleInv /\ AdvanceInv /\ [ScheduleNext]_scheduleVars => AdvanceInv'
  BY AdvNext
<1> QED
  BY <1>1, <1>2, AdvInit, ScheduleInvariant, PTL DEF ScheduleSpec

=============================================================================
