--------------------------- MODULE Harness_proofs ---------------------------
EXTENDS AcpBridge, TerminalSession, JsonlJournal, SessionStore, Storage, Registry, OneShot,
        Conversation, Listing_proofs

-----------------------------------------------------------------------------
(***************************************************************************)
(* For any writers, payloads and file length: a journal whose disk reports *)
(* no errors always replays, keeps what its callers were told, and         *)
(* implements the SessionLog seam.                                         *)
(***************************************************************************)
(* The bytes a writer inside the mutex has put in the file so far. *)
FileOf(w) ==
  CASE step[w] = "record" -> file = events /\ tail = None
    [] step[w] = "body"   -> file = events /\ tail = rec[w]
    [] step[w] = "line"   -> file = Append(events, rec[w]) /\ tail = None
    [] OTHER              -> TRUE

InMutex(w) == step[w] \in {"record", "body", "line"}

Durable(r) == r.seq + 1 \in 1 .. synced /\ file[r.seq + 1] = r

(* The inductive invariant.  An event is durable from Commit on, before it *)
(* is told; the mutex is held exactly by the writer whose bytes are in the *)
(* file and not yet in the mirror.                                         *)
IInv ==
  /\ TypeOK
  /\ Replays
  /\ \A w \in Writers : InMutex(w) <=> holder = w
  /\ \A w \in Writers : step[w] # "idle" => open /\ rec[w] \in Records
  /\ \A w \in Writers : InMutex(w) => rec[w].seq = Len(events) /\ FileOf(w)
  /\ \A w \in Writers : step[w] = "emit" => Durable(rec[w])
  /\ open /\ holder = None => file = events /\ tail = None
  /\ \A r \in told : Durable(r)
  /\ ~open => holder = None

LEMMA InitIInv == Init => IInv
<1> SUFFICES ASSUME Init PROVE IInv
  OBVIOUS
<1>1. TypeOK
  <2>1. <<>> \in Seq(Records \cup {Garbled}) /\ <<>> \in Seq(Records) /\ Len(<<>>) = 0
    OBVIOUS
  <2>2. step \in [Writers -> {"idle", "record", "body", "line", "emit"}]
    BY DEF Init
  <2>3. rec \in [Writers -> Records \cup {None}]
    BY DEF Init
  <2>4. synced \in 0 .. Len(file)
    BY <2>1 DEF Init
  <2>5. open \in BOOLEAN
    BY Zenon DEF Init
  <2> QED  BY <2>1, <2>2, <2>3, <2>4, <2>5, Zenon DEF Init, TypeOK
<1>2. Replays
  BY DEF Init, Replays
<1> QED
  BY <1>1, <1>2, ConstantsAssumption DEF Init, IInv, InMutex, FileOf, Durable

LEMMA BeginIInv ==
  ASSUME IInv, NEW w \in Writers, NEW e \in Payloads, Begin(w, e)
  PROVE  IInv'
<1>1. [seq |-> Len(events), ev |-> e] \in Records
  BY DEF IInv, TypeOK, Records
<1> QED
  BY <1>1, ConstantsAssumption
     DEF IInv, TypeOK, Begin, Replays, InMutex, FileOf, Durable

LEMMA WriteBodyIInv ==
  ASSUME IInv, NEW w \in Writers, WriteBody(w)
  PROVE  IInv'
<1>1. tail = None /\ rec[w] \in Records /\ InMutex(w) /\ holder = w
  BY DEF IInv, WriteBody, InMutex, FileOf
<1> QED
  BY <1>1, ConstantsAssumption, MarkersAssumption
     DEF IInv, TypeOK, WriteBody, Replays, InMutex, FileOf, Durable

LEMMA WriteNewlineIInv ==
  ASSUME IInv, NEW w \in Writers, WriteNewline(w)
  PROVE  IInv'
<1>1. /\ tail = rec[w] /\ rec[w] \in Records /\ holder = w
      /\ file = events /\ rec[w].seq = Len(file)
  BY DEF IInv, WriteNewline, InMutex, FileOf
<1>2. file' = Append(file, rec[w]) /\ Len(file') = Len(file) + 1
  BY <1>1 DEF WriteNewline, IInv, TypeOK
<1>3. \A i \in 1 .. Len(file) : file'[i] = file[i]
  BY <1>2 DEF IInv, TypeOK
<1>4. file'[Len(file) + 1] = rec[w]
  BY <1>2 DEF IInv, TypeOK
<1>5. TypeOK'
  BY <1>1, <1>2 DEF IInv, TypeOK, WriteNewline
<1>6. Replays'
  BY <1>1, <1>2, <1>3, <1>4, MarkersAssumption DEF IInv, TypeOK, Replays, Records
<1>7. \A r \in Records : Durable(r) => Durable(r)'
  BY <1>3 DEF Durable, IInv, TypeOK, WriteNewline
<1> QED
  BY <1>1, <1>2, <1>5, <1>6, <1>7, ConstantsAssumption
     DEF IInv, TypeOK, WriteNewline, InMutex, FileOf

LEMMA CommitIInv ==
  ASSUME IInv, NEW w \in Writers, Commit(w)
  PROVE  IInv'
<1>1. /\ rec[w] \in Records /\ rec[w].seq = Len(events) /\ tail = None
      /\ file = Append(events, rec[w]) /\ holder = w /\ open
  BY DEF IInv, Commit, InMutex, FileOf
<1>2. Len(file) = Len(events) + 1 /\ file[Len(events) + 1] = rec[w]
  BY <1>1 DEF IInv, TypeOK
<1>3. TypeOK'
  BY <1>1 DEF IInv, TypeOK, Commit
<1>4. \A r \in Records : Durable(r) => Durable(r)'
  BY <1>2 DEF Durable, IInv, TypeOK, Commit
<1>5. Durable(rec[w])'
  BY <1>1, <1>2 DEF Durable, IInv, TypeOK, Commit
<1> QED
  BY <1>1, <1>3, <1>4, <1>5, ConstantsAssumption
     DEF IInv, TypeOK, Commit, Replays, InMutex, FileOf

LEMMA PublishIInv ==
  ASSUME IInv, NEW w \in Writers, Publish(w)
  PROVE  IInv'
  BY ConstantsAssumption
     DEF IInv, TypeOK, Publish, Replays, InMutex, FileOf, Durable

(* Neither end of a process touches a synced line. *)
LEMMA StopIInv ==
  ASSUME IInv, Kill \/ PowerLoss
  PROVE  IInv'
<1>1. /\ file' \in Seq(Records \cup {Garbled})
      /\ Len(file') \in Nat /\ synced' \in 0 .. Len(file')
      /\ synced <= synced' /\ Len(file') <= Len(file)
      /\ \A i \in 1 .. Len(file') : file'[i] = file[i]
      /\ tail' \in Records \cup {Garbled, None}
  <2>1. CASE Kill
    BY <2>1 DEF Kill, IInv, TypeOK
  <2>2. CASE PowerLoss
    <3>1. PICK bytes \in synced .. Len(file) :
            /\ file' = SubSeq(file, 1, bytes) /\ synced' = bytes
            /\ tail' \in IF bytes < Len(file) THEN {None, Garbled, file[bytes + 1]}
                         ELSE IF tail # None \/ MidRecord THEN {None, Garbled, tail}
                         ELSE {None}
      BY <2>2 DEF PowerLoss
    <3>2. bytes \in Nat /\ bytes <= Len(file) /\ synced <= bytes
      BY <3>1 DEF IInv, TypeOK
    <3>3. /\ file' \in Seq(Records \cup {Garbled}) /\ Len(file') = bytes
          /\ \A i \in 1 .. bytes : file'[i] = file[i]
      BY <3>1, <3>2 DEF IInv, TypeOK
    <3>4. bytes < Len(file) => file[bytes + 1] \in Records \cup {Garbled}
      BY <3>2 DEF IInv, TypeOK
    <3>5. tail' \in Records \cup {Garbled, None}
      BY <3>1, <3>4 DEF IInv, TypeOK
    <3> QED  BY <3>1, <3>2, <3>3, <3>5 DEF IInv, TypeOK
  <2> QED  BY <2>1, <2>2
<1>2. /\ open' = FALSE /\ events' = <<>> /\ holder' = None
      /\ step' = [v \in Writers |-> "idle"] /\ rec' = rec /\ told' = told
  BY DEF Kill, PowerLoss, Stop
<1>3. TypeOK'
  <2>1. <<>> \in Seq(Records)
    OBVIOUS
  <2>2. [v \in Writers |-> "idle"] \in [Writers -> {"idle", "record", "body", "line", "emit"}]
    OBVIOUS
  <2> QED  BY <1>1, <1>2, <2>1, <2>2 DEF IInv, TypeOK
<1>4. Replays'
  <2>1. DOMAIN file' = 1 .. Len(file') /\ DOMAIN file = 1 .. Len(file)
    BY <1>1 DEF IInv, TypeOK
  <2>2. \A i \in DOMAIN file' : i \in DOMAIN file /\ file'[i] = file[i]
    BY <1>1, <2>1 DEF IInv, TypeOK
  <2> QED  BY <2>2 DEF IInv, Replays
<1>5. \A r \in told : Durable(r)'
  BY <1>1 DEF IInv, TypeOK, Durable
<1> QED
  BY <1>2, <1>3, <1>4, <1>5, ConstantsAssumption DEF IInv, InMutex, FileOf

LEMMA OpenIInv ==
  ASSUME IInv, Open
  PROVE  IInv'
<1>1. file \in Seq(Records)
  BY DEF IInv, TypeOK, Open, Replays
<1>2. \A w \in Writers : step[w] = "idle"
  BY DEF IInv, Open, Adopt
<1> QED
  BY <1>1, <1>2, ConstantsAssumption
     DEF IInv, TypeOK, Open, Adopt, Replays, InMutex, FileOf, Durable

LEMMA NextIInv ==
  ASSUME IInv, [Next]_vars
  PROVE  IInv'
<1>1. CASE UNCHANGED vars
  BY <1>1 DEF vars, IInv, TypeOK, Replays, InMutex, FileOf, Durable
<1>2. ASSUME NEW w \in Writers, NEW e \in Payloads, Begin(w, e)
      PROVE  IInv'
  BY <1>2, BeginIInv
<1>3. ASSUME NEW w \in Writers, WriteBody(w) \/ WriteNewline(w) \/ Commit(w) \/ Publish(w)
      PROVE  IInv'
  BY <1>3, WriteBodyIInv, WriteNewlineIInv, CommitIInv, PublishIInv
<1>4. CASE Kill \/ PowerLoss \/ Open
  BY <1>4, StopIInv, OpenIInv
<1> QED
  BY <1>1, <1>2, <1>3, <1>4 DEF Next

(* Whatever the writers do and however the process ends, every variable    *)
(* keeps its type (lib.rs, JsonlSessionLog::write and create).             *)
THEOREM TypeCorrect == Spec => []TypeOK
<1>1. IInv /\ [Next]_vars => IInv'
  BY NextIInv
<1>2. IInv => TypeOK
  BY DEF IInv
<1> QED  BY InitIInv, <1>1, <1>2, PTL DEF Spec

(* An event a caller was told about is on stable storage under its seq.    *)
THEOREM ToldDurable == Spec => []ToldIsDurable
<1>1. IInv /\ [Next]_vars => IInv'
  BY NextIInv
<1>2. IInv => ToldIsDurable
  BY DEF IInv, TypeOK, ToldIsDurable, Durable, Records
<1> QED  BY InitIInv, <1>1, <1>2, PTL DEF Spec

(* Replay never refuses what appends, kills and power losses leave.        *)
THEOREM Replayable == Spec => []AlwaysReplays
<1>1. IInv /\ [Next]_vars => IInv'
  BY NextIInv
<1>2. IInv => AlwaysReplays
  BY DEF IInv, AlwaysReplays
<1> QED  BY InitIInv, <1>1, <1>2, PTL DEF Spec

-----------------------------------------------------------------------------
(* The step simulation behind the refinement: the lines of the file are    *)
(* the abstract log.                                                       *)
Lines == [i \in DOMAIN file |-> file[i].ev]
Acks == {r.seq + 1 : r \in told}

LEMMA StepImplements ==
  ASSUME IInv, IInv', [Next]_vars
  PROVE  [Log!Next]_(Log!vars)
<1> DEFINE Same == Lines' = Lines /\ Acks' = Acks
<1>0. Same => [Log!Next]_(Log!vars)
  BY DEF Log!vars, Lines, Acks
<1>1. CASE UNCHANGED vars
  BY <1>0, <1>1 DEF vars, Lines, Acks
<1>2. ASSUME NEW w \in Writers, NEW e \in Payloads, Begin(w, e)
      PROVE  Same
  BY <1>2 DEF Begin, Lines, Acks
<1>3. ASSUME NEW w \in Writers, WriteBody(w) \/ Commit(w)
      PROVE  Same
  BY <1>3 DEF WriteBody, Commit, Lines, Acks
<1>4. ASSUME NEW w \in Writers, WriteNewline(w)
      PROVE  Log!Next
  <2>1. tail \in Records /\ tail.ev \in Payloads /\ file \in Seq(Records \cup {Garbled})
    BY <1>4 DEF IInv, TypeOK, WriteNewline, InMutex, FileOf, Records
  <2>2. file' = Append(file, tail) /\ Acks' = Acks
    BY <1>4 DEF WriteNewline, Acks
  <2>3. Lines' = Append(Lines, tail.ev)
    BY <2>1, <2>2 DEF Lines
  <2>4. Log!Record(tail.ev)
    BY <2>2, <2>3 DEF Log!Record, Lines, Acks
  <2>5. \E e \in Payloads : Log!Record(e)
    BY <2>1, <2>4 DEF Log!Record
  <2> QED  BY <2>5 DEF Log!Next
<1>5. ASSUME NEW w \in Writers, Publish(w)
      PROVE  Log!Next
  <2>1. Durable(rec[w]) /\ rec[w].seq + 1 \in DOMAIN Lines
    BY <1>5 DEF IInv, TypeOK, Publish, Durable, Lines
  <2>2. told' = told \cup {rec[w]} /\ Lines' = Lines
    BY <1>5 DEF Publish, Lines
  <2>3. Acks' = Acks \cup {rec[w].seq + 1}
    BY <2>2 DEF Acks
  <2>4. Log!Acknowledge(rec[w].seq + 1)
    BY <2>2, <2>3 DEF Log!Acknowledge, Lines, Acks
  <2>5. \E i \in DOMAIN Lines : Log!Acknowledge(i)
    BY <2>1, <2>4 DEF Log!Acknowledge
  <2> QED  BY <2>5 DEF Log!Next, Lines
<1>6. CASE Kill \/ Open
  BY <1>0, <1>6 DEF Kill, Stop, Open, Adopt, Lines, Acks
<1>7. CASE PowerLoss
  <2>1. PICK bytes \in synced .. Len(file) : file' = SubSeq(file, 1, bytes)
    BY <1>7 DEF PowerLoss
  <2>2. bytes \in Nat /\ bytes <= Len(file) /\ synced <= bytes /\ Len(Lines) = Len(file)
    BY <2>1 DEF IInv, TypeOK, Lines
  <2>3. Acks \subseteq 1 .. bytes
    BY <2>2 DEF IInv, TypeOK, Durable, Acks
  <2>4. Lines' = SubSeq(Lines, 1, bytes)
    BY <2>1, <2>2 DEF Lines, IInv, TypeOK
  <2>5. Acks' = Acks
    BY <1>7 DEF PowerLoss, Stop, Acks
  <2>6. Log!Lose(bytes)
    BY <2>3, <2>4, <2>5 DEF Log!Lose, Lines, Acks
  <2> QED  BY <2>2, <2>6 DEF Log!Next, Lines
<1> QED
  BY <1>0, <1>1, <1>2, <1>3, <1>4, <1>5, <1>6, <1>7 DEF Next

(* The JSONL provider implements the seam every other component is written *)
(* against: append grows the log, a crash takes back only what nobody was  *)
(* told (lib.rs, write, create, scan).                                     *)
THEOREM ImplementsSeam == Spec => LogSpec
<1>1. Init => Log!Init
  BY DEF Init, Log!Init
<1>2. IInv /\ [Next]_vars => IInv'
  BY NextIInv
<1>3. IInv /\ IInv' /\ [Next]_vars => [Log!Next]_(Log!vars)
  BY StepImplements
<1> QED  BY InitIInv, <1>1, <1>2, <1>3, PTL DEF Spec, LogSpec, Log!Spec

-----------------------------------------------------------------------------
(* A disk that fails.  The mirror and the file part, so that an event may  *)
(* be written twice or never; what stays true is that a committed line is  *)
(* the event or a line no open accepts.                                    *)
Covered(r) == \E i \in 1 .. synced : file[i] \in {r, Garbled}

EndsFile(r) == Len(file) > 0 /\ file[Len(file)] \in {r, Garbled}

FInv ==
  /\ TypeOK
  /\ \A w \in Writers : InMutex(w) => holder = w
  /\ \A w \in Writers : step[w] # "idle" => open /\ rec[w] \in Records
  /\ \A w \in Writers : step[w] = "body" => tail \in {rec[w], Garbled}
  /\ \A w \in Writers : step[w] = "line" => EndsFile(rec[w])
  /\ \A w \in Writers : step[w] = "emit" => Covered(rec[w])
  /\ \A r \in told : Covered(r)

LEMMA InitFInv == Init => FInv
<1>1. Init => TypeOK
  BY InitIInv DEF IInv
<1> QED
  BY <1>1 DEF Init, FInv, InMutex

(* The steps that leave the whole lines alone. *)
LEMMA AppendFInv ==
  ASSUME FInv, NEW w \in Writers,
         \/ \E e \in Payloads : Begin(w, e)
         \/ WriteBody(w) \/ Publish(w) \/ Fail(w)
  PROVE  FInv'
<1>1. ASSUME NEW e \in Payloads, Begin(w, e) PROVE FInv'
  <2>1. [seq |-> Len(events), ev |-> e] \in Records
    BY DEF FInv, TypeOK, Records
  <2> QED
    BY <1>1, <2>1, ConstantsAssumption
       DEF FInv, TypeOK, Begin, InMutex, Covered, EndsFile
<1>2. CASE WriteBody(w)
  BY <1>2, ConstantsAssumption DEF FInv, TypeOK, WriteBody, InMutex, Covered, EndsFile
<1>3. CASE Publish(w)
  BY <1>3, ConstantsAssumption DEF FInv, TypeOK, Publish, InMutex, Covered, EndsFile
<1>4. CASE Fail(w)
  <2>1. InMutex(w) /\ holder = w
    BY <1>4 DEF FInv, Fail, InMutex
  <2>2. tail' \in Records \cup {Garbled, None}
    BY <1>4 DEF FInv, TypeOK, Fail
  <2>3. TypeOK'
    BY <1>4, <2>2 DEF FInv, TypeOK, Fail
  <2>4. \A v \in Writers : step'[v] # "body" /\ step'[v] # "line" /\ step'[v] # "record"
    BY <1>4, <2>1, ConstantsAssumption DEF FInv, TypeOK, Fail, InMutex
  <2> QED
    BY <1>4, <2>3, <2>4 DEF FInv, TypeOK, Fail, InMutex, Covered
<1> QED
  BY <1>1, <1>2, <1>3, <1>4

(* What was covered stays covered while the lines only grow. *)
LEMMA LineFInv ==
  ASSUME FInv, NEW w \in Writers, WriteNewline(w) \/ Commit(w)
  PROVE  FInv'
<1>1. CASE WriteNewline(w)
  <2>1. /\ tail \in {rec[w], Garbled} /\ rec[w] \in Records /\ holder = w
        /\ file \in Seq(Records \cup {Garbled})
    BY <1>1 DEF FInv, TypeOK, WriteNewline, InMutex
  <2>2. /\ file' = Append(file, tail) /\ Len(file') = Len(file) + 1
        /\ file'[Len(file')] = tail
        /\ \A i \in 1 .. Len(file) : file'[i] = file[i]
    BY <1>1, <2>1 DEF WriteNewline
  <2>3. TypeOK'
    BY <1>1, <2>1, <2>2 DEF FInv, TypeOK, WriteNewline
  <2>4. synced' = synced /\ \A i \in 1 .. synced : file'[i] = file[i]
    BY <1>1, <2>2 DEF FInv, TypeOK, WriteNewline
  <2>5. \A r : Covered(r) => Covered(r)'
    BY <2>4 DEF Covered
  <2>6. EndsFile(rec[w])'
    BY <1>1, <2>1, <2>2 DEF EndsFile, WriteNewline
  <2> QED
    BY <1>1, <2>1, <2>3, <2>5, <2>6, ConstantsAssumption
       DEF FInv, TypeOK, WriteNewline, InMutex
<1>2. CASE Commit(w)
  <2>1. EndsFile(rec[w]) /\ rec[w] \in Records /\ holder = w /\ InMutex(w)
    BY <1>2 DEF FInv, Commit, InMutex
  <2>2. TypeOK'
    BY <1>2, <2>1 DEF FInv, TypeOK, Commit
  <2>3. synced' = Len(file) /\ synced <= Len(file) /\ synced \in Nat /\ file' = file /\ Len(file) \in Nat
    BY <1>2 DEF FInv, TypeOK, Commit
  <2>4. \A r : Covered(r) => Covered(r)'
    BY <2>3 DEF Covered
  <2>5. Covered(rec[w])'
    BY <1>2, <2>1, <2>3 DEF Covered, EndsFile, Commit
  <2>6. \A v \in Writers : v # w => step'[v] = step[v] /\ ~InMutex(v)
    BY <1>2, <2>1 DEF FInv, TypeOK, Commit
  <2>7. step'[w] = "emit" /\ rec' = rec /\ told' = told /\ open' = open
    BY <1>2 DEF FInv, TypeOK, Commit
  <2> QED
    BY <2>1, <2>2, <2>4, <2>5, <2>6, <2>7 DEF FInv, InMutex
<1> QED
  BY <1>1, <1>2

(* No end of a process, and no open, touches a synced line. *)
LEMMA EndFInv ==
  ASSUME FInv, Kill \/ PowerLoss \/ Open
  PROVE  FInv'
<1>1. /\ \A w \in Writers : step'[w] = "idle"
      /\ told' = told /\ rec' = rec
  BY DEF FInv, TypeOK, Kill, PowerLoss, Stop, Open, Adopt
<1>2. /\ TypeOK' /\ synced' \in Nat /\ synced <= synced'
      /\ \A i \in 1 .. synced : file'[i] = file[i]
  <2>1. CASE Kill
    <3>1. tail' \in Records \cup {Garbled, None} /\ file' = file /\ synced' = synced
      BY <2>1 DEF Kill, FInv, TypeOK
    <3>2. <<>> \in Seq(Records) /\ step' \in [Writers -> {"idle", "record", "body", "line", "emit"}]
      BY <2>1 DEF Kill, Stop
    <3>3. open' \in BOOLEAN /\ events' \in Seq(Records) /\ holder' \in Writers \cup {None}
      BY <2>1, <3>2 DEF Kill, Stop
    <3> QED
      BY <1>1, <3>1, <3>2, <3>3 DEF FInv, TypeOK
  <2>2. CASE PowerLoss
    <3>1. PICK bytes \in synced .. Len(file) :
            /\ file' = SubSeq(file, 1, bytes) /\ synced' = bytes
            /\ tail' \in IF bytes < Len(file) THEN {None, Garbled, file[bytes + 1]}
                         ELSE IF tail # None \/ MidRecord THEN {None, Garbled, tail}
                         ELSE {None}
      BY <2>2 DEF PowerLoss
    <3>2. bytes \in Nat /\ bytes <= Len(file) /\ synced <= bytes /\ synced \in Nat
      BY <3>1 DEF FInv, TypeOK
    <3>3. /\ file' \in Seq(Records \cup {Garbled}) /\ Len(file') = bytes
          /\ \A i \in 1 .. bytes : file'[i] = file[i]
      BY <3>1, <3>2 DEF FInv, TypeOK
    <3>4. bytes < Len(file) => file[bytes + 1] \in Records \cup {Garbled}
      BY <3>2 DEF FInv, TypeOK
    <3>5. tail' \in Records \cup {Garbled, None}
      BY <3>1, <3>4 DEF FInv, TypeOK
    <3>6. <<>> \in Seq(Records) /\ step' \in [Writers -> {"idle", "record", "body", "line", "emit"}]
      BY <2>2 DEF PowerLoss, Stop
    <3>7. open' \in BOOLEAN /\ events' \in Seq(Records) /\ holder' \in Writers \cup {None}
      BY <2>2, <3>6 DEF PowerLoss, Stop
    <3> QED
      BY <1>1, <3>1, <3>2, <3>3, <3>5, <3>6, <3>7 DEF FInv, TypeOK
  <2>3. CASE Open
    <3>1. file \in Seq(Records)
      BY <2>3 DEF FInv, TypeOK, Open
    <3> QED
      BY <2>3, <3>1 DEF FInv, TypeOK, Open, Adopt
  <2> QED  BY <2>1, <2>2, <2>3
<1>3. \A r : Covered(r) => Covered(r)'
  <2>1. synced \in Nat
    BY DEF FInv, TypeOK
  <2> QED  BY <1>2, <2>1 DEF Covered
<1> QED
  BY <1>1, <1>2, <1>3 DEF FInv, InMutex

LEMMA FaultyNextFInv ==
  ASSUME FInv, [FaultyNext]_vars
  PROVE  FInv'
<1>1. CASE UNCHANGED vars
  BY <1>1 DEF vars, FInv, TypeOK, InMutex, Covered, EndsFile
<1>2. ASSUME NEW w \in Writers,
             \/ \E e \in Payloads : Begin(w, e)
             \/ WriteBody(w) \/ Publish(w) \/ Fail(w)
      PROVE  FInv'
  BY <1>2, AppendFInv
<1>3. ASSUME NEW w \in Writers, WriteNewline(w) \/ Commit(w)
      PROVE  FInv'
  BY <1>3, LineFInv
<1>4. CASE Kill \/ PowerLoss \/ Open
  BY <1>4, EndFInv
<1> QED
  BY <1>1, <1>2, <1>3, <1>4 DEF FaultyNext, Next

(* Even on a disk that fails, what a caller was told about never just      *)
(* disappears: its line is there, or one that makes every open refuse the  *)
(* journal (lib.rs, write, scan).                                          *)
THEOREM NeverJustGone == FaultySpec => []NeverSilentlyLost
<1>1. FInv /\ [FaultyNext]_vars => FInv'
  BY FaultyNextFInv
<1>2. FInv => NeverSilentlyLost
  BY DEF FInv, Covered, NeverSilentlyLost
<1> QED  BY InitFInv, <1>1, <1>2, PTL DEF FaultySpec

-----------------------------------------------------------------------------
(***************************************************************************)
(* Whatever the plugins declare and whichever of them cannot unmount, what *)
(* runs stands on what runs, and an order is refused only where there is   *)
(* none.                                                                   *)
(*                                                                         *)
(* The invariant says what the walk knows: the path leads from each id to  *)
(* a dependency of it, what the walk has looked at below an id is done or  *)
(* next on the path, and the order has every id after its dependencies.    *)
(***************************************************************************)
(* No id twice, and each after all its dependencies. *)
InDependencyOrder(o) ==
  /\ \A i, j \in 1 .. Len(o) : o[i] = o[j] => i = j
  /\ \A i \in 1 .. Len(o) : \A d \in deps[o[i]] : \E j \in 1 .. i - 1 : o[j] = d

(* The marks of the walk are its path and its order. *)
Marked ==
  /\ \A p \in Plugins : state[p] = "done" => \E i \in 1 .. Len(order) : order[i] = p
  /\ \A i \in 1 .. Len(order) : state[order[i]] = "done"
  /\ \A p \in Plugins : state[p] = "visiting" => \E i \in 1 .. Len(path) : path[i] = p
  /\ \A i \in 1 .. Len(path) : state[path[i]] = "visiting"
  /\ \A p \in plugins \ todo : state[p] # "unseen"

PathFollowsDeps ==
  /\ \A i, j \in 1 .. Len(path) : path[i] = path[j] => i = j
  /\ \A i \in 1 .. Len(path) - 1 : path[i + 1] \in deps[path[i]]

LookedAt ==
  \A i \in 1 .. Len(path) :
    /\ left[path[i]] \subseteq deps[path[i]]
    /\ \A d \in deps[path[i]] \ left[path[i]] :
         \/ d \in Plugins /\ state[d] = "done"
         \/ i < Len(path) /\ d = path[i + 1]

Walking == pass = "walk" =>
  /\ Marked /\ PathFollowsDeps /\ LookedAt
  /\ n = 0 /\ (goal = "start" => mounted = {})

AtRest ==
  /\ pass # "walk" => path = <<>> /\ todo = {} /\ state = Unseen /\ left = NoneLeft
  /\ pass = "idle" => order = <<>> /\ n = 0
  /\ pass # "idle" => answer = "none"
  /\ (pass \in {"start", "undo"} => goal = "start") /\ (pass = "stop" => goal = "stop")

(* What runs when the passes go along the order. *)
Along ==
  /\ pass = "start" => faults = {}
  /\ pass \in {"start", "undo"} => Running = {order[i] : i \in 1 .. n}
  /\ pass = "stop" => Running \subseteq {order[i] : i \in 1 .. n}

RegistryInv ==
  /\ RegistryTypeOK /\ Walking /\ AtRest /\ Along
  /\ InDependencyOrder(order) /\ DependenciesUp /\ RefusesOnlyBroken

-----------------------------------------------------------------------------
(* Sequences that grow and shrink at their end. *)

LEMMA Grown ==
  ASSUME NEW S, NEW s \in Seq(S), NEW e \in S
  PROVE  /\ Append(s, e) \in Seq(S)
         /\ Len(Append(s, e)) = Len(s) + 1
         /\ \A i \in 1 .. Len(s) : Append(s, e)[i] = s[i]
         /\ Append(s, e)[Len(s) + 1] = e
BY AppendProperties

LEMMA Shrunk ==
  ASSUME NEW S, NEW s \in Seq(S), s # <<>>
  PROVE  /\ SubSeq(s, 1, Len(s) - 1) \in Seq(S)
         /\ Len(SubSeq(s, 1, Len(s) - 1)) = Len(s) - 1
         /\ \A i \in 1 .. Len(s) - 1 : SubSeq(s, 1, Len(s) - 1)[i] = s[i]
         /\ Len(s) \in Nat \ {0} /\ s[Len(s)] \in S
<1>1. Len(s) \in Nat \ {0} /\ s[Len(s)] \in S
  BY EmptySeq, LenProperties, ElementOfSeq
<1>2. /\ SubSeq(s, 1, Len(s) - 1) \in Seq(S)
      /\ Len(SubSeq(s, 1, Len(s) - 1)) = Len(s) - 1
      /\ \A i \in 1 .. Len(s) - 1 : SubSeq(s, 1, Len(s) - 1)[i] = s[i]
  BY <1>1, SubSeqProperties
<1> QED  BY <1>1, <1>2

-----------------------------------------------------------------------------
(* The walk. *)

LEMMA VisitKeeps ==
  ASSUME RegistryInv, NEW p \in Plugins, NextRoot(p)
  PROVE  RegistryInv'
<1> USE DEF RegistryInv, Running
<1>0. p \in plugins /\ path = <<>> /\ pass = "walk" /\ RegistryTypeOK
  BY DEF NextRoot, RegistryTypeOK
<1>1. CASE state[p] = "done"
  <2>1. UNCHANGED <<deps, plugins, pass, goal, state, left, path, order, n, mounted, faults, answer>>
        /\ todo' = todo \ {p}
    BY <1>1 DEF NextRoot, Visit
  <2> QED
    BY <2>1, <1>0, <1>1 DEF RegistryTypeOK, Walking, AtRest, Along, InDependencyOrder,
      DependenciesUp, RefusesOnlyBroken, Marked, PathFollowsDeps, LookedAt
<1>2. CASE state[p] = "unseen" /\ Visit(p)
  <2>1. /\ path' = <<p>> /\ Len(path') = 1 /\ path'[1] = p /\ path' \in Seq(plugins)
        /\ state' = [state EXCEPT ![p] = "visiting"]
        /\ left' = [left EXCEPT ![p] = deps[p]] /\ todo' = todo \ {p}
        /\ UNCHANGED <<deps, plugins, pass, goal, order, n, mounted, faults, answer>>
    BY <1>0, <1>2 DEF NextRoot, Visit
  <2>2. RegistryTypeOK'
    BY <2>1, <1>0 DEF RegistryTypeOK
  <2>3. Marked'
    BY <2>1, <1>0, <1>2 DEF RegistryTypeOK, Walking, Marked
  <2>4. PathFollowsDeps' /\ LookedAt'
    BY <2>1, <1>0 DEF RegistryTypeOK, PathFollowsDeps, LookedAt
  <2> QED
    BY <2>1, <2>2, <2>3, <2>4, <1>0 DEF Walking, AtRest, Along, InDependencyOrder,
      DependenciesUp, RefusesOnlyBroken
<1> QED  BY <1>1, <1>2 DEF NextRoot

LEMMA DepKeeps ==
  ASSUME RegistryInv, NEW d \in Ids, Dep(d)
  PROVE  RegistryInv'
<1> USE DEF RegistryInv, Running
<1>0. /\ pass = "walk" /\ path # <<>> /\ path \in Seq(plugins) /\ RegistryTypeOK
      /\ Marked /\ PathFollowsDeps /\ LookedAt
  BY DEF Dep, RegistryTypeOK, Walking
<1>1. Len(path) \in Nat \ {0} /\ Top \in plugins /\ d \in left[Top] /\ d \in plugins
  BY <1>0, Shrunk DEF Dep, Top
<1>2. CASE state[d] = "done" /\ left' = [left EXCEPT ![Top] = @ \ {d}] /\ UNCHANGED <<state, path>>
  <2>1. /\ UNCHANGED <<deps, plugins, pass, goal, todo, state, path, order, n, mounted, faults, answer>>
        /\ left' = [left EXCEPT ![Top] = @ \ {d}]
    BY <1>2 DEF Dep
  <2>2. RegistryTypeOK'
    BY <2>1, <1>0, <1>1 DEF RegistryTypeOK
  <2>3. LookedAt'
    BY <2>1, <1>0, <1>1, <1>2 DEF LookedAt, RegistryTypeOK
  <2> QED
    BY <2>1, <2>2, <2>3, <1>0 DEF Walking, AtRest, Along, InDependencyOrder,
      DependenciesUp, RefusesOnlyBroken, Marked, PathFollowsDeps
<1>3. CASE state[d] = "unseen" /\ DepVisited(d)
  <2>1. /\ path' = Append(path, d) /\ state' = [state EXCEPT ![d] = "visiting"]
        /\ left' = [left EXCEPT ![Top] = @ \ {d}, ![d] = deps[d]]
        /\ UNCHANGED <<deps, plugins, pass, goal, todo, order, n, mounted, faults, answer>>
    BY <1>3 DEF Dep, DepVisited
  <2>2. /\ path' \in Seq(plugins) /\ Len(path') = Len(path) + 1
        /\ \A i \in 1 .. Len(path) : path'[i] = path[i]
        /\ path'[Len(path) + 1] = d
    BY <2>1, <1>0, <1>1, Grown
  <2>3. \A i \in 1 .. Len(path) : path[i] # d /\ path[i] \in plugins
    BY <1>0, <1>3, ElementOfSeq DEF Marked
  <2>4. d # Top /\ d \in deps[Top]
    BY <2>3, <1>0, <1>1 DEF Top, LookedAt
  <2>5. RegistryTypeOK'
    BY <2>1, <2>2, <1>0, <1>1 DEF RegistryTypeOK
  <2>6. Marked'
    BY <2>1, <2>2, <1>0, <1>1, <1>3 DEF RegistryTypeOK, Marked
  <2>7. PathFollowsDeps'
    <3> DEFINE q == path'
    <3>1. \A i, j \in 1 .. Len(path) + 1 : q[i] = q[j] => i = j
      BY <2>2, <2>3, <1>0, <1>1 DEF PathFollowsDeps
    <3>2. \A i \in 1 .. Len(path) : q[i + 1] \in deps[q[i]]
      <4> TAKE i \in 1 .. Len(path)
      <4>1. CASE i = Len(path)
        BY <4>1, <2>2, <2>4, <1>1 DEF Top
      <4>2. CASE i < Len(path)
        BY <4>2, <2>2, <1>0, <1>1 DEF PathFollowsDeps
      <4> QED  BY <4>1, <4>2, <1>1
    <3>3. Len(q) = Len(path) + 1 /\ deps' = deps
      BY <2>1, <2>2
    <3> HIDE DEF q
    <3>4. /\ \A i, j \in 1 .. Len(q) : q[i] = q[j] => i = j
          /\ \A i \in 1 .. Len(q) - 1 : q[i + 1] \in deps[q[i]]
      BY <3>1, <3>2, <3>3, <1>1
    <3> QED  BY <3>3, <3>4 DEF PathFollowsDeps, q
  <2>8. LookedAt'
    <3> DEFINE Seen(i) ==
          /\ left'[path'[i]] \subseteq deps[path'[i]]
          /\ \A c \in deps[path'[i]] \ left'[path'[i]] :
               \/ c \in Plugins /\ state'[c] = "done"
               \/ i < Len(path) + 1 /\ c = path'[i + 1]
    <3>0. ASSUME NEW i \in 1 .. Len(path) + 1  PROVE Seen(i)
      <4>1. CASE i = Len(path) + 1
        BY <4>1, <2>1, <2>2, <2>4, <1>0, <1>1 DEF RegistryTypeOK
      <4>2. CASE i = Len(path)
        <5>1. path'[i] = Top /\ path'[i + 1] = d /\ left'[Top] = left[Top] \ {d}
          BY <4>2, <2>1, <2>2, <2>4, <1>0, <1>1 DEF RegistryTypeOK, Top
        <5> QED
          BY <5>1, <4>2, <2>1, <1>0, <1>1, <1>3 DEF RegistryTypeOK, LookedAt, Top
      <4>3. CASE i < Len(path)
        <5>1. path'[i] = path[i] /\ path'[i + 1] = path[i + 1] /\ path[i] # Top /\ path[i] # d
          BY <4>3, <2>2, <2>3, <1>0, <1>1 DEF PathFollowsDeps, Top
        <5>2. left'[path[i]] = left[path[i]]
          BY <5>1, <2>1, <2>3, <1>0, <4>3 DEF RegistryTypeOK
        <5> QED
          BY <5>1, <5>2, <4>3, <2>1, <1>0, <1>1, <1>3 DEF RegistryTypeOK, LookedAt
      <4> QED  BY <4>1, <4>2, <4>3, <1>1
    <3>1. /\ Len(path') = Len(path) + 1 /\ deps' = deps
          /\ \A i \in 1 .. Len(path') : Seen(i)
      BY <3>0, <2>1, <2>2
    <3> QED  BY <3>1 DEF LookedAt
  <2> QED
    BY <2>1, <2>5, <2>6, <2>7, <2>8, <1>0 DEF Walking, AtRest, Along, InDependencyOrder,
      DependenciesUp, RefusesOnlyBroken
<1> QED  BY <1>2, <1>3 DEF Dep

(* Refused: the path from the dependency to the top leads in a circle. *)
LEMMA RefusalKeeps ==
  ASSUME RegistryInv, NEW d \in Ids, Cycle(d) \/ MissingDep(d)
  PROVE  RegistryInv'
<1> USE DEF RegistryInv, Running
<1>0. /\ pass = "walk" /\ path # <<>> /\ path \in Seq(plugins) /\ RegistryTypeOK
      /\ Marked /\ PathFollowsDeps /\ LookedAt /\ n = 0 /\ DependenciesUp
  BY DEF Cycle, MissingDep, RegistryTypeOK, Walking
<1>1. Len(path) \in Nat \ {0} /\ Top \in plugins
  BY <1>0, Shrunk DEF Top
<1>2. d \in left[Top] => d \in deps[Top]
  BY <1>0, <1>1 DEF LookedAt, Top
<1>3. ASSUME NEW why \in {"cycle", "missing"}, RefuseOrder(why),
             why = "missing" => \E p \in plugins : ~(deps[p] \subseteq plugins),
             why = "cycle" => \E S \in SUBSET plugins : S # {} /\ \A p \in S : deps[p] \cap S # {}
      PROVE  RegistryInv'
  <2>1. /\ pass' = "idle" /\ answer' = why /\ todo' = {} /\ state' = Unseen
        /\ left' = NoneLeft /\ path' = <<>> /\ order' = <<>>
        /\ UNCHANGED <<deps, plugins, goal, n, mounted, faults>>
    BY <1>3 DEF RefuseOrder
  <2>2. RegistryTypeOK'
    BY <2>1, <1>0 DEF RegistryTypeOK, Unseen, NoneLeft, Passes, PassAnswers
  <2>3. DependenciesUp' /\ RefusesOnlyBroken'
    BY <2>1, <1>0, <1>3 DEF DependenciesUp, RefusesOnlyBroken
  <2> QED
    BY <2>1, <2>2, <2>3, <1>0 DEF Walking, AtRest, Along, InDependencyOrder
<1>4. CASE MissingDep(d)
  BY <1>4, <1>1, <1>2, <1>3 DEF MissingDep
<1>5. CASE Cycle(d)
  <2>1. d \in left[Top] /\ d \in plugins /\ state[d] = "visiting" /\ RefuseOrder("cycle")
    BY <1>5 DEF Cycle
  <2>2. PICK k \in 1 .. Len(path) : path[k] = d
    BY <2>1, <1>0 DEF Marked, RegistryTypeOK
  <2> DEFINE S == {path[i] : i \in k .. Len(path)}
  <2>3. S \in SUBSET plugins /\ d \in S
    BY <2>2, <1>0, <1>1, ElementOfSeq
  <2>4. ASSUME NEW i \in k .. Len(path)
        PROVE  deps[path[i]] \cap S # {}
    <3>1. CASE i = Len(path)
      BY <3>1, <2>1, <2>3, <1>2 DEF Top
    <3>2. CASE i < Len(path)
      <4>1. path[i + 1] \in deps[path[i]]
        BY <3>2, <2>2, <1>0, <1>1 DEF PathFollowsDeps
      <4>2. path[i + 1] \in S
        BY <3>2, <2>2, <1>1
      <4> QED  BY <4>1, <4>2
    <3> QED  BY <3>1, <3>2, <2>2, <1>1
  <2>5. S # {} /\ \A p \in S : deps[p] \cap S # {}
    BY <2>3, <2>4
  <2> HIDE DEF S
  <2> QED  BY <2>1, <2>3, <2>5, <1>3
<1> QED  BY <1>4, <1>5

LEMMA VisitedKeeps ==
  ASSUME RegistryInv, Visited
  PROVE  RegistryInv'
<1> USE DEF RegistryInv, Running
<1>0. /\ pass = "walk" /\ path # <<>> /\ path \in Seq(plugins) /\ order \in Seq(plugins)
      /\ left[Top] = {} /\ RegistryTypeOK /\ InDependencyOrder(order)
      /\ Marked /\ PathFollowsDeps /\ LookedAt /\ n = 0
      /\ (goal = "start" => mounted = {})
  BY DEF Visited, RegistryTypeOK, Walking
<1> DEFINE o == order'  q == path'
<1>1. Len(path) \in Nat \ {0} /\ Top \in plugins /\ Len(order) \in Nat
  BY <1>0, Shrunk, LenProperties DEF Top
<1>2. /\ state' = [state EXCEPT ![Top] = "done"]
      /\ UNCHANGED <<deps, plugins, pass, goal, todo, left, n, mounted, faults, answer>>
  BY DEF Visited
<1>3. /\ o \in Seq(plugins) /\ Len(o) = Len(order) + 1
      /\ \A i \in 1 .. Len(order) : o[i] = order[i]
      /\ o[Len(order) + 1] = Top
  BY <1>0, <1>1, Grown DEF Visited
<1>4. /\ q \in Seq(plugins) /\ Len(q) = Len(path) - 1
      /\ \A i \in 1 .. Len(path) - 1 : q[i] = path[i]
  BY <1>0, <1>1, Shrunk DEF Visited
<1> HIDE DEF o, q
<1>5. state[Top] = "visiting" /\ \A i \in 1 .. Len(path) - 1 : path[i] # Top
  BY <1>0, <1>1 DEF Marked, PathFollowsDeps, Top
<1>6. \A d \in deps[Top] : \E j \in 1 .. Len(order) : order[j] = d
  <2> TAKE d \in deps[Top]
  <2>1. d \in Plugins /\ state[d] = "done"
    BY <1>0, <1>1 DEF LookedAt, Top
  <2> QED  BY <2>1, <1>0 DEF Marked
<1>7. RegistryTypeOK'
  BY <1>0, <1>1, <1>2, <1>3, <1>4 DEF RegistryTypeOK, o, q
<1>8. Marked'
  <2>1. \A p \in Plugins : state'[p] = "done" => \E i \in 1 .. Len(o) : o[i] = p
    BY <1>0, <1>1, <1>2, <1>3 DEF Marked, RegistryTypeOK
  <2>2. ASSUME NEW i \in 1 .. Len(o)  PROVE state'[o[i]] = "done"
    <3>1. CASE i = Len(order) + 1
      BY <3>1, <1>0, <1>1, <1>2, <1>3 DEF RegistryTypeOK
    <3>2. CASE i \in 1 .. Len(order)
      <4>1. o[i] = order[i] /\ order[i] \in Plugins /\ state[order[i]] = "done"
        BY <3>2, <1>0, <1>3, ElementOfSeq DEF Marked, RegistryTypeOK
      <4> QED  BY <4>1, <1>0, <1>2 DEF RegistryTypeOK
    <3> QED  BY <3>1, <3>2, <1>1, <1>3
  <2>3. ASSUME NEW p \in Plugins, state'[p] = "visiting"
        PROVE  \E i \in 1 .. Len(q) : q[i] = p
    <3>1. p # Top /\ state[p] = "visiting"
      BY <2>3, <1>0, <1>1, <1>2 DEF RegistryTypeOK
    <3>2. PICK i \in 1 .. Len(path) : path[i] = p
      BY <3>1, <1>0 DEF Marked
    <3>3. i \in 1 .. Len(q) /\ q[i] = p
      BY <3>1, <3>2, <1>1, <1>4 DEF Top
    <3> QED  BY <3>3
  <2>4. ASSUME NEW i \in 1 .. Len(q)  PROVE state'[q[i]] = "visiting"
    <3>1. i \in 1 .. Len(path) - 1 /\ q[i] = path[i] /\ path[i] \in plugins /\ i \in 1 .. Len(path)
      BY <1>0, <1>1, <1>4, ElementOfSeq
    <3> QED  BY <3>1, <1>0, <1>2, <1>5 DEF Marked, RegistryTypeOK
  <2>5. \A p \in plugins' \ todo' : state'[p] # "unseen"
    BY <1>0, <1>2 DEF Marked, RegistryTypeOK
  <2> QED  BY <2>1, <2>2, <2>3, <2>4, <2>5 DEF Marked, o, q
<1>9. PathFollowsDeps'
  <2>1. ASSUME NEW i \in 1 .. Len(q), NEW j \in 1 .. Len(q), q[i] = q[j]
        PROVE  i = j
    <3>1. path[i] = path[j] /\ i \in 1 .. Len(path) /\ j \in 1 .. Len(path)
      BY <2>1, <1>1, <1>4
    <3> QED  BY <3>1, <1>0 DEF PathFollowsDeps
  <2>2. ASSUME NEW i \in 1 .. Len(q) - 1
        PROVE  q[i + 1] \in deps[q[i]]
    <3>1. q[i] = path[i] /\ q[i + 1] = path[i + 1] /\ i \in 1 .. Len(path) - 1
      BY <1>1, <1>4
    <3> QED  BY <3>1, <1>0 DEF PathFollowsDeps
  <2> QED  BY <2>1, <2>2, <1>2 DEF PathFollowsDeps, q
<1>10. LookedAt'
  <2>1. ASSUME NEW i \in 1 .. Len(q)
        PROVE  /\ left[q[i]] \subseteq deps[q[i]]
               /\ \A d \in deps[q[i]] \ left[q[i]] :
                    \/ d \in Plugins /\ state'[d] = "done"
                    \/ i < Len(q) /\ d = q[i + 1]
    <3>1. i \in 1 .. Len(path) /\ q[i] = path[i] /\ (i < Len(q) => q[i + 1] = path[i + 1])
          /\ (i = Len(q) => path[i + 1] = Top)
      BY <1>1, <1>4 DEF Top
    <3>2. \A d \in Plugins : state[d] = "done" => state'[d] = "done"
      BY <1>2, <1>0 DEF RegistryTypeOK
    <3>3. Top \in Plugins /\ state'[Top] = "done"
      BY <1>1, <1>2, <1>0 DEF RegistryTypeOK
    <3>4. /\ left[path[i]] \subseteq deps[path[i]]
          /\ \A d \in deps[path[i]] \ left[path[i]] :
               \/ d \in Plugins /\ state[d] = "done"
               \/ i < Len(path) /\ d = path[i + 1]
      BY <3>1, <1>0 DEF LookedAt
    <3>5. i < Len(q) \/ i = Len(q)
      BY <1>1, <1>4
    <3> QED  BY <3>1, <3>2, <3>3, <3>4, <3>5
  <2> QED  BY <2>1, <1>2 DEF LookedAt, q
<1>11. InDependencyOrder(order)'
  <2>1. \A i \in 1 .. Len(order) : order[i] # Top
    BY <1>0, <1>5 DEF Marked
  <2>2. \A i, j \in 1 .. Len(o) : o[i] = o[j] => i = j
    BY <2>1, <1>0, <1>1, <1>3 DEF InDependencyOrder
  <2>3. ASSUME NEW i \in 1 .. Len(o), NEW d \in deps[o[i]]
        PROVE  \E j \in 1 .. i - 1 : o[j] = d
    <3>1. CASE i = Len(order) + 1
      BY <3>1, <1>1, <1>3, <1>6
    <3>2. CASE i < Len(order) + 1
      BY <3>2, <1>0, <1>1, <1>3 DEF InDependencyOrder
    <3> QED  BY <3>1, <3>2, <1>1, <1>3
  <2> QED  BY <2>2, <2>3, <1>2 DEF InDependencyOrder, o
<1> QED
  BY <1>0, <1>2, <1>7, <1>8, <1>9, <1>10, <1>11 DEF Walking, AtRest, Along, DependenciesUp,
    RefusesOnlyBroken

LEMMA OrderedKeeps ==
  ASSUME RegistryInv, Ordered
  PROVE  RegistryInv'
<1> USE DEF RegistryInv, Running
<1>0. /\ pass = "walk" /\ path = <<>> /\ todo = {} /\ Marked /\ RegistryTypeOK
      /\ InDependencyOrder(order) /\ DependenciesUp /\ n = 0 /\ answer = "none"
      /\ (goal = "start" => mounted = {} /\ faults = {})
  BY DEF Ordered, Walking, AtRest, RegistryTypeOK
<1>1. /\ pass' = goal /\ n' = (IF goal = "start" THEN 0 ELSE Len(order))
      /\ state' = Unseen /\ left' = NoneLeft
      /\ UNCHANGED <<deps, plugins, goal, todo, path, order, mounted, faults, answer>>
  BY DEF Ordered
<1>2. RegistryTypeOK'
  <2>1. Len(order) \in Nat
    BY <1>0, LenProperties DEF RegistryTypeOK
  <2> QED  BY <2>1, <1>0, <1>1 DEF RegistryTypeOK, Passes, Unseen, NoneLeft
<1>3. plugins \subseteq {order[i] : i \in 1 .. Len(order)}
  <2>1. ASSUME NEW p \in plugins
        PROVE  \E i \in 1 .. Len(order) : order[i] = p
    <3>1. p \in Plugins /\ state[p] # "unseen" /\ state[p] # "visiting"
      BY <1>0 DEF Marked, RegistryTypeOK
    <3>2. state[p] = "done"
      BY <3>1, <1>0 DEF RegistryTypeOK
    <3> QED  BY <3>1, <3>2, <1>0 DEF Marked
  <2> QED  BY <2>1
<1>4. Along'
  <2>1. CASE goal = "start"
    BY <2>1, <1>0, <1>1 DEF Along
  <2>2. CASE goal = "stop"
    <3>1. Running \subseteq {order[i] : i \in 1 .. Len(order)}
      BY <1>0, <1>3 DEF RegistryTypeOK
    <3> QED  BY <3>1, <2>2, <1>1 DEF Along
  <2> QED  BY <2>1, <2>2, <1>0 DEF RegistryTypeOK
<1> QED
  BY <1>0, <1>1, <1>2, <1>4 DEF Walking, AtRest, InDependencyOrder, DependenciesUp,
    RefusesOnlyBroken, RegistryTypeOK

-----------------------------------------------------------------------------
(* The boot, its roll-back and the stop. *)

(* The next plugin stands on what runs. *)
LEMMA StartKeeps ==
  ASSUME RegistryInv, Start
  PROVE  RegistryInv'
<1> USE DEF RegistryInv, Running
<1>0. /\ pass = "start" /\ n \in Nat /\ Len(order) \in Nat /\ n < Len(order)
      /\ faults = {} /\ mounted = {order[i] : i \in 1 .. n} /\ answer = "none"
      /\ InDependencyOrder(order) /\ DependenciesUp /\ RegistryTypeOK
  BY LenProperties DEF Start, RegistryTypeOK, Along, AtRest
<1>1. /\ n' = n + 1 /\ mounted' = mounted \cup {order[n + 1]}
      /\ UNCHANGED <<deps, plugins, pass, goal, todo, state, path, left, order, faults, answer>>
  BY DEF Start, walk
<1>2. order[n + 1] \in plugins
  BY <1>0, ElementOfSeq DEF RegistryTypeOK
<1>3. RegistryTypeOK'
  BY <1>0, <1>1, <1>2 DEF RegistryTypeOK
<1>4. mounted' = {order[i] : i \in 1 .. n + 1}
  BY <1>0, <1>1
<1>5. deps[order[n + 1]] \subseteq mounted
  BY <1>0 DEF InDependencyOrder
<1>6. DependenciesUp'
  BY <1>0, <1>1, <1>5 DEF DependenciesUp
<1> QED
  BY <1>0, <1>1, <1>3, <1>4, <1>6 DEF Walking, AtRest, Along, InDependencyOrder,
    RefusesOnlyBroken

(* Nothing that goes on running stands on what is told to stop, whether it *)
(* then stops or not. *)
LEMMA StopNextKeeps ==
  ASSUME RegistryInv, StopNext
  PROVE  RegistryInv'
<1> USE DEF RegistryInv
<1> RegistryTypeOK /\ Along /\ InDependencyOrder(order) /\ DependenciesUp
  OBVIOUS
<1>0. /\ pass \in {"undo", "stop"} /\ answer = "none"
      /\ n \in Nat /\ n > 0 /\ n <= Len(order) /\ Len(order) \in Nat
  <2>1. Len(order) \in Nat /\ n \in 0 .. Len(order)
    BY LenProperties DEF RegistryTypeOK
  <2> QED  BY <2>1 DEF StopNext, AtRest
<1>a. Running \subseteq {order[i] : i \in 1 .. n}
  BY <1>0 DEF Along
<1>1. /\ n' = n - 1
      /\ UNCHANGED <<deps, plugins, pass, goal, todo, state, path, left, order, answer>>
  BY DEF StopNext, walk
<1>r. Running' = Running \ {order[n]} /\ mounted' \subseteq mounted /\ faults' \subseteq mounted'
  BY DEF StopNext, Running, RegistryTypeOK
<1>2. RegistryTypeOK'
  BY <1>0, <1>1, <1>r DEF RegistryTypeOK
<1>3. \A i \in 1 .. n - 1 : order[i] # order[n]
  BY <1>0 DEF InDependencyOrder
<1>4. {order[i] : i \in 1 .. n} \ {order[n]} = {order[i] : i \in 1 .. n - 1}
  <2>1. \A i \in 1 .. n : i \in 1 .. n - 1 \/ i = n
    BY <1>0
  <2>2. \A i \in 1 .. n - 1 : i \in 1 .. n
    BY <1>0
  <2> QED  BY <2>1, <2>2, <1>3
<1>5. Along'
  BY <1>0, <1>1, <1>r, <1>4, <1>a DEF Along
<1>6. ASSUME NEW p \in Running'
      PROVE  deps[p] \subseteq Running'
  <2>1. PICK i \in 1 .. n : order[i] = p
    BY <1>a, <1>r, <1>6
  <2>2. i < n /\ i \in 1 .. Len(order)
    BY <2>1, <1>0, <1>r, <1>6
  <2>3. \A d \in deps[p] : \E j \in 1 .. i - 1 : order[j] = d
    BY <2>1, <2>2, <1>0 DEF InDependencyOrder
  <2>4. order[n] \notin deps[p]
    BY <2>2, <2>3, <1>0, <1>3
  <2>5. deps[p] \subseteq Running
    BY <1>0, <1>r, <1>6 DEF DependenciesUp
  <2> QED  BY <2>4, <2>5, <1>r
<1>7. DependenciesUp'
  BY <1>0, <1>1, <1>6 DEF DependenciesUp
<1> QED
  BY <1>0, <1>1, <1>2, <1>5, <1>7 DEF Walking, AtRest, InDependencyOrder, RefusesOnlyBroken

(* The steps that only turn from one part of a pass to the next. *)
LEMMA TurnsKeep ==
  ASSUME RegistryInv,
         \/ StartFails \/ Started \/ Stopped
         \/ \E p \in Plugins : insert(p)
         \/ \E what \in {"start", "stop"} : BeginPass(what)
  PROVE  RegistryInv'
<1> USE DEF RegistryInv, Running
<1>1. CASE StartFails
  BY <1>1 DEF StartFails, walk, RegistryTypeOK, Passes, Walking, AtRest, Along, InDependencyOrder,
    DependenciesUp, RefusesOnlyBroken
<1>2. CASE Started
  <2>1. RegistryTypeOK'
    BY <1>2 DEF Started, RegistryTypeOK, Passes, PassAnswers
  <2> QED
    BY <2>1, <1>2 DEF Started, Walking, AtRest, Along, InDependencyOrder, DependenciesUp,
      RefusesOnlyBroken
<1>3. CASE Stopped
  <2>1. RegistryTypeOK'
    BY <1>3 DEF Stopped, RegistryTypeOK, Passes, PassAnswers
  <2>2. Running' = {} /\ goal \in {"start", "stop"}
    BY <1>3 DEF Stopped, Along, RegistryTypeOK
  <2> QED
    BY <2>1, <2>2, <1>3 DEF Stopped, Walking, AtRest, Along, InDependencyOrder,
      DependenciesUp, RefusesOnlyBroken
<1>4. ASSUME NEW p \in Plugins, insert(p)
      PROVE  RegistryInv'
  <2>1. RegistryTypeOK'
    <3>1. path = <<>> /\ order = <<>> /\ todo = {} /\ UNCHANGED <<path, order, todo>>
      BY <1>4 DEF insert, walk, AtRest
    <3> QED
      BY <3>1, <1>4 DEF insert, walk, RegistryTypeOK, PassAnswers
  <2> QED
    BY <2>1, <1>4 DEF insert, walk, Walking, AtRest, Along, InDependencyOrder, DependenciesUp,
      RefusesOnlyBroken
<1>5. ASSUME NEW what \in {"start", "stop"}, BeginPass(what)
      PROVE  RegistryInv'
  <2>1. /\ pass = "idle" /\ pass' = "walk" /\ todo' = plugins /\ answer' = "none"
        /\ path = <<>> /\ order = <<>> /\ n = 0 /\ state = Unseen
        /\ goal' = what /\ (what = "start" => mounted = {})
        /\ UNCHANGED <<deps, plugins, state, path, left, order, n, mounted, faults>>
    BY <1>5 DEF BeginPass, AtRest
  <2>2. RegistryTypeOK'
    BY <2>1, <1>5 DEF RegistryTypeOK, Passes, PassAnswers
  <2>3. Marked' /\ PathFollowsDeps' /\ LookedAt'
    BY <2>1 DEF Marked, PathFollowsDeps, LookedAt, Unseen
  <2> QED
    BY <2>1, <2>2, <2>3 DEF Walking, AtRest, Along, InDependencyOrder, DependenciesUp,
      RefusesOnlyBroken
<1> QED  BY <1>1, <1>2, <1>3, <1>4, <1>5

-----------------------------------------------------------------------------
(* The inductive invariant of the registry.                                *)
THEOREM RegistryInvariant == RegistrySpec => []RegistryInv
<1>1. RegistryInit => RegistryInv
  BY DEF RegistryInit, RegistryInv, Running, RegistryTypeOK, Passes, PassAnswers, Unseen, NoneLeft,
    Walking, AtRest, Along, InDependencyOrder, DependenciesUp, RefusesOnlyBroken
<1>2. RegistryInv /\ [RegistryNext]_registryVars => RegistryInv'
  <2> SUFFICES ASSUME RegistryInv, [RegistryNext]_registryVars
               PROVE  RegistryInv'
    OBVIOUS
  <2>1. CASE RegistryNext
    BY <2>1, VisitKeeps, DepKeeps, RefusalKeeps, VisitedKeeps, OrderedKeeps, StartKeeps,
      StopNextKeeps, TurnsKeep DEF RegistryNext
  <2>2. CASE UNCHANGED registryVars
    BY <2>2 DEF registryVars, RegistryInv, Running, RegistryTypeOK, Walking, Marked, PathFollowsDeps,
      LookedAt, AtRest, Along, InDependencyOrder, DependenciesUp, RefusesOnlyBroken
  <2> QED  BY <2>1, <2>2
<1> QED  BY <1>1, <1>2, PTL DEF RegistrySpec

(* At every moment of a boot, of its roll-back and of a stop, whatever is  *)
(* mounted and has not failed to unmount stands on such, and after a boot  *)
(* that failed and after a stop there is no such (start_order, start_all,  *)
(* stop_all, stop_each).                                                   *)
THEOREM MountedInOrder == RegistrySpec => []DependenciesUp
BY RegistryInvariant, PTL DEF RegistryInv

(* A cycle is reported only where plugins stand on each other, a missing   *)
(* dependency only where one is missing (start_order).                     *)
THEOREM RefusalsAreJust == RegistrySpec => []RefusesOnlyBroken
BY RegistryInvariant, PTL DEF RegistryInv

-----------------------------------------------------------------------------
(***************************************************************************)
(* No command that has returned leaves a process of its group with the     *)
(* pipe open, for any children and any amount of output.                   *)
(***************************************************************************)
(* Once the pipe was seen closed nobody holds it, and once the group was   *)
(* swept nobody is in it: either lasts, since a child gets its place in    *)
(* the group and its end of the pipe from a parent that has them.          *)
PipeOrGroup ==
  /\ ~reading => holds = {}
  /\ call = "swept" => grouped = {}
  /\ output.given => holds = {} \/ grouped = {}

OneShotInv == OneShotTypeOK /\ PipeOrGroup

LEMMA OneShotStarts == OneShotInit => OneShotInv
<1> SUFFICES ASSUME OneShotInit PROVE OneShotInv
  OBVIOUS
<1>1. OneShotTypeOK
  <2>1. /\ born \subseteq Family /\ up \subseteq born /\ grouped \subseteq up /\ holds \subseteq up
        /\ traps \subseteq up
    BY DEF OneShotInit, Family
  <2>2. wrote \in 0..MaxPrinted /\ got \in 0..wrote
    BY OneShotAssumption DEF OneShotInit
  <2>3. reading \in BOOLEAN /\ swept \in BOOLEAN
    BY DEF OneShotInit
  <2>4. call \in CallPlaces /\ ending \in Endings
    BY DEF OneShotInit, CallPlaces, Endings
  <2> QED  BY <2>1, <2>2, <2>3, <2>4 DEF OneShotTypeOK
<1>2. PipeOrGroup
  BY DEF OneShotInit, PipeOrGroup, NotYet
<1> QED  BY <1>1, <1>2 DEF OneShotInv

(* A step of the processes adds nobody to an empty group and no holder to  *)
(* a closed pipe.                                                          *)
LEMMA ProcessSteps ==
  ASSUME OneShotInv, NEW p \in Family,
         Changes(p) \/ Prints(p) \/ Exits(p) \/ \E c \in Children : Forks(p, c)
  PROVE  OneShotInv'
<1>1. CASE Changes(p)
  <2>1. OneShotTypeOK'
    BY <1>1 DEF Changes, OneShotInv, OneShotTypeOK, stream, waiting
  <2>2. PipeOrGroup'
    BY <1>1 DEF Changes, OneShotInv, PipeOrGroup, stream, waiting
  <2> QED  BY <2>1, <2>2 DEF OneShotInv
<1>2. CASE Prints(p)
  BY <1>2, OneShotAssumption
     DEF Prints, OneShotInv, OneShotTypeOK, PipeOrGroup, processes, waiting
<1>3. CASE Exits(p)
  BY <1>3 DEF Exits, Gone, OneShotInv, OneShotTypeOK, PipeOrGroup, stream, waiting
<1>4. ASSUME NEW c \in Children, Forks(p, c)
      PROVE  OneShotInv'
  <2>1. OneShotTypeOK'
    BY <1>4 DEF Forks, OneShotInv, OneShotTypeOK, Family, stream, waiting
  <2>2. PipeOrGroup'
    BY <1>4 DEF Forks, OneShotInv, PipeOrGroup, stream, waiting
  <2> QED  BY <2>1, <2>2 DEF OneShotInv
<1> QED  BY <1>1, <1>2, <1>3, <1>4

LEMMA ReaderSteps ==
  ASSUME OneShotInv, TakesPiece \/ SeesTheEnd
  PROVE  OneShotInv'
<1>1. CASE TakesPiece
  BY <1>1, OneShotAssumption
     DEF TakesPiece, OneShotInv, OneShotTypeOK, PipeOrGroup, processes, waiting
<1>2. CASE SeesTheEnd
  BY <1>2 DEF SeesTheEnd, OneShotInv, OneShotTypeOK, PipeOrGroup, processes, waiting
<1> QED  BY <1>1, <1>2

(* The call returns from the pipe's end or from the sweep, and from        *)
(* nowhere else.                                                           *)
LEMMA CallSteps ==
  ASSUME OneShotInv, CallGoesOn
  PROVE  OneShotInv'
<1> USE DEF OneShotInv, OneShotTypeOK, PipeOrGroup, stream, waiting, processes, GoesTo, CallPlaces, Endings
<1>1. CASE SettleExited
  BY <1>1 DEF SettleExited
<1>2. ASSUME NEW why \in Endings, SettleStopped(why)
      PROVE  OneShotInv'
  BY <1>2 DEF SettleStopped, TermGroup, Gone
<1>3. CASE LeaderDown
  BY <1>3 DEF LeaderDown
<1>4. CASE GraceOver
  BY <1>4 DEF GraceOver, KillGroup, Gone
<1>5. CASE Sweep
  BY <1>5 DEF Sweep, KillGroup, Gone
<1>6. CASE Return
  BY <1>6 DEF Return
<1> QED  BY <1>1, <1>2, <1>3, <1>4, <1>5, <1>6 DEF CallGoesOn

LEMMA OneShotStep == OneShotInv /\ [OneShotNext]_oneShotVars => OneShotInv'
<1> SUFFICES ASSUME OneShotInv, [OneShotNext]_oneShotVars
             PROVE  OneShotInv'
  OBVIOUS
<1>1. CASE OneShotNext
  BY <1>1, ProcessSteps, ReaderSteps, CallSteps DEF OneShotNext
<1>2. CASE UNCHANGED oneShotVars
  BY <1>2 DEF oneShotVars, OneShotInv, OneShotTypeOK, PipeOrGroup
<1> QED  BY <1>1, <1>2

(* A call that has returned has left nothing of its group that holds the   *)
(* pipe it read, whatever the command started and trapped, and whichever   *)
(* clock ran out first (proc.rs, execute and terminate).                   *)
THEOREM LeavesNobody == OneShotSpec => []LeavesNoHolder
<1>1. OneShotInv => LeavesNoHolder
  BY DEF OneShotInv, PipeOrGroup, LeavesNoHolder
<1> QED  BY <1>1, OneShotStarts, OneShotStep, PTL DEF OneShotSpec

-----------------------------------------------------------------------------
(***************************************************************************)
(* The one store of a file serves what the file holds, and the file holds  *)
(* no record without its date, over any publishes, failures and ends.      *)
(***************************************************************************)
LoneWriter == (\A s, t \in Openers : s = t) /\ (\A b, c \in Builds : b = c)

Dated(t) == t.record # Absent => t.stamp = t.record
Whole == {Absent} \cup {t \in Tables : Dated(t)}

Underway == {"begun", "created", "written", "synced"}
PublishPlaces == Underway \cup {"closed", "idle", "renamed", "published", "failed"}
WritePlaces == {"idle", "begun", "stamping", "stamped", "putting"}

Typed ==
  /\ tables \in [Openers -> Tables]
  /\ publishing \in [Openers -> [at : PublishPlaces, restore : Tables]]
  /\ domain \in [Builds -> Versions \cup {Absent}]
  /\ write \in [Builds -> [at : WritePlaces, record : Versions \cup {Absent}]]

(* Only a whole and dated file is ever renamed into place, or left by the  *)
(* end of the machine.                                                     *)
FilesWhole == stored.content \in Whole /\ stored.synced = TRUE /\ older \subseteq Whole

(* What memory has while a publish is on its way, and what is put back     *)
(* when it fails.                                                          *)
Serving(s) ==
  LET p == publishing[s] IN
  /\ Dated(tables[s])
  /\ p.at \in {"idle", "renamed", "published", "failed"} => tables[s] = Reading(stored)
  /\ p.at \in Underway => p.restore = Reading(stored)
  /\ p.at = "created" => temp = Held(Partial, FALSE)
  /\ p.at = "written" => temp = Held(tables[s], FALSE)
  /\ p.at = "synced" => temp = Held(tables[s], TRUE)

(* How far a write is, and the stamp there is by then.                     *)
Writing(b) ==
  LET s == StoreOf(b)
      place == publishing[s].at
      w == write[b]
  IN
  /\ domain[b] # Absent => place # "closed" /\ tables[s].stamp \in {Absent, domain[b]}
                                         /\ Reading(stored).stamp \in {Absent, domain[b]}
  /\ w.at # "idle" => domain[b] # Absent
  /\ place \notin {"closed", "idle"} => w.at \in {"stamping", "putting"}
  /\ w.at = "begun" => w.record = domain[b] /\ tables[s].stamp = Absent
  /\ w.at = "stamped" => w.record \in {Absent, domain[b]}
                         /\ (w.record # Absent => tables[s].stamp = domain[b])
  /\ w.at = "stamping" => w.record = domain[b] /\ (place # "failed" => tables[s].stamp = domain[b])

StorageInv ==
  /\ Typed /\ FilesWhole
  /\ \A s \in Openers : Serving(s)
  /\ \A b \in Builds : Writing(b)

-----------------------------------------------------------------------------

LEMMA EmptyIsDated == Empty \in Tables /\ Dated(Empty) /\ Empty.stamp = Absent
BY DEF Empty, Tables, Dated

LEMMA ReadingIsDated ==
  ASSUME FilesWhole
  PROVE  Reading(stored) \in Tables /\ Dated(Reading(stored))
BY EmptyIsDated DEF FilesWhole, Whole, Reading

LEMMA InvImplies == StorageInv => StoredAndDated
<1> SUFFICES ASSUME StorageInv PROVE StoredAndDated
  OBVIOUS
<1>1. stored.content # Partial
  BY StorageAssumption DEF StorageInv, FilesWhole, Whole
<1>2. ASSUME NEW s \in Openers, publishing[s].at \in {"idle", "published", "failed"}
      PROVE  tables[s] = Reading(stored)
  BY <1>2 DEF StorageInv, Serving
<1>3. RecordsAreDated
  BY StorageAssumption DEF StorageInv, FilesWhole, Whole, Dated, RecordsAreDated
<1> QED  BY <1>1, <1>2, <1>3 DEF StoredAndDated, MemoryIsStored

LEMMA StorageStarts == StorageInit => StorageInv
<1> SUFFICES ASSUME StorageInit PROVE StorageInv
  OBVIOUS
<1>1. Typed
  BY EmptyIsDated DEF StorageInit, Typed, Closed, NoWrite, PublishPlaces, WritePlaces
<1>2. FilesWhole
  BY DEF StorageInit, FilesWhole, Whole, Nothing, Held
<1>3. \A s \in Openers : Serving(s)
  BY EmptyIsDated DEF StorageInit, Serving, Closed, Underway
<1>4. \A b \in Builds : Writing(b)
  BY StorageAssumption DEF StorageInit, Writing, Closed, NoWrite
<1> QED  BY <1>1, <1>2, <1>3, <1>4 DEF StorageInv

(* A step of the one store's publish.                                      *)
LEMMA Keeps ==
  ASSUME LoneWriter, NEW s \in Openers, Typed', FilesWhole', Serving(s)',
         \A b \in Builds : StoreOf(b) = s => Writing(b)'
  PROVE  StorageInv'
<1>1. \A t \in Openers : Serving(t)'
  BY DEF LoneWriter
<1>2. \A b \in Builds : Writing(b)'
  BY StorageAssumption DEF LoneWriter
<1> QED  BY <1>1, <1>2 DEF StorageInv

LEMMA PublishSteps ==
  ASSUME LoneWriter, StorageInv, NEW s \in Openers,
         Create(s) \/ WriteAll(s) \/ SyncAll(s) \/ Rename(s) \/ Published(s)
  PROVE  StorageInv'
<1>0. Typed /\ FilesWhole /\ Serving(s) /\ \A b \in Builds : Writing(b)
  BY DEF StorageInv
<1>1. /\ UNCHANGED <<tables, domain, write>>
      /\ \E place \in PublishPlaces \ {"closed", "idle", "failed"} : Goes(s, place)
      /\ publishing[s].at \in Underway \cup {"renamed"}
  BY DEF Create, WriteAll, SyncAll, Rename, Published, PublishPlaces, Underway, PublishAt
<1>2. PICK place \in PublishPlaces \ {"closed", "idle", "failed"} : publishing' = [publishing EXCEPT ![s].at = place]
  BY <1>1 DEF Goes
<1>3. /\ publishing' \in [Openers -> [at : PublishPlaces, restore : Tables]]
      /\ publishing'[s].at = place /\ publishing'[s].restore = publishing[s].restore
  BY <1>0, <1>2 DEF Typed
<1>4. Typed'
  BY <1>0, <1>1, <1>3 DEF Typed
<1>5. ASSUME FilesWhole', Reading(stored)' = Reading(stored) \/ Reading(stored)' = tables[s],
             NEW b \in Builds, StoreOf(b) = s
      PROVE  Writing(b)'
  <2>1. write[b].at \in {"stamping", "putting"} /\ domain[b] # Absent
    BY <1>0, <1>1, <1>5 DEF Writing, Underway
  <2>2. Writing(b)
    BY <1>0
  <2>3. place \notin {"closed", "idle", "failed"} /\ publishing[s].at \notin {"closed", "idle", "failed"}
    BY <1>1, <1>2 DEF Underway
  <2> QED  BY <1>1, <1>3, <1>5, <2>1, <2>2, <2>3 DEF Writing
<1>6. CASE Create(s)
  <2>1. /\ temp' = Held(Partial, FALSE) /\ stored' = stored /\ older' = older
        /\ publishing[s].at = "begun" /\ publishing'[s].at = "created"
    BY <1>0, <1>6 DEF Create, PublishAt, Goes, Typed
  <2>2. FilesWhole' /\ Reading(stored)' = Reading(stored)
    BY <1>0, <2>1 DEF FilesWhole, Reading
  <2>3. Serving(s)'
    BY <1>0, <1>1, <1>3, <2>1, <2>2 DEF Serving, Underway
  <2> QED  BY <1>4, <1>5, <2>2, <2>3, Keeps
<1>7. CASE WriteAll(s)
  <2>1. /\ publishing[s].at = "created" /\ publishing'[s].at = "written"
        /\ stored' = stored /\ older' = older
        /\ temp' = IF temp.content = Absent THEN temp ELSE Held(tables[s], FALSE)
    BY <1>0, <1>7 DEF WriteAll, PublishAt, Goes, Typed
  <2>2. temp' = Held(tables[s], FALSE)
    BY <1>0, <2>1, StorageAssumption DEF Serving, Held
  <2>3. FilesWhole' /\ Reading(stored)' = Reading(stored)
    BY <1>0, <2>1 DEF FilesWhole, Reading
  <2>4. Serving(s)'
    BY <1>0, <1>1, <1>3, <2>1, <2>2, <2>3 DEF Serving, Underway
  <2> QED  BY <1>4, <1>5, <2>3, <2>4, Keeps
<1>8. CASE SyncAll(s)
  <2>1. /\ publishing[s].at = "written" /\ publishing'[s].at = "synced"
        /\ stored' = stored /\ older' = older /\ temp' = [temp EXCEPT !.synced = TRUE]
    BY <1>0, <1>8 DEF SyncAll, PublishAt, Goes, Typed
  <2>2. temp' = Held(tables[s], TRUE)
    <3>1. temp = [content |-> tables[s], synced |-> FALSE]
      BY <1>0, <2>1 DEF Serving, Held
    <3> QED  BY <2>1, <3>1 DEF Held
  <2>3. FilesWhole' /\ Reading(stored)' = Reading(stored)
    BY <1>0, <2>1 DEF FilesWhole, Reading
  <2>4. Serving(s)'
    BY <1>0, <1>1, <1>3, <2>1, <2>2, <2>3 DEF Serving, Underway
  <2> QED  BY <1>4, <1>5, <2>3, <2>4, Keeps
<1>9. CASE Rename(s)
  <2>1. /\ publishing[s].at = "synced" /\ publishing'[s].at = "renamed"
        /\ older' = older \cup {stored.content} /\ stored' = temp
    BY <1>0, <1>9 DEF Rename, PublishAt, Goes, Typed
  <2>2. tables[s] \in Tables /\ Dated(tables[s]) /\ temp = Held(tables[s], TRUE)
    BY <1>0, <2>1 DEF Serving, Typed
  <2>3. stored'.content = tables[s] /\ stored'.synced = TRUE
    BY <2>1, <2>2 DEF Held
  <2>4. FilesWhole'
    BY <1>0, <2>1, <2>2, <2>3 DEF FilesWhole, Whole
  <2>5. Reading(stored)' = tables[s]
    BY <2>2, <2>3, StorageAssumption DEF Reading
  <2>6. Serving(s)'
    BY <1>0, <1>1, <1>3, <2>1, <2>5 DEF Serving, Underway
  <2> QED  BY <1>4, <1>5, <2>4, <2>5, <2>6, Keeps
<1>10. CASE Published(s)
  <2>1. /\ publishing[s].at = "renamed" /\ publishing'[s].at = "published"
        /\ older' \in {{stored.content}, older} /\ stored' = stored
    BY <1>0, <1>10 DEF Published, PublishAt, Goes, Typed
  <2>2. FilesWhole' /\ Reading(stored)' = Reading(stored)
    BY <1>0, <2>1 DEF FilesWhole, Reading
  <2>3. Serving(s)'
    BY <1>0, <1>1, <1>3, <2>1, <2>2 DEF Serving, Underway
  <2> QED  BY <1>4, <1>5, <2>2, <2>3, Keeps
<1> QED  BY <1>6, <1>7, <1>8, <1>9, <1>10

(* A publish that fails puts memory back to what the file says.            *)
LEMMA FailingKeeps ==
  ASSUME LoneWriter, StorageInv, NEW s \in Openers, PublishFails(s)
  PROVE  StorageInv'
<1>0. Typed /\ FilesWhole /\ Serving(s) /\ \A b \in Builds : Writing(b)
  BY DEF StorageInv
<1>1. /\ publishing[s].at \in Underway /\ publishing' = [publishing EXCEPT ![s].at = "failed"]
      /\ tables' = [tables EXCEPT ![s] = publishing[s].restore]
      /\ UNCHANGED <<stored, older, domain, write>>
  BY DEF PublishFails, Goes, Underway
<1>2. /\ publishing' \in [Openers -> [at : PublishPlaces, restore : Tables]]
      /\ publishing'[s].at = "failed" /\ tables' \in [Openers -> Tables]
      /\ tables'[s] = publishing[s].restore
  BY <1>0, <1>1 DEF Typed, PublishPlaces
<1>3. tables'[s] = Reading(stored)
  BY <1>0, <1>1, <1>2 DEF Serving
<1>4. Typed'
  BY <1>0, <1>1, <1>2 DEF Typed
<1>5. FilesWhole' /\ Reading(stored)' = Reading(stored)
  BY <1>0, <1>1 DEF FilesWhole, Reading
<1>6. Serving(s)'
  BY <1>0, <1>2, <1>3, <1>5, ReadingIsDated DEF Serving, Underway
<1>7. ASSUME NEW b \in Builds, StoreOf(b) = s PROVE Writing(b)'
  <2>1. Writing(b) /\ write[b].at \in {"stamping", "putting"} /\ domain[b] # Absent
    BY <1>0, <1>1, <1>7 DEF Writing, Underway
  <2> QED  BY <1>1, <1>2, <1>3, <1>5, <1>7, <2>1 DEF Writing
<1> QED  BY <1>4, <1>5, <1>6, <1>7, Keeps

LEMMA OpeningKeepsStore ==
  ASSUME LoneWriter, StorageInv, NEW s \in Openers, OpenStore(s)
  PROVE  StorageInv'
<1>0. Typed /\ FilesWhole /\ Serving(s) /\ \A b \in Builds : Writing(b)
  BY DEF StorageInv
<1>1. /\ publishing[s].at = "closed" /\ tables' = [tables EXCEPT ![s] = Reading(stored)]
      /\ publishing' = [publishing EXCEPT ![s] = Resting]
      /\ UNCHANGED <<stored, older, temp, domain, write>>
  BY DEF OpenStore, onDisk
<1>2. Reading(stored) \in Tables /\ Dated(Reading(stored))
  BY <1>0, ReadingIsDated
<1>3. Resting \in [at : PublishPlaces, restore : Tables] /\ Resting.at = "idle"
  BY EmptyIsDated DEF Resting, PublishPlaces
<1>4. Typed' /\ tables'[s] = Reading(stored) /\ publishing'[s].at = "idle"
  BY <1>0, <1>1, <1>2, <1>3 DEF Typed
<1>5. FilesWhole' /\ Reading(stored)' = Reading(stored)
  BY <1>0, <1>1 DEF FilesWhole, Reading
<1>6. Serving(s)'
  BY <1>2, <1>4, <1>5 DEF Serving, Underway
<1>7. ASSUME NEW b \in Builds, StoreOf(b) = s PROVE Writing(b)'
  <2>1. domain[b] = Absent /\ write[b].at = "idle"
    BY <1>0, <1>1, <1>7 DEF Writing
  <2> QED  BY <1>1, <1>4, <1>7, <2>1 DEF Writing
<1> QED  BY <1>4, <1>5, <1>6, <1>7, Keeps

-----------------------------------------------------------------------------
(* The steps of the one domain. *)

LEMMA SingleBuild ==
  ASSUME LoneWriter, NEW b \in Builds, Typed', FilesWhole', Serving(StoreOf(b))', Writing(b)'
  PROVE  StorageInv'
<1>1. StoreOf(b) \in Openers
  BY StorageAssumption
<1>2. \A t \in Openers : Serving(t)'
  BY <1>1 DEF LoneWriter
<1>3. \A c \in Builds : Writing(c)'
  BY DEF LoneWriter
<1> QED  BY <1>2, <1>3 DEF StorageInv

LEMMA DomainKeeps ==
  ASSUME LoneWriter, StorageInv, NEW b \in Builds, OpenDomain(b) \/ BeginWrite(b)
  PROVE  StorageInv'
<1> DEFINE s == StoreOf(b)
<1>0. Typed /\ FilesWhole /\ Serving(s) /\ Writing(b) /\ s \in Openers
  BY StorageAssumption DEF StorageInv
<1>1. UNCHANGED <<stored, older, temp, tables, publishing>> /\ publishing[s].at = "idle"
  BY DEF OpenDomain, BeginWrite, onDisk
<1>2. FilesWhole' /\ Reading(stored)' = Reading(stored) /\ Serving(s)'
  BY <1>0, <1>1 DEF FilesWhole, Reading, Serving
<1>3. tables[s] = Reading(stored)
  BY <1>0, <1>1 DEF Serving
<1>4. CASE OpenDomain(b)
  <2>1. PICK v \in Versions : tables[s].stamp \in {Absent, v} /\ domain' = [domain EXCEPT ![b] = v]
    BY <1>4 DEF OpenDomain
  <2>2. write' = write /\ write[b].at = "idle" /\ domain'[b] = v
    BY <1>0, <1>4, <2>1 DEF OpenDomain, Typed
  <2>3. Typed'
    BY <1>0, <1>1, <2>1, <2>2 DEF Typed
  <2>4. Writing(b)'
    BY <1>1, <1>2, <1>3, <2>1, <2>2 DEF Writing
  <2> QED  BY <1>2, <2>3, <2>4, SingleBuild
<1>5. CASE BeginWrite(b)
  <2> DEFINE place(kept) == IF kept = Absent \/ tables[s].stamp # Absent THEN "stamped" ELSE "begun"
  <2>1. PICK kept \in {domain[b], Absent} :
          write' = [write EXCEPT ![b] = [at |-> place(kept), record |-> kept]]
    BY <1>5 DEF BeginWrite
  <2>2. domain' = domain /\ domain[b] # Absent /\ domain[b] \in Versions \cup {Absent}
    BY <1>0, <1>5 DEF BeginWrite, Typed
  <2>3. [at |-> place(kept), record |-> kept] \in [at : WritePlaces, record : Versions \cup {Absent}]
    <3>1. place(kept) \in WritePlaces /\ kept \in Versions \cup {Absent}
      BY <2>1, <2>2 DEF WritePlaces
    <3> HIDE DEF place
    <3> QED  BY <3>1
  <2>4. Typed' /\ write'[b].at = place(kept) /\ write'[b].record = kept
    BY <1>0, <1>1, <2>1, <2>2, <2>3 DEF Typed
  <2>5. tables[s].stamp \in {Absent, domain[b]} /\ Reading(stored).stamp \in {Absent, domain[b]}
    BY <1>0, <2>2 DEF Writing
  <2>6. Writing(b)'
    <3>1. place(kept) = "begun" => kept = domain[b] /\ tables[s].stamp = Absent
      BY <2>1
    <3>2. place(kept) = "stamped" => (kept # Absent => tables[s].stamp = domain[b])
      BY <2>5
    <3>3. place(kept) \in {"begun", "stamped"}
      OBVIOUS
    <3> HIDE DEF place
    <3> QED  BY <1>1, <1>2, <2>1, <2>2, <2>4, <2>5, <3>1, <3>2, <3>3 DEF Writing
  <2> QED  BY <1>2, <2>4, <2>6, SingleBuild
<1> QED  BY <1>4, <1>5

(* The stamp, and the record, are put in memory before the publish.        *)
LEMMA MutateKeeps ==
  ASSUME LoneWriter, StorageInv, NEW b \in Builds, NEW after \in Tables, Mutate(StoreOf(b), after),
         Dated(after), after.stamp \in {Absent, domain[b]}, domain[b] # Absent,
         NEW place \in {"stamping", "putting"}, write' = [write EXCEPT ![b].at = place],
         place = "stamping" => write[b].record = domain[b] /\ after.stamp = domain[b],
         UNCHANGED <<stored, older, temp, domain>>
  PROVE  StorageInv'
<1> DEFINE s == StoreOf(b)
<1>0. Typed /\ FilesWhole /\ Serving(s) /\ Writing(b) /\ s \in Openers /\ tables[s] \in Tables
  BY StorageAssumption DEF StorageInv, Typed
<1>1. /\ publishing[s].at = "idle" /\ tables' = [tables EXCEPT ![s] = after]
      /\ publishing' = [publishing EXCEPT ![s] = [at |-> "begun", restore |-> tables[s]]]
  BY DEF Mutate
<1>2. tables[s] = Reading(stored)
  BY <1>0, <1>1 DEF Serving
<1>3. /\ tables' \in [Openers -> Tables] /\ tables'[s] = after
      /\ publishing' \in [Openers -> [at : PublishPlaces, restore : Tables]]
      /\ publishing'[s].at = "begun" /\ publishing'[s].restore = tables[s]
  BY <1>0, <1>1 DEF Typed, PublishPlaces, Underway
<1>4. /\ write' \in [Builds -> [at : WritePlaces, record : Versions \cup {Absent}]]
      /\ write'[b].at = place /\ write'[b].record = write[b].record
  BY <1>0 DEF Typed, WritePlaces
<1>5. Typed'
  BY <1>0, <1>3, <1>4 DEF Typed
<1>6. FilesWhole' /\ Reading(stored)' = Reading(stored)
  BY <1>0 DEF FilesWhole, Reading
<1>7. Serving(s)'
  BY <1>2, <1>3, <1>6 DEF Serving, Underway
<1>8. Writing(b)'
  BY <1>0, <1>3, <1>4, <1>6 DEF Writing
<1> QED  BY <1>5, <1>6, <1>7, <1>8, SingleBuild

LEMMA WriteKeeps ==
  ASSUME LoneWriter, StorageInv, NEW b \in Builds, Stamp(b) \/ PutRecord(b)
  PROVE  StorageInv'
<1> DEFINE s == StoreOf(b)
<1>0. Typed /\ Serving(s) /\ Writing(b) /\ s \in Openers /\ tables[s] \in Tables /\ Dated(tables[s])
       /\ domain[b] \in Versions \cup {Absent} /\ write[b].record \in Versions \cup {Absent}
  BY StorageAssumption DEF StorageInv, Typed, Serving
<1>1. UNCHANGED <<stored, older, temp, domain>>
  BY DEF Stamp, PutRecord, onDisk
<1>2. CASE Stamp(b)
  <2> DEFINE after == [tables[s] EXCEPT !.stamp = domain[b]]
  <2>1. Mutate(s, after) /\ write' = [write EXCEPT ![b].at = "stamping"] /\ write[b].at = "begun"
    BY <1>2 DEF Stamp
  <2>2. domain[b] # Absent /\ write[b].record = domain[b] /\ tables[s].stamp = Absent
    BY <1>0, <2>1 DEF Writing
  <2>3. tables[s].record = Absent
    BY <1>0, <2>2 DEF Dated
  <2>4. after \in Tables /\ after.stamp = domain[b] /\ after.record = Absent
    BY <1>0, <2>3 DEF Tables
  <2>5. Dated(after)
    BY <2>4 DEF Dated
  <2> HIDE DEF after
  <2> QED  BY <1>1, <2>1, <2>2, <2>4, <2>5, MutateKeeps
<1>3. CASE PutRecord(b)
  <2> DEFINE after == [tables[s] EXCEPT !.record = write[b].record]
  <2>1. Mutate(s, after) /\ write' = [write EXCEPT ![b].at = "putting"] /\ write[b].at = "stamped"
    BY <1>3 DEF PutRecord
  <2>2. /\ domain[b] # Absent /\ tables[s].stamp \in {Absent, domain[b]}
        /\ write[b].record \in {Absent, domain[b]}
        /\ write[b].record # Absent => tables[s].stamp = domain[b]
    BY <1>0, <2>1 DEF Writing
  <2>3. after \in Tables /\ after.stamp = tables[s].stamp /\ after.record = write[b].record
    BY <1>0 DEF Tables
  <2>4. Dated(after)
    BY <2>2, <2>3 DEF Dated
  <2> HIDE DEF after
  <2> QED  BY <1>1, <2>1, <2>2, <2>3, <2>4, MutateKeeps
<1> QED  BY <1>2, <1>3

LEMMA GoesOnKeeps ==
  ASSUME LoneWriter, StorageInv, NEW b \in Builds, WriteGoesOn(b)
  PROVE  StorageInv'
<1> DEFINE s == StoreOf(b)
<1>0. Typed /\ FilesWhole /\ Serving(s) /\ Writing(b) /\ s \in Openers
  BY StorageAssumption DEF StorageInv
<1>1. PICK w \in {NoWrite, [write[b] EXCEPT !.at = "stamped"]} :
        /\ write' = [write EXCEPT ![b] = w]
        /\ w # NoWrite => write[b].at = "stamping" /\ publishing[s].at = "published"
  BY DEF WriteGoesOn
<1>2. /\ write[b].at \in {"stamping", "putting"} /\ publishing[s].at \in {"published", "failed"}
      /\ publishing' = [publishing EXCEPT ![s] = Resting]
      /\ UNCHANGED <<stored, older, temp, tables, domain>>
  BY DEF WriteGoesOn, onDisk
<1>3. Resting \in [at : PublishPlaces, restore : Tables] /\ Resting.at = "idle"
  BY EmptyIsDated DEF Resting, PublishPlaces
<1>4. /\ publishing' \in [Openers -> [at : PublishPlaces, restore : Tables]]
      /\ publishing'[s].at = "idle"
  BY <1>0, <1>2, <1>3 DEF Typed
<1>5. w \in [at : WritePlaces, record : Versions \cup {Absent}]
  BY <1>0, <1>1 DEF Typed, WritePlaces, NoWrite
<1>6. Typed' /\ write'[b] = w
  BY <1>0, <1>1, <1>2, <1>4, <1>5 DEF Typed
<1>7. FilesWhole' /\ Reading(stored)' = Reading(stored)
  BY <1>0, <1>2 DEF FilesWhole, Reading
<1>8. Serving(s)'
  BY <1>0, <1>2, <1>4, <1>7 DEF Serving, Underway
<1>9. Writing(b)'
  <2>1. CASE w = NoWrite
    <3>1. w.at = "idle"
      BY <2>1 DEF NoWrite
    <3> QED  BY <1>0, <1>2, <1>4, <1>6, <1>7, <3>1 DEF Writing
  <2>2. CASE w # NoWrite
    <3>1. w.at = "stamped" /\ w.record = write[b].record
      BY <1>0, <1>1, <2>2 DEF Typed
    <3>2. write[b].record = domain[b] /\ tables[s].stamp = domain[b]
      BY <1>0, <1>1, <2>2 DEF Writing
    <3> QED  BY <1>0, <1>2, <1>4, <1>6, <1>7, <3>1, <3>2 DEF Writing
  <2> QED  BY <2>1, <2>2
<1> QED  BY <1>6, <1>7, <1>8, <1>9, SingleBuild

-----------------------------------------------------------------------------
(* An end leaves a file that was whole, and no memory. *)
LEMMA EndsKeep ==
  ASSUME StorageInv, ProcessEnds \/ MachineEnds
  PROVE  StorageInv'
<1>0. FilesWhole
  BY DEF StorageInv
<1>1. /\ tables' = [s \in Openers |-> Empty] /\ publishing' = [s \in Openers |-> Closed]
      /\ domain' = [b \in Builds |-> Absent] /\ write' = [b \in Builds |-> NoWrite]
  BY DEF ProcessEnds, MachineEnds, Ends
<1>2. Typed'
  BY <1>1, EmptyIsDated DEF Typed, Closed, NoWrite, PublishPlaces, WritePlaces
<1>3. FilesWhole'
  <2>1. CASE ProcessEnds
    BY <1>0, <2>1 DEF ProcessEnds, onDisk, FilesWhole
  <2>2. CASE MachineEnds
    <3>1. PICK content \in older \cup {IF stored.synced THEN stored.content ELSE Partial} :
            stored' = Held(content, TRUE) /\ older' = {content}
      BY <2>2 DEF MachineEnds
    <3>2. content \in Whole
      BY <1>0, <3>1 DEF FilesWhole
    <3> QED  BY <3>1, <3>2 DEF FilesWhole, Held
  <2> QED  BY <2>1, <2>2
<1>4. \A s \in Openers : Serving(s)'
  BY <1>1, EmptyIsDated DEF Serving, Closed, Underway
<1>5. \A b \in Builds : Writing(b)'
  BY <1>1, StorageAssumption DEF Writing, Closed, NoWrite
<1> QED  BY <1>2, <1>3, <1>4, <1>5 DEF StorageInv

LEMMA StorageStep == LoneWriter /\ StorageInv /\ [StorageNext]_storageVars => StorageInv'
<1> SUFFICES ASSUME LoneWriter, StorageInv, [StorageNext]_storageVars PROVE StorageInv'
  OBVIOUS
<1>1. CASE StorageNext
  <2>1. ASSUME NEW s \in Openers,
               OpenStore(s) \/ Create(s) \/ WriteAll(s) \/ SyncAll(s) \/ Rename(s) \/ Published(s)
               \/ PublishFails(s)
        PROVE  StorageInv'
    BY <2>1, OpeningKeepsStore, PublishSteps, FailingKeeps
  <2>2. ASSUME NEW b \in Builds,
               OpenDomain(b) \/ BeginWrite(b) \/ Stamp(b) \/ PutRecord(b) \/ WriteGoesOn(b)
        PROVE  StorageInv'
    BY <2>2, DomainKeeps, WriteKeeps, GoesOnKeeps
  <2>3. CASE ProcessEnds \/ MachineEnds
    BY <2>3, EndsKeep
  <2> QED  BY <1>1, <2>1, <2>2, <2>3 DEF StorageNext
<1>2. CASE UNCHANGED storageVars
  BY <1>2 DEF storageVars, StorageInv, Typed, FilesWhole, Serving, Writing
<1> QED  BY <1>1, <1>2

(* What a store serves is what is stored, and what is stored is dated,     *)
(* over any number of writes, failures of any step of a publish and ends   *)
(* of the process or of the machine, with one store on the file and one    *)
(* domain on it (json.rs, publish; domain.rs, open and put).               *)
THEOREM ServesWhatIsStored == LoneWriter => (StorageSpec => []StoredAndDated)
<1> SUFFICES ASSUME LoneWriter PROVE StorageSpec => []StoredAndDated
  OBVIOUS
<1>1. StorageInv /\ [StorageNext]_storageVars => StorageInv'
  BY StorageStep
<1> QED  BY <1>1, InvImplies, StorageStarts, PTL DEF StorageSpec

-----------------------------------------------------------------------------
(***************************************************************************)
(* The memory of a session, its file and the files it was forked from tell *)
(* one history, for any sessions, processes, calls and deaths, as long as  *)
(* opens of one session keep apart.                                        *)
(*                                                                         *)
(* A handle is one session's, from its open on: whoever opens a session    *)
(* finds no other handle of it at work, and the one that became live stays *)
(* the only one until its process dies.                                    *)
(***************************************************************************)
LinesOf == [seq : Nat, ty : Types, in : Sessions, fork : Nat]

Handling == {"repairing", "heading", "inserting"}
Served == {"taking", "agent", "prompting", "running", "watching"}
Forking == {"forking", "creating", "seeding"}

StoreTyped ==
  /\ exists \subseteq Sessions /\ journal \in [Sessions -> Seq(LinesOf)]
  /\ mirror \in Seq(Seq(LinesOf))
  /\ live \in [Processes -> [Sessions -> 0 .. Len(mirror)]]
  /\ agent \in [Processes -> [Sessions -> 0 .. Len(mirror)]]
  /\ at \in [Callers -> Places] /\ hold \in [Callers -> 0 .. Len(mirror)]
  /\ seed \in [Callers -> Seq(LinesOf)] /\ DOMAIN job = Callers
  /\ \A c \in Callers : at[c] # "out" => Named(job[c])
  /\ \A c \in Callers : at[c] \in Forking => Op(c) = "fork"

(* What is live is the one handle of its session, and the agent has it.    *)
LiveInv ==
  /\ LiveIsJournal
  /\ \A p, q \in Processes, s, t \in Sessions :
       live[p][s] # 0 /\ live[q][t] # 0 /\ (s = t \/ live[p][s] = live[q][t]) =>
         p = q /\ s = t
  /\ \A p \in Processes, s \in Sessions :
       /\ live[p][s] # 0 => s \in exists
       /\ agent[p][s] # 0 => agent[p][s] = live[p][s]

(* A call that opens a session has the only handle that is not live yet.   *)
OpenInv ==
  /\ \A c \in Callers : at[c] \in OpensAt => \A p \in Processes : live[p][Id(c)] = 0
  /\ \A c \in Callers : at[c] \in Handling =>
       /\ hold[c] # 0 /\ mirror[hold[c]] = journal[Id(c)] /\ Id(c) \in exists
       /\ \A p \in Processes, s \in Sessions : live[p][s] # hold[c]
       /\ \A d \in Callers : at[d] \in Handling /\ hold[d] = hold[c] => d = c

ServedInv ==
  \A c \in Callers :
    /\ at[c] \in Served => live[Store(c)][Id(c)] # 0
    /\ at[c] = "agent" => hold[c] = live[Store(c)][Id(c)]
    /\ at[c] \in {"prompting", "running"} => agent[Store(c)][Id(c)] # 0

(* The lines l, in session s, that are another's are that one's too.       *)
Descends(j, s, l) ==
  \A i \in DOMAIN l : l[i].in # s =>
    /\ i <= l[1].fork + 1
    /\ i <= Len(j[l[i].in]) /\ j[l[i].in][i] = l[i]

ForkInv ==
  /\ \A s \in Sessions : s \notin exists => journal[s] = <<>>
  /\ \A s \in Sessions : Descends(journal, s, journal[s])
  /\ \A c \in Callers :
       /\ at[c] = "creating" => Descends(journal, Id(c), seed[c])
       /\ at[c] = "seeding" => /\ Id(c) \in exists
                               /\ Descends(journal, Id(c), journal[Id(c)] \o seed[c])

StoreInv == StoreTyped /\ LiveInv /\ OpenInv /\ ServedInv /\ ForkInv

-----------------------------------------------------------------------------
(* Journals only grow. *)

Grows(j, k) ==
  \A s \in Sessions : Len(j[s]) <= Len(k[s]) /\ \A i \in 1 .. Len(j[s]) : k[s][i] = j[s][i]

LEMMA DescendsLasts ==
  ASSUME NEW j \in [Sessions -> Seq(LinesOf)], NEW k \in [Sessions -> Seq(LinesOf)], Grows(j, k),
         NEW s, NEW l \in Seq(LinesOf), Descends(j, s, l)
  PROVE  Descends(k, s, l)
<1> SUFFICES ASSUME NEW i \in DOMAIN l, l[i].in # s
             PROVE  i <= l[1].fork + 1 /\ i <= Len(k[l[i].in]) /\ k[l[i].in][i] = l[i]
  BY DEF Descends
<1>1. l[i].in \in Sessions /\ i \in Nat /\ i >= 1
  <2>1. l[i] \in LinesOf /\ i \in 1 .. Len(l)
    OBVIOUS
  <2> QED  BY <2>1 DEF LinesOf
<1> DEFINE t == l[i].in
<1>2. i <= l[1].fork + 1 /\ i <= Len(j[t]) /\ j[t][i] = l[i]
  BY DEF Descends
<1>3. /\ Len(j[t]) <= Len(k[t]) /\ \A m \in 1 .. Len(j[t]) : k[t][m] = j[t][m]
      /\ Len(j[t]) \in Nat /\ Len(k[t]) \in Nat
  BY <1>1 DEF Grows
<1> HIDE DEF t
<1>4. i <= Len(k[t]) /\ k[t][i] = l[i]
  BY <1>1, <1>2, <1>3
<1> QED  BY <1>2, <1>4 DEF t

(* A line of its own behind, or a beginning.                               *)
LEMMA DescendsMore ==
  ASSUME NEW j, NEW s, NEW l \in Seq(LinesOf), NEW e \in LinesOf, e.in = s, Descends(j, s, l)
  PROVE  Descends(j, s, Append(l, e))
<1>1. /\ DOMAIN Append(l, e) = 1 .. Len(l) + 1 /\ Len(l) \in Nat /\ DOMAIN l = 1 .. Len(l)
      /\ \A i \in 1 .. Len(l) : Append(l, e)[i] = l[i]
      /\ Append(l, e)[Len(l) + 1] = e
  OBVIOUS
<1> DEFINE m == Append(l, e)
<1> HIDE DEF m
<1> SUFFICES ASSUME NEW i \in DOMAIN m, m[i].in # s
             PROVE  i <= m[1].fork + 1 /\ i <= Len(j[m[i].in]) /\ j[m[i].in][i] = m[i]
  BY DEF Descends, m
<1>2. i \in 1 .. Len(l) /\ m[i] = l[i] /\ m[1] = l[1]
  BY <1>1 DEF m
<1> QED  BY <1>1, <1>2 DEF Descends

LEMMA DescendsStart ==
  ASSUME NEW j, NEW s, NEW l \in Seq(LinesOf), NEW m \in Seq(LinesOf), Descends(j, s, l),
         Len(m) <= Len(l), \A i \in 1 .. Len(m) : m[i] = l[i]
  PROVE  Descends(j, s, m)
<1> SUFFICES ASSUME NEW i \in DOMAIN m, m[i].in # s
             PROVE  i <= m[1].fork + 1 /\ i <= Len(j[m[i].in]) /\ j[m[i].in][i] = m[i]
  BY DEF Descends
<1>1. i \in DOMAIN l /\ m[i] = l[i] /\ m[1] = l[1]
  OBVIOUS
<1> QED  BY <1>1 DEF Descends

(* What a fork takes of a journal.                                         *)
LEMMA InheritedIs ==
  ASSUME NEW c, Child(c) \in Sessions, NEW l \in Seq(LinesOf), NEW b \in Nat, b < Len(l)
  PROVE  /\ Inherited(l, b, c) \in Seq(LinesOf) /\ Len(Inherited(l, b, c)) = b + 1
         /\ Inherited(l, b, c)[1] = Line(0, "session/start", Child(c), b)
         /\ \A i \in 2 .. b + 1 : Inherited(l, b, c)[i] = l[i]
<1> DEFINE h == Line(0, "session/start", Child(c), b)
           r == SubSeq(l, 2, b + 1)
<1>1. h \in LinesOf
  BY DEF Line, LinesOf, Types
<1>2. \A i \in 2 .. b + 1 : l[i] \in LinesOf
  OBVIOUS
<1>3. r \in Seq(LinesOf) /\ Len(r) = b /\ \A i \in 1 .. b : r[i] = l[i + 1]
  <2>1. /\ r \in Seq(LinesOf) /\ Len(r) = IF 2 <= b + 1 THEN (b + 1) - 2 + 1 ELSE 0
        /\ \A i \in 1 .. (b + 1) - 2 + 1 : r[i] = l[2 + i - 1]
    BY <1>2, SubSeqProperties, 2 \in Int, b + 1 \in Int
  <2> HIDE DEF r
  <2> QED  BY <2>1
<1> HIDE DEF h, r
<1>4. /\ <<h>> \o r \in Seq(LinesOf) /\ Len(<<h>> \o r) = b + 1 /\ (<<h>> \o r)[1] = h
      /\ \A i \in 2 .. b + 1 : (<<h>> \o r)[i] = r[i - 1]
  BY <1>1, <1>3
<1>5. Inherited(l, b, c) = <<h>> \o r
  BY DEF Inherited, h, r
<1>6. \A i \in 2 .. b + 1 : r[i - 1] = l[i]
  BY <1>3
<1> QED  BY <1>4, <1>5, <1>6 DEF h

-----------------------------------------------------------------------------
(* The steps. *)

(* A step of one call that writes nothing and opens nothing. *)
LEMMA StoreMoves ==
  ASSUME StoreInv, OpensApart', NEW c \in Callers, NEW place \in Places,
         UNCHANGED <<exists, journal, mirror, live>>, at' = [at EXCEPT ![c] = place],
         DOMAIN job' = Callers, \A d \in Callers \ {c} : job'[d] = job[d],
         hold' \in [Callers -> 0 .. Len(mirror)], \A d \in Callers \ {c} : hold'[d] = hold[d],
         seed' \in [Callers -> Seq(LinesOf)], \A d \in Callers \ {c} : seed'[d] = seed[d],
         agent' \in [Processes -> [Sessions -> 0 .. Len(mirror)]],
         \A p \in Processes, s \in Sessions :
           /\ agent[p][s] # 0 => agent'[p][s] = agent[p][s]
           /\ agent'[p][s] # 0 => agent'[p][s] = live[p][s],
         place # "out" => Named(job'[c]),
         place \in Forking => Op(c)' = "fork" /\ place # "seeding",
         place = "creating" => Descends(journal, Id(c)', seed'[c]),
         place \in OpensAt => place \in {"reading", "opening"} /\ live[Store(c)][Id(c)'] = 0,
         place \in Served => live[Store(c)][Id(c)'] # 0,
         place = "agent" => hold'[c] = live[Store(c)][Id(c)'],
         place \in {"prompting", "running"} => agent'[Store(c)][Id(c)'] # 0
  PROVE  StoreInv'
<1>1. /\ at \in [Callers -> Places] /\ at'[c] = place
      /\ \A d \in Callers \ {c} : at'[d] = at[d] /\ Id(d)' = Id(d) /\ Op(d)' = Op(d)
  BY DEF StoreInv, StoreTyped, Id, Op
<1>2. StoreTyped'
  BY <1>1 DEF StoreInv, StoreTyped
<1>3. LiveInv'
  <2>1. LiveIsJournal'
    BY DEF StoreInv, LiveInv, LiveIsJournal
  <2> QED  BY <2>1 DEF StoreInv, LiveInv
<1>4. OpenInv'
  <2>1. \A d \in Callers : at'[d] \in OpensAt => \A p \in Processes : live'[p][Id(d)'] = 0
    <3>1. CASE place \in OpensAt
      <4>1. \A p \in Processes \ {Store(c)} : live'[p][Id(c)'] = 0
        BY <1>1, <3>1 DEF OpensApart, Store
      <4> QED  BY <1>1, <4>1 DEF StoreInv, OpenInv
    <3>2. CASE place \notin OpensAt
      BY <1>1, <3>2 DEF StoreInv, OpenInv
    <3> QED  BY <3>1, <3>2
  <2>2. \A d \in Callers : at'[d] \in Handling => d # c /\ at[d] \in Handling
    BY <1>1 DEF Handling, OpensAt
  <2>3. ASSUME NEW d \in Callers, at'[d] \in Handling
        PROVE  /\ hold'[d] # 0 /\ mirror'[hold'[d]] = journal'[Id(d)'] /\ Id(d)' \in exists'
               /\ \A p \in Processes, s \in Sessions : live'[p][s] # hold'[d]
               /\ \A f \in Callers : at'[f] \in Handling /\ hold'[f] = hold'[d] => f = d
    <3>1. d # c /\ at[d] \in Handling /\ hold'[d] = hold[d] /\ Id(d)' = Id(d)
      BY <1>1, <2>2, <2>3
    <3>2. /\ hold[d] # 0 /\ mirror[hold[d]] = journal[Id(d)] /\ Id(d) \in exists
          /\ \A p \in Processes, s \in Sessions : live[p][s] # hold[d]
          /\ \A f \in Callers : at[f] \in Handling /\ hold[f] = hold[d] => f = d
      BY <3>1 DEF StoreInv, OpenInv
    <3>3. \A f \in Callers : at'[f] \in Handling => at[f] \in Handling /\ hold'[f] = hold[f]
      BY <2>2
    <3>4. \A f \in Callers : at'[f] \in Handling /\ hold'[f] = hold'[d] => f = d
      BY <3>1, <3>2, <3>3
    <3>5. /\ hold'[d] # 0 /\ mirror'[hold'[d]] = journal'[Id(d)'] /\ Id(d)' \in exists'
          /\ \A p \in Processes, s \in Sessions : live'[p][s] # hold'[d]
      BY <3>1, <3>2
    <3> QED  BY <3>4, <3>5
  <2> QED  BY <2>1, <2>3 DEF OpenInv
<1>5. ServedInv'
  <2> SUFFICES ASSUME NEW d \in Callers
               PROVE  /\ at'[d] \in Served => live'[Store(d)][Id(d)'] # 0
                      /\ at'[d] = "agent" => hold'[d] = live'[Store(d)][Id(d)']
                      /\ at'[d] \in {"prompting", "running"} => agent'[Store(d)][Id(d)'] # 0
    BY DEF ServedInv, Store
  <2>1. CASE d = c
    BY <1>1, <2>1
  <2>2. CASE d # c
    <3>1. /\ at'[d] = at[d] /\ Id(d)' = Id(d) /\ hold'[d] = hold[d]
          /\ at[d] \in Served => live[Store(d)][Id(d)] # 0
          /\ at[d] = "agent" => hold[d] = live[Store(d)][Id(d)]
          /\ at[d] \in {"prompting", "running"} => agent[Store(d)][Id(d)] # 0
      BY <1>1, <2>2 DEF StoreInv, ServedInv
    <3>2. at[d] # "out" => Store(d) \in Processes /\ Id(d) \in Sessions
      BY StoreAssumption DEF StoreInv, StoreTyped, Named, Id, Store
    <3> QED  BY <3>1, <3>2
  <2> QED  BY <2>1, <2>2
<1>6. ForkInv'
  <2>1. \A d \in Callers : at'[d] = "seeding" => d # c /\ at[d] = "seeding" /\ Id(d)' = Id(d)
                                                 /\ seed'[d] = seed[d]
    BY <1>1 DEF Forking
  <2>2. \A d \in Callers \ {c} : at'[d] = "creating" => at[d] = "creating" /\ Id(d)' = Id(d)
                                                       /\ seed'[d] = seed[d]
    BY <1>1
  <2>3. \A d \in Callers : at'[d] = "creating" => Descends(journal', Id(d)', seed'[d])
    BY <1>1, <2>2 DEF StoreInv, ForkInv
  <2>4. \A d \in Callers : at'[d] = "seeding" => Id(d)' \in exists' /\
                                Descends(journal', Id(d)', journal'[Id(d)'] \o seed'[d])
    BY <2>1 DEF StoreInv, ForkInv
  <2>5. /\ \A s \in Sessions : s \notin exists' => journal'[s] = <<>>
        /\ \A s \in Sessions : Descends(journal', s, journal'[s])
    BY DEF StoreInv, ForkInv
  <2> QED  BY <2>3, <2>4, <2>5 DEF ForkInv
<1> QED  BY <1>2, <1>3, <1>4, <1>5, <1>6 DEF StoreInv

LEMMA StoreIsTyped ==
  ASSUME StoreInv
  PROVE  /\ DOMAIN job = Callers /\ hold \in [Callers -> 0 .. Len(mirror)]
         /\ seed \in [Callers -> Seq(LinesOf)]
         /\ agent \in [Processes -> [Sessions -> 0 .. Len(mirror)]]
         /\ \A p \in Processes, s \in Sessions : agent[p][s] # 0 => agent[p][s] = live[p][s]
BY DEF StoreInv, StoreTyped, LiveInv

LEMMA CallMoves ==
  ASSUME StoreInv, OpensApart', NEW c \in Callers, NEW j \in Jobs[c], Call(c, j)
  PROVE  StoreInv'
<1>1. PICK place : place = IF j[1] = "fork" THEN "forking" ELSE "looking"
  OBVIOUS
<1>2. /\ UNCHANGED <<exists, journal, mirror, live, agent, hold, seed>>
      /\ at' = [at EXCEPT ![c] = place] /\ job' = [job EXCEPT ![c] = j]
  BY <1>1 DEF Call, Goto, disk, memory
<1>3. DOMAIN job' = Callers /\ job'[c] = j /\ \A d \in Callers \ {c} : job'[d] = job[d]
  BY <1>2 DEF StoreInv, StoreTyped
<1>4. Named(job'[c]) /\ (place = "forking" => Op(c)' = "fork")
  BY <1>1, <1>3, StoreAssumption DEF Op
<1>5. place \in Places /\ place \notin OpensAt \cup Served \cup {"creating", "seeding"}
  BY <1>1 DEF Places, OpensAt, Served
<1>6. /\ hold' \in [Callers -> 0 .. Len(mirror)] /\ seed' \in [Callers -> Seq(LinesOf)]
      /\ agent' \in [Processes -> [Sessions -> 0 .. Len(mirror)]]
      /\ \A d \in Callers \ {c} : hold'[d] = hold[d] /\ seed'[d] = seed[d]
      /\ \A p \in Processes, s \in Sessions :
           /\ agent[p][s] # 0 => agent'[p][s] = agent[p][s]
           /\ agent'[p][s] # 0 => agent'[p][s] = live[p][s]
  BY <1>2, StoreIsTyped
<1>7. UNCHANGED <<exists, journal, mirror, live>> /\ place \notin {"agent", "prompting", "running"}
      /\ (place \in Forking => Op(c)' = "fork" /\ place # "seeding")
  BY <1>2, <1>4, <1>5 DEF Forking, Served
<1> QED  BY <1>2, <1>3, <1>4, <1>5, <1>6, <1>7, StoreMoves

LEMMA Here ==
  ASSUME StoreInv, NEW c \in Callers, at[c] # "out"
  PROVE  /\ Named(job[c]) /\ Id(c) \in Sessions /\ Store(c) \in Processes
         /\ live[Store(c)][Id(c)] \in 0 .. Len(mirror) /\ journal[Id(c)] \in Seq(LinesOf)
         /\ (Op(c) = "fork" => Source(c) \in Sessions)
BY StoreAssumption DEF StoreInv, StoreTyped, Named, Id, Store, Op, Source

(* The same call goes on, and may take a handle up. *)
LEMMA SameCall ==
  ASSUME StoreInv, OpensApart', NEW c \in Callers, NEW place \in Places, at[c] # "out",
         UNCHANGED <<exists, journal, mirror, live, agent, job, seed>>,
         at' = [at EXCEPT ![c] = place], hold' = [hold EXCEPT ![c] = hold'[c]],
         hold'[c] \in {hold[c], live[Store(c)][Id(c)]},
         place \notin Forking,
         place \in OpensAt => place \in {"reading", "opening"} /\ live[Store(c)][Id(c)] = 0,
         place \in Served => live[Store(c)][Id(c)] # 0,
         place = "agent" => hold'[c] = live[Store(c)][Id(c)],
         place \in {"prompting", "running"} => agent[Store(c)][Id(c)] # 0
  PROVE  StoreInv'
<1>1. /\ DOMAIN job' = Callers /\ \A d \in Callers \ {c} : job'[d] = job[d] /\ seed'[d] = seed[d]
      /\ seed' \in [Callers -> Seq(LinesOf)]
      /\ agent' \in [Processes -> [Sessions -> 0 .. Len(mirror)]]
      /\ \A p \in Processes, s \in Sessions :
           /\ agent[p][s] # 0 => agent'[p][s] = agent[p][s]
           /\ agent'[p][s] # 0 => agent'[p][s] = live[p][s]
  BY StoreIsTyped
<1>2. Named(job[c]) /\ Id(c) \in Sessions /\ Store(c) \in Processes /\ Id(c)' = Id(c)
      /\ live[Store(c)][Id(c)] \in 0 .. Len(mirror)
  BY Here DEF Id
<1>3. PICK h : h = hold'[c]
  OBVIOUS
<1>4. hold' \in [Callers -> 0 .. Len(mirror)] /\ \A d \in Callers \ {c} : hold'[d] = hold[d]
  <2>1. hold' = [hold EXCEPT ![c] = h] /\ h \in {hold[c], live[Store(c)][Id(c)]}
    BY <1>3
  <2>2. hold \in [Callers -> 0 .. Len(mirror)] /\ h \in 0 .. Len(mirror)
    BY <1>2, <2>1, StoreIsTyped
  <2> QED  BY <2>1, <2>2
<1>5. /\ place # "out" => Named(job'[c])
      /\ place \notin Forking /\ place # "creating"
  BY <1>2 DEF Forking
<1>6. /\ place \in OpensAt => place \in {"reading", "opening"} /\ live[Store(c)][Id(c)'] = 0
      /\ place \in Served => live[Store(c)][Id(c)'] # 0
      /\ place = "agent" => hold'[c] = live[Store(c)][Id(c)']
      /\ place \in {"prompting", "running"} => agent'[Store(c)][Id(c)'] # 0
  BY <1>2
<1>7. UNCHANGED <<exists, journal, mirror, live>>
  OBVIOUS
<1> QED  BY <1>1, <1>4, <1>5, <1>6, <1>7, StoreMoves

LEMMA OnwardsIs ==
  ASSUME NEW c
  PROVE  Onwards(c) \in {"agent", "watching", "out"}
BY DEF Onwards

LEMMA LookMoves ==
  ASSUME StoreInv, OpensApart', NEW c \in Callers, FindLive(c) \/ Miss(c)
  PROVE  StoreInv'
<1>1. at[c] = "looking" /\ UNCHANGED <<exists, journal, mirror, live, agent, job, seed>>
  BY DEF FindLive, Miss, disk, memory, local
<1>2. CASE FindLive(c)
  <2>1. /\ at' = [at EXCEPT ![c] = Onwards(c)] /\ hold' = [hold EXCEPT ![c] = Live(c)]
        /\ live[Store(c)][Id(c)] # 0 /\ Live(c) = live[Store(c)][Id(c)]
    BY <1>2 DEF FindLive, Goto, Live
  <2>2. hold'[c] = Live(c) /\ hold' = [hold EXCEPT ![c] = hold'[c]]
    BY <2>1 DEF StoreInv, StoreTyped
  <2> QED  BY <1>1, <2>1, <2>2, OnwardsIs, SameCall DEF Places, Forking, OpensAt, Served
<1>3. CASE Miss(c)
  <2>1. PICK place \in {"out", "reading"} : at' = [at EXCEPT ![c] = place]
    BY <1>3 DEF Miss, Goto
  <2>2. hold' = hold /\ live[Store(c)][Id(c)] = 0
    BY <1>3 DEF Miss, local, Live
  <2>3. hold' = [hold EXCEPT ![c] = hold'[c]] /\ hold'[c] = hold[c]
    BY <2>2 DEF StoreInv, StoreTyped
  <2> QED  BY <1>1, <2>1, <2>2, <2>3, SameCall DEF Places, Forking, OpensAt, Served
<1> QED  BY <1>2, <1>3

LEMMA ReadMoves ==
  ASSUME StoreInv, OpensApart', NEW c \in Callers, ReadStored(c)
  PROVE  StoreInv'
<1>1. /\ at[c] = "reading" /\ UNCHANGED <<exists, journal, mirror, live, agent, job, seed, hold>>
  BY DEF ReadStored, disk, memory
<1>2. PICK place \in {"out", "opening"} : at' = [at EXCEPT ![c] = place]
  BY DEF ReadStored, Goto
<1>3. live[Store(c)][Id(c)] = 0
  BY <1>1, Here DEF StoreInv, OpenInv, OpensAt
<1>4. hold' = [hold EXCEPT ![c] = hold'[c]] /\ hold'[c] = hold[c]
  BY <1>1 DEF StoreInv, StoreTyped
<1> QED  BY <1>1, <1>2, <1>3, <1>4, SameCall DEF Places, Forking, OpensAt, Served

LEMMA TakeMoves ==
  ASSUME StoreInv, OpensApart', NEW c \in Callers, Take(c)
  PROVE  StoreInv'
<1>1. at[c] = "taking" /\ UNCHANGED <<exists, journal, mirror, live, agent, job, seed>>
  BY DEF Take, disk, memory
<1>2. /\ at' = [at EXCEPT ![c] = Onwards(c)] /\ hold' = [hold EXCEPT ![c] = Live(c)]
      /\ live[Store(c)][Id(c)] # 0 /\ Live(c) = live[Store(c)][Id(c)]
  BY <1>1 DEF Take, Goto, Live, StoreInv, ServedInv, Served
<1>3. hold'[c] = Live(c) /\ hold' = [hold EXCEPT ![c] = hold'[c]]
  BY <1>2 DEF StoreInv, StoreTyped
<1> QED  BY <1>1, <1>2, <1>3, OnwardsIs, SameCall DEF Places, Forking, OpensAt, Served

(* A call that is over, or looks for what it forked. *)
LEMMA LeaveMoves ==
  ASSUME StoreInv, OpensApart', NEW c \in Callers, at[c] # "out",
         NEW place \in {"out", "looking"}, Goto(c, place),
         UNCHANGED <<disk, mirror, live, agent, local>>
  PROVE  StoreInv'
<1>1. at' = [at EXCEPT ![c] = place] /\ UNCHANGED <<exists, journal, mirror, live, agent, job, seed, hold>>
  BY DEF Goto, disk, local
<1>2. hold' = [hold EXCEPT ![c] = hold'[c]] /\ hold'[c] = hold[c]
  BY <1>1 DEF StoreInv, StoreTyped
<1> QED  BY <1>1, <1>2, SameCall DEF Places, Forking, OpensAt, Served

LEMMA AgentMoves ==
  ASSUME StoreInv, OpensApart', NEW c \in Callers, AgentFor(c)
  PROVE  StoreInv'
<1> DEFINE p == Store(c)
           s == Id(c)
           h == IF agent[p][s] = 0 THEN hold[c] ELSE agent[p][s]
<1>1. /\ at[c] = "agent" /\ UNCHANGED <<exists, journal, mirror, live, job, seed, hold>>
      /\ at' = [at EXCEPT ![c] = "prompting"] /\ agent' = [agent EXCEPT ![p][s] = h]
  BY DEF AgentFor, Goto, disk, local
<1>2. /\ Named(job[c]) /\ s \in Sessions /\ p \in Processes
      /\ live[p][s] \in 0 .. Len(mirror)
  BY <1>1, Here
<1>3. live[p][s] # 0 /\ hold[c] = live[p][s]
  BY <1>1 DEF StoreInv, ServedInv, Served
<1>4. /\ StoreTyped
      /\ \A q \in Processes, t \in Sessions : agent[q][t] # 0 => agent[q][t] = live[q][t]
  BY DEF StoreInv, LiveInv
<1>5. h = live[p][s]
  BY <1>2, <1>3, <1>4
<1> HIDE DEF p, s, h
<1>6. /\ agent' \in [Processes -> [Sessions -> 0 .. Len(mirror)]] /\ agent'[p][s] = h
      /\ \A q \in Processes, t \in Sessions :
           /\ agent[q][t] # 0 => agent'[q][t] = agent[q][t]
           /\ agent'[q][t] # 0 => agent'[q][t] = live[q][t]
  BY <1>1, <1>2, <1>4, <1>5 DEF StoreTyped, h
<1>7. Id(c)' = s /\ p = Store(c)
  BY <1>1 DEF Id, s, p
<1> QED  BY <1>1, <1>2, <1>3, <1>4, <1>5, <1>6, <1>7, StoreMoves
         DEF StoreTyped, Places, Forking, OpensAt, Served

LEMMA ReadParentMoves ==
  ASSUME StoreInv, OpensApart', NEW c \in Callers, ReadParent(c)
  PROVE  StoreInv'
<1>1. at[c] = "forking" /\ Op(c) = "fork"
  BY DEF ReadParent, StoreInv, StoreTyped, Forking
<1> DEFINE l == History(c)
<1>2. CASE Refuse(c)
  BY <1>1, <1>2, LeaveMoves DEF Refuse, memory
<1>3. CASE /\ \E b \in 0 .. MaxRecords :
                Boundary(l, b) /\ seed' = [seed EXCEPT ![c] = Inherited(l, b, c)]
           /\ Goto(c, "creating")
           /\ UNCHANGED <<disk, mirror, memory, job, hold, known>>
  <2>1. /\ at' = [at EXCEPT ![c] = "creating"]
        /\ UNCHANGED <<exists, journal, mirror, live, agent, job, hold>>
    BY <1>3 DEF Goto, disk, memory
  <2>2. PICK b \in Nat : b < Len(l) /\ seed' = [seed EXCEPT ![c] = Inherited(l, b, c)]
    <3>1. PICK b \in 0 .. MaxRecords : Boundary(l, b) /\ seed' = [seed EXCEPT ![c] = Inherited(l, b, c)]
      BY <1>3
    <3>2. b \in Nat /\ b < Len(l)
      BY <3>1, StoreAssumption DEF Boundary
    <3> QED  BY <3>1, <3>2
  <2>3. PICK src : src = Source(c)
    OBVIOUS
  <2>4. /\ src \in Sessions /\ Store(c) \in Processes /\ Child(c) \in Sessions /\ Named(job[c])
        /\ Child(c) = Id(c) /\ Id(c)' = Id(c) /\ Op(c)' = Op(c)
    BY <1>1, <2>1, <2>3, Here DEF Child, Id, Op
  <2>5. l = journal[src] /\ journal[src] \in Seq(LinesOf)
    BY <2>3, <2>4 DEF StoreInv, StoreTyped, LiveInv, LiveIsJournal, History
  <2>6. /\ \A q \in Processes, t \in Sessions : agent[q][t] # 0 => agent[q][t] = live[q][t]
        /\ StoreTyped /\ Descends(journal, src, journal[src])
    BY <2>4 DEF StoreInv, LiveInv, ForkInv
  <2> HIDE DEF l
  <2>7. PICK m : m = Inherited(l, b, c)
    OBVIOUS
  <2>8. /\ m \in Seq(LinesOf) /\ Len(m) = b + 1 /\ m[1] = Line(0, "session/start", Child(c), b)
        /\ \A i \in 2 .. b + 1 : m[i] = l[i]
    BY <2>2, <2>4, <2>5, <2>7, InheritedIs
  <2>9. Descends(journal, Child(c), m)
    <3> SUFFICES ASSUME NEW i \in DOMAIN m, m[i].in # Child(c)
                 PROVE  /\ i <= m[1].fork + 1
                        /\ i <= Len(journal[m[i].in]) /\ journal[m[i].in][i] = m[i]
      BY DEF Descends
    <3>1. m[1].in = Child(c) /\ m[1].fork = b
      BY <2>8 DEF Line
    <3>2. i \in 1 .. b + 1 /\ i # 1 /\ b + 1 <= Len(l)
      BY <2>2, <2>5, <2>8, <3>1
    <3>3. i \in 2 .. b + 1 /\ m[i] = l[i] /\ i \in DOMAIN l /\ i <= Len(l)
      BY <2>2, <2>5, <2>8, <3>2
    <3>4. i <= Len(journal[m[i].in]) /\ journal[m[i].in][i] = m[i]
      BY <2>5, <2>6, <3>3 DEF Descends
    <3> QED  BY <3>1, <3>2, <3>4
  <2>10. seed' \in [Callers -> Seq(LinesOf)] /\ seed'[c] = m /\ \A d \in Callers \ {c} : seed'[d] = seed[d]
    BY <2>2, <2>6, <2>7, <2>8 DEF StoreTyped
  <2>11. /\ DOMAIN job' = Callers /\ hold' \in [Callers -> 0 .. Len(mirror)]
         /\ \A d \in Callers \ {c} : job'[d] = job[d] /\ hold'[d] = hold[d]
         /\ agent' \in [Processes -> [Sessions -> 0 .. Len(mirror)]]
         /\ \A p \in Processes, s \in Sessions :
              /\ agent[p][s] # 0 => agent'[p][s] = agent[p][s]
              /\ agent'[p][s] # 0 => agent'[p][s] = live[p][s]
    BY <2>1, StoreIsTyped
  <2>12. "creating" \in Places /\ "creating" \notin OpensAt \cup Served
    BY DEF Places, OpensAt, Served
  <2>13. Named(job'[c]) /\ Op(c)' = "fork" /\ Descends(journal, Id(c)', seed'[c])
    BY <1>1, <2>1, <2>4, <2>9, <2>10
  <2> QED  BY <2>1, <2>10, <2>11, <2>12, <2>13, StoreMoves
<1> QED  BY <1>2, <1>3 DEF ReadParent

(* One more line through a handle. *)
LEMMA LineIs ==
  ASSUME StoreTyped, NEW h \in 1 .. Len(mirror), NEW s \in Sessions, NEW ty \in Types,
         AppendLine(h, s, ty, 0)
  PROVE  /\ exists' = exists /\ journal' \in [Sessions -> Seq(LinesOf)]
         /\ mirror' \in Seq(Seq(LinesOf)) /\ Len(mirror') = Len(mirror)
         /\ Grows(journal, journal')
         /\ \A t \in Sessions \ {s} : journal'[t] = journal[t]
         /\ \A g \in 1 .. Len(mirror) : g # h => mirror'[g] = mirror[g]
         /\ mirror[h] = journal[s] => mirror'[h] = journal'[s]
         /\ \E e \in LinesOf : e.in = s /\ journal'[s] = Append(journal[s], e)
<1> DEFINE e == Line(Len(mirror[h]), ty, s, 0)
<1>1. /\ journal' = [journal EXCEPT ![s] = Append(@, e)]
      /\ mirror' = [mirror EXCEPT ![h] = Append(@, e)] /\ exists' = exists
  BY DEF AppendLine
<1>2. /\ journal \in [Sessions -> Seq(LinesOf)] /\ mirror \in Seq(Seq(LinesOf))
      /\ Len(mirror) \in Nat /\ DOMAIN mirror = 1 .. Len(mirror) /\ mirror[h] \in Seq(LinesOf)
  BY DEF StoreTyped
<1>3. e \in LinesOf /\ e.in = s
  BY <1>2 DEF Line, LinesOf
<1> HIDE DEF e
<1>4. /\ journal' \in [Sessions -> Seq(LinesOf)] /\ journal'[s] = Append(journal[s], e)
      /\ \A t \in Sessions \ {s} : journal'[t] = journal[t]
  BY <1>1, <1>2, <1>3
<1>5. Append(mirror[h], e) \in Seq(LinesOf)
  BY <1>2, <1>3
<1>6. /\ mirror' \in Seq(Seq(LinesOf)) /\ Len(mirror') = Len(mirror)
      /\ mirror'[h] = Append(mirror[h], e)
      /\ \A g \in 1 .. Len(mirror) : g # h => mirror'[g] = mirror[g]
  <2> DEFINE T == Seq(LinesOf)
  <2>1. mirror \in Seq(T) /\ Append(mirror[h], e) \in T /\ h \in 1 .. Len(mirror)
    BY <1>2, <1>5
  <2> HIDE DEF T
  <2>2. mirror' \in Seq(T) /\ Len(mirror') = Len(mirror)
    BY <1>1, <2>1
  <2>3. mirror'[h] = Append(mirror[h], e) /\ \A g \in 1 .. Len(mirror) : g # h => mirror'[g] = mirror[g]
    BY <1>1, <1>2
  <2> QED  BY <2>2, <2>3 DEF T
<1>7. Grows(journal, journal')
  <2> SUFFICES ASSUME NEW t \in Sessions
               PROVE  /\ Len(journal[t]) <= Len(journal'[t])
                      /\ \A i \in 1 .. Len(journal[t]) : journal'[t][i] = journal[t][i]
    BY DEF Grows
  <2>1. journal[t] \in Seq(LinesOf) /\ Len(journal[t]) \in Nat
    BY <1>2
  <2>2. CASE t = s
    BY <1>3, <1>4, <2>1, <2>2
  <2>3. CASE t # s
    BY <1>4, <2>1, <2>3
  <2> QED  BY <2>2, <2>3
<1> QED  BY <1>1, <1>3, <1>4, <1>6, <1>7

LEMMA StoreAppends ==
  ASSUME StoreInv, OpensApart, NEW c \in Callers, NEW h, NEW ty \in Types,
         AppendLine(h, Id(c), ty, 0), UNCHANGED <<live, agent, job, hold, seed>>,
         NEW place, at' = [at EXCEPT ![c] = place],
         \/ at[c] \in Handling /\ h = hold[c] /\ place \in Handling
         \/ /\ at[c] \in Served /\ h = live[Store(c)][Id(c)]
            /\ place = "out" \/ (place = "running" /\ agent[Store(c)][Id(c)] # 0)
  PROVE  StoreInv'
<1> DEFINE s == Id(c)
<1>1. /\ StoreTyped /\ at \in [Callers -> Places] /\ at[c] # "out"
      /\ at'[c] = place /\ \A d \in Callers \ {c} : at'[d] = at[d]
      /\ \A d \in Callers : Id(d)' = Id(d) /\ Op(d)' = Op(d)
  BY DEF StoreInv, StoreTyped, Handling, Served, Id, Op
<1>2. /\ s \in Sessions /\ Store(c) \in Processes /\ Named(job[c])
      /\ \A d \in Callers : at[d] # "out" => Id(d) \in Sessions /\ Store(d) \in Processes
  BY <1>1, Here
<1>3. h \in 1 .. Len(mirror) /\ s \in exists /\ mirror[h] = journal[s]
  <2>1. CASE at[c] \in Handling /\ h = hold[c]
    BY <1>1, <2>1 DEF StoreInv, OpenInv, StoreTyped
  <2>2. CASE at[c] \in Served /\ h = live[Store(c)][s]
    BY <1>1, <1>2, <2>2 DEF StoreInv, ServedInv, LiveInv, LiveIsJournal, StoreTyped
  <2> QED  BY <2>1, <2>2
<1>4. Handling \subseteq OpensAt /\ "seeding" \in OpensAt
  BY DEF Handling, OpensAt
<1> HIDE DEF s
<1>5. /\ exists' = exists /\ journal' \in [Sessions -> Seq(LinesOf)]
      /\ mirror' \in Seq(Seq(LinesOf)) /\ Len(mirror') = Len(mirror)
      /\ Grows(journal, journal')
      /\ \A t \in Sessions \ {s} : journal'[t] = journal[t]
      /\ \A g \in 1 .. Len(mirror) : g # h => mirror'[g] = mirror[g]
      /\ mirror'[h] = journal'[s]
      /\ \E e \in LinesOf : e.in = s /\ journal'[s] = Append(journal[s], e)
  BY <1>1, <1>2, <1>3, LineIs DEF s
<1>6. /\ \A p \in Processes, t \in Sessions : live[p][t] # 0 =>
           /\ live[p][t] \in 1 .. Len(mirror)
           /\ t # s => live[p][t] # h
           /\ t = s => live[p][t] = h
      /\ \A d \in Callers \ {c} : at[d] \in OpensAt => Id(d) # s
      /\ \A d \in Callers \ {c} : at[d] \in Handling => hold[d] # h
  <2>1. \A p \in Processes, t \in Sessions : live[p][t] # 0 => live[p][t] \in 1 .. Len(mirror)
    BY <1>1 DEF StoreTyped
  <2>2. CASE at[c] \in Handling /\ h = hold[c]
    BY <1>2, <1>4, <2>1, <2>2 DEF StoreInv, OpenInv, OpensApart, s
  <2>3. CASE at[c] \in Served /\ h = live[Store(c)][Id(c)]
    <3>1. live[Store(c)][s] = h /\ h # 0
      BY <2>3 DEF StoreInv, ServedInv, s
    <3>2. \A p \in Processes, t \in Sessions : live[p][t] # 0 =>
            (t # s => live[p][t] # h) /\ (t = s => live[p][t] = h)
      BY <1>2, <3>1 DEF StoreInv, LiveInv
    <3>3. \A d \in Callers : at[d] \in OpensAt => Id(d) # s
      BY <1>2, <3>1 DEF StoreInv, OpenInv
    <3>4. \A d \in Callers : at[d] \in Handling => hold[d] # h
      BY <1>2, <3>1 DEF StoreInv, OpenInv
    <3> QED  BY <2>1, <3>2, <3>3, <3>4
  <2> QED  BY <2>2, <2>3
<1>7. StoreTyped'
  <2>1. place \in Places /\ place \notin Forking
    BY DEF Handling, Places, Forking
  <2>2. at' \in [Callers -> Places]
    BY <1>1, <2>1
  <2>3. \A d \in Callers : at'[d] # "out" => Named(job'[d])
    BY <1>1, <1>2 DEF StoreTyped
  <2>4. \A d \in Callers : at'[d] \in Forking => Op(d)' = "fork"
    BY <1>1, <2>1 DEF StoreTyped
  <2> QED  BY <1>1, <1>5, <2>2, <2>3, <2>4 DEF StoreTyped
<1>8. LiveInv'
  <2>1. \A p \in Processes, t \in Sessions : live'[p][t] # 0 => mirror'[live'[p][t]] = journal'[t]
    <3> TAKE p \in Processes, t \in Sessions
    <3>1. HAVE live'[p][t] # 0
    <3>2. live[p][t] # 0 /\ mirror[live[p][t]] = journal[t]
      BY <3>1 DEF StoreInv, LiveInv, LiveIsJournal
    <3>3. CASE t = s
      BY <1>5, <1>6, <3>2, <3>3
    <3>4. CASE t # s
      BY <1>5, <1>6, <3>2, <3>4
    <3> QED  BY <3>3, <3>4
  <2> QED  BY <1>5, <2>1 DEF StoreInv, LiveInv, LiveIsJournal
<1>9. \A d \in Callers : at'[d] \in OpensAt => at[d] \in OpensAt
  BY <1>1, <1>4 DEF OpensAt
<1>10. \A d \in Callers : at'[d] \in Handling => at[d] \in Handling /\ (d = c => h = hold[c])
  BY <1>1 DEF Handling
<1>11. OpenInv'
  <2>1. ASSUME NEW d \in Callers, at'[d] \in Handling
        PROVE  mirror'[hold[d]] = journal'[Id(d)]
    <3>1. at[d] \in Handling /\ hold[d] # 0 /\ mirror[hold[d]] = journal[Id(d)] /\ Id(d) \in Sessions
          /\ hold[d] \in 1 .. Len(mirror)
      BY <1>1, <1>2, <1>10, <2>1 DEF StoreInv, OpenInv, Handling, StoreTyped
    <3>2. CASE d = c
      BY <1>5, <1>10, <2>1, <3>2 DEF s
    <3>3. CASE d # c
      BY <1>4, <1>5, <1>6, <3>1, <3>3
    <3> QED  BY <3>2, <3>3
  <2>2. \A d \in Callers : at'[d] \in OpensAt => \A p \in Processes : live'[p][Id(d)'] = 0
    BY <1>1, <1>9 DEF StoreInv, OpenInv
  <2>3. ASSUME NEW d \in Callers, at'[d] \in Handling
        PROVE  /\ hold'[d] # 0 /\ Id(d)' \in exists'
               /\ \A p \in Processes, t \in Sessions : live'[p][t] # hold'[d]
               /\ \A f \in Callers : at'[f] \in Handling /\ hold'[f] = hold'[d] => f = d
    BY <1>1, <1>5, <1>10, <2>3 DEF StoreInv, OpenInv
  <2>4. \A d \in Callers : at'[d] \in Handling => mirror'[hold'[d]] = journal'[Id(d)']
    BY <1>1, <2>1
  <2> QED  BY <2>2, <2>3, <2>4 DEF OpenInv
<1>12. ServedInv'
  <2>1. \A d \in Callers : Store(d)' = Store(d)
    BY DEF Store
  <2>2. \A d \in Callers \ {c} : at'[d] = at[d] /\ hold'[d] = hold[d]
    BY <1>1
  <2>3. /\ at'[c] \in Served => at[c] \in Served
        /\ at'[c] # "agent"
        /\ at'[c] \in {"prompting", "running"} => agent[Store(c)][Id(c)] # 0
    BY <1>1 DEF Handling, Served
  <2> QED  BY <1>1, <2>1, <2>2, <2>3 DEF StoreInv, ServedInv
<1>13. ForkInv'
  <2>1. \A t \in Sessions, l \in Seq(LinesOf) : Descends(journal, t, l) => Descends(journal', t, l)
    BY <1>1, <1>5, DescendsLasts DEF StoreTyped
  <2>2. \A t \in Sessions : t \notin exists' => journal'[t] = <<>>
    BY <1>3, <1>5 DEF StoreInv, ForkInv
  <2>3. ASSUME NEW t \in Sessions PROVE Descends(journal', t, journal'[t])
    <3>1. Descends(journal', t, journal[t]) /\ journal[t] \in Seq(LinesOf)
      BY <1>1, <2>1 DEF StoreInv, ForkInv, StoreTyped
    <3>2. CASE t = s
      BY <1>5, <3>1, <3>2, DescendsMore
    <3>3. CASE t # s
      BY <1>5, <3>1, <3>3
    <3> QED  BY <3>2, <3>3
  <2>4. place \notin {"creating", "seeding"}
    BY DEF Handling
  <2>5. ASSUME NEW d \in Callers, at'[d] = "creating" PROVE Descends(journal', Id(d)', seed'[d])
    BY <1>1, <1>2, <2>1, <2>4, <2>5 DEF StoreInv, ForkInv, StoreTyped
  <2>6. ASSUME NEW d \in Callers, at'[d] = "seeding"
        PROVE  Id(d)' \in exists' /\ Descends(journal', Id(d)', journal'[Id(d)'] \o seed'[d])
    <3>1. d # c /\ at[d] = "seeding" /\ Id(d) \in Sessions /\ Id(d) \in exists
          /\ Descends(journal, Id(d), journal[Id(d)] \o seed[d])
      BY <1>1, <1>2, <2>4, <2>6 DEF StoreInv, ForkInv
    <3>2. journal'[Id(d)] = journal[Id(d)]
      BY <1>4, <1>5, <1>6, <3>1
    <3>3. journal[Id(d)] \o seed[d] \in Seq(LinesOf)
      BY <1>1, <3>1 DEF StoreTyped
    <3> QED  BY <1>1, <1>5, <2>1, <3>1, <3>2, <3>3
  <2> QED  BY <2>2, <2>3, <2>5, <2>6 DEF ForkInv
<1> QED  BY <1>7, <1>8, <1>11, <1>12, <1>13 DEF StoreInv

(* A call that keeps its own handle and writes nothing. *)
LEMMA OpenedMoves ==
  ASSUME StoreInv, NEW c \in Callers, at[c] \in Handling, NEW place \in Handling,
         at' = [at EXCEPT ![c] = place],
         UNCHANGED <<exists, journal, mirror, live, agent, job, hold, seed>>
  PROVE  StoreInv'
<1>1. /\ at \in [Callers -> Places] /\ at'[c] = place
      /\ \A d \in Callers \ {c} : at'[d] = at[d]
      /\ \A d \in Callers : Id(d)' = Id(d) /\ Op(d)' = Op(d)
  BY DEF StoreInv, StoreTyped, Id, Op
<1>2. /\ \A d \in Callers : at'[d] \in OpensAt <=> at[d] \in OpensAt
      /\ \A d \in Callers : at'[d] \in Handling <=> at[d] \in Handling
      /\ \A d \in Callers : at'[d] \notin Handling => at'[d] = at[d]
      /\ \A d \in Callers : at'[d] # "out" => at[d] # "out"
      /\ place \in Places /\ place \notin Forking \cup Served
  BY <1>1 DEF OpensAt, Handling, Places, Forking, Served
<1>3. StoreTyped'
  <2>1. at' \in [Callers -> Places]
    BY <1>1, <1>2
  <2>2. \A d \in Callers : at'[d] # "out" => Named(job'[d])
    BY <1>2 DEF StoreInv, StoreTyped
  <2>3. \A d \in Callers : at'[d] \in Forking => Op(d)' = "fork"
    BY <1>1, <1>2 DEF StoreInv, StoreTyped
  <2> QED  BY <2>1, <2>2, <2>3 DEF StoreInv, StoreTyped
<1>4. LiveInv'
  BY DEF StoreInv, LiveInv, LiveIsJournal
<1>5. OpenInv'
  BY <1>1, <1>2 DEF StoreInv, OpenInv
<1>6. ServedInv'
  <2>1. \A d \in Callers : Store(d)' = Store(d)
    BY DEF Store
  <2> QED  BY <1>1, <1>2, <2>1 DEF StoreInv, ServedInv, Handling, Served
<1>7. ForkInv'
  BY <1>1, <1>2 DEF StoreInv, ForkInv, Handling
<1> QED  BY <1>3, <1>4, <1>5, <1>6, <1>7 DEF StoreInv

LEMMA OpenLogs ==
  ASSUME StoreInv, OpensApart, NEW c \in Callers, OpenLog(c)
  PROVE  StoreInv'
<1> DEFINE s == Id(c)
           N == Len(mirror)
<1>1. /\ at[c] = "opening" /\ mirror' = Append(mirror, journal[s])
      /\ exists' = exists \cup {s} /\ hold' = [hold EXCEPT ![c] = N + 1]
      /\ at' = [at EXCEPT ![c] = "repairing"]
      /\ UNCHANGED <<journal, live, agent, job, seed>>
  BY DEF OpenLog, Journal, Goto, memory
<1>2. StoreTyped /\ s \in Sessions /\ journal[s] \in Seq(LinesOf) /\ N \in Nat
  BY <1>1, Here DEF StoreInv, StoreTyped
<1>3. /\ mirror' \in Seq(Seq(LinesOf)) /\ Len(mirror') = N + 1 /\ mirror'[N + 1] = journal[s]
      /\ \A g \in 1 .. N : mirror'[g] = mirror[g]
  <2> DEFINE T == Seq(LinesOf)
  <2>1. mirror \in Seq(T) /\ journal[s] \in T
    BY <1>2 DEF StoreTyped
  <2> HIDE DEF T
  <2>2. /\ Append(mirror, journal[s]) \in Seq(T) /\ Len(Append(mirror, journal[s])) = N + 1
        /\ Append(mirror, journal[s])[N + 1] = journal[s]
        /\ \A g \in 1 .. N : Append(mirror, journal[s])[g] = mirror[g]
    BY <2>1
  <2> QED  BY <1>1, <2>2 DEF T
<1>4. /\ at'[c] = "repairing" /\ hold'[c] = N + 1
      /\ \A d \in Callers \ {c} : at'[d] = at[d] /\ hold'[d] = hold[d]
      /\ \A d \in Callers : Id(d)' = Id(d) /\ Op(d)' = Op(d) /\ Store(d)' = Store(d)
  BY <1>1, <1>2 DEF StoreTyped, Id, Op, Store
<1> HIDE DEF s, N
<1>5. /\ \A p \in Processes, t \in Sessions : live[p][t] \in 0 .. N /\ agent[p][t] \in 0 .. N
      /\ \A d \in Callers : hold[d] \in 0 .. N
  BY <1>2 DEF StoreTyped, N
<1>6. /\ \A d \in Callers : at'[d] \in OpensAt => at[d] \in OpensAt
      /\ \A d \in Callers \ {c} : at'[d] \in Handling => at[d] \in Handling
      /\ at'[c] \in Handling /\ at'[c] \notin Served \cup Forking
      /\ "repairing" \in Places
  BY <1>1, <1>4 DEF OpensAt, Handling, Served, Forking, Places
<1>7. StoreTyped'
  <2>1. /\ at' \in [Callers -> Places] /\ hold' \in [Callers -> 0 .. N + 1]
        /\ live' \in [Processes -> [Sessions -> 0 .. N + 1]]
        /\ agent' \in [Processes -> [Sessions -> 0 .. N + 1]]
    <3>1. 0 .. N \subseteq 0 .. N + 1 /\ N + 1 \in 0 .. N + 1
      BY <1>2
    <3>2. at' \in [Callers -> Places] /\ hold' \in [Callers -> 0 .. N + 1]
      BY <1>1, <1>2, <1>6, <3>1 DEF StoreTyped, N
    <3> QED  BY <1>1, <1>2, <3>1, <3>2 DEF StoreTyped, N
  <2>2. \A d \in Callers : at'[d] # "out" => Named(job'[d])
    BY <1>1, <1>2, <1>4 DEF StoreTyped
  <2>3. \A d \in Callers : at'[d] \in Forking => Op(d)' = "fork"
    BY <1>2, <1>4, <1>6 DEF StoreTyped
  <2> QED  BY <1>1, <1>2, <1>3, <2>1, <2>2, <2>3 DEF StoreTyped
<1>8. LiveInv'
  <2>1. \A p \in Processes, t \in Sessions : live'[p][t] # 0 => mirror'[live'[p][t]] = journal'[t]
    <3> TAKE p \in Processes, t \in Sessions
    <3>1. HAVE live'[p][t] # 0
    <3>2. live'[p][t] = live[p][t] /\ live[p][t] # 0 /\ mirror[live[p][t]] = journal[t]
      BY <1>1, <3>1 DEF StoreInv, LiveInv, LiveIsJournal
    <3>3. live[p][t] \in 1 .. N
      BY <1>2, <1>5, <3>2
    <3> QED  BY <1>1, <1>3, <3>2, <3>3
  <2>2. LiveIsJournal'
    BY <2>1 DEF LiveIsJournal
  <2> QED  BY <1>1, <2>2 DEF StoreInv, LiveInv
<1>9. OpenInv'
  <2>1. \A d \in Callers : at'[d] \in OpensAt => \A p \in Processes : live'[p][Id(d)'] = 0
    BY <1>1, <1>4, <1>6 DEF StoreInv, OpenInv
  <2>2. ASSUME NEW d \in Callers, at'[d] \in Handling
        PROVE  /\ hold'[d] # 0 /\ mirror'[hold'[d]] = journal'[Id(d)'] /\ Id(d)' \in exists'
               /\ \A p \in Processes, t \in Sessions : live'[p][t] # hold'[d]
               /\ \A f \in Callers : at'[f] \in Handling /\ hold'[f] = hold'[d] => f = d
    <3>1. CASE d = c
      <4>1. \A p \in Processes, t \in Sessions : live'[p][t] # N + 1
        BY <1>1, <1>2, <1>5
      <4>2. \A f \in Callers \ {c} : hold'[f] # N + 1
        BY <1>2, <1>4, <1>5
      <4>3. N + 1 # 0
        BY <1>2
      <4>4. mirror'[hold'[d]] = journal'[Id(d)'] /\ Id(d)' \in exists'
        BY <1>1, <1>3, <1>4, <3>1 DEF s
      <4> QED  BY <1>4, <3>1, <4>1, <4>2, <4>3, <4>4
    <3>2. CASE d # c
      <4>1. /\ at[d] \in Handling /\ hold'[d] = hold[d] /\ Id(d)' = Id(d) /\ hold[d] \in 1 .. N
            /\ mirror[hold[d]] = journal[Id(d)] /\ Id(d) \in exists
            /\ \A p \in Processes, t \in Sessions : live[p][t] # hold[d]
            /\ \A f \in Callers : at[f] \in Handling /\ hold[f] = hold[d] => f = d
        BY <1>2, <1>4, <1>5, <1>6, <2>2, <3>2 DEF StoreInv, OpenInv
      <4>2. mirror'[hold[d]] = mirror[hold[d]] /\ hold[d] # 0 /\ hold[d] # N + 1
        BY <1>2, <1>3, <4>1
      <4>3. \A f \in Callers : at'[f] \in Handling /\ hold'[f] = hold'[d] => f = d
        BY <1>4, <1>6, <4>1, <4>2
      <4> QED  BY <1>1, <4>1, <4>2, <4>3
    <3> QED  BY <3>1, <3>2
  <2> QED  BY <2>1, <2>2 DEF OpenInv
<1>10. ServedInv'
  <2>1. at'[c] \notin Served /\ at'[c] # "agent" /\ at'[c] \notin {"prompting", "running"}
    BY <1>4, <1>6
  <2> QED  BY <1>1, <1>4, <2>1 DEF StoreInv, ServedInv
<1>11. ForkInv'
  <2>1. \A d \in Callers : at'[d] \in {"creating", "seeding"} => at'[d] = at[d]
    BY <1>4
  <2> QED  BY <1>1, <1>4, <2>1 DEF StoreInv, ForkInv
<1> QED  BY <1>7, <1>8, <1>9, <1>10, <1>11 DEF StoreInv

LEMMA Inserts ==
  ASSUME StoreInv, OpensApart, NEW c \in Callers, Insert(c)
  PROVE  StoreInv'
<1> DEFINE s == Id(c)
           p == Store(c)
           h == hold[c]
<1>1. PICK place \in {"taking", "out"} : at' = [at EXCEPT ![c] = place]
  BY DEF Insert, Goto
<1>2. /\ at[c] = "inserting" /\ live' = [live EXCEPT ![p][s] = h]
      /\ UNCHANGED <<exists, journal, mirror, agent, job, hold, seed>>
  BY DEF Insert, disk, local
<1>3. StoreTyped /\ s \in Sessions /\ p \in Processes
  BY <1>2, Here DEF StoreInv
<1>4. /\ at'[c] = place /\ \A d \in Callers \ {c} : at'[d] = at[d]
      /\ \A d \in Callers : Id(d)' = Id(d) /\ Op(d)' = Op(d) /\ Store(d)' = Store(d)
  BY <1>1, <1>2, <1>3 DEF StoreTyped, Id, Op, Store
<1>5. /\ h # 0 /\ mirror[h] = journal[s] /\ s \in exists /\ h \in 0 .. Len(mirror)
      /\ \A q \in Processes, t \in Sessions : live[q][t] # h
      /\ \A d \in Callers \ {c} : at[d] \in Handling => hold[d] # h
      /\ \A q \in Processes : live[q][s] = 0
      /\ \A d \in Callers \ {c} : at[d] \in OpensAt => Id(d) # s
  BY <1>2, <1>3 DEF StoreInv, OpenInv, Handling, OpensAt, OpensApart, StoreTyped
<1> HIDE DEF s, p, h
<1>6. /\ live' \in [Processes -> [Sessions -> 0 .. Len(mirror)]] /\ live'[p][s] = h
      /\ \A q \in Processes, t \in Sessions : q # p \/ t # s => live'[q][t] = live[q][t]
  BY <1>2, <1>3, <1>5 DEF StoreTyped
<1>7. /\ \A d \in Callers : at'[d] \in OpensAt => d # c /\ at[d] \in OpensAt
      /\ \A d \in Callers : at'[d] \in Handling => d # c /\ at[d] \in Handling
      /\ place \in Places /\ place \notin Forking /\ place \notin {"agent", "prompting", "running"}
  BY <1>4 DEF OpensAt, Handling, Places, Forking
<1>8. StoreTyped'
  <2>1. at' \in [Callers -> Places]
    BY <1>1, <1>3, <1>7 DEF StoreTyped
  <2>2. \A d \in Callers : at'[d] # "out" => Named(job'[d])
    BY <1>2, <1>3, <1>4 DEF StoreTyped
  <2>3. \A d \in Callers : at'[d] \in Forking => Op(d)' = "fork"
    BY <1>3, <1>4, <1>7 DEF StoreTyped
  <2> QED  BY <1>2, <1>3, <1>6, <2>1, <2>2, <2>3 DEF StoreTyped
<1>9. LiveInv'
  <2>1. \A q \in Processes, t \in Sessions : live'[q][t] # 0 =>
          /\ mirror[live'[q][t]] = journal[t] /\ t \in exists
          /\ t = s => q = p
          /\ t # s => live'[q][t] = live[q][t] /\ live'[q][t] # h
    <3> TAKE q \in Processes, t \in Sessions
    <3>1. HAVE live'[q][t] # 0
    <3>2. CASE q = p /\ t = s
      BY <1>5, <1>6, <3>2
    <3>3. CASE q # p \/ t # s
      <4>1. live[q][t] # 0 /\ live'[q][t] = live[q][t]
        BY <1>6, <3>1, <3>3
      <4> QED  BY <1>5, <4>1 DEF StoreInv, LiveInv, LiveIsJournal
    <3> QED  BY <3>2, <3>3
  <2>2. \A q, r \in Processes, t, u \in Sessions :
          live'[q][t] # 0 /\ live'[r][u] # 0 /\ (t = u \/ live'[q][t] = live'[r][u]) =>
            q = r /\ t = u
    <3> TAKE q, r \in Processes, t, u \in Sessions
    <3>1. HAVE live'[q][t] # 0 /\ live'[r][u] # 0 /\ (t = u \/ live'[q][t] = live'[r][u])
    <3>2. CASE t = s /\ u = s
      BY <2>1, <3>1, <3>2
    <3>3. CASE t = s /\ u # s
      BY <1>6, <2>1, <3>1, <3>3
    <3>4. CASE t # s /\ u = s
      BY <1>6, <2>1, <3>1, <3>4
    <3>5. CASE t # s /\ u # s
      BY <2>1, <3>1, <3>5 DEF StoreInv, LiveInv
    <3> QED  BY <3>2, <3>3, <3>4, <3>5
  <2>3. \A q \in Processes, t \in Sessions : agent[q][t] # 0 => agent[q][t] = live'[q][t]
    <3> TAKE q \in Processes, t \in Sessions
    <3>1. HAVE agent[q][t] # 0
    <3>2. agent[q][t] = live[q][t]
      BY <3>1 DEF StoreInv, LiveInv
    <3>3. t # s
      BY <1>5, <3>1, <3>2
    <3> QED  BY <1>6, <3>2, <3>3
  <2>4. LiveIsJournal'
    BY <1>2, <2>1 DEF LiveIsJournal
  <2> QED  BY <1>2, <2>1, <2>2, <2>3, <2>4 DEF LiveInv
<1>10. OpenInv'
  <2>1. ASSUME NEW d \in Callers, at'[d] \in OpensAt PROVE \A q \in Processes : live'[q][Id(d)'] = 0
    <3>1. d # c /\ at[d] \in OpensAt /\ Id(d) # s /\ Id(d)' = Id(d)
      BY <1>4, <1>5, <1>7, <2>1
    <3>2. Id(d) \in Sessions /\ \A q \in Processes : live[q][Id(d)] = 0
      BY <3>1, Here DEF StoreInv, OpenInv, OpensAt
    <3> QED  BY <1>6, <3>1, <3>2
  <2>2. ASSUME NEW d \in Callers, at'[d] \in Handling
        PROVE  /\ hold'[d] # 0 /\ mirror'[hold'[d]] = journal'[Id(d)'] /\ Id(d)' \in exists'
               /\ \A q \in Processes, t \in Sessions : live'[q][t] # hold'[d]
               /\ \A f \in Callers : at'[f] \in Handling /\ hold'[f] = hold'[d] => f = d
    <3>1. d # c /\ at[d] \in Handling /\ hold'[d] = hold[d] /\ hold[d] # h /\ Id(d)' = Id(d)
      BY <1>2, <1>4, <1>5, <1>7, <2>2
    <3>2. /\ hold[d] # 0 /\ mirror[hold[d]] = journal[Id(d)] /\ Id(d) \in exists
          /\ \A q \in Processes, t \in Sessions : live[q][t] # hold[d]
          /\ \A f \in Callers : at[f] \in Handling /\ hold[f] = hold[d] => f = d
      BY <3>1 DEF StoreInv, OpenInv
    <3>3. \A q \in Processes, t \in Sessions : live'[q][t] # hold'[d]
      BY <1>6, <3>1, <3>2
    <3>4. \A f \in Callers : at'[f] \in Handling /\ hold'[f] = hold'[d] => f = d
      BY <1>2, <1>7, <3>1, <3>2
    <3> QED  BY <1>2, <3>1, <3>2, <3>3, <3>4
  <2> QED  BY <2>1, <2>2 DEF OpenInv
<1>11. ServedInv'
  <2> SUFFICES ASSUME NEW d \in Callers
               PROVE  /\ at'[d] \in Served => live'[Store(d)][Id(d)'] # 0
                      /\ at'[d] = "agent" => hold'[d] = live'[Store(d)][Id(d)']
                      /\ at'[d] \in {"prompting", "running"} => agent'[Store(d)][Id(d)'] # 0
    BY <1>4 DEF ServedInv
  <2>1. CASE d = c
    BY <1>4, <1>5, <1>6, <1>7, <2>1 DEF s, p
  <2>2. CASE d # c
    <3>1. /\ at'[d] = at[d] /\ Id(d)' = Id(d) /\ hold'[d] = hold[d]
          /\ at[d] \in Served => live[Store(d)][Id(d)] # 0
          /\ at[d] = "agent" => hold[d] = live[Store(d)][Id(d)]
          /\ at[d] \in {"prompting", "running"} => agent[Store(d)][Id(d)] # 0
      BY <1>2, <1>4, <2>2 DEF StoreInv, ServedInv
    <3>2. at[d] \in Served => Id(d) \in Sessions /\ Store(d) \in Processes /\ at[d] # "out"
      BY Here DEF Served
    <3>3. at[d] \in Served => live'[Store(d)][Id(d)] = live[Store(d)][Id(d)]
      BY <1>5, <1>6, <3>1, <3>2
    <3>4. at[d] = "agent" => at[d] \in Served
      BY DEF Served
    <3> QED  BY <1>2, <3>1, <3>3, <3>4
  <2> QED  BY <2>1, <2>2
<1>12. ForkInv'
  <2>1. \A d \in Callers : at'[d] \in {"creating", "seeding"} => at'[d] = at[d]
    BY <1>4
  <2> QED  BY <1>2, <1>4, <2>1 DEF StoreInv, ForkInv
<1> QED  BY <1>8, <1>9, <1>10, <1>11, <1>12 DEF StoreInv

LEMMA CreateSeeds ==
  ASSUME StoreInv, OpensApart', NEW c \in Callers, CreateSeed(c)
  PROVE  StoreInv'
<1> DEFINE s == Id(c)
<1>1. at[c] = "creating" /\ Child(c) = s
  BY DEF CreateSeed, Child
<1>2. CASE Refuse(c)
  BY <1>1, <1>2, LeaveMoves DEF Refuse, memory
<1>3. CASE /\ s \notin exists /\ exists' = exists \cup {s} /\ Goto(c, "seeding")
           /\ UNCHANGED <<journal, mirror, memory, local>>
  <2>1. /\ exists' = exists \cup {s} /\ at' = [at EXCEPT ![c] = "seeding"]
        /\ UNCHANGED <<journal, mirror, live, agent, job, hold, seed>>
    BY <1>3 DEF Goto, memory, local
  <2>2. StoreTyped /\ s \in Sessions /\ Named(job[c])
    BY <1>1, Here DEF StoreInv
  <2>3. /\ at'[c] = "seeding" /\ \A d \in Callers \ {c} : at'[d] = at[d]
        /\ \A d \in Callers : Id(d)' = Id(d) /\ Op(d)' = Op(d) /\ Store(d)' = Store(d)
    BY <2>1, <2>2 DEF StoreTyped, Id, Op, Store
  <2>4. Op(c) = "fork" /\ Descends(journal, s, seed[c]) /\ seed[c] \in Seq(LinesOf) /\ journal[s] = <<>>
    BY <1>1, <1>3, <2>2 DEF StoreInv, StoreTyped, ForkInv, Forking
  <2>5. \A p \in Processes : live[p][s] = 0
    BY <1>3, <2>2 DEF StoreInv, LiveInv
  <2> HIDE DEF s
  <2>6. StoreTyped'
    <3>1. at' \in [Callers -> Places]
      BY <2>1, <2>2 DEF StoreTyped, Places
    <3>2. \A d \in Callers : at'[d] # "out" => Named(job'[d])
      BY <2>1, <2>2, <2>3 DEF StoreTyped
    <3>3. \A d \in Callers : at'[d] \in Forking => Op(d)' = "fork"
      BY <2>2, <2>3, <2>4 DEF StoreTyped
    <3> QED  BY <2>1, <2>2, <3>1, <3>2, <3>3 DEF StoreTyped
  <2>7. LiveInv'
    BY <2>1 DEF StoreInv, LiveInv, LiveIsJournal
  <2>8. OpenInv'
    <3>1. \A d \in Callers : at'[d] \in OpensAt => \A p \in Processes : live'[p][Id(d)'] = 0
      BY <2>1, <2>3, <2>5 DEF StoreInv, OpenInv, s
    <3>2. \A d \in Callers : at'[d] \in Handling => d # c /\ at[d] \in Handling
      BY <2>3 DEF Handling
    <3>3. \A d \in Callers : at'[d] \in Handling =>
            /\ hold'[d] # 0 /\ mirror'[hold'[d]] = journal'[Id(d)'] /\ Id(d)' \in exists'
            /\ \A p \in Processes, t \in Sessions : live'[p][t] # hold'[d]
            /\ \A f \in Callers : at'[f] \in Handling /\ hold'[f] = hold'[d] => f = d
      BY <2>1, <2>3, <3>2 DEF StoreInv, OpenInv
    <3> QED  BY <3>1, <3>3 DEF OpenInv
  <2>9. ServedInv'
    <3>1. "seeding" \notin Served
      BY DEF Served
    <3> QED  BY <2>1, <2>3, <3>1 DEF StoreInv, ServedInv
  <2>10. ForkInv'
    <3>1. journal[s] \o seed[c] = seed[c]
      BY <2>4
    <3>2. ASSUME NEW d \in Callers, at'[d] = "seeding"
          PROVE  Id(d)' \in exists' /\ Descends(journal', Id(d)', journal'[Id(d)'] \o seed'[d])
      <4>1. CASE d = c
        BY <2>1, <2>3, <2>4, <3>1, <4>1 DEF s
      <4>2. CASE d # c
        BY <2>1, <2>3, <3>2, <4>2 DEF StoreInv, ForkInv
      <4> QED  BY <4>1, <4>2
    <3>3. \A d \in Callers : at'[d] = "creating" => Descends(journal', Id(d)', seed'[d])
      BY <2>1, <2>3 DEF StoreInv, ForkInv
    <3>4. /\ \A t \in Sessions : t \notin exists' => journal'[t] = <<>>
          /\ \A t \in Sessions : Descends(journal', t, journal'[t])
      BY <2>1 DEF StoreInv, ForkInv
    <3> QED  BY <3>2, <3>3, <3>4 DEF ForkInv
  <2> QED  BY <2>6, <2>7, <2>8, <2>9, <2>10 DEF StoreInv
<1> QED  BY <1>1, <1>2, <1>3 DEF CreateSeed

LEMMA HeadAndTail ==
  ASSUME NEW l \in Seq(LinesOf), NEW m \in Seq(LinesOf), m # <<>>
  PROVE  /\ Head(m) \in LinesOf /\ Tail(m) \in Seq(LinesOf) /\ Append(l, Head(m)) \in Seq(LinesOf)
         /\ l \o m \in Seq(LinesOf) /\ Append(l, Head(m)) \o Tail(m) = l \o m
         /\ Len(Append(l, Head(m))) <= Len(l \o m)
         /\ \A i \in 1 .. Len(Append(l, Head(m))) : Append(l, Head(m))[i] = (l \o m)[i]
<1>1. Len(m) \in Nat \ {0} /\ Len(l) \in Nat /\ Head(m) = m[1] /\ m[1] \in LinesOf
  OBVIOUS
<1>2. /\ Tail(m) \in Seq(LinesOf) /\ Len(Tail(m)) = Len(m) - 1
      /\ \A i \in 1 .. Len(m) - 1 : Tail(m)[i] = m[i + 1]
  OBVIOUS
<1>3. PICK a : a = Append(l, Head(m))
  OBVIOUS
<1>4. /\ a \in Seq(LinesOf) /\ Len(a) = Len(l) + 1 /\ a[Len(l) + 1] = m[1]
      /\ \A i \in 1 .. Len(l) : a[i] = l[i]
  BY <1>1, <1>3
<1>5. /\ l \o m \in Seq(LinesOf) /\ Len(l \o m) = Len(l) + Len(m)
      /\ \A i \in 1 .. Len(l) : (l \o m)[i] = l[i]
      /\ \A i \in Len(l) + 1 .. Len(l) + Len(m) : (l \o m)[i] = m[i - Len(l)]
  OBVIOUS
<1>6. PICK r \in Seq(LinesOf) : r = Tail(m)
  BY <1>2
<1>7. PICK b : b = l \o m
  OBVIOUS
<1>8. /\ a \o r \in Seq(LinesOf) /\ Len(a \o r) = Len(l) + Len(m)
      /\ \A i \in 1 .. Len(l) + 1 : (a \o r)[i] = a[i]
      /\ \A i \in Len(l) + 2 .. Len(l) + Len(m) : (a \o r)[i] = r[i - Len(a)]
  <2>1. a \in Seq(LinesOf) /\ r \in Seq(LinesOf) /\ Len(a) = Len(l) + 1 /\ Len(r) = Len(m) - 1
    BY <1>2, <1>4, <1>6
  <2>2. /\ a \o r \in Seq(LinesOf) /\ Len(a \o r) = Len(a) + Len(r)
        /\ \A i \in 1 .. Len(a) : (a \o r)[i] = a[i]
        /\ \A i \in Len(a) + 1 .. Len(a) + Len(r) : (a \o r)[i] = r[i - Len(a)]
    BY <2>1
  <2>3. Len(a) + Len(r) = Len(l) + Len(m) /\ Len(a) + 1 = Len(l) + 2
    BY <1>1, <2>1
  <2> QED  BY <2>1, <2>2, <2>3
<1>9. \A i \in 1 .. Len(l) + 1 : a[i] = b[i]
  BY <1>1, <1>4, <1>5, <1>7
<1>10. \A i \in 1 .. Len(l) + Len(m) : (a \o r)[i] = b[i]
  <2> TAKE i \in 1 .. Len(l) + Len(m)
  <2>1. CASE i <= Len(l) + 1
    BY <1>1, <1>8, <1>9, <2>1
  <2>2. CASE i >= Len(l) + 2
    <3>1. i - Len(a) \in 1 .. Len(m) - 1 /\ i \in Len(l) + 2 .. Len(l) + Len(m)
      BY <1>1, <1>4, <2>2
    <3>2. (a \o r)[i] = m[i - Len(a) + 1]
      BY <1>2, <1>6, <1>8, <3>1
    <3>3. i - Len(a) + 1 = i - Len(l)
      BY <1>1, <1>4
    <3>4. b[i] = m[i - Len(l)]
      BY <1>1, <1>5, <1>7, <2>2
    <3> QED  BY <3>2, <3>3, <3>4
  <2>3. i <= Len(l) + 1 \/ i >= Len(l) + 2
    BY <1>1
  <2> QED  BY <2>1, <2>2, <2>3
<1>11. a \o r = b
  <2>1. a \o r \in Seq(LinesOf) /\ b \in Seq(LinesOf) /\ Len(a \o r) = Len(b)
    BY <1>5, <1>7, <1>8
  <2>2. \A i \in 1 .. Len(b) : (a \o r)[i] = b[i]
    BY <1>5, <1>7, <1>10
  <2> QED  BY <2>1, <2>2, SeqEqual
<1> QED  BY <1>1, <1>2, <1>3, <1>4, <1>5, <1>6, <1>7, <1>9, <1>11

LEMMA SeedLines ==
  ASSUME StoreInv, OpensApart, NEW c \in Callers, SeedLine(c)
  PROVE  StoreInv'
<1> DEFINE s == Id(c)
<1>1. PICK e : e = Head(seed[c])
  OBVIOUS
<1>2. PICK r : r = Tail(seed[c])
  OBVIOUS
<1>3. /\ at[c] = "seeding" /\ seed[c] # <<>>
      /\ journal' = [journal EXCEPT ![s] = Append(@, e)] /\ seed' = [seed EXCEPT ![c] = r]
      /\ UNCHANGED <<exists, mirror, live, agent, at, job, hold>>
  BY <1>1, <1>2 DEF SeedLine, Child, memory
<1>4. /\ StoreTyped /\ s \in Sessions /\ s \in exists /\ journal[s] \in Seq(LinesOf)
      /\ seed[c] \in Seq(LinesOf) /\ Descends(journal, s, journal[s] \o seed[c])
      /\ \A p \in Processes : live[p][s] = 0
  BY <1>3, Here DEF StoreInv, StoreTyped, ForkInv, OpenInv, OpensAt
<1>5. /\ \A d \in Callers \ {c} : at[d] \in OpensAt => Id(d) # s
      /\ \A d \in Callers : at[d] # "out" => Id(d) \in Sessions
      /\ \A d \in Callers : Id(d)' = Id(d) /\ Op(d)' = Op(d) /\ Store(d)' = Store(d)
  BY <1>3, Here DEF OpensApart, OpensAt, Id, Op, Store
<1> HIDE DEF s
<1>6. /\ e \in LinesOf /\ r \in Seq(LinesOf) /\ Append(journal[s], e) \in Seq(LinesOf)
      /\ journal[s] \o seed[c] \in Seq(LinesOf)
      /\ Append(journal[s], e) \o r = journal[s] \o seed[c]
      /\ Len(Append(journal[s], e)) <= Len(journal[s] \o seed[c])
      /\ \A i \in 1 .. Len(Append(journal[s], e)) : Append(journal[s], e)[i] = (journal[s] \o seed[c])[i]
  BY <1>1, <1>2, <1>3, <1>4, HeadAndTail
<1>7. /\ journal' \in [Sessions -> Seq(LinesOf)] /\ journal'[s] = Append(journal[s], e)
      /\ \A t \in Sessions \ {s} : journal'[t] = journal[t]
      /\ seed' \in [Callers -> Seq(LinesOf)] /\ seed'[c] = r
      /\ \A d \in Callers \ {c} : seed'[d] = seed[d]
  BY <1>3, <1>4, <1>6 DEF StoreTyped
<1>8. Grows(journal, journal')
  <2> SUFFICES ASSUME NEW t \in Sessions
               PROVE  /\ Len(journal[t]) <= Len(journal'[t])
                      /\ \A i \in 1 .. Len(journal[t]) : journal'[t][i] = journal[t][i]
    BY DEF Grows
  <2>1. journal[t] \in Seq(LinesOf) /\ Len(journal[t]) \in Nat
    BY <1>4 DEF StoreTyped
  <2>2. CASE t = s
    BY <1>6, <1>7, <2>1, <2>2
  <2>3. CASE t # s
    BY <1>7, <2>1, <2>3
  <2> QED  BY <2>2, <2>3
<1>9. StoreTyped'
  <2>1. \A d \in Callers : at'[d] # "out" => Named(job'[d])
    BY <1>3, <1>4 DEF StoreTyped
  <2>2. \A d \in Callers : at'[d] \in Forking => Op(d)' = "fork"
    BY <1>3, <1>4, <1>5 DEF StoreTyped
  <2> QED  BY <1>3, <1>4, <1>7, <2>1, <2>2 DEF StoreTyped
<1>10. LiveInv'
  <2>1. \A p \in Processes, t \in Sessions : live[p][t] # 0 => mirror[live[p][t]] = journal'[t]
    BY <1>4, <1>7 DEF StoreInv, LiveInv, LiveIsJournal
  <2>2. LiveIsJournal'
    BY <1>3, <2>1 DEF LiveIsJournal
  <2> QED  BY <1>3, <2>2 DEF StoreInv, LiveInv
<1>11. OpenInv'
  <2>1. \A d \in Callers : at'[d] \in OpensAt => \A p \in Processes : live'[p][Id(d)'] = 0
    BY <1>3, <1>5 DEF StoreInv, OpenInv
  <2>2. \A d \in Callers : at[d] \in Handling => d # c /\ at[d] \in OpensAt /\ at[d] # "out"
    BY <1>3 DEF Handling, OpensAt
  <2>3. \A d \in Callers : at[d] \in Handling => journal'[Id(d)] = journal[Id(d)]
    BY <1>5, <1>7, <2>2
  <2>4. \A d \in Callers : at'[d] \in Handling =>
          /\ hold'[d] # 0 /\ mirror'[hold'[d]] = journal'[Id(d)'] /\ Id(d)' \in exists'
          /\ \A p \in Processes, t \in Sessions : live'[p][t] # hold'[d]
          /\ \A f \in Callers : at'[f] \in Handling /\ hold'[f] = hold'[d] => f = d
    BY <1>3, <1>5, <2>3 DEF StoreInv, OpenInv
  <2> QED  BY <2>1, <2>4 DEF OpenInv
<1>12. ServedInv'
  BY <1>3, <1>5 DEF StoreInv, ServedInv
<1>13. ForkInv'
  <2>1. \A t \in Sessions, l \in Seq(LinesOf) : Descends(journal, t, l) => Descends(journal', t, l)
    BY <1>4, <1>7, <1>8, DescendsLasts DEF StoreTyped
  <2>2. Descends(journal', s, journal[s] \o seed[c])
    BY <1>4, <1>6, <2>1
  <2>3. ASSUME NEW t \in Sessions PROVE Descends(journal', t, journal'[t])
    <3>1. CASE t = s
      BY <1>6, <1>7, <2>2, <3>1, DescendsStart
    <3>2. CASE t # s
      <4>1. Descends(journal, t, journal[t]) /\ journal[t] \in Seq(LinesOf)
        BY <1>4 DEF StoreInv, ForkInv, StoreTyped
      <4> QED  BY <1>7, <2>1, <3>2, <4>1
    <3> QED  BY <3>1, <3>2
  <2>4. \A t \in Sessions : t \notin exists' => journal'[t] = <<>>
    BY <1>3, <1>4, <1>7 DEF StoreInv, ForkInv
  <2>5. ASSUME NEW d \in Callers, at'[d] = "creating" PROVE Descends(journal', Id(d)', seed'[d])
    <3>1. d # c /\ at[d] = "creating" /\ Id(d) \in Sessions /\ seed[d] \in Seq(LinesOf)
          /\ Descends(journal, Id(d), seed[d])
      BY <1>3, <1>4, <1>5, <2>5 DEF StoreInv, ForkInv, StoreTyped
    <3> QED  BY <1>5, <1>7, <2>1, <3>1
  <2>6. ASSUME NEW d \in Callers, at'[d] = "seeding"
        PROVE  Id(d)' \in exists' /\ Descends(journal', Id(d)', journal'[Id(d)'] \o seed'[d])
    <3>1. CASE d = c
      BY <1>3, <1>4, <1>5, <1>6, <1>7, <2>2, <3>1 DEF s
    <3>2. CASE d # c
      <4>1. /\ at[d] = "seeding" /\ Id(d) \in Sessions /\ Id(d) \in exists /\ Id(d) # s
            /\ Descends(journal, Id(d), journal[Id(d)] \o seed[d])
        BY <1>3, <1>5, <2>6, <3>2 DEF StoreInv, ForkInv, OpensAt
      <4>2. journal[Id(d)] \o seed[d] \in Seq(LinesOf)
        BY <1>4, <4>1 DEF StoreTyped
      <4> QED  BY <1>3, <1>5, <1>7, <2>1, <3>2, <4>1, <4>2
    <3> QED  BY <3>1, <3>2
  <2> QED  BY <2>3, <2>4, <2>5, <2>6 DEF ForkInv
<1> QED  BY <1>9, <1>10, <1>11, <1>12, <1>13 DEF StoreInv

(* The repair and the header of an open, and the two ends of a turn. *)
LEMMA Writes ==
  ASSUME StoreInv, OpensApart, OpensApart', NEW c \in Callers,
         Repair(c) \/ WriteHeader(c) \/ TurnStart(c) \/ TurnEnd(c)
  PROVE  StoreInv'
<1> DEFINE h == hold[c]
<1>1. "turn/start" \in Types /\ "turn/end" \in Types /\ "session/start" \in Types
  BY DEF Types
<1>2. CASE Repair(c)
  <2>1. /\ at[c] = "repairing" /\ at' = [at EXCEPT ![c] = "heading"]
        /\ UNCHANGED <<live, agent, job, hold, seed>>
    BY <1>2 DEF Repair, Goto, memory, local
  <2>2. AppendLine(h, Id(c), "turn/end", 0) \/ UNCHANGED <<exists, journal, mirror>>
    BY <1>2 DEF Repair, disk
  <2>3. at[c] \in Handling /\ "heading" \in Handling
    BY <2>1 DEF Handling
  <2> QED  BY <1>1, <2>1, <2>2, <2>3, StoreAppends, OpenedMoves
<1>3. CASE WriteHeader(c)
  <2>1. /\ at[c] = "heading" /\ at' = [at EXCEPT ![c] = "inserting"]
        /\ UNCHANGED <<live, agent, job, hold, seed>>
    BY <1>3 DEF WriteHeader, Goto, memory, local
  <2>2. AppendLine(h, Id(c), "session/start", 0) \/ UNCHANGED <<exists, journal, mirror>>
    BY <1>3 DEF WriteHeader, disk
  <2>3. at[c] \in Handling /\ "inserting" \in Handling
    BY <2>1 DEF Handling
  <2> QED  BY <1>1, <2>1, <2>2, <2>3, StoreAppends, OpenedMoves
<1>4. ASSUME at[c] \in {"prompting", "running"}
      PROVE  /\ at[c] \in Served /\ at[c] # "out" /\ agent[Store(c)][Id(c)] # 0
             /\ agent[Store(c)][Id(c)] = live[Store(c)][Id(c)]
  <2>1. at[c] \in Served /\ at[c] # "out" /\ agent[Store(c)][Id(c)] # 0
    BY <1>4 DEF Served, StoreInv, ServedInv
  <2>2. Store(c) \in Processes /\ Id(c) \in Sessions
    BY <2>1, Here
  <2> QED  BY <2>1, <2>2 DEF StoreInv, LiveInv
<1>5. CASE TurnStart(c)
  <2>1. at[c] = "prompting" /\ UNCHANGED <<live, agent, job, hold, known, seed>>
    BY <1>5 DEF TurnStart, local
  <2>2. CASE Goto(c, "out") /\ UNCHANGED <<disk, mirror, busy>>
    BY <1>4, <2>1, <2>2, LeaveMoves DEF local
  <2>3. CASE AppendLine(agent[Store(c)][Id(c)], Id(c), "turn/start", 0) /\ Goto(c, "running")
    BY <1>1, <1>4, <2>1, <2>3, StoreAppends DEF Goto
  <2> QED  BY <1>5, <2>2, <2>3 DEF TurnStart
<1>6. CASE TurnEnd(c)
  <2>1. /\ at[c] = "running" /\ UNCHANGED <<live, agent, job, hold, seed>>
        /\ AppendLine(agent[Store(c)][Id(c)], Id(c), "turn/end", 0)
        /\ at' = [at EXCEPT ![c] = "out"]
    BY <1>6 DEF TurnEnd, local, Goto
  <2> QED  BY <1>1, <1>4, <2>1, StoreAppends
<1> QED  BY <1>2, <1>3, <1>5, <1>6

LEMMA Deaths ==
  ASSUME StoreInv, NEW q \in Processes, Crash(q)
  PROVE  StoreInv'
<1>1. /\ live' = [live EXCEPT ![q] = Nowhere] /\ agent' = [agent EXCEPT ![q] = Nowhere]
      /\ at' = [c \in Callers |-> IF Store(c) = q THEN "out" ELSE at[c]]
      /\ hold' = [c \in Callers |-> IF Store(c) = q THEN 0 ELSE hold[c]]
      /\ seed' = [c \in Callers |-> IF Store(c) = q THEN <<>> ELSE seed[c]]
      /\ UNCHANGED <<exists, journal, mirror, job>>
  BY DEF Crash, disk
<1>2. StoreTyped /\ Len(mirror) \in Nat
  BY DEF StoreInv, StoreTyped
<1>3. /\ \A c \in Callers : at'[c] # "out" =>
           Store(c) # q /\ at'[c] = at[c] /\ hold'[c] = hold[c] /\ seed'[c] = seed[c]
      /\ \A c \in Callers : Id(c)' = Id(c) /\ Op(c)' = Op(c) /\ Store(c)' = Store(c)
  BY <1>1 DEF Id, Op, Store
<1>4. /\ live' \in [Processes -> [Sessions -> 0 .. Len(mirror)]]
      /\ agent' \in [Processes -> [Sessions -> 0 .. Len(mirror)]]
  BY <1>1, <1>2 DEF StoreTyped, Nowhere
<1>5. \A p \in Processes, s \in Sessions :
        /\ live'[p][s] = IF p = q THEN 0 ELSE live[p][s]
        /\ agent'[p][s] = IF p = q THEN 0 ELSE agent[p][s]
  BY <1>1, <1>2 DEF StoreTyped, Nowhere
<1>6. "out" \notin OpensAt \cup Handling \cup Served \cup Forking
  BY DEF OpensAt, Handling, Served, Forking
<1>7. StoreTyped'
  <2>1. at' \in [Callers -> Places] /\ hold' \in [Callers -> 0 .. Len(mirror)]
        /\ seed' \in [Callers -> Seq(LinesOf)]
    BY <1>1, <1>2 DEF StoreTyped, Places
  <2>2. \A c \in Callers : at'[c] # "out" => Named(job'[c])
    BY <1>1, <1>2, <1>3 DEF StoreTyped
  <2>3. \A c \in Callers : at'[c] \in Forking => Op(c)' = "fork"
    BY <1>2, <1>3, <1>6 DEF StoreTyped
  <2> QED  BY <1>1, <1>2, <1>4, <2>1, <2>2, <2>3 DEF StoreTyped
<1>8. LiveInv'
  <2>1. LiveIsJournal'
    BY <1>1, <1>5 DEF StoreInv, LiveInv, LiveIsJournal
  <2> QED  BY <1>1, <1>5, <2>1 DEF StoreInv, LiveInv
<1>9. OpenInv'
  <2>1. \A c \in Callers : at'[c] \in OpensAt => \A p \in Processes : live'[p][Id(c)'] = 0
    <3> TAKE c \in Callers
    <3>1. HAVE at'[c] \in OpensAt
    <3>2. at[c] \in OpensAt /\ at[c] # "out"
      BY <1>3, <1>6, <3>1
    <3>3. Id(c) \in Sessions /\ \A p \in Processes : live[p][Id(c)] = 0
      BY <3>2, Here DEF StoreInv, OpenInv
    <3> QED  BY <1>3, <1>5, <3>3
  <2>2. ASSUME NEW c \in Callers, at'[c] \in Handling
        PROVE  /\ hold'[c] # 0 /\ mirror'[hold'[c]] = journal'[Id(c)'] /\ Id(c)' \in exists'
               /\ \A p \in Processes, s \in Sessions : live'[p][s] # hold'[c]
               /\ \A d \in Callers : at'[d] \in Handling /\ hold'[d] = hold'[c] => d = c
    <3>1. at[c] \in Handling /\ hold'[c] = hold[c] /\ Id(c)' = Id(c)
      BY <1>3, <1>6, <2>2
    <3>2. /\ hold[c] # 0 /\ mirror[hold[c]] = journal[Id(c)] /\ Id(c) \in exists
          /\ \A p \in Processes, s \in Sessions : live[p][s] # hold[c]
          /\ \A d \in Callers : at[d] \in Handling /\ hold[d] = hold[c] => d = c
      BY <3>1 DEF StoreInv, OpenInv
    <3>3. \A p \in Processes, s \in Sessions : live'[p][s] # hold'[c]
      BY <1>5, <3>1, <3>2
    <3>4. \A d \in Callers : at'[d] \in Handling /\ hold'[d] = hold'[c] => d = c
      BY <1>3, <1>6, <3>1, <3>2
    <3> QED  BY <1>1, <3>1, <3>2, <3>3, <3>4
  <2> QED  BY <2>1, <2>2 DEF OpenInv
<1>10. ServedInv'
  <2> SUFFICES ASSUME NEW c \in Callers
               PROVE  /\ at'[c] \in Served => live'[Store(c)][Id(c)] # 0
                      /\ at'[c] = "agent" => hold'[c] = live'[Store(c)][Id(c)]
                      /\ at'[c] \in {"prompting", "running"} => agent'[Store(c)][Id(c)] # 0
    BY <1>3 DEF ServedInv
  <2>1. CASE at'[c] = "out"
    BY <1>6, <2>1
  <2>2. CASE at'[c] # "out"
    <3>1. at[c] # "out" /\ at'[c] = at[c] /\ hold'[c] = hold[c] /\ Store(c) # q
      BY <1>3, <2>2
    <3>2. live'[Store(c)][Id(c)] = live[Store(c)][Id(c)] /\ agent'[Store(c)][Id(c)] = agent[Store(c)][Id(c)]
      BY <1>5, <3>1, Here
    <3> QED  BY <3>1, <3>2 DEF StoreInv, ServedInv
  <2> QED  BY <2>1, <2>2
<1>11. ForkInv'
  BY <1>1, <1>3 DEF StoreInv, ForkInv
<1> QED  BY <1>7, <1>8, <1>9, <1>10, <1>11 DEF StoreInv

LEMMA StoreStep ==
  ASSUME StoreInv, OpensApart, OpensApart', [StoreNext]_storeVars
  PROVE  StoreInv'
<1>1. CASE UNCHANGED storeVars
  <2>1. /\ UNCHANGED <<exists, journal, mirror, live, agent, at, job, hold, seed>>
        /\ \A c \in Callers : Id(c)' = Id(c) /\ Op(c)' = Op(c) /\ Store(c)' = Store(c)
    BY <1>1 DEF storeVars, Id, Op, Store
  <2>2. StoreTyped'
    BY <2>1 DEF StoreInv, StoreTyped
  <2>3. LiveInv'
    BY <2>1 DEF StoreInv, LiveInv, LiveIsJournal
  <2>4. OpenInv'
    BY <2>1 DEF StoreInv, OpenInv
  <2>5. ServedInv'
    BY <2>1 DEF StoreInv, ServedInv
  <2>6. ForkInv'
    BY <2>1 DEF StoreInv, ForkInv
  <2> QED  BY <2>2, <2>3, <2>4, <2>5, <2>6 DEF StoreInv
<1>2. ASSUME NEW c \in Callers, Opening(c) PROVE StoreInv'
  BY <1>2, LookMoves, ReadMoves, OpenLogs, Writes, Inserts, TakeMoves DEF Opening
<1>3. ASSUME NEW c \in Callers, Unsubscribe(c) PROVE StoreInv'
  BY <1>3, LeaveMoves DEF Unsubscribe, memory
<1>4. ASSUME NEW c \in Callers, Fork(c) PROVE StoreInv'
  <2>1. CASE ForkRefused(c)
    BY <2>1, LeaveMoves DEF ForkRefused, Refuse, memory
  <2>2. CASE Seeded(c)
    BY <2>2, LeaveMoves DEF Seeded, memory
  <2> QED  BY <1>4, <2>1, <2>2, ReadParentMoves, CreateSeeds, SeedLines DEF Fork
<1> QED  BY <1>1, <1>2, <1>3, <1>4, CallMoves, AgentMoves, Writes, Deaths DEF StoreNext

LEMMA StoreStarts ==
  StoreInit => StoreInv
<1> SUFFICES ASSUME StoreInit PROVE StoreInv
  OBVIOUS
<1>1. /\ exists = {} /\ journal = [s \in Sessions |-> <<>>] /\ mirror = <<>>
      /\ live = [p \in Processes |-> Nowhere] /\ agent = [p \in Processes |-> Nowhere]
      /\ at = [c \in Callers |-> "out"] /\ job = [c \in Callers |-> <<>>]
      /\ hold = [c \in Callers |-> 0] /\ seed = [c \in Callers |-> <<>>]
  BY DEF StoreInit
<1>2. "out" \in Places /\ "out" \notin OpensAt \cup Handling \cup Served \cup Forking
  BY DEF Places, OpensAt, Handling, Served, Forking
<1>3. StoreTyped
  <2>1. <<>> \in Seq(LinesOf) /\ <<>> \in Seq(Seq(LinesOf)) /\ Len(mirror) = 0
    BY <1>1
  <2>2. journal \in [Sessions -> Seq(LinesOf)] /\ seed \in [Callers -> Seq(LinesOf)]
    BY <1>1, <2>1
  <2>3. Nowhere \in [Sessions -> 0 .. Len(mirror)]
    BY <2>1 DEF Nowhere
  <2>4. /\ live \in [Processes -> [Sessions -> 0 .. Len(mirror)]]
        /\ agent \in [Processes -> [Sessions -> 0 .. Len(mirror)]]
    BY <1>1, <2>3
  <2>5. at \in [Callers -> Places] /\ hold \in [Callers -> 0 .. Len(mirror)] /\ DOMAIN job = Callers
    BY <1>1, <1>2, <2>1
  <2> QED  BY <1>1, <1>2, <2>1, <2>2, <2>4, <2>5 DEF StoreTyped
<1>4. \A p \in Processes, s \in Sessions : live[p][s] = 0 /\ agent[p][s] = 0
  BY <1>1 DEF Nowhere
<1>5. LiveInv /\ OpenInv /\ ServedInv
  BY <1>1, <1>2, <1>4 DEF LiveInv, LiveIsJournal, OpenInv, ServedInv
<1>6. ForkInv
  BY <1>1 DEF ForkInv, Descends
<1> QED  BY <1>3, <1>5, <1>6 DEF StoreInv

LEMMA StoreTells ==
  StoreInv => JournalsAgree
<1> SUFFICES ASSUME StoreInv PROVE LiveIsJournal /\ ForkIsPrefix
  BY DEF JournalsAgree
<1> QED  BY DEF StoreInv, LiveInv, ForkInv, Descends, ForkIsPrefix

(* The memory of every live session, its file and the files it was forked  *)
(* from tell one history, as long as opens of one session keep apart       *)
(* (SessionStore::create, fork, append, seed).                             *)
THEOREM HistoriesAgree ==
  StoreSpec /\ []OpensApart => []JournalsAgree
<1>1. StoreInit => StoreInv
  BY StoreStarts
<1>2. StoreInv /\ OpensApart /\ OpensApart' /\ [StoreNext]_storeVars => StoreInv'
  BY StoreStep
<1>3. StoreInv => JournalsAgree
  BY StoreTells
<1> QED  BY <1>1, <1>2, <1>3, PTL DEF StoreSpec

(* Opens keep apart where each session has one caller: what is live was    *)
(* put there by a caller of the process that names the session.            *)
CallsInv ==
  /\ DOMAIN at = Callers /\ DOMAIN job = Callers
  /\ DOMAIN live = Processes /\ \A p \in Processes : DOMAIN live[p] = Sessions
  /\ \A c \in Callers : at[c] # "out" => job[c] \in Jobs[c]
  /\ \A p \in Processes, s \in Sessions : live[p][s] # 0 =>
       \E c \in Callers : Store(c) = p /\ \E j \in Jobs[c] : j[Len(j)] = s

LEMMA CallsKeep ==
  ASSUME CallsInv, [StoreNext]_storeVars
  PROVE  CallsInv'
<1>1. CASE UNCHANGED storeVars
  BY <1>1 DEF storeVars, CallsInv, Store
<1>2. ASSUME NEW c \in Callers, NEW j \in Jobs[c], Call(c, j) PROVE CallsInv'
  BY <1>2 DEF Call, Goto, memory, CallsInv, Store
<1>3. ASSUME NEW c \in Callers, at[c] # "out", NEW place, at' \in {at, [at EXCEPT ![c] = place]},
             UNCHANGED <<job, live>>
      PROVE  CallsInv'
  <2>1. DOMAIN at' = Callers /\ \A d \in Callers : at'[d] # "out" => at[d] # "out"
    BY <1>3 DEF CallsInv
  <2> QED  BY <1>3, <2>1 DEF CallsInv, Store
<1>4. ASSUME NEW c \in Callers, Insert(c) PROVE CallsInv'
  <2>1. PICK place : at' = [at EXCEPT ![c] = place]
    BY <1>4 DEF Insert, Goto
  <2>2. at[c] # "out" /\ job[c] \in Jobs[c] /\ job' = job
        /\ live' = [live EXCEPT ![Store(c)][Id(c)] = hold[c]]
    BY <1>4 DEF Insert, local, CallsInv
  <2>3. DOMAIN at' = Callers /\ \A d \in Callers : at'[d] # "out" => at[d] # "out"
    BY <2>1, <2>2 DEF CallsInv
  <2>4. /\ DOMAIN live' = Processes /\ \A p \in Processes : DOMAIN live'[p] = Sessions
        /\ \A p \in Processes, s \in Sessions :
             live'[p][s] = live[p][s] \/ (p = Store(c) /\ s = Id(c))
    BY <2>2 DEF CallsInv
  <2>5. \A p \in Processes, s \in Sessions : live'[p][s] # 0 =>
          \E d \in Callers : Store(d) = p /\ \E j \in Jobs[d] : j[Len(j)] = s
    BY <2>2, <2>4 DEF CallsInv, Id
  <2> QED  BY <2>2, <2>3, <2>4, <2>5 DEF CallsInv, Store
<1>5. ASSUME NEW c \in Callers, Opening(c) PROVE CallsInv'
  <2>1. CASE Insert(c)
    BY <1>4, <2>1
  <2>2. CASE ~Insert(c)
    <3>1. at[c] # "out" /\ UNCHANGED <<job, live>>
      BY <1>5, <2>2 DEF Opening, FindLive, Miss, ReadStored, OpenLog, Repair, WriteHeader, Take,
                        memory, local
    <3>2. \E place : at' \in {at, [at EXCEPT ![c] = place]}
      BY <1>5, <2>2 DEF Opening, FindLive, Miss, ReadStored, OpenLog, Repair, WriteHeader, Take, Goto
    <3> QED  BY <1>3, <3>1, <3>2
  <2> QED  BY <2>1, <2>2
<1>6. ASSUME NEW c \in Callers, Unsubscribe(c) \/ AgentFor(c) \/ TurnStart(c) \/ TurnEnd(c)
      PROVE  CallsInv'
  <2>1. at[c] # "out" /\ UNCHANGED <<job, live>>
    BY <1>6 DEF Unsubscribe, AgentFor, TurnStart, TurnEnd, memory, local
  <2>2. \E place : at' \in {at, [at EXCEPT ![c] = place]}
    BY <1>6 DEF Unsubscribe, AgentFor, TurnStart, TurnEnd, Goto
  <2> QED  BY <1>3, <2>1, <2>2
<1>7. ASSUME NEW c \in Callers, Fork(c) PROVE CallsInv'
  <2>1. /\ at[c] # "out" /\ UNCHANGED <<job, live>>
        /\ \E place : at' \in {at, [at EXCEPT ![c] = place]}
    BY <1>7 DEF Fork, ForkRefused, ReadParent, CreateSeed, SeedLine, Seeded, Refuse, Goto, memory, local
  <2> QED  BY <1>3, <2>1
<1>8. ASSUME NEW q \in Processes, Crash(q) PROVE CallsInv'
  <2>1. /\ live' = [live EXCEPT ![q] = Nowhere] /\ job' = job
        /\ at' = [c \in Callers |-> IF Store(c) = q THEN "out" ELSE at[c]]
    BY <1>8 DEF Crash
  <2>2. /\ DOMAIN live' = Processes /\ \A p \in Processes : DOMAIN live'[p] = Sessions
        /\ \A p \in Processes, s \in Sessions : live'[p][s] # 0 => live[p][s] # 0
    BY <2>1 DEF CallsInv, Nowhere
  <2>3. DOMAIN at' = Callers /\ \A d \in Callers : at'[d] # "out" => at[d] # "out"
    BY <2>1
  <2> QED  BY <2>1, <2>2, <2>3 DEF CallsInv, Store
<1> QED  BY <1>1, <1>2, <1>5, <1>6, <1>7, <1>8 DEF StoreNext

LEMMA ApartByCaller ==
  ASSUME OneCaller, CallsInv
  PROVE  OpensApart
<1> SUFFICES ASSUME NEW c \in Callers, at[c] \in OpensAt
             PROVE  /\ \A d \in Callers \ {c} : at[d] \in OpensAt => Id(d) # Id(c)
                    /\ \A p \in Processes \ {Store(c)} : live[p][Id(c)] = 0
  BY DEF OpensApart
<1>1. \A d \in Callers : at[d] \in OpensAt => job[d] \in Jobs[d]
  BY DEF CallsInv, OpensAt
<1>2. \A d \in Callers \ {c} : at[d] \in OpensAt => Id(d) # Id(c)
  BY <1>1 DEF OneCaller, Id
<1>3. Id(c) \in Sessions
  BY <1>1, StoreAssumption DEF Id, Named
<1>4. \A p \in Processes \ {Store(c)} : live[p][Id(c)] = 0
  BY <1>1, <1>3 DEF CallsInv, OneCaller, Id
<1> QED  BY <1>2, <1>4

THEOREM CallersKeepApart ==
  OneCaller => (StoreSpec => []OpensApart)
<1> SUFFICES ASSUME OneCaller PROVE StoreSpec => []OpensApart
  OBVIOUS
<1>1. StoreInit => CallsInv
  BY DEF StoreInit, CallsInv, Nowhere
<1>2. CallsInv /\ [StoreNext]_storeVars => CallsInv'
  BY CallsKeep
<1>3. CallsInv => OpensApart
  BY ApartByCaller
<1> QED  BY <1>1, <1>2, <1>3, PTL DEF StoreSpec

(* So a session that has one caller has one history.                       *)
THEOREM OneCallerOneHistory ==
  OneCaller => (StoreSpec => []JournalsAgree)
<1> SUFFICES ASSUME OneCaller PROVE StoreSpec => []JournalsAgree
  OBVIOUS
<1>1. StoreSpec => []OpensApart
  BY CallersKeepApart
<1> QED  BY <1>1, HistoriesAgree, PTL

-----------------------------------------------------------------------------
(***************************************************************************)
(* A prompt a send settles on is the prompt of the line it typed, for any  *)
(* number of sends, of one line each, at a shell that prints its first     *)
(* prompt before it falls silent.                                          *)
(*                                                                         *)
(* What is counted before a send types is never less than the prompts that *)
(* may still come before its own, and once a prompt more than that was     *)
(* published there is none left to come: the last one is its own.          *)
(***************************************************************************)
(* The prompts there are and may be: of each line that was typed and not   *)
(* fed to a program.                                                       *)
InAll == Len(printed) + (IF running = NoLine THEN 0 ELSE 1) + Len(typed)

(* The latest of those lines.                                              *)
Latest(m) ==
  IF typed # <<>> THEN typed[Len(typed)] = m
  ELSE IF running # NoLine THEN running = m
  ELSE printed # <<>> /\ printed[Len(printed)] = m

TerminalTyped ==
  /\ typed \in Seq(Nat) /\ running \in Nat /\ printed \in Seq(Nat)
  /\ announced \in 0 .. Len(printed) /\ prompts \in 0 .. announced
  /\ owed \in Nat /\ gone \in BOOLEAN /\ lines \in Nat
  /\ send \in [at : SendPlaces, line : Nat, before : Nat, opens : BOOLEAN]

SendInv ==
  /\ send.at = "free" /\ ~gone => InAll <= prompts + owed
  /\ send.at \in {"typing", "looking", "waiting"} => send.before <= prompts + owed
  /\ send.at = "typing" => InAll <= send.before
  /\ send.at \in {"looking", "waiting"} =>
       /\ InAll <= send.before + 1
       /\ InAll = send.before + 1 => Latest(send.line)

TerminalInv == TerminalTyped /\ SendInv /\ ReportsOwnCommand

LEMMA TailOf ==
  ASSUME NEW s \in Seq(Nat), s # <<>>
  PROVE  /\ Len(s) \in Nat \ {0} /\ Tail(s) \in Seq(Nat) /\ Head(s) = s[1] /\ s[1] \in Nat
         /\ Len(Tail(s)) = Len(s) - 1 /\ (Tail(s) = <<>> <=> Len(s) = 1)
         /\ Tail(s) # <<>> => Tail(s)[Len(Tail(s))] = s[Len(s)]
<1>1. /\ Len(s) \in Nat \ {0} /\ Tail(s) \in Seq(Nat) /\ Head(s) = s[1] /\ s[1] \in Nat
      /\ Len(Tail(s)) = Len(s) - 1 /\ \A i \in 1 .. Len(s) - 1 : Tail(s)[i] = s[i + 1]
  OBVIOUS
<1>2. Tail(s) = <<>> <=> Len(s) = 1
  BY <1>1, EmptySeq
<1> QED  BY <1>1, <1>2

(* What the shell and the task that publishes do to it. *)
LEMMA ShellSteps ==
  ASSUME TerminalInv, Reads \/ IsFed \/ LineEnds \/ ShellExits \/ CloseSession \/ Announce \/ publish
  PROVE  TerminalInv'
<1>1. TerminalTyped /\ SendInv /\ ReportsOwnCommand
  BY DEF TerminalInv
<1>2. typed # <<>> => /\ Len(typed) \in Nat \ {0} /\ Tail(typed) \in Seq(Nat) /\ Head(typed) = typed[1]
                      /\ typed[1] \in Nat /\ Len(Tail(typed)) = Len(typed) - 1
                      /\ Tail(typed) # <<>> => Tail(typed)[Len(Tail(typed))] = typed[Len(typed)]
                      /\ (Tail(typed) = <<>> <=> Len(typed) = 1)
  BY <1>1, TailOf DEF TerminalTyped
<1>3. Len(typed) \in Nat /\ Len(printed) \in Nat
  BY <1>1 DEF TerminalTyped
<1>4. /\ Append(printed, running) \in Seq(Nat) /\ Len(Append(printed, running)) = Len(printed) + 1
      /\ Append(printed, running)[Len(printed) + 1] = running /\ Append(printed, running) # <<>>
  <2>1. printed \in Seq(Nat) /\ running \in Nat
    BY <1>1 DEF TerminalTyped
  <2> QED  BY <2>1
<1>5. CASE Reads
  <2>1. /\ ~gone /\ running = NoLine /\ typed # <<>> /\ running' = typed[1] /\ typed' = Tail(typed)
        /\ UNCHANGED <<printed, announced, prompts, owed, gone, lines, send, outcome>>
    BY <1>2, <1>5 DEF Reads, watched
  <2>2. TerminalTyped' /\ ReportsOwnCommand'
    BY <1>1, <1>2, <2>1 DEF TerminalTyped, ReportsOwnCommand
  <2>3. InAll' <= InAll
    BY <1>2, <1>3, <2>1 DEF InAll, NoLine
  <2>4. InAll' = InAll /\ Latest(send.line) => Latest(send.line)'
    BY <1>2, <1>3, <2>1 DEF InAll, Latest, NoLine
  <2>5. InAll \in Nat /\ InAll' \in Nat
    BY <1>2, <1>3, <2>1 DEF InAll
  <2> QED  BY <1>1, <2>1, <2>2, <2>3, <2>4, <2>5 DEF TerminalInv, TerminalTyped, SendInv, SendPlaces
<1>6. CASE IsFed
  <2>1. /\ ~gone /\ typed # <<>> /\ typed' = Tail(typed)
        /\ UNCHANGED <<running, printed, announced, prompts, owed, gone, lines, send, outcome>>
    BY <1>2, <1>6 DEF IsFed, watched
  <2>2. TerminalTyped' /\ ReportsOwnCommand'
    BY <1>1, <1>2, <2>1 DEF TerminalTyped, ReportsOwnCommand
  <2>3. InAll' = InAll - 1 /\ InAll \in Nat
    BY <1>2, <1>3, <2>1 DEF InAll, NoLine
  <2> QED  BY <1>1, <2>1, <2>2, <2>3 DEF TerminalInv, TerminalTyped, SendInv, SendPlaces
<1>7. CASE LineEnds
  <2>1. /\ ~gone /\ running # NoLine /\ printed' = Append(printed, running) /\ running' = NoLine
        /\ UNCHANGED <<typed, announced, prompts, owed, gone, lines, send, outcome>>
    BY <1>7 DEF LineEnds, watched
  <2>2. TerminalTyped' /\ ReportsOwnCommand'
    <3>1. printed' \in Seq(Nat) /\ running' \in Nat /\ announced' \in 0 .. Len(printed')
      BY <1>1, <1>3, <1>4, <2>1 DEF TerminalTyped, NoLine
    <3> QED  BY <1>1, <2>1, <3>1 DEF TerminalTyped, ReportsOwnCommand
  <2>3. InAll' = InAll /\ InAll \in Nat
    BY <1>3, <1>4, <2>1 DEF InAll
  <2>4. Latest(send.line) => Latest(send.line)'
    BY <1>3, <1>4, <2>1 DEF Latest
  <2> QED  BY <1>1, <2>1, <2>2, <2>3, <2>4 DEF TerminalInv, TerminalTyped, SendInv, SendPlaces
<1>8. CASE ShellExits \/ CloseSession
  <2>1. /\ gone' = TRUE
        /\ UNCHANGED <<typed, running, printed, announced, prompts, owed, lines, send, outcome>>
    BY <1>8 DEF ShellExits, CloseSession, watched
  <2> QED  BY <1>1, <2>1 DEF TerminalInv, TerminalTyped, SendInv, ReportsOwnCommand, InAll, Latest
<1>9. CASE Announce \/ publish
  <2>1. /\ announced' \in 0 .. Len(printed) /\ prompts' \in 0 .. announced' /\ prompts' >= prompts
        /\ UNCHANGED <<typed, running, printed, owed, gone, lines, send, outcome>>
    BY <1>1, <1>3, <1>9 DEF Announce, publish, shell, TerminalTyped
  <2>2. TerminalTyped' /\ ReportsOwnCommand'
    BY <1>1, <2>1 DEF TerminalTyped, ReportsOwnCommand
  <2>3. InAll' = InAll /\ InAll \in Nat /\ (Latest(send.line) => Latest(send.line)')
    BY <1>3, <2>1 DEF InAll, Latest
  <2>4. prompts \in Nat /\ prompts' \in Nat /\ owed \in Nat /\ send.before \in Nat
    BY <1>1, <2>1 DEF TerminalTyped
  <2>5. \A x \in Nat : x <= prompts + owed => x <= prompts' + owed'
    <3>1. owed' = owed /\ prompts <= prompts' /\ owed' \in Nat
      BY <2>1, <2>4
    <3>2. \A x, a, b, d \in Nat : x <= a + b /\ a <= d => x <= d + b
      OBVIOUS
    <3> QED  BY <2>4, <3>1, <3>2
  <2>6. SendInv'
    BY <1>1, <2>1, <2>3, <2>4, <2>5 DEF SendInv
  <2> QED  BY <2>2, <2>6 DEF TerminalInv
<1> QED  BY <1>5, <1>6, <1>7, <1>8, <1>9

LEMMA SendSteps ==
  ASSUME TerminalInv, MaxBurst = 1, BeginSend \/ Type \/ TypeFails \/ Look \/ LookAgain
  PROVE  TerminalInv'
<1>1. TerminalTyped /\ SendInv /\ ReportsOwnCommand
  BY DEF TerminalInv
<1>2. Len(typed) \in Nat /\ Len(printed) \in Nat /\ InAll \in Nat
  BY <1>1 DEF TerminalTyped, InAll
<1>3. CASE BeginSend
  <2>1. PICK b : b = prompts + owed
    OBVIOUS
  <2>2. /\ send.at = "free" /\ ~gone
        /\ send' = [at |-> "typing", line |-> NoLine, before |-> b, opens |-> FALSE]
        /\ UNCHANGED <<typed, running, printed, announced, prompts, owed, gone, lines, outcome>>
    BY <1>3, <2>1 DEF BeginSend, shell, watched
  <2>3. b \in Nat
    BY <1>1, <2>1 DEF TerminalTyped
  <2>4. TerminalTyped' /\ ReportsOwnCommand'
    BY <1>1, <2>2, <2>3 DEF TerminalTyped, ReportsOwnCommand, SendPlaces, NoLine
  <2>5. InAll' = InAll
    BY <2>2 DEF InAll
  <2> QED  BY <1>1, <2>1, <2>2, <2>3, <2>4, <2>5 DEF TerminalInv, SendInv
<1>4. CASE Type
  <2>1. PICK m \in 0 .. 1 :
          /\ lines' = lines + m /\ typed' = typed \o [i \in 1..m |-> lines + i]
          /\ send' = [send EXCEPT !.at = "looking", !.line = IF m = 0 THEN NoLine ELSE lines + m]
    BY <1>4 DEF Type
  <2>2. /\ send.at = "typing" /\ UNCHANGED <<running, printed, announced, prompts, owed, gone, outcome>>
    BY <1>4 DEF Type, watched
  <2>3. PICK new : new = [i \in 1 .. m |-> lines + i]
    OBVIOUS
  <2>4. /\ new \in Seq(Nat) /\ Len(new) = m /\ (m = 1 => new[1] = lines + 1)
    <3>1. new \in [1 .. m -> Nat] /\ m \in Nat
      BY <1>1, <2>3 DEF TerminalTyped
    <3> QED  BY <2>3, <3>1
  <2>5. /\ typed' = typed \o new /\ typed' \in Seq(Nat) /\ Len(typed') = Len(typed) + m
        /\ (m = 1 => typed' # <<>> /\ typed'[Len(typed')] = lines + 1)
    <3>1. typed \in Seq(Nat) /\ typed' = typed \o new
      BY <1>1, <2>1, <2>3 DEF TerminalTyped
    <3>2. PICK all : all = typed \o new
      OBVIOUS
    <3>3. /\ all \in Seq(Nat) /\ Len(all) = Len(typed) + Len(new)
          /\ \A i \in Len(typed) + 1 .. Len(typed) + Len(new) : all[i] = new[i - Len(typed)]
      BY <2>4, <3>1, <3>2
    <3>4. m = 1 => all # <<>> /\ all[Len(all)] = lines + 1
      BY <1>2, <2>4, <3>3
    <3> QED  BY <2>4, <3>1, <3>2, <3>3, <3>4
  <2>6. TerminalTyped' /\ ReportsOwnCommand'
    <3>1. lines' \in Nat /\ (IF m = 0 THEN NoLine ELSE lines + m) \in Nat
      BY <1>1, <2>1 DEF TerminalTyped, NoLine
    <3>2. send' \in [at : SendPlaces, line : Nat, before : Nat, opens : BOOLEAN]
      BY <1>1, <2>1, <3>1 DEF TerminalTyped, SendPlaces
    <3> QED  BY <1>1, <2>2, <2>5, <3>1, <3>2 DEF TerminalTyped, ReportsOwnCommand
  <2>7. send'.at = "looking" /\ send'.before = send.before /\ (m = 1 => send'.line = lines + 1)
    BY <1>1, <2>1 DEF TerminalTyped
  <2>8. InAll' = InAll + m
    <3>1. m \in Nat /\ running' = running /\ printed' = printed /\ Len(typed') = Len(typed) + m
      BY <2>2, <2>5
    <3>2. PICK r \in {0, 1} : r = IF running = NoLine THEN 0 ELSE 1
      OBVIOUS
    <3>3. InAll = Len(printed) + r + Len(typed)
      BY <3>2 DEF InAll
    <3>4. InAll' = Len(printed) + r + Len(typed')
      BY <3>1, <3>2 DEF InAll
    <3> QED  BY <1>2, <3>1, <3>3, <3>4
  <2>9. m = 1 => Latest(send.line)'
    BY <2>5, <2>7 DEF Latest
  <2>10. send.before \in Nat /\ InAll <= send.before /\ send.before <= prompts + owed
    BY <1>1, <2>2 DEF TerminalTyped, SendInv
  <2>11. InAll' <= send'.before + 1 /\ (InAll' = send'.before + 1 => m = 1)
    BY <1>2, <2>7, <2>8, <2>10
  <2> QED  BY <2>2, <2>6, <2>7, <2>9, <2>10, <2>11 DEF TerminalInv, SendInv
<1>5. CASE TypeFails
  <2>1. /\ gone /\ send.at = "typing" /\ send' = [send EXCEPT !.at = "free"]
        /\ UNCHANGED <<typed, running, printed, announced, prompts, owed, gone, lines, outcome>>
    BY <1>5 DEF TypeFails, shell, watched
  <2> QED  BY <1>1, <2>1 DEF TerminalInv, TerminalTyped, SendInv, ReportsOwnCommand, SendPlaces
<1>6. CASE Look \/ LookAgain
  <2>1. PICK place \in {"looking", "waiting"} : send' = [send EXCEPT !.at = place]
    BY <1>6 DEF Look, LookAgain
  <2>2. /\ send.at \in {"looking", "waiting"}
        /\ UNCHANGED <<typed, running, printed, announced, prompts, owed, gone, lines, outcome>>
    BY <1>6 DEF Look, LookAgain, shell, watched
  <2>3. /\ send'.at = place /\ send'.before = send.before /\ send'.line = send.line /\ send'.opens = send.opens
    BY <1>1, <2>1 DEF TerminalTyped
  <2>4. TerminalTyped' /\ ReportsOwnCommand'
    BY <1>1, <2>1, <2>2, <2>3 DEF TerminalTyped, ReportsOwnCommand, SendPlaces
  <2>5. InAll' = InAll /\ (Latest(send.line) => Latest(send.line)')
    BY <2>2, <2>3 DEF InAll, Latest
  <2> QED  BY <1>1, <2>2, <2>3, <2>4, <2>5 DEF TerminalInv, SendInv
<1> QED  BY <1>3, <1>4, <1>5, <1>6

LEMMA Settles ==
  ASSUME TerminalInv, ~QuietStart,
         SettlePrompt \/ SettleExit \/ SettleInterrupt \/ SettleIdle \/ SettleTimeout
  PROVE  TerminalInv'
<1>1. TerminalTyped /\ SendInv /\ ReportsOwnCommand
  BY DEF TerminalInv
<1>2. Len(typed) \in Nat /\ Len(printed) \in Nat /\ InAll \in Nat
  BY <1>1 DEF TerminalTyped, InAll
<1>3. PICK wait \in {"stdin_read", "session_exit", "interrupted", "inferred_idle", "timeout"} :
        /\ Settle(wait)
        /\ wait = "stdin_read" => send.at = "looking" /\ prompts > send.before
        /\ wait = "session_exit" => gone
        /\ wait = "interrupted" => ~send.opens
        /\ wait = "inferred_idle" => ~send.opens
  BY DEF SettlePrompt, SettleExit, SettleInterrupt, SettleIdle, SettleTimeout
<1>4. send.at \in {"looking", "waiting"}
  BY DEF SettlePrompt, SettleExit, SettleInterrupt, SettleIdle, SettleTimeout
<1>5. PICK place \in {"never", "free"} :
        /\ place = IF send.opens /\ wait \notin {"stdin_read", "inferred_idle"} THEN "never" ELSE "free"
        /\ send' = [send EXCEPT !.at = place]
  BY <1>3 DEF Settle
<1>6. /\ UNCHANGED <<typed, running, printed, announced, prompts, gone, lines>>
      /\ owed' = CASE send.opens -> owed
                   [] wait = "stdin_read" -> 0
                   [] wait = "session_exit" -> owed
                   [] OTHER -> owed + 1
      /\ outcome' = IF send.opens THEN NothingYet
                    ELSE [wait |-> wait, line |-> send.line,
                          code |-> IF wait = "stdin_read" THEN last_status ELSE NoLine,
                          left |-> Unanswered]
  BY <1>3 DEF Settle, Pays, shell, watched
<1>7. InAll <= send.before + 1 /\ (InAll = send.before + 1 => Latest(send.line))
      /\ send.before <= prompts + owed /\ send.before \in Nat /\ prompts \in Nat /\ owed \in Nat
  BY <1>1, <1>4 DEF SendInv, TerminalTyped
<1>8. send'.at = place /\ send'.opens = send.opens
  BY <1>1, <1>5 DEF TerminalTyped
(* The prompt it settled on is the last there is. *)
<1>9. ASSUME wait = "stdin_read"
      PROVE  /\ InAll = prompts /\ announced = prompts /\ announced # 0
             /\ printed[announced] = send.line
  <2>1. prompts > send.before /\ prompts <= announced /\ announced <= Len(printed)
        /\ announced \in Nat
    BY <1>1, <1>2, <1>3, <1>9 DEF TerminalTyped
  <2>2. Len(printed) <= InAll
    BY <1>2 DEF InAll
  <2>3. InAll = send.before + 1 /\ prompts = InAll /\ announced = prompts /\ Len(printed) = InAll
    BY <1>2, <1>7, <2>1, <2>2
  <2>4. typed = <<>> /\ running = NoLine
    <3>1. Len(typed) = 0 /\ running = NoLine
      BY <1>2, <2>3 DEF InAll
    <3> QED  BY <1>1, <3>1 DEF TerminalTyped
  <2>5. printed[Len(printed)] = send.line
    BY <1>7, <2>3, <2>4 DEF Latest
  <2> QED  BY <1>7, <2>3, <2>5
<1>10. TerminalTyped'
  <2>1. owed' \in Nat
    BY <1>1, <1>6 DEF TerminalTyped
  <2>2. send' \in [at : SendPlaces, line : Nat, before : Nat, opens : BOOLEAN]
    BY <1>1, <1>5 DEF TerminalTyped, SendPlaces
  <2> QED  BY <1>1, <1>6, <2>1, <2>2 DEF TerminalTyped
<1>11. ReportsOwnCommand'
  <2>1. CASE send.opens
    BY <1>6, <2>1 DEF ReportsOwnCommand, NothingYet
  <2>2. CASE ~send.opens
    BY <1>6, <1>9, <2>2 DEF ReportsOwnCommand, last_status
  <2> QED  BY <2>1, <2>2
<1>12. SendInv'
  <2>1. InAll' = InAll
    BY <1>6 DEF InAll
  <2>2. ASSUME place = "free", ~gone PROVE InAll <= prompts + owed'
    <3>1. CASE wait = "stdin_read"
      BY <1>6, <1>7, <1>9, <3>1, <1>1 DEF TerminalTyped
    <3>2. CASE wait # "stdin_read"
      <4>1. owed' = owed + 1
        BY <1>3, <1>5, <1>6, <2>2, <3>2
      <4> QED  BY <1>2, <1>7, <4>1
    <3> QED  BY <3>1, <3>2
  <2> QED  BY <1>6, <1>8, <2>1, <2>2 DEF SendInv
<1> QED  BY <1>10, <1>11, <1>12 DEF TerminalInv

LEMMA TerminalStarts ==
  TerminalInit => TerminalInv
<1> SUFFICES ASSUME TerminalInit PROVE TerminalInv
  OBVIOUS
<1>1. /\ typed = <<>> /\ running = 1 /\ printed = <<>> /\ gone = FALSE
      /\ announced = 0 /\ prompts = 0 /\ owed = 0 /\ lines = 1
      /\ send = [at |-> "looking", line |-> 1, before |-> 0, opens |-> TRUE]
      /\ outcome = NothingYet
  BY DEF TerminalInit
<1>2. TerminalTyped
  <2>1. <<>> \in Seq(Nat) /\ Len(printed) = 0
    BY <1>1
  <2>2. send \in [at : SendPlaces, line : Nat, before : Nat, opens : BOOLEAN]
    BY <1>1 DEF SendPlaces
  <2>3. typed \in Seq(Nat) /\ running \in Nat /\ printed \in Seq(Nat)
    BY <1>1, <2>1
  <2>4. announced \in 0 .. Len(printed) /\ prompts \in 0 .. announced
    BY <1>1, <2>1
  <2>5. owed \in Nat /\ gone \in BOOLEAN /\ lines \in Nat
    BY <1>1
  <2> QED  BY <2>2, <2>3, <2>4, <2>5 DEF TerminalTyped
<1>3. SendInv
  BY <1>1 DEF SendInv, InAll, Latest, NoLine
<1> QED  BY <1>1, <1>2, <1>3 DEF TerminalInv, ReportsOwnCommand, NothingYet

(* A send of one line that settles on a prompt reports the status of the   *)
(* line it typed, whatever earlier sends left running, were interrupted or *)
(* fed to a program (Session::send, wait_for_readiness).                   *)
THEOREM ReportsItsCommand ==
  MaxBurst = 1 /\ ~QuietStart => (TerminalSpec => []ReportsOwnCommand)
<1> SUFFICES ASSUME MaxBurst = 1, ~QuietStart PROVE TerminalSpec => []ReportsOwnCommand
  OBVIOUS
<1>1. TerminalInit => TerminalInv
  BY TerminalStarts
<1>2. TerminalInv /\ [TerminalNext]_terminalVars => TerminalInv'
  <2> SUFFICES ASSUME TerminalInv, [TerminalNext]_terminalVars PROVE TerminalInv'
    OBVIOUS
  <2>1. CASE UNCHANGED terminalVars
    BY <2>1 DEF terminalVars, TerminalInv, TerminalTyped, SendInv, InAll, Latest, ReportsOwnCommand
  <2>2. CASE TerminalNext
    BY <2>2, ShellSteps, SendSteps, Settles DEF TerminalNext
  <2> QED  BY <2>1, <2>2
<1>3. TerminalInv => ReportsOwnCommand
  BY DEF TerminalInv
<1> QED  BY <1>1, <1>2, <1>3, PTL DEF TerminalSpec

-----------------------------------------------------------------------------
(***************************************************************************)
(* A prompt's caller hears its turn out, for any prompts, cancellations    *)
(* and deadlines on one connection, as long as the session is not loaded   *)
(* again while it is used.                                                 *)
(*                                                                         *)
(* The slot makes one prompt of the session hear what its turn pushes, and *)
(* all of it is on its way before the prompt leaves the slot: behind an    *)
(* answer there is no update of its turn.                                  *)
(***************************************************************************)
Stops == {"none", "refused", "busy", "end_turn", "cancelled"}
FramePlaces == {"sent", "spawned", "claimed", "subscribed", "running", "ran", "unsubscribed",
                "released", "done", "marked"}
Frame == [kind : {"prompt", "cancel"}, at : FramePlaces, stop : Stops, asked : BOOLEAN]

Updates == [is : {"update"}, of : Nat, n : Nat]
AnswersOf == [is : {"answer"}, to : Nat, stop : Stops]

(* The slot, the turn and the mark. *)
SlotInv ==
  /\ frames \in Seq(Frame) /\ spawned \in 0 .. Len(frames)
  /\ record \in [known : BOOLEAN, inflight : BOOLEAN, cancelled : BOOLEAN]
  /\ \A f \in DOMAIN frames : f > spawned => frames[f].at = "sent"
  /\ \A f, g \in DOMAIN frames : frames[f].at \in Holding /\ frames[g].at \in Holding => f = g
  /\ \A f \in DOMAIN frames : frames[f].at \in Holding =>
       record.inflight /\ (frames[f].asked => record.cancelled)
  /\ turn # 0 => turn \in DOMAIN frames /\ frames[turn].at = "running" /\ frames[turn].kind = "prompt"
  /\ \A f \in DOMAIN frames : frames[f].asked => frames[f].at \in Holding \cup {"released", "done"}
  /\ CancelHeard

Speaks(s, u) == \E i \in DOMAIN s : s[i] = u

(* s has every update of f's turn, once and in order. *)
Tells(s, f) ==
  /\ \A i, j \in UpdatesOf(s, f) : i < j => s[i].n < s[j].n
  /\ \A u \in Updates : u.of = f => (Speaks(s, u) <=> Speaks(appended, u))

Finished(f) == f \in DOMAIN frames /\ frames[f].at = "done"

WireTyped ==
  /\ appended \in Seq(Updates) /\ queue \in Seq(Updates) /\ wire \in Seq(Updates \cup AnswersOf)
  /\ client \in 0 .. Len(frames) /\ reply \in Stops
  /\ gathered.updates \in Seq(Updates)

HeardInv ==
  /\ \A i \in DOMAIN appended :
       /\ appended[i].of \in DOMAIN frames
       /\ appended[i].n <= Cardinality(UpdatesOf(appended, appended[i].of))
  /\ \A i \in DOMAIN wire : wire[i] \in Updates => Speaks(appended, wire[i])
  /\ \A i \in DOMAIN wire : wire[i] \in AnswersOf =>
       Finished(wire[i].to) /\ \A j \in UpdatesOf(wire, wire[i].to) : j < i
  /\ reply # "none" => client # 0 /\ Finished(client) /\ UpdatesOf(wire, client) = {}
  /\ client # 0 => Tells(queue \o wire, client)
  /\ gathered.of # 0 => Finished(gathered.of) /\ Tells(gathered.updates, gathered.of)

BridgeInv == SlotInv /\ WireTyped /\ HeardInv

(* The places of updates. *)
LEMMA UpdatesAre ==
  ASSUME NEW s \in Seq(Updates \cup AnswersOf), NEW f
  PROVE  /\ UpdatesOf(s, f) = {i \in 1 .. Len(s) : s[i] \in Updates /\ s[i].of = f}
         /\ \A i \in 1 .. Len(s) : s[i] \in Updates \/ s[i] \in AnswersOf
<1>1. \A i \in 1 .. Len(s) : s[i] \in Updates \cup AnswersOf
  OBVIOUS
<1>2. \A u \in AnswersOf : u.is # "update"
  BY DEF AnswersOf
<1>3. \A u \in Updates : u.is = "update"
  BY DEF Updates
<1>4. DOMAIN s = 1 .. Len(s)
  OBVIOUS
<1> QED  BY <1>1, <1>2, <1>3, <1>4 DEF UpdatesOf

LEMMA UpdatesSeq ==
  Seq(Updates) \subseteq Seq(Updates \cup AnswersOf)
OBVIOUS

(* One task moves on. *)
LEMMA TaskKeeps ==
  ASSUME SlotInv, NEW f \in DOMAIN frames, frames[f].at # "sent", NEW g \in Frame,
         frames' = [frames EXCEPT ![f] = g], spawned' = spawned,
         record' \in [known : BOOLEAN, inflight : BOOLEAN, cancelled : BOOLEAN],
         g.at \in Holding => /\ frames[f].at \in Holding \/ ~record.inflight
                             /\ record'.inflight /\ (g.asked => record'.cancelled),
         \A h \in DOMAIN frames \ {f} : frames[h].at \in Holding =>
           record'.inflight /\ (frames[h].asked => record'.cancelled),
         turn' # 0 => turn' \in DOMAIN frames /\ frames'[turn'].at = "running"
                      /\ frames'[turn'].kind = "prompt",
         g.asked => g.at \in Holding \cup {"released", "done"},
         g.at \in {"released", "done"} /\ g.asked => g.stop = "cancelled"
  PROVE  SlotInv'
<1>1. /\ frames' \in Seq(Frame) /\ Len(frames') = Len(frames) /\ DOMAIN frames' = DOMAIN frames
      /\ frames'[f] = g /\ \A h \in DOMAIN frames \ {f} : frames'[h] = frames[h]
  BY DEF SlotInv
<1>2. \A h \in DOMAIN frames' : h > spawned' => frames'[h].at = "sent"
  BY <1>1 DEF SlotInv
<1>3. \A h, k \in DOMAIN frames' : frames'[h].at \in Holding /\ frames'[k].at \in Holding => h = k
  BY <1>1 DEF SlotInv
<1>4. \A h \in DOMAIN frames' : frames'[h].at \in Holding =>
        record'.inflight /\ (frames'[h].asked => record'.cancelled)
  BY <1>1
<1>5. \A h \in DOMAIN frames' : frames'[h].asked => frames'[h].at \in Holding \cup {"released", "done"}
  BY <1>1 DEF SlotInv
<1>6. CancelHeard'
  BY <1>1 DEF SlotInv, CancelHeard
<1>7. spawned' \in 0 .. Len(frames')
  BY <1>1 DEF SlotInv
<1> QED  BY <1>1, <1>2, <1>3, <1>4, <1>5, <1>6, <1>7 DEF SlotInv

(* A step that sends and takes nothing. *)
LEMMA WireKeeps ==
  ASSUME WireTyped, HeardInv, UNCHANGED <<appended, wire, queue, client, reply, gathered>>,
         Len(frames) \in Nat, Len(frames') \in Nat, Len(frames) <= Len(frames'),
         \A f \in DOMAIN frames : f \in DOMAIN frames' /\ (frames[f].at = "done" => frames'[f].at = "done")
  PROVE  WireTyped' /\ HeardInv'
<1>1. WireTyped'
  BY DEF WireTyped
<1>2. \A f : Finished(f) => Finished(f)'
  BY DEF Finished
<1>3. \A s, f : Tells(s, f) => Tells(s, f)'
  BY DEF Tells, Speaks
<1>4. \A i \in DOMAIN appended' : appended'[i].of \in DOMAIN frames'
  BY DEF HeardInv
<1>5. /\ \A i \in DOMAIN appended' : appended'[i].n <= Cardinality(UpdatesOf(appended', appended'[i].of))
      /\ \A i \in DOMAIN wire' : wire'[i] \in Updates => Speaks(appended', wire'[i])
  BY DEF HeardInv
<1>6. \A i \in DOMAIN wire : wire[i] \in AnswersOf =>
         Finished(wire[i].to)' /\ \A j \in UpdatesOf(wire, wire[i].to) : j < i
  <2> TAKE i \in DOMAIN wire
  <2>1. HAVE wire[i] \in AnswersOf
  <2>2. Finished(wire[i].to) /\ \A j \in UpdatesOf(wire, wire[i].to) : j < i
    BY <2>1 DEF HeardInv
  <2>3. PICK f : f = wire[i].to
    OBVIOUS
  <2> QED  BY <1>2, <2>2, <2>3
<1>7. reply' # "none" => client' # 0 /\ Finished(client)' /\ UpdatesOf(wire', client') = {}
  BY <1>2 DEF HeardInv
<1>8. client' # 0 => Tells(queue \o wire, client)'
  BY <1>3 DEF HeardInv
<1>9. gathered'.of # 0 => Finished(gathered.of)' /\ Tells(gathered.updates, gathered.of)'
  <2>1. PICK f : f = gathered.of
    OBVIOUS
  <2> QED  BY <1>2, <1>3, <2>1 DEF HeardInv
<1>10. HeardInv'
  BY <1>4, <1>5, <1>6, <1>7, <1>8, <1>9 DEF HeardInv
<1> QED  BY <1>1, <1>10
All == Updates \cup AnswersOf

(* The places of s in t, which has no more of f's turn. *)
Within(s, t, f, m) ==
  /\ m \in [DOMAIN s -> DOMAIN t]
  /\ \A i, j \in DOMAIN s : i < j => m[i] < m[j]
  /\ \A i \in DOMAIN s : t[m[i]] = s[i]
  /\ \A j \in UpdatesOf(t, f) : \E i \in DOMAIN s : m[i] = j

LEMMA TellsSame ==
  ASSUME NEW s \in Seq(All), NEW t \in Seq(All), NEW f, NEW m, Within(s, t, f, m)
  PROVE  Tells(s, f) <=> Tells(t, f)
<1>1. \A i \in DOMAIN s : i \in UpdatesOf(s, f) <=> m[i] \in UpdatesOf(t, f)
  BY DEF Within, UpdatesOf
<1>2. \A j \in UpdatesOf(t, f) : \E i \in UpdatesOf(s, f) : m[i] = j
  BY <1>1 DEF Within, UpdatesOf
<1>3. \A i, j \in DOMAIN s : i \in Nat /\ j \in Nat /\ m[i] \in Nat /\ m[j] \in Nat
                             /\ (m[i] < m[j] => i < j)
  <2> TAKE i, j \in DOMAIN s
  <2>1. i \in Nat /\ j \in Nat /\ m[i] \in Nat /\ m[j] \in Nat
    BY DEF Within
  <2>2. (i < j => m[i] < m[j]) /\ (j < i => m[j] < m[i])
    BY DEF Within
  <2> QED  BY <2>1, <2>2
<1>4. \A u \in Updates : u.of = f => (Speaks(s, u) <=> Speaks(t, u))
  <2> TAKE u \in Updates
  <2>1. HAVE u.of = f
  <2>2. ASSUME Speaks(s, u) PROVE Speaks(t, u)
    BY <2>2 DEF Speaks, Within
  <2>3. ASSUME Speaks(t, u) PROVE Speaks(s, u)
    <3>1. PICK j \in DOMAIN t : t[j] = u
      BY <2>3 DEF Speaks
    <3>2. j \in UpdatesOf(t, f)
      BY <2>1, <3>1 DEF UpdatesOf, Updates
    <3> QED  BY <3>1, <3>2 DEF Within, Speaks
  <2> QED  BY <2>2, <2>3
<1>5. (\A i, j \in UpdatesOf(s, f) : i < j => s[i].n < s[j].n) <=>
      (\A i, j \in UpdatesOf(t, f) : i < j => t[i].n < t[j].n)
  <2>1. ASSUME \A i, j \in UpdatesOf(t, f) : i < j => t[i].n < t[j].n,
               NEW i \in UpdatesOf(s, f), NEW j \in UpdatesOf(s, f), i < j
        PROVE  s[i].n < s[j].n
    <3>1. i \in DOMAIN s /\ j \in DOMAIN s
      BY DEF UpdatesOf
    <3>2. m[i] \in UpdatesOf(t, f) /\ m[j] \in UpdatesOf(t, f) /\ m[i] < m[j]
          /\ t[m[i]] = s[i] /\ t[m[j]] = s[j]
      BY <1>1, <2>1, <3>1 DEF Within
    <3> QED  BY <2>1, <3>2
  <2>2. ASSUME \A i, j \in UpdatesOf(s, f) : i < j => s[i].n < s[j].n,
               NEW k \in UpdatesOf(t, f), NEW l \in UpdatesOf(t, f), k < l
        PROVE  t[k].n < t[l].n
    <3>1. PICK i \in UpdatesOf(s, f) : m[i] = k
      BY <1>2
    <3>2. PICK j \in UpdatesOf(s, f) : m[j] = l
      BY <1>2
    <3>3. i \in DOMAIN s /\ j \in DOMAIN s
      BY DEF UpdatesOf
    <3>4. i < j /\ t[k] = s[i] /\ t[l] = s[j]
      BY <1>3, <2>2, <3>1, <3>2, <3>3 DEF Within
    <3> QED  BY <2>2, <3>4
  <2> QED  BY <2>1, <2>2
<1> QED  BY <1>4, <1>5 DEF Tells

(* One more at the end, that is not of f's turn. *)
LEMMA TellsMore ==
  ASSUME NEW s \in Seq(All), NEW e \in All, NEW f, e \in Updates => e.of # f
  PROVE  Tells(s, f) <=> Tells(Append(s, e), f)
<1> DEFINE m == [i \in DOMAIN s |-> i]
<1>1. PICK t : t = Append(s, e)
  OBVIOUS
<1>2. /\ t \in Seq(All) /\ Len(t) = Len(s) + 1 /\ Len(s) \in Nat /\ t[Len(s) + 1] = e
      /\ DOMAIN t = 1 .. Len(s) + 1 /\ DOMAIN s = 1 .. Len(s)
      /\ \A i \in 1 .. Len(s) : t[i] = s[i]
  BY <1>1
<1>3. \A j \in UpdatesOf(t, f) : j \in 1 .. Len(s)
  <2>1. UpdatesOf(t, f) = {i \in 1 .. Len(t) : t[i] \in Updates /\ t[i].of = f}
    BY <1>2, UpdatesAre DEF All
  <2> QED  BY <1>2, <2>1
<1>4. Within(s, t, f, m)
  BY <1>2, <1>3 DEF Within
<1> QED  BY <1>1, <1>2, <1>4, TellsSame

(* Nothing of f's turn behind. *)
LEMMA TellsFirst ==
  ASSUME NEW q \in Seq(All), NEW w \in Seq(All), NEW f, UpdatesOf(w, f) = {}
  PROVE  Tells(q, f) <=> Tells(q \o w, f)
<1> DEFINE m == [i \in DOMAIN q |-> i]
<1>1. PICK t : t = q \o w
  OBVIOUS
<1>2. /\ t \in Seq(All) /\ Len(t) = Len(q) + Len(w) /\ Len(q) \in Nat /\ Len(w) \in Nat
      /\ DOMAIN t = 1 .. Len(t) /\ DOMAIN q = 1 .. Len(q) /\ DOMAIN w = 1 .. Len(w)
      /\ \A i \in 1 .. Len(q) : t[i] = q[i]
      /\ \A i \in Len(q) + 1 .. Len(q) + Len(w) : t[i] = w[i - Len(q)]
  BY <1>1
<1>3. \A j \in UpdatesOf(t, f) : j \in 1 .. Len(q)
  <2> SUFFICES ASSUME NEW j \in UpdatesOf(t, f), j \notin 1 .. Len(q) PROVE FALSE
    OBVIOUS
  <2>1. j \in Len(q) + 1 .. Len(q) + Len(w) /\ t[j].is = "update" /\ t[j].of = f
    BY <1>2 DEF UpdatesOf
  <2>2. j - Len(q) \in 1 .. Len(w) /\ w[j - Len(q)] = t[j]
    BY <1>2, <2>1
  <2> QED  BY <1>2, <2>1, <2>2 DEF UpdatesOf
<1>4. Within(q, t, f, m)
  BY <1>2, <1>3 DEF Within
<1> QED  BY <1>1, <1>2, <1>4, TellsSame

(* The first of w gone, that is no update. *)
LEMMA TellsWithout ==
  ASSUME NEW q \in Seq(All), NEW w \in Seq(All), w # <<>>, Head(w) \in AnswersOf, NEW f
  PROVE  Tells(q \o w, f) <=> Tells(q \o Tail(w), f)
<1>1. PICK t : t = q \o w
  OBVIOUS
<1>2. PICK r : r = Tail(w)
  OBVIOUS
<1>3. PICK s : s = q \o r
  OBVIOUS
<1>4. /\ Len(w) \in Nat \ {0} /\ r \in Seq(All) /\ Len(r) = Len(w) - 1 /\ Head(w) = w[1]
      /\ \A i \in 1 .. Len(w) - 1 : r[i] = w[i + 1]
  BY <1>2
<1>5. /\ t \in Seq(All) /\ Len(t) = Len(q) + Len(w) /\ Len(q) \in Nat
      /\ DOMAIN t = 1 .. Len(q) + Len(w)
      /\ \A i \in 1 .. Len(q) : t[i] = q[i]
      /\ \A i \in Len(q) + 1 .. Len(q) + Len(w) : t[i] = w[i - Len(q)]
  BY <1>1
<1>6. /\ s \in Seq(All) /\ Len(s) = Len(q) + Len(w) - 1 /\ DOMAIN s = 1 .. Len(q) + Len(w) - 1
      /\ \A i \in 1 .. Len(q) : s[i] = q[i]
      /\ \A i \in Len(q) + 1 .. Len(q) + Len(w) - 1 : s[i] = w[i - Len(q) + 1]
  <2>1. /\ s \in Seq(All) /\ Len(s) = Len(q) + Len(r) /\ DOMAIN s = 1 .. Len(q) + Len(r)
        /\ \A i \in 1 .. Len(q) : s[i] = q[i]
        /\ \A i \in Len(q) + 1 .. Len(q) + Len(r) : s[i] = r[i - Len(q)]
    <3>1. r \in Seq(All)
      BY <1>4
    <3> QED  BY <1>3, <3>1
  <2>2. Len(q) + Len(r) = Len(q) + Len(w) - 1
    BY <1>4, <1>5
  <2>3. ASSUME NEW i \in Len(q) + 1 .. Len(q) + Len(w) - 1
        PROVE  s[i] = w[i - Len(q) + 1]
    <3>1. i - Len(q) \in 1 .. Len(w) - 1 /\ i \in Len(q) + 1 .. Len(q) + Len(r)
      BY <1>4, <1>5, <2>2
    <3> QED  BY <1>4, <2>1, <3>1
  <2> QED  BY <2>1, <2>2, <2>3
<1> DEFINE m == [i \in DOMAIN s |-> IF i <= Len(q) THEN i ELSE i + 1]
<1>7. m \in [DOMAIN s -> DOMAIN t] /\ \A i, j \in DOMAIN s : i < j => m[i] < m[j]
  BY <1>4, <1>5, <1>6
<1>8. \A i \in DOMAIN s : t[m[i]] = s[i]
  <2> TAKE i \in DOMAIN s
  <2>1. CASE i <= Len(q)
    BY <1>5, <1>6, <2>1
  <2>2. CASE i > Len(q)
    <3>1. i \in Len(q) + 1 .. Len(q) + Len(w) - 1 /\ m[i] = i + 1
      BY <1>4, <1>5, <1>6, <2>2
    <3>2. i + 1 \in Len(q) + 1 .. Len(q) + Len(w) /\ i + 1 - Len(q) = i - Len(q) + 1
      BY <1>4, <1>5, <3>1
    <3>3. \A k \in Len(q) + 1 .. Len(q) + Len(w) : t[k] = w[k - Len(q)]
      BY <1>5
    <3>4. t[i + 1] = w[(i + 1) - Len(q)]
      BY <3>2, <3>3
    <3> QED  BY <1>6, <3>1, <3>2, <3>4
  <2> QED  BY <1>5, <1>6, <2>1, <2>2
<1>9. \A j \in UpdatesOf(t, f) : \E i \in DOMAIN s : m[i] = j
  <2> TAKE j \in UpdatesOf(t, f)
  <2>1. j \in 1 .. Len(q) + Len(w) /\ t[j].is = "update"
    BY <1>5 DEF UpdatesOf
  <2>2. t[Len(q) + 1] = w[1]
    <3>1. Len(q) + 1 \in Len(q) + 1 .. Len(q) + Len(w) /\ Len(q) + 1 - Len(q) = 1
      BY <1>4, <1>5
    <3>2. t[Len(q) + 1] = w[Len(q) + 1 - Len(q)]
      BY <1>5, <3>1
    <3> QED  BY <3>1, <3>2
  <2>3. j # Len(q) + 1
    BY <1>4, <2>1, <2>2 DEF AnswersOf
  <2>4. CASE j <= Len(q)
    <3>1. j \in DOMAIN s /\ m[j] = j
      BY <1>4, <1>5, <1>6, <2>1, <2>4
    <3> QED  BY <3>1
  <2>5. CASE j > Len(q) + 1
    <3>1. j - 1 \in DOMAIN s /\ ~(j - 1 <= Len(q)) /\ j - 1 + 1 = j
      BY <1>4, <1>5, <1>6, <2>1, <2>5
    <3> QED  BY <3>1
  <2> QED  BY <1>5, <2>1, <2>3, <2>4, <2>5
<1>10. Within(s, t, f, m)
  BY <1>7, <1>8, <1>9 DEF Within
<1> HIDE DEF m
<1> QED  BY <1>1, <1>2, <1>3, <1>5, <1>6, <1>10, TellsSame

(* Reading an update moves it and no more. *)
LEMMA ReadOne ==
  ASSUME NEW q \in Seq(All), NEW w \in Seq(All), w # <<>>
  PROVE  Append(q, Head(w)) \o Tail(w) = q \o w
<1>1. /\ Len(w) \in Nat \ {0} /\ Tail(w) \in Seq(All) /\ Len(Tail(w)) = Len(w) - 1 /\ Head(w) = w[1]
      /\ Head(w) \in All /\ \A i \in 1 .. Len(w) - 1 : Tail(w)[i] = w[i + 1]
  OBVIOUS
<1>2. PICK a : a = Append(q, Head(w))
  OBVIOUS
<1>3. PICK r : r = Tail(w)
  OBVIOUS
<1>4. /\ a \in Seq(All) /\ Len(a) = Len(q) + 1 /\ Len(q) \in Nat /\ a[Len(q) + 1] = w[1]
      /\ \A i \in 1 .. Len(q) : a[i] = q[i]
  BY <1>1, <1>2
<1>5. PICK b : b = q \o w
  OBVIOUS
<1>6. /\ b \in Seq(All) /\ Len(b) = Len(q) + Len(w)
      /\ \A i \in 1 .. Len(q) : b[i] = q[i]
      /\ \A i \in Len(q) + 1 .. Len(q) + Len(w) : b[i] = w[i - Len(q)]
  BY <1>5
<1>7. PICK d : d = a \o r
  OBVIOUS
<1>8. /\ d \in Seq(All) /\ Len(d) = Len(a) + Len(r)
      /\ \A i \in 1 .. Len(a) : d[i] = a[i]
      /\ \A i \in Len(a) + 1 .. Len(a) + Len(r) : d[i] = r[i - Len(a)]
  <2>1. a \in Seq(All) /\ r \in Seq(All)
    BY <1>1, <1>3, <1>4
  <2> QED  BY <1>7, <2>1
<1>9. Len(d) = Len(b)
  BY <1>1, <1>3, <1>4, <1>6, <1>8
<1>10. \A i \in 1 .. Len(b) : d[i] = b[i]
  <2> TAKE i \in 1 .. Len(b)
  <2>0. i \in Nat
    OBVIOUS
  <2>1. CASE i <= Len(q)
    BY <1>4, <1>6, <1>8, <2>1
  <2>2. CASE i = Len(q) + 1
    <3>1. d[i] = w[1] /\ b[i] = w[i - Len(q)] /\ i - Len(q) = 1
      BY <1>1, <1>4, <1>6, <1>8, <2>2
    <3> QED  BY <3>1
  <2>3. CASE i > Len(q) + 1
    <3>1. i \in Len(a) + 1 .. Len(a) + Len(r) /\ i - Len(a) \in 1 .. Len(w) - 1
          /\ i \in Len(q) + 1 .. Len(q) + Len(w) /\ i - Len(a) + 1 = i - Len(q)
      BY <1>1, <1>3, <1>4, <1>6, <2>3
    <3>2. d[i] = w[i - Len(a) + 1]
      BY <1>1, <1>3, <1>8, <3>1
    <3> QED  BY <1>6, <3>1, <3>2
  <2> QED  BY <1>4, <2>0, <2>1, <2>2, <2>3
<1>11. d = b
  BY <1>6, <1>8, <1>9, <1>10, SeqEqual
<1> QED  BY <1>2, <1>3, <1>5, <1>7, <1>11

(* A task moves on, and nothing is sent or taken. *)
LEMMA TaskMoves ==
  ASSUME BridgeInv, UNCHANGED <<appended, wire, clientSide>>,
         NEW f \in DOMAIN frames, frames[f].at # "done", NEW g \in Frame,
         frames' = [frames EXCEPT ![f] = g]
  PROVE  WireTyped' /\ HeardInv'
<1>1. /\ frames \in Seq(Frame) /\ frames' \in Seq(Frame) /\ Len(frames') = Len(frames)
      /\ DOMAIN frames' = DOMAIN frames /\ Len(frames) \in Nat
      /\ \A h \in DOMAIN frames \ {f} : frames'[h] = frames[h]
  BY DEF BridgeInv, SlotInv
<1>2. \A h \in DOMAIN frames : h \in DOMAIN frames' /\ (frames[h].at = "done" => frames'[h].at = "done")
  BY <1>1
<1> QED  BY <1>1, <1>2, WireKeeps DEF BridgeInv, clientSide

LEMMA Claims ==
  ASSUME BridgeInv, NEW f \in DOMAIN frames, Claim(f)
  PROVE  BridgeInv'
<1> DEFINE g == [frames[f] EXCEPT !.at = "claimed"]
<1>1. frames[f] \in Frame /\ frames' = [frames EXCEPT ![f] = g] /\ frames[f].at = "spawned"
  BY DEF BridgeInv, SlotInv, Claim, Moves, Stands
<1>2. g \in Frame /\ g.at = "claimed" /\ g.asked = frames[f].asked /\ g.kind = frames[f].kind
  BY <1>1 DEF Frame, FramePlaces
<1>3. ~frames[f].asked
  BY <1>1 DEF BridgeInv, SlotInv, Holding
<1>4. \A h \in DOMAIN frames : frames[h].at \notin Holding
  BY DEF BridgeInv, SlotInv, Claim
<1>5. /\ spawned' = spawned /\ turn' = turn /\ UNCHANGED <<appended, wire, clientSide>>
      /\ record' = [record EXCEPT !.inflight = TRUE, !.cancelled = FALSE]
  BY DEF Claim
<1>6. /\ record' \in [known : BOOLEAN, inflight : BOOLEAN, cancelled : BOOLEAN]
      /\ record'.inflight
  BY <1>5 DEF BridgeInv, SlotInv
<1>7. turn' # 0 => turn' \in DOMAIN frames /\ frames'[turn'].at = "running" /\ frames'[turn'].kind = "prompt"
  BY <1>1, <1>4, <1>5 DEF BridgeInv, SlotInv, Holding
<1> HIDE DEF g
<1>8. SlotInv'
  <2>1. SlotInv /\ frames[f].at # "sent" /\ ~record.inflight
    BY <1>1 DEF BridgeInv, Claim
  <2>2. g.at \notin {"released", "done"}
    BY <1>2
  <2> QED  BY <1>1, <1>2, <1>3, <1>4, <1>5, <1>6, <1>7, <2>1, <2>2, TaskKeeps
<1>9. WireTyped' /\ HeardInv'
  BY <1>1, <1>2, <1>5, TaskMoves
<1> QED  BY <1>8, <1>9 DEF BridgeInv

(* A task that stays in the slot, or outside it, and changes no mark. *)
LEMMA TaskGoes ==
  ASSUME BridgeInv, NEW f \in DOMAIN frames, NEW g \in Frame,
         frames' = [frames EXCEPT ![f] = g], frames[f].at \notin {"sent", "released", "done"},
         UNCHANGED <<spawned, record, appended, wire, clientSide>>,
         g.asked = frames[f].asked, g.at \notin {"released", "done"} \/ ~g.asked,
         frames[f].at \in Holding <=> g.at \in Holding,
         turn' # 0 => turn' \in DOMAIN frames /\ frames'[turn'].at = "running"
                      /\ frames'[turn'].kind = "prompt"
  PROVE  BridgeInv'
<1>1. WireTyped' /\ HeardInv'
  BY TaskMoves
<1>2. SlotInv'
  <2>1. /\ SlotInv
        /\ record' \in [known : BOOLEAN, inflight : BOOLEAN, cancelled : BOOLEAN]
        /\ \A h \in DOMAIN frames : frames[h].at \in Holding =>
             record'.inflight /\ (frames[h].asked => record'.cancelled)
    BY DEF BridgeInv, SlotInv
  <2>2. g.asked => g.at \in Holding
    BY <2>1 DEF SlotInv, Holding
  <2>3. g.at \in {"released", "done"} /\ g.asked => g.stop = "cancelled"
    OBVIOUS
  <2>4. g.at \in Holding => /\ frames[f].at \in Holding \/ ~record.inflight
                            /\ record'.inflight /\ (g.asked => record'.cancelled)
    BY <2>1
  <2>5. \A h \in DOMAIN frames \ {f} : frames[h].at \in Holding =>
           record'.inflight /\ (frames[h].asked => record'.cancelled)
    BY <2>1
  <2>6. frames[f].at # "sent" /\ spawned' = spawned /\ (g.asked => g.at \in Holding \cup {"released", "done"})
    BY <2>2
  <2> QED  BY <2>1, <2>3, <2>4, <2>5, <2>6, TaskKeeps
<1> QED  BY <1>1, <1>2 DEF BridgeInv

LEMMA Steps ==
  ASSUME BridgeInv, NEW f \in DOMAIN frames,
         OpenUpdates(f) \/ CloseUpdates(f) \/ Interrupt(f) \/ Prompt(f)
  PROVE  BridgeInv'
<1>1. frames[f] \in Frame /\ UNCHANGED <<spawned, record, appended, wire, clientSide>>
  BY DEF BridgeInv, SlotInv, OpenUpdates, CloseUpdates, Interrupt, Prompt, agentSide
<1>2. turn # 0 => turn \in DOMAIN frames /\ frames[turn].at = "running" /\ frames[turn].kind = "prompt"
  BY DEF BridgeInv, SlotInv
<1>3. CASE OpenUpdates(f)
  <2> DEFINE g == [frames[f] EXCEPT !.at = "subscribed"]
  <2>1. frames' = [frames EXCEPT ![f] = g] /\ frames[f].at = "claimed" /\ turn' = turn
    BY <1>3 DEF OpenUpdates, Moves, Stands, agentSide
  <2>2. g \in Frame /\ g.at = "subscribed" /\ g.asked = frames[f].asked
    BY <1>1 DEF Frame, FramePlaces
  <2>3. turn' # 0 => turn' \in DOMAIN frames /\ frames'[turn'].at = "running" /\ frames'[turn'].kind = "prompt"
    BY <1>2, <2>1
  <2> HIDE DEF g
  <2> QED  BY <1>1, <2>1, <2>2, <2>3, TaskGoes DEF Holding
<1>4. CASE CloseUpdates(f)
  <2> DEFINE g == [frames[f] EXCEPT !.at = "unsubscribed"]
  <2>1. frames' = [frames EXCEPT ![f] = g] /\ frames[f].at = "ran" /\ turn' = turn
    BY <1>4 DEF CloseUpdates, Moves, Stands, agentSide
  <2>2. g \in Frame /\ g.at = "unsubscribed" /\ g.asked = frames[f].asked
    BY <1>1 DEF Frame, FramePlaces
  <2>3. turn' # 0 => turn' \in DOMAIN frames /\ frames'[turn'].at = "running" /\ frames'[turn'].kind = "prompt"
    BY <1>2, <2>1
  <2> HIDE DEF g
  <2> QED  BY <1>1, <2>1, <2>2, <2>3, TaskGoes DEF Holding
<1>5. CASE Interrupt(f)
  <2> DEFINE g == [frames[f] EXCEPT !.at = "done"]
  <2>1. frames' = [frames EXCEPT ![f] = g] /\ frames[f].at = "marked" /\ turn' = turn
    BY <1>5 DEF Interrupt, Moves, Stands
  <2>2. g \in Frame /\ g.at = "done" /\ g.asked = frames[f].asked
    BY <1>1 DEF Frame, FramePlaces
  <2>3. turn' # 0 => turn' \in DOMAIN frames /\ frames'[turn'].at = "running" /\ frames'[turn'].kind = "prompt"
    BY <1>2, <2>1
  <2>4. ~frames[f].asked
    BY <2>1 DEF BridgeInv, SlotInv, Holding
  <2> HIDE DEF g
  <2> QED  BY <1>1, <2>1, <2>2, <2>3, <2>4, TaskGoes DEF Holding
<1>6. CASE Prompt(f) /\ turn = 0
  <2> DEFINE g == [frames[f] EXCEPT !.at = "running"]
  <2>1. frames' = [frames EXCEPT ![f] = g] /\ frames[f].at = "subscribed" /\ turn' = f
        /\ frames[f].kind = "prompt"
    BY <1>6 DEF Prompt, Moves, Stands
  <2>2. g \in Frame /\ g.at = "running" /\ g.asked = frames[f].asked /\ g.kind = frames[f].kind
    BY <1>1 DEF Frame, FramePlaces
  <2>3. turn' # 0 => turn' \in DOMAIN frames /\ frames'[turn'].at = "running" /\ frames'[turn'].kind = "prompt"
    BY <2>1, <2>2
  <2> HIDE DEF g
  <2> QED  BY <1>1, <2>1, <2>2, <2>3, TaskGoes DEF Holding
<1>7. CASE Prompt(f) /\ turn # 0
  <2>1. frames[f].at = "subscribed" /\ frames[turn].at = "running" /\ turn \in DOMAIN frames
    BY <1>2, <1>7 DEF Prompt, Stands
  <2>2. f = turn
    BY <2>1 DEF BridgeInv, SlotInv, Holding
  <2> QED  BY <2>1, <2>2
<1> QED  BY <1>3, <1>4, <1>5, <1>6, <1>7

LEMMA TurnIsOver ==
  ASSUME BridgeInv, TurnEnds
  PROVE  BridgeInv'
<1> DEFINE stop == IF stopping THEN "cancelled" ELSE "end_turn"
           g == [frames[turn] EXCEPT !.at = "ran", !.stop = stop]
<1>1. /\ turn # 0 /\ turn' = 0 /\ UNCHANGED <<spawned, record, appended, wire, clientSide>>
      /\ turn \in DOMAIN frames /\ frames[turn] \in Frame /\ frames[turn].at = "running"
  BY DEF BridgeInv, SlotInv, TurnEnds
<1>2. frames' = [frames EXCEPT ![turn] = g]
  <2>1. frames' = [frames EXCEPT ![turn].at = "ran", ![turn].stop = stop]
    BY DEF TurnEnds, SettlesAs
  <2>2. frames \in Seq(Frame)
    BY DEF BridgeInv, SlotInv
  <2> QED  BY <1>1, <2>1, <2>2
<1>3. g \in Frame /\ g.at = "ran" /\ g.asked = frames[turn].asked
  BY <1>1 DEF Frame, FramePlaces, Stops
<1> HIDE DEF g
<1> QED  BY <1>1, <1>2, <1>3, TaskGoes DEF Holding

LEMMA Releases ==
  ASSUME BridgeInv, NEW f \in DOMAIN frames, Release(f)
  PROVE  BridgeInv'
<1> DEFINE stop == IF record.cancelled THEN "cancelled" ELSE frames[f].stop
           g == [frames[f] EXCEPT !.at = "released", !.stop = stop]
<1>1. frames[f] \in Frame /\ frames[f].at = "unsubscribed" /\ frames \in Seq(Frame)
  BY DEF BridgeInv, SlotInv, Release, Stands
<1>2. frames' = [frames EXCEPT ![f] = g]
  <2>1. frames' = [frames EXCEPT ![f].at = "released", ![f].stop = stop]
    BY DEF Release, SettlesAs
  <2> QED  BY <1>1, <2>1
<1>3. g \in Frame /\ g.at = "released" /\ g.asked = frames[f].asked /\ g.stop = stop
  BY <1>1 DEF Frame, FramePlaces, Stops
<1>4. frames[f].asked => record.cancelled
  BY <1>1 DEF BridgeInv, SlotInv, Holding
<1>5. /\ spawned' = spawned /\ turn' = turn /\ UNCHANGED <<appended, wire, clientSide>>
      /\ record' = [record EXCEPT !.inflight = FALSE, !.cancelled = FALSE]
  BY DEF Release
<1>6. record' \in [known : BOOLEAN, inflight : BOOLEAN, cancelled : BOOLEAN]
  BY <1>5 DEF BridgeInv, SlotInv
<1>7. \A h \in DOMAIN frames \ {f} : frames[h].at \notin Holding
  BY <1>1 DEF BridgeInv, SlotInv, Holding
<1>8. turn' # 0 => turn' \in DOMAIN frames /\ frames'[turn'].at = "running" /\ frames'[turn'].kind = "prompt"
  BY <1>1, <1>2, <1>5, <1>7 DEF BridgeInv, SlotInv, Holding
<1>9. g.at \in {"released", "done"} /\ g.asked => g.stop = "cancelled"
  BY <1>3, <1>4
<1> HIDE DEF g, stop
<1>10. SlotInv'
  <2>1. SlotInv /\ frames[f].at # "sent" /\ g.at \notin Holding
    BY <1>1, <1>3 DEF BridgeInv, Holding
  <2> QED  BY <1>2, <1>3, <1>5, <1>6, <1>7, <1>8, <1>9, <2>1, TaskKeeps
<1>11. WireTyped' /\ HeardInv'
  BY <1>1, <1>2, <1>3, <1>5, TaskMoves
<1> QED  BY <1>10, <1>11 DEF BridgeInv

(* The carrier reads a frame. *)
LEMMA Spawns ==
  ASSUME BridgeInv, Spawn
  PROVE  BridgeInv'
<1> DEFINE f == spawned + 1
           g == [frames[f] EXCEPT !.at = "spawned"]
<1>1. /\ frames \in Seq(Frame) /\ spawned \in Nat /\ Len(frames) \in Nat /\ spawned < Len(frames)
      /\ DOMAIN frames = 1 .. Len(frames)
  BY DEF BridgeInv, SlotInv, Spawn
<1>2. f \in DOMAIN frames /\ f > spawned
  BY <1>1
<1>3. frames[f] \in Frame /\ frames[f].at = "sent"
  BY <1>1, <1>2 DEF BridgeInv, SlotInv
<1>4. g \in Frame /\ g.at = "spawned" /\ g.asked = frames[f].asked
  BY <1>3 DEF Frame, FramePlaces
<1>5. frames' = [frames EXCEPT ![f] = g] /\ spawned' = f
  BY DEF Spawn
<1>6. UNCHANGED <<record, turn, appended, wire, clientSide>>
  BY DEF Spawn
<1>7. ~g.asked
  BY <1>2, <1>3, <1>4 DEF BridgeInv, SlotInv, Holding
<1>8. \A h \in DOMAIN frames : h > f => h > spawned
  BY <1>1
<1>9. f \in 0 .. Len(frames)
  BY <1>1
<1> HIDE DEF f, g
<1>10. /\ frames' \in Seq(Frame) /\ Len(frames') = Len(frames) /\ DOMAIN frames' = DOMAIN frames
       /\ frames'[f] = g /\ \A h \in DOMAIN frames \ {f} : frames'[h] = frames[h]
  BY <1>1, <1>2, <1>4, <1>5
<1>11. \A h \in DOMAIN frames' : h > spawned' => frames'[h].at = "sent"
  <2> TAKE h \in DOMAIN frames'
  <2>1. HAVE h > spawned'
  <2>2. h # f
    BY <1>1, <1>2, <1>5, <1>10, <2>1
  <2> QED  BY <1>5, <1>8, <1>10, <2>1, <2>2 DEF BridgeInv, SlotInv
<1>12. \A h, k \in DOMAIN frames' : frames'[h].at \in Holding /\ frames'[k].at \in Holding => h = k
  BY <1>4, <1>10 DEF BridgeInv, SlotInv, Holding
<1>13. \A h \in DOMAIN frames' : frames'[h].at \in Holding =>
         record'.inflight /\ (frames'[h].asked => record'.cancelled)
  BY <1>4, <1>6, <1>10 DEF BridgeInv, SlotInv, Holding
<1>14. turn' # 0 => turn' \in DOMAIN frames' /\ frames'[turn'].at = "running" /\ frames'[turn'].kind = "prompt"
  BY <1>3, <1>6, <1>10 DEF BridgeInv, SlotInv
<1>15. \A h \in DOMAIN frames' : frames'[h].asked => frames'[h].at \in Holding \cup {"released", "done"}
  BY <1>7, <1>10 DEF BridgeInv, SlotInv
<1>16. CancelHeard'
  BY <1>7, <1>10 DEF BridgeInv, SlotInv, CancelHeard
<1>17. SlotInv'
  <2>1. record' \in [known : BOOLEAN, inflight : BOOLEAN, cancelled : BOOLEAN]
    BY <1>6 DEF BridgeInv, SlotInv
  <2>2. spawned' \in 0 .. Len(frames')
    BY <1>5, <1>9, <1>10
  <2> QED  BY <1>10, <1>11, <1>12, <1>13, <1>14, <1>15, <1>16, <2>1, <2>2 DEF SlotInv
<1>18. WireTyped' /\ HeardInv'
  BY <1>2, <1>3, <1>4, <1>5, <1>6, TaskMoves
<1> QED  BY <1>17, <1>18 DEF BridgeInv

(* The mark is set for whoever holds the slot. *)
LEMMA Marks ==
  ASSUME BridgeInv, NEW f \in DOMAIN frames, MarkCancelled(f)
  PROVE  BridgeInv'
<1>1. /\ frames \in Seq(Frame) /\ frames[f] \in Frame /\ frames[f].at = "spawned"
      /\ DOMAIN frames = 1 .. Len(frames) /\ Len(frames) \in Nat
      /\ \A h \in DOMAIN frames : frames[h] \in Frame
  BY DEF BridgeInv, SlotInv, MarkCancelled, Stands
<1>2. UNCHANGED <<spawned, turn, appended, wire, clientSide>>
  BY DEF MarkCancelled
<1>3. CASE ~record.known
  <2> DEFINE g == [frames[f] EXCEPT !.at = "done"]
  <2>1. frames' = [frames EXCEPT ![f] = g] /\ record' = record
    BY <1>3 DEF MarkCancelled, Moves
  <2>2. g \in Frame /\ g.at = "done" /\ g.asked = frames[f].asked
    BY <1>1 DEF Frame, FramePlaces
  <2>3. turn # 0 => turn \in DOMAIN frames /\ frames[turn].at = "running" /\ frames[turn].kind = "prompt"
    BY DEF BridgeInv, SlotInv
  <2>4. ~frames[f].asked
    BY <1>1 DEF BridgeInv, SlotInv, Holding
  <2>5. turn' # 0 => turn' \in DOMAIN frames /\ frames'[turn'].at = "running" /\ frames'[turn'].kind = "prompt"
    BY <1>1, <1>2, <2>1, <2>3
  <2> HIDE DEF g
  <2> QED  BY <1>1, <1>2, <2>1, <2>2, <2>4, <2>5, TaskGoes DEF Holding
<1>4. CASE record.known
  <2>1. /\ record' = [record EXCEPT !.cancelled = TRUE]
        /\ frames' = [g \in DOMAIN frames |->
             IF g = f THEN [frames[g] EXCEPT !.at = "marked"]
             ELSE IF frames[g].at \in Holding THEN [frames[g] EXCEPT !.asked = TRUE]
             ELSE frames[g]]
    BY <1>4 DEF MarkCancelled
  <2>2. DOMAIN frames' = DOMAIN frames /\ frames' = [g \in 1 .. Len(frames) |-> frames'[g]]
    BY <1>1, <2>1
  <2>3. frames'[f] = [frames[f] EXCEPT !.at = "marked"]
    BY <2>1
  <2>4. frames'[f] \in Frame /\ frames'[f].at = "marked" /\ frames'[f].asked = frames[f].asked
    BY <1>1, <2>3 DEF Frame, FramePlaces
  <2>5. \A h \in DOMAIN frames \ {f} :
          IF frames[h].at \in Holding THEN frames'[h] = [frames[h] EXCEPT !.asked = TRUE]
          ELSE frames'[h] = frames[h]
    BY <2>1
  <2>6. \A h \in DOMAIN frames \ {f} :
          /\ frames'[h] \in Frame /\ frames'[h].at = frames[h].at
          /\ frames'[h].kind = frames[h].kind /\ frames'[h].stop = frames[h].stop
          /\ frames[h].at \notin Holding => frames'[h].asked = frames[h].asked
    <3> TAKE h \in DOMAIN frames \ {f}
    <3>1. CASE frames[h].at \in Holding
      BY <1>1, <2>5, <3>1 DEF Frame
    <3>2. CASE frames[h].at \notin Holding
      BY <1>1, <2>5, <3>2
    <3> QED  BY <3>1, <3>2
  <2>7. \A h \in DOMAIN frames : frames'[h] \in Frame
    BY <2>4, <2>6
  <2>8. frames' \in Seq(Frame) /\ Len(frames') = Len(frames)
    BY <1>1, <2>2, <2>7
  <2>9. record' \in [known : BOOLEAN, inflight : BOOLEAN, cancelled : BOOLEAN]
        /\ record'.cancelled /\ record'.inflight = record.inflight
    BY <2>1 DEF BridgeInv, SlotInv
  <2>10. \A h \in DOMAIN frames' : h > spawned' => frames'[h].at = "sent"
    BY <1>1, <1>2, <2>2, <2>6 DEF BridgeInv, SlotInv
  <2>11. \A h, k \in DOMAIN frames' : frames'[h].at \in Holding /\ frames'[k].at \in Holding => h = k
    BY <2>2, <2>4, <2>6 DEF BridgeInv, SlotInv, Holding
  <2>12. \A h \in DOMAIN frames' : frames'[h].at \in Holding =>
           record'.inflight /\ (frames'[h].asked => record'.cancelled)
    BY <2>2, <2>4, <2>6, <2>9 DEF BridgeInv, SlotInv, Holding
  <2>13. turn' # 0 => turn' \in DOMAIN frames' /\ frames'[turn'].at = "running" /\ frames'[turn'].kind = "prompt"
    BY <1>1, <1>2, <2>2, <2>6 DEF BridgeInv, SlotInv
  <2>14. ~frames'[f].asked
    BY <1>1, <2>4 DEF BridgeInv, SlotInv, Holding
  <2>15. \A h \in DOMAIN frames' : frames'[h].asked => frames'[h].at \in Holding \cup {"released", "done"}
    BY <2>2, <2>6, <2>14 DEF BridgeInv, SlotInv
  <2>16. CancelHeard'
    BY <2>2, <2>6, <2>14 DEF BridgeInv, SlotInv, CancelHeard, Holding
  <2>17. SlotInv'
    <3>1. spawned' \in 0 .. Len(frames')
      BY <1>2, <2>8 DEF BridgeInv, SlotInv
    <3> QED  BY <2>8, <2>9, <2>10, <2>11, <2>12, <2>13, <2>15, <2>16, <3>1 DEF SlotInv
  <2>18. WireTyped' /\ HeardInv'
    <3>1. \A h \in DOMAIN frames : h \in DOMAIN frames' /\ (frames[h].at = "done" => frames'[h].at = "done")
      BY <1>1, <2>2, <2>6
    <3> QED  BY <1>1, <1>2, <2>8, <3>1, WireKeeps DEF BridgeInv, clientSide
  <2> QED  BY <2>17, <2>18 DEF BridgeInv
<1> QED  BY <1>3, <1>4

(* The connection ends. *)
LEMMA Closes ==
  ASSUME BridgeInv, Close
  PROVE  BridgeInv'
<1>1. UNCHANGED <<frames, spawned, turn, appended, wire, clientSide>>
      /\ record' = [record EXCEPT !.known = FALSE]
  BY DEF Close
<1>2. SlotInv'
  <2>1. record' \in [known : BOOLEAN, inflight : BOOLEAN, cancelled : BOOLEAN]
        /\ record'.inflight = record.inflight /\ record'.cancelled = record.cancelled
    BY <1>1 DEF BridgeInv, SlotInv
  <2> QED  BY <1>1, <2>1 DEF BridgeInv, SlotInv, CancelHeard
<1>3. WireTyped' /\ HeardInv'
  <2>1. Len(frames) \in Nat /\ frames' = frames
    BY <1>1 DEF BridgeInv, SlotInv
  <2> QED  BY <1>1, <2>1, WireKeeps DEF BridgeInv, clientSide
<1> QED  BY <1>2, <1>3 DEF BridgeInv

(* The client sends a frame. *)
LEMMA Sends ==
  ASSUME SlotInv, NEW g \in Frame, g.at = "sent", ~g.asked, frames' = Append(frames, g),
         UNCHANGED <<spawned, record, turn>>
  PROVE  /\ SlotInv'
         /\ Len(frames) \in Nat /\ Len(frames') = Len(frames) + 1
         /\ \A h \in DOMAIN frames : h \in DOMAIN frames' /\ (frames[h].at = "done" => frames'[h].at = "done")
<1>1. /\ frames' \in Seq(Frame) /\ Len(frames') = Len(frames) + 1 /\ Len(frames) \in Nat
      /\ DOMAIN frames' = 1 .. Len(frames) + 1 /\ DOMAIN frames = 1 .. Len(frames)
      /\ frames'[Len(frames) + 1] = g /\ \A h \in DOMAIN frames : frames'[h] = frames[h]
  BY DEF SlotInv
<1>2. \A h \in DOMAIN frames' : h \in DOMAIN frames \/ frames'[h] = g
  BY <1>1
<1>3. \A h \in DOMAIN frames' : h > spawned' => frames'[h].at = "sent"
  BY <1>1, <1>2 DEF SlotInv
<1>4. \A h \in DOMAIN frames' : frames'[h].at \in Holding => h \in DOMAIN frames
  BY <1>2 DEF Holding
<1>5. \A h, k \in DOMAIN frames' : frames'[h].at \in Holding /\ frames'[k].at \in Holding => h = k
  BY <1>1, <1>4 DEF SlotInv
<1>6. \A h \in DOMAIN frames' : frames'[h].at \in Holding =>
        record'.inflight /\ (frames'[h].asked => record'.cancelled)
  BY <1>1, <1>4 DEF SlotInv
<1>7. turn' # 0 => turn' \in DOMAIN frames' /\ frames'[turn'].at = "running" /\ frames'[turn'].kind = "prompt"
  BY <1>1 DEF SlotInv
<1>8. \A h \in DOMAIN frames' : frames'[h].asked => frames'[h].at \in Holding \cup {"released", "done"}
  BY <1>1, <1>2 DEF SlotInv
<1>9. CancelHeard'
  BY <1>1, <1>2 DEF SlotInv, CancelHeard
<1>10. spawned' \in 0 .. Len(frames') /\ record' \in [known : BOOLEAN, inflight : BOOLEAN, cancelled : BOOLEAN]
  BY <1>1 DEF SlotInv
<1>11. SlotInv'
  BY <1>1, <1>3, <1>5, <1>6, <1>7, <1>8, <1>9, <1>10 DEF SlotInv
<1> QED  BY <1>1, <1>11

LEMMA Cancels ==
  ASSUME BridgeInv, Cancel
  PROVE  BridgeInv'
<1>1. Sent("cancel") \in Frame /\ Sent("cancel").at = "sent" /\ ~Sent("cancel").asked
  BY DEF Sent, Frame, FramePlaces, Stops
<1>2. frames' = Append(frames, Sent("cancel"))
      /\ UNCHANGED <<spawned, record, turn, appended, wire, clientSide>>
  BY DEF Cancel, agentSide
<1>3. /\ SlotInv' /\ Len(frames) \in Nat /\ Len(frames') = Len(frames) + 1
      /\ \A h \in DOMAIN frames : h \in DOMAIN frames' /\ (frames[h].at = "done" => frames'[h].at = "done")
  BY <1>1, <1>2, Sends DEF BridgeInv
<1>4. WireTyped' /\ HeardInv'
  BY <1>2, <1>3, WireKeeps DEF BridgeInv, clientSide
<1> QED  BY <1>3, <1>4 DEF BridgeInv

LEMMA Calls ==
  ASSUME BridgeInv, CallAgent("prompt")
  PROVE  BridgeInv'
<1>1. Sent("prompt") \in Frame /\ Sent("prompt").at = "sent" /\ ~Sent("prompt").asked
  BY DEF Sent, Frame, FramePlaces, Stops
<1>2. /\ frames' = Append(frames, Sent("prompt")) /\ client' = Len(frames) + 1 /\ queue' = <<>>
      /\ client = 0 /\ UNCHANGED <<spawned, record, turn, appended, wire, reply, gathered>>
  BY DEF CallAgent, agentSide
<1>3. /\ SlotInv' /\ Len(frames) \in Nat /\ Len(frames') = Len(frames) + 1
      /\ \A h \in DOMAIN frames : h \in DOMAIN frames' /\ (frames[h].at = "done" => frames'[h].at = "done")
  BY <1>1, <1>2, Sends DEF BridgeInv
<1>4. WireTyped'
  BY <1>2, <1>3 DEF BridgeInv, WireTyped
<1>5. \A h : Finished(h) => Finished(h)'
  BY <1>3 DEF Finished
<1>6. \A s, h : Tells(s, h) => Tells(s, h)'
  BY <1>2 DEF Tells, Speaks
<1>7. \A i \in DOMAIN appended' : appended'[i].of \in DOMAIN frames'
  BY <1>2, <1>3 DEF BridgeInv, HeardInv
<1>8. /\ \A i \in DOMAIN appended' : appended'[i].n <= Cardinality(UpdatesOf(appended', appended'[i].of))
      /\ \A i \in DOMAIN wire' : wire'[i] \in Updates => Speaks(appended', wire'[i])
  BY <1>2 DEF BridgeInv, HeardInv
<1>9. \A i \in DOMAIN wire : wire[i] \in AnswersOf =>
         Finished(wire[i].to)' /\ \A j \in UpdatesOf(wire, wire[i].to) : j < i
  <2> TAKE i \in DOMAIN wire
  <2>1. HAVE wire[i] \in AnswersOf
  <2>2. Finished(wire[i].to) /\ \A j \in UpdatesOf(wire, wire[i].to) : j < i
    BY <1>2, <2>1 DEF BridgeInv, HeardInv
  <2>3. PICK h : h = wire[i].to
    OBVIOUS
  <2> QED  BY <1>2, <1>5, <2>2, <2>3
<1>10. reply' = "none"
  BY <1>2 DEF BridgeInv, HeardInv
<1>11. Tells(queue \o wire, client)'
  <2> DEFINE c == Len(frames) + 1
  <2>1. c \notin DOMAIN frames
    BY <1>3 DEF BridgeInv, SlotInv
  <2>2. PICK w : w = wire
    OBVIOUS
  <2>3. w \in Seq(All) /\ queue' \o wire' = w
    BY <1>2, <2>2 DEF BridgeInv, WireTyped, All
  <2>4. \A u \in Updates : u.of = c => ~Speaks(appended, u)
    BY <2>1 DEF Speaks, BridgeInv, HeardInv
  <2> HIDE DEF c
  <2>5. \A u \in Updates : u.of = c => ~Speaks(w, u)
    BY <2>2, <2>4 DEF Speaks, BridgeInv, HeardInv
  <2>6. UpdatesOf(w, c) = {}
    <3>1. UpdatesOf(w, c) = {i \in 1 .. Len(w) : w[i] \in Updates /\ w[i].of = c}
      BY <2>3, UpdatesAre DEF All
    <3> QED  BY <2>3, <2>5, <3>1 DEF Speaks
  <2>7. Tells(w, c)
    BY <2>4, <2>5, <2>6 DEF Tells
  <2>8. c = client'
    BY <1>2 DEF c
  <2> QED  BY <1>6, <2>3, <2>7, <2>8
<1>12. gathered'.of # 0 => Finished(gathered.of)' /\ Tells(gathered.updates, gathered.of)'
  <2>1. PICK h : h = gathered.of
    OBVIOUS
  <2> QED  BY <1>2, <1>5, <1>6, <2>1 DEF BridgeInv, HeardInv
<1>13. gathered' = gathered
  BY <1>2
<1>14. HeardInv'
  BY <1>2, <1>7, <1>8, <1>9, <1>10, <1>11, <1>12, <1>13 DEF HeardInv
<1> QED  BY <1>3, <1>4, <1>14 DEF BridgeInv

LEMMA AppendBehind ==
  ASSUME NEW q \in Seq(All), NEW w \in Seq(All), NEW e \in All
  PROVE  q \o Append(w, e) = Append(q \o w, e)
<1>1. PICK v : v = Append(w, e)
  OBVIOUS
<1>2. PICK t : t = q \o w
  OBVIOUS
<1>3. /\ v \in Seq(All) /\ Len(v) = Len(w) + 1 /\ v[Len(w) + 1] = e /\ Len(w) \in Nat /\ Len(q) \in Nat
      /\ \A i \in 1 .. Len(w) : v[i] = w[i]
  BY <1>1
<1>4. /\ t \in Seq(All) /\ Len(t) = Len(q) + Len(w)
      /\ \A i \in 1 .. Len(q) : t[i] = q[i]
      /\ \A i \in Len(q) + 1 .. Len(q) + Len(w) : t[i] = w[i - Len(q)]
  BY <1>2
<1>5. PICK a : a = q \o v
  OBVIOUS
<1>6. PICK b : b = Append(t, e)
  OBVIOUS
<1>7. /\ a \in Seq(All) /\ Len(a) = Len(q) + Len(w) + 1
      /\ \A i \in 1 .. Len(q) : a[i] = q[i]
      /\ \A i \in Len(q) + 1 .. Len(q) + Len(w) + 1 : a[i] = v[i - Len(q)]
  <2>1. /\ a \in Seq(All) /\ Len(a) = Len(q) + Len(v)
        /\ \A i \in 1 .. Len(q) : a[i] = q[i]
        /\ \A i \in Len(q) + 1 .. Len(q) + Len(v) : a[i] = v[i - Len(q)]
    <3>1. v \in Seq(All)
      BY <1>3
    <3> QED  BY <1>5, <3>1
  <2>2. Len(q) + Len(v) = Len(q) + Len(w) + 1
    BY <1>3
  <2> QED  BY <2>1, <2>2
<1>8. /\ b \in Seq(All) /\ Len(b) = Len(q) + Len(w) + 1 /\ b[Len(q) + Len(w) + 1] = e
      /\ \A i \in 1 .. Len(q) + Len(w) : b[i] = t[i]
  BY <1>4, <1>6
<1>9. \A i \in 1 .. Len(a) : a[i] = b[i]
  <2> TAKE i \in 1 .. Len(a)
  <2>0. i \in Nat /\ i <= Len(q) + Len(w) + 1
    BY <1>3, <1>7
  <2>1. CASE i <= Len(q)
    BY <1>3, <1>4, <1>7, <1>8, <2>1
  <2>2. CASE i > Len(q) /\ i <= Len(q) + Len(w)
    <3>1. /\ i \in Len(q) + 1 .. Len(q) + Len(w) + 1 /\ i \in Len(q) + 1 .. Len(q) + Len(w)
          /\ i - Len(q) \in 1 .. Len(w) /\ i \in 1 .. Len(q) + Len(w)
      BY <1>3, <1>7, <2>2
    <3> QED  BY <1>3, <1>4, <1>7, <1>8, <3>1
  <2>3. CASE i = Len(q) + Len(w) + 1
    <3>1. i \in Len(q) + 1 .. Len(q) + Len(w) + 1 /\ i - Len(q) = Len(w) + 1
      BY <1>3, <2>3
    <3>2. a[i] = v[i - Len(q)]
      BY <1>7, <3>1
    <3> QED  BY <1>3, <1>8, <2>3, <3>1, <3>2
  <2>4. i <= Len(q) \/ (i > Len(q) /\ i <= Len(q) + Len(w)) \/ i = Len(q) + Len(w) + 1
    BY <1>3, <2>0
  <2> QED  BY <2>1, <2>2, <2>3, <2>4
<1>10. a = b
  BY <1>7, <1>8, <1>9, SeqEqual
<1> QED  BY <1>1, <1>2, <1>5, <1>6, <1>10

(* The updates of a sequence that grew by one. *)
LEMMA UpdatesGrow ==
  ASSUME NEW w \in Seq(All), NEW e \in All, NEW f
  PROVE  /\ e \in Updates /\ e.of = f => UpdatesOf(Append(w, e), f) = UpdatesOf(w, f) \cup {Len(w) + 1}
         /\ e \in AnswersOf \/ e.of # f => UpdatesOf(Append(w, e), f) = UpdatesOf(w, f)
<1>1. PICK v : v = Append(w, e)
  OBVIOUS
<1>2. /\ v \in Seq(All) /\ Len(v) = Len(w) + 1 /\ v[Len(w) + 1] = e /\ Len(w) \in Nat
      /\ \A i \in 1 .. Len(w) : v[i] = w[i]
  BY <1>1
<1>3. UpdatesOf(v, f) = {i \in 1 .. Len(w) + 1 : v[i] \in Updates /\ v[i].of = f}
  BY <1>2, UpdatesAre DEF All
<1>4. UpdatesOf(w, f) = {i \in 1 .. Len(w) : w[i] \in Updates /\ w[i].of = f}
  BY UpdatesAre DEF All
<1>5. e \in AnswersOf => e \notin Updates
  BY DEF AnswersOf, Updates
<1>6. UpdatesOf(v, f) = {i \in 1 .. Len(w) : v[i] \in Updates /\ v[i].of = f}
                        \cup {i \in {Len(w) + 1} : e \in Updates /\ e.of = f}
  BY <1>2, <1>3
<1>7. {i \in 1 .. Len(w) : v[i] \in Updates /\ v[i].of = f} = UpdatesOf(w, f)
  BY <1>2, <1>4
<1> QED  BY <1>1, <1>5, <1>6, <1>7

(* The client reads a frame. *)
LEMMA Routes ==
  ASSUME BridgeInv, Route
  PROVE  BridgeInv'
<1>1. /\ wire # <<>> /\ wire' = Tail(wire) /\ UNCHANGED <<frames, agentSide, client, gathered>>
      /\ wire \in Seq(All) /\ queue \in Seq(All) /\ queue \in Seq(Updates)
  BY UpdatesSeq DEF Route, BridgeInv, WireTyped, All
<1>2. SlotInv'
  BY <1>1 DEF BridgeInv, SlotInv, CancelHeard, agentSide
<1>3. /\ Len(wire) \in Nat \ {0} /\ Tail(wire) \in Seq(All) /\ Len(Tail(wire)) = Len(wire) - 1
      /\ Head(wire) = wire[1] /\ Head(wire) \in All
      /\ \A i \in 1 .. Len(wire) - 1 : i + 1 \in 1 .. Len(wire) /\ Tail(wire)[i] = wire[i + 1]
  BY <1>1
<1>4. \A h : /\ \A j \in UpdatesOf(Tail(wire), h) : j + 1 \in UpdatesOf(wire, h)
             /\ UpdatesOf(wire, h) = {} => UpdatesOf(Tail(wire), h) = {}
  BY <1>1, <1>3 DEF UpdatesOf
<1>5. appended' = appended
  BY <1>1 DEF agentSide
<1>6. \A h : Finished(h) => Finished(h)'
  BY <1>1 DEF Finished
<1>7. \A s, h : Tells(s, h) => Tells(s, h)'
  BY <1>5 DEF Tells, Speaks
<1>8. \A i \in DOMAIN appended :
       /\ appended[i].of \in DOMAIN frames
       /\ appended[i].n <= Cardinality(UpdatesOf(appended, appended[i].of))
  BY DEF BridgeInv, HeardInv
<1>9. \A i \in DOMAIN wire' : wire'[i] \in Updates => Speaks(appended', wire'[i])
  BY <1>1, <1>3, <1>5 DEF BridgeInv, HeardInv
<1>10. \A i \in DOMAIN wire' : wire'[i] \in AnswersOf =>
         Finished(wire'[i].to) /\ \A j \in UpdatesOf(wire', wire'[i].to) : j < i
  <2> TAKE i \in DOMAIN wire'
  <2>1. HAVE wire'[i] \in AnswersOf
  <2>2. i \in 1 .. Len(wire) - 1 /\ i + 1 \in DOMAIN wire /\ wire'[i] = wire[i + 1]
    BY <1>1, <1>3
  <2>3. Finished(wire[i + 1].to) /\ \A j \in UpdatesOf(wire, wire[i + 1].to) : j < i + 1
    BY <2>1, <2>2 DEF BridgeInv, HeardInv
  <2>4. PICK h : h = wire[i + 1].to
    OBVIOUS
  <2>5. \A j \in UpdatesOf(wire', h) : j < i
    <3> TAKE j \in UpdatesOf(wire', h)
    <3>1. j + 1 \in UpdatesOf(wire, h) /\ j \in 1 .. Len(wire) - 1
      BY <1>1, <1>3, <1>4 DEF UpdatesOf
    <3>2. j + 1 < i + 1
      BY <2>3, <2>4, <3>1
    <3> QED  BY <1>3, <2>2, <3>1, <3>2
  <2> QED  BY <2>2, <2>3, <2>4, <2>5
<1>11. \A i \in DOMAIN wire' : wire'[i] \in AnswersOf => wire'[i].to \in DOMAIN frames /\ frames[wire'[i].to].at = "done"
  BY <1>10 DEF Finished
<1>12. gathered'.of # 0 => Finished(gathered.of)' /\ Tells(gathered.updates, gathered.of)'
  <2>1. PICK h : h = gathered.of
    OBVIOUS
  <2> QED  BY <1>1, <1>6, <1>7, <2>1 DEF BridgeInv, HeardInv
<1>13. CASE Head(wire) \in Updates
  <2>1. queue' = Append(queue, Head(wire)) /\ reply' = reply
    BY <1>13 DEF Route, Updates
  <2>2. WireTyped'
    <3>1. queue' \in Seq(Updates)
      BY <1>1, <1>13, <2>1
    <3> QED  BY <1>1, <1>3, <1>5, <2>1, <3>1 DEF BridgeInv, WireTyped, All
  <2>3. reply' # "none" => client' # 0 /\ Finished(client)' /\ UpdatesOf(wire', client') = {}
    BY <1>1, <1>4, <1>6, <2>1 DEF BridgeInv, HeardInv
  <2>4. client' # 0 => Tells(queue \o wire, client)'
    <3>1. PICK t : t = queue \o wire
      OBVIOUS
    <3>2. PICK c : c = client
      OBVIOUS
    <3>3. (queue \o wire)' = t /\ client' = c
      BY <1>1, <2>1, <3>1, <3>2, ReadOne
    <3>4. c # 0 => Tells(t, c)
      BY <3>1, <3>2 DEF BridgeInv, HeardInv
    <3> QED  BY <1>7, <3>3, <3>4
  <2>5. HeardInv'
    BY <1>1, <1>5, <1>6, <1>8, <1>9, <1>10, <1>12, <2>3, <2>4 DEF HeardInv, Finished
  <2> QED  BY <1>2, <2>2, <2>5 DEF BridgeInv
<1>14. CASE Head(wire) \in AnswersOf
  <2>1. queue' = queue /\ reply' = IF Head(wire).to = client THEN Head(wire).stop ELSE reply
    BY <1>14 DEF Route, AnswersOf
  <2>2. Head(wire).stop \in Stops
    BY <1>14 DEF AnswersOf
  <2>3. WireTyped'
    BY <1>1, <1>3, <1>5, <2>1, <2>2 DEF BridgeInv, WireTyped, All
  <2>4. reply' # "none" => client' # 0 /\ Finished(client)' /\ UpdatesOf(wire', client') = {}
    <3>1. CASE Head(wire).to = client
      <4>1. PICK c : c = client
        OBVIOUS
      <4>2. 1 \in DOMAIN wire /\ wire[1] \in AnswersOf /\ wire[1].to = c
        BY <1>3, <1>14, <3>1, <4>1
      <4>3. Finished(c) /\ \A j \in UpdatesOf(wire, c) : j < 1
        BY <4>2 DEF BridgeInv, HeardInv
      <4>4. UpdatesOf(wire, c) = {}
        BY <1>1, <4>3 DEF UpdatesOf
      <4>5. c # 0
        BY <4>3 DEF Finished, BridgeInv, SlotInv
      <4> QED  BY <1>1, <1>4, <1>6, <4>1, <4>3, <4>4, <4>5
    <3>2. CASE Head(wire).to # client
      BY <1>1, <1>4, <1>6, <2>1, <3>2 DEF BridgeInv, HeardInv
    <3> QED  BY <3>1, <3>2
  <2>5. client' # 0 => Tells(queue \o wire, client)'
    <3>1. PICK t : t = queue \o Tail(wire)
      OBVIOUS
    <3>2. PICK c : c = client
      OBVIOUS
    <3>3. (queue \o wire)' = t /\ client' = c
      BY <1>1, <2>1, <3>1, <3>2
    <3>4. c # 0 => Tells(queue \o wire, c)
      BY <3>2 DEF BridgeInv, HeardInv
    <3>5. c # 0 => Tells(t, c)
      BY <1>1, <1>14, <3>1, <3>4, TellsWithout
    <3> QED  BY <1>7, <3>3, <3>5
  <2>6. HeardInv'
    BY <1>1, <1>5, <1>6, <1>8, <1>9, <1>10, <1>12, <2>4, <2>5 DEF HeardInv, Finished
  <2> QED  BY <1>2, <2>3, <2>6 DEF BridgeInv
<1> QED  BY <1>3, <1>13, <1>14 DEF All

(* The caller takes what it was told. *)
LEMMA Gathers ==
  ASSUME BridgeInv, Gather
  PROVE  BridgeInv'
<1>1. /\ reply # "none" /\ gathered' = [of |-> client, stop |-> reply, updates |-> queue]
      /\ client' = 0 /\ reply' = "none" /\ queue' = <<>> /\ UNCHANGED <<frames, agentSide, wire>>
      /\ wire \in Seq(All) /\ queue \in Seq(All) /\ queue \in Seq(Updates)
  BY UpdatesSeq DEF Gather, BridgeInv, WireTyped, All
<1>2. SlotInv'
  BY <1>1 DEF BridgeInv, SlotInv, CancelHeard, agentSide
<1>3. client # 0 /\ Finished(client) /\ UpdatesOf(wire, client) = {} /\ Tells(queue \o wire, client)
  BY <1>1 DEF BridgeInv, HeardInv
<1>4. Tells(queue, client)
  BY <1>1, <1>3, TellsFirst
<1>5. WireTyped'
  BY <1>1 DEF BridgeInv, WireTyped, agentSide, Stops
<1>6. appended' = appended /\ frames' = frames
  BY <1>1 DEF agentSide
<1>7. gathered'.of # 0 => Finished(gathered.of)' /\ Tells(gathered.updates, gathered.of)'
  <2>1. PICK c : c = client
    OBVIOUS
  <2>2. PICK q : q = queue
    OBVIOUS
  <2>3. gathered'.of = c /\ gathered'.updates = q
    BY <1>1, <2>1, <2>2
  <2>4. Finished(c)' /\ Tells(q, c)'
    BY <1>3, <1>4, <1>6, <2>1, <2>2 DEF Finished, Tells, Speaks
  <2> QED  BY <2>3, <2>4
<1>8. HeardInv'
  BY <1>1, <1>6, <1>7 DEF BridgeInv, HeardInv, Finished
<1> QED  BY <1>2, <1>5, <1>8 DEF BridgeInv

LEMMA Expires ==
  ASSUME BridgeInv, Expire
  PROVE  BridgeInv'
<1>1. client' = 0 /\ reply = "none" /\ UNCHANGED <<frames, agentSide, wire, reply, queue, gathered>>
  BY DEF Expire
<1>2. SlotInv'
  BY <1>1 DEF BridgeInv, SlotInv, CancelHeard, agentSide
<1>3. WireTyped'
  BY <1>1 DEF BridgeInv, WireTyped, agentSide, SlotInv
<1>4. HeardInv'
  BY <1>1 DEF BridgeInv, HeardInv, Finished, Tells, Speaks, agentSide
<1> QED  BY <1>2, <1>3, <1>4 DEF BridgeInv

(* A frame is answered: the answer is behind all of its turn. *)
LEMMA AnswerSent ==
  ASSUME BridgeInv, NEW f \in DOMAIN frames, NEW g \in Frame, frames[f].at \notin {"sent", "done"},
         frames' = [frames EXCEPT ![f] = g], g.at = "done", g.asked = frames[f].asked,
         g.stop \in Stops, g.asked => g.stop = "cancelled", f # turn,
         UNCHANGED <<agentSide, clientSide>>, NEW stop \in Stops,
         wire' = Append(wire, AnswerTo(f, stop))
  PROVE  BridgeInv'
<1> DEFINE e == AnswerTo(f, stop)
<1>1. /\ frames \in Seq(Frame) /\ Len(frames) \in Nat /\ DOMAIN frames = 1 .. Len(frames)
      /\ frames' \in Seq(Frame) /\ Len(frames') = Len(frames) /\ DOMAIN frames' = DOMAIN frames
      /\ frames'[f] = g /\ \A h \in DOMAIN frames \ {f} : frames'[h] = frames[h]
  BY DEF BridgeInv, SlotInv
<1>2. /\ e \in AnswersOf /\ e \in All /\ e.to = f /\ e \notin Updates
  BY <1>1 DEF AnswerTo, AnswersOf, All, Updates
<1>3. /\ wire \in Seq(All) /\ queue \in Seq(All) /\ wire' = Append(wire, e)
      /\ UNCHANGED <<spawned, record, turn, appended, client, reply, queue, gathered>>
  BY UpdatesSeq DEF BridgeInv, WireTyped, All, agentSide, clientSide
<1> HIDE DEF e
<1>4. SlotInv'
  <2>1. /\ SlotInv /\ record' \in [known : BOOLEAN, inflight : BOOLEAN, cancelled : BOOLEAN]
        /\ \A h \in DOMAIN frames : frames[h].at \in Holding =>
             record'.inflight /\ (frames[h].asked => record'.cancelled)
    BY <1>3 DEF BridgeInv, SlotInv
  <2>2. turn' # 0 => turn' \in DOMAIN frames /\ frames'[turn'].at = "running" /\ frames'[turn'].kind = "prompt"
    BY <1>1, <1>3, <2>1 DEF SlotInv
  <2>3. g.at \notin Holding /\ frames[f].at # "sent" /\ spawned' = spawned
    BY <1>3 DEF Holding
  <2> QED  BY <2>1, <2>2, <2>3, TaskKeeps
<1>5. /\ wire' \in Seq(All) /\ Len(wire') = Len(wire) + 1 /\ Len(wire) \in Nat
      /\ wire'[Len(wire) + 1] = e /\ \A i \in 1 .. Len(wire) : wire'[i] = wire[i]
      /\ DOMAIN wire = 1 .. Len(wire) /\ DOMAIN wire' = 1 .. Len(wire) + 1
  BY <1>2, <1>3
<1>6. WireTyped'
  BY <1>1, <1>3, <1>5 DEF BridgeInv, WireTyped, All
<1>7. \A h : UpdatesOf(wire', h) = UpdatesOf(wire, h)
  BY <1>2, <1>3, UpdatesGrow
<1>8. \A h : Finished(h) => Finished(h)'
  BY <1>1 DEF Finished
<1>9. \A s, h : Tells(s, h) => Tells(s, h)'
  BY <1>3 DEF Tells, Speaks
<1>10. \A i \in DOMAIN appended' :
       /\ appended'[i].of \in DOMAIN frames'
       /\ appended'[i].n <= Cardinality(UpdatesOf(appended', appended'[i].of))
  BY <1>1, <1>3 DEF BridgeInv, HeardInv
<1>11. \A i \in DOMAIN wire' : wire'[i] \in Updates => Speaks(appended', wire'[i])
  <2> TAKE i \in DOMAIN wire'
  <2>1. HAVE wire'[i] \in Updates
  <2>2. i \in DOMAIN wire /\ wire'[i] = wire[i]
    BY <1>2, <1>5, <2>1
  <2> QED  BY <1>3, <2>1, <2>2 DEF BridgeInv, HeardInv
<1>12. \A i \in DOMAIN wire' : wire'[i] \in AnswersOf =>
         /\ wire'[i].to \in DOMAIN frames' /\ frames'[wire'[i].to].at = "done"
         /\ \A j \in UpdatesOf(wire', wire'[i].to) : j < i
  <2> TAKE i \in DOMAIN wire'
  <2>1. HAVE wire'[i] \in AnswersOf
  <2>2. CASE i \in DOMAIN wire
    <3>1. PICK h : h = wire[i].to
      OBVIOUS
    <3>2. wire'[i] = wire[i]
      BY <1>5, <2>2
    <3>3. Finished(h) /\ \A j \in UpdatesOf(wire, h) : j < i
      BY <2>1, <2>2, <3>1, <3>2 DEF BridgeInv, HeardInv
    <3>4. h \in DOMAIN frames' /\ frames'[h].at = "done"
      BY <1>8, <3>3 DEF Finished
    <3> QED  BY <1>7, <3>1, <3>2, <3>3, <3>4
  <2>3. CASE i \notin DOMAIN wire
    <3>1. i = Len(wire) + 1
      BY <1>5, <2>3
    <3>2. wire'[i].to = f
      BY <1>2, <1>5, <3>1
    <3>3. \A j \in UpdatesOf(wire, f) : j < i
      BY <1>5, <3>1 DEF UpdatesOf
    <3> QED  BY <1>1, <1>7, <3>2, <3>3
  <2> QED  BY <2>2, <2>3
<1>13. reply' # "none" => client' # 0 /\ Finished(client)' /\ UpdatesOf(wire', client') = {}
  <2>1. PICK c : c = client
    OBVIOUS
  <2> QED  BY <1>3, <1>7, <1>8, <2>1 DEF BridgeInv, HeardInv
<1>14. client' # 0 => Tells(queue \o wire, client)'
  <2>1. PICK t : t = Append(queue \o wire, e)
    OBVIOUS
  <2>2. PICK c : c = client
    OBVIOUS
  <2>3. (queue \o wire)' = t /\ client' = c
    BY <1>2, <1>3, <2>1, <2>2, AppendBehind
  <2>4. c # 0 => Tells(queue \o wire, c)
    BY <2>2 DEF BridgeInv, HeardInv
  <2>5. queue \o wire \in Seq(All)
    BY <1>3
  <2>6. c # 0 => Tells(t, c)
    BY <1>2, <2>1, <2>4, <2>5, TellsMore
  <2> QED  BY <1>9, <2>3, <2>6
<1>15. gathered'.of # 0 => Finished(gathered.of)' /\ Tells(gathered.updates, gathered.of)'
  <2>1. PICK h : h = gathered.of
    OBVIOUS
  <2> QED  BY <1>3, <1>8, <1>9, <2>1 DEF BridgeInv, HeardInv
<1>16. HeardInv'
  BY <1>3, <1>10, <1>11, <1>12, <1>13, <1>14, <1>15 DEF HeardInv, Finished
<1> QED  BY <1>4, <1>6, <1>16 DEF BridgeInv

LEMMA Refuses ==
  ASSUME BridgeInv, NEW f \in DOMAIN frames, RefusePrompt(f)
  PROVE  BridgeInv'
<1> DEFINE g == [frames[f] EXCEPT !.at = "done", !.stop = "refused"]
<1>1. /\ frames[f] \in Frame /\ frames[f].at = "spawned" /\ frames \in Seq(Frame)
      /\ wire' = Append(wire, AnswerTo(f, "refused")) /\ UNCHANGED <<agentSide, clientSide>>
  BY DEF BridgeInv, SlotInv, RefusePrompt, Stands, Answers
<1>2. frames' = [frames EXCEPT ![f] = g]
  <2>1. frames' = [frames EXCEPT ![f].at = "done", ![f].stop = "refused"]
    BY DEF RefusePrompt, SettlesAs
  <2> QED  BY <1>1, <2>1
<1>3. g \in Frame /\ g.at = "done" /\ g.asked = frames[f].asked /\ g.stop = "refused" /\ "refused" \in Stops
  BY <1>1 DEF Frame, FramePlaces, Stops
<1>4. ~frames[f].asked
  BY <1>1 DEF BridgeInv, SlotInv, Holding
<1>5. f # turn
  <2>1. turn # 0 => frames[turn].at = "running"
    BY DEF BridgeInv, SlotInv
  <2>2. f # 0
    BY DEF BridgeInv, SlotInv
  <2> QED  BY <1>1, <2>1, <2>2
<1> HIDE DEF g
<1> QED  BY <1>1, <1>2, <1>3, <1>4, <1>5, AnswerSent

LEMMA Replies ==
  ASSUME BridgeInv, NEW f \in DOMAIN frames, Answer(f)
  PROVE  BridgeInv'
<1> DEFINE g == [frames[f] EXCEPT !.at = "done"]
<1>1. /\ frames[f] \in Frame /\ frames[f].at = "released"
      /\ wire' = Append(wire, AnswerTo(f, frames[f].stop)) /\ UNCHANGED <<agentSide, clientSide>>
      /\ frames' = [frames EXCEPT ![f] = g]
  BY DEF BridgeInv, SlotInv, Answer, Answers, Moves
<1>2. g \in Frame /\ g.at = "done" /\ g.asked = frames[f].asked /\ g.stop = frames[f].stop
      /\ frames[f].stop \in Stops
  BY <1>1 DEF Frame, FramePlaces
<1>3. g.asked => g.stop = "cancelled"
  BY <1>1, <1>2 DEF BridgeInv, SlotInv, CancelHeard
<1>4. f # turn
  <2>1. turn # 0 => frames[turn].at = "running"
    BY DEF BridgeInv, SlotInv
  <2>2. f # 0
    BY DEF BridgeInv, SlotInv
  <2> QED  BY <1>1, <2>1, <2>2
<1> HIDE DEF g
<1> QED  BY <1>1, <1>2, <1>3, <1>4, AnswerSent

(* A turn's update goes to the one prompt that hears it. *)
LEMMA Pushes ==
  ASSUME BridgeInv, EnginePushes
  PROVE  BridgeInv'
<1> DEFINE u == Update(turn, Cardinality(UpdatesOf(appended, turn)) + 1)
           subscribers == {f \in DOMAIN frames : frames[f].kind = "prompt" /\ frames[f].at \in Hearing}
<1>1. /\ turn # 0 /\ appended' = Append(appended, u)
      /\ wire' = wire \o [s \in 1 .. Cardinality(subscribers) |-> u]
      /\ UNCHANGED <<frames, spawned, record, turn, stopping, clientSide, ended>>
  BY DEF EnginePushes
<1>2. /\ turn \in DOMAIN frames /\ frames[turn].at = "running" /\ frames[turn].kind = "prompt"
      /\ frames \in Seq(Frame)
  BY <1>1 DEF BridgeInv, SlotInv
<1>3. /\ appended \in Seq(Updates) /\ appended \in Seq(All) /\ wire \in Seq(All)
      /\ queue \in Seq(Updates) /\ queue \in Seq(All) /\ Len(appended) \in Nat
  BY UpdatesSeq DEF BridgeInv, WireTyped, All
<1>4. Cardinality(UpdatesOf(appended, turn)) \in Nat /\ IsFiniteSet(UpdatesOf(appended, turn))
  <2>1. UpdatesOf(appended, turn) \subseteq 1 .. Len(appended)
    BY <1>3 DEF UpdatesOf
  <2>2. IsFiniteSet(1 .. Len(appended))
    BY <1>3, FS_Interval
  <2> QED  BY <2>1, <2>2, FS_Subset, FS_CardinalityType
<1>5. u \in Updates /\ u \in All /\ u.of = turn /\ u.n = Cardinality(UpdatesOf(appended, turn)) + 1
      /\ u \notin AnswersOf
  BY <1>2, <1>4 DEF Update, Updates, All, AnswersOf
<1>6. subscribers = {turn}
  BY <1>2 DEF BridgeInv, SlotInv, Hearing, Holding
<1>7. wire' = Append(wire, u)
  <2>1. Cardinality(subscribers) = 1
    BY <1>6, FS_Singleton
  <2>2. [s \in 1 .. 1 |-> u] = <<u>>
    OBVIOUS
  <2>3. wire' = wire \o <<u>>
    BY <1>1, <2>1, <2>2
  <2> QED  BY <1>3, <1>5, <2>3
<1> HIDE DEF u, subscribers
<1>8. SlotInv'
  BY <1>1 DEF BridgeInv, SlotInv, CancelHeard
<1>9. /\ wire' \in Seq(All) /\ Len(wire') = Len(wire) + 1 /\ Len(wire) \in Nat
      /\ wire'[Len(wire) + 1] = u /\ \A i \in 1 .. Len(wire) : wire'[i] = wire[i]
      /\ DOMAIN wire = 1 .. Len(wire) /\ DOMAIN wire' = 1 .. Len(wire) + 1
  BY <1>3, <1>5, <1>7
<1>10. /\ appended' \in Seq(Updates) /\ Len(appended') = Len(appended) + 1
       /\ appended'[Len(appended) + 1] = u /\ \A i \in 1 .. Len(appended) : appended'[i] = appended[i]
       /\ DOMAIN appended = 1 .. Len(appended) /\ DOMAIN appended' = 1 .. Len(appended) + 1
  BY <1>1, <1>3, <1>5
<1>11. WireTyped'
  BY <1>1, <1>9, <1>10 DEF BridgeInv, WireTyped, All, clientSide
<1>12. \A x : Speaks(appended', x) <=> Speaks(appended, x) \/ x = u
  <2> TAKE x
  <2>1. ASSUME Speaks(appended, x) PROVE Speaks(appended', x)
    BY <1>10, <2>1 DEF Speaks
  <2>2. ASSUME x = u PROVE Speaks(appended', x)
    <3>1. Len(appended) + 1 \in DOMAIN appended'
      BY <1>3, <1>10
    <3> QED  BY <1>10, <2>2, <3>1 DEF Speaks
  <2>3. ASSUME Speaks(appended', x), x # u PROVE Speaks(appended, x)
    BY <1>10, <2>3 DEF Speaks
  <2> QED  BY <2>1, <2>2, <2>3
<1>13. \A h : Finished(h) => Finished(h)' /\ h # turn
  BY <1>1, <1>2 DEF Finished
<1>14. \A s, h : h # turn /\ Tells(s, h) => Tells(s, h)'
  BY <1>5, <1>12 DEF Tells
<1>15. Cardinality(UpdatesOf(appended', turn)) = Cardinality(UpdatesOf(appended, turn)) + 1
  <2>1. UpdatesOf(appended', turn) = UpdatesOf(appended, turn) \cup {Len(appended) + 1}
    BY <1>1, <1>3, <1>5, UpdatesGrow
  <2>2. Len(appended) + 1 \notin UpdatesOf(appended, turn)
    BY <1>3 DEF UpdatesOf
  <2> QED  BY <1>4, <2>1, <2>2, FS_AddElement
<1>16. \A h : h # turn => UpdatesOf(appended', h) = UpdatesOf(appended, h)
  BY <1>1, <1>3, <1>5, UpdatesGrow
<1>17. \A h : h # turn => UpdatesOf(wire', h) = UpdatesOf(wire, h)
  BY <1>3, <1>5, <1>7, UpdatesGrow
<1>18. \A i \in DOMAIN appended :
         /\ appended[i].of \in DOMAIN frames /\ appended[i].n \in Nat
         /\ appended[i].n <= Cardinality(UpdatesOf(appended, appended[i].of))
  <2> TAKE i \in DOMAIN appended
  <2>1. appended[i] \in Updates
    BY <1>3
  <2>2. appended[i].n \in Nat
    BY <2>1 DEF Updates
  <2> QED  BY <2>2 DEF BridgeInv, HeardInv
<1>19. \A i \in DOMAIN appended' :
         /\ appended'[i].of \in DOMAIN frames'
         /\ appended'[i].n <= Cardinality(UpdatesOf(appended', appended'[i].of))
  <2> TAKE i \in DOMAIN appended'
  <2>1. CASE i = Len(appended) + 1
    <3>1. appended'[i].of = turn /\ appended'[i].n = Cardinality(UpdatesOf(appended, turn)) + 1
      BY <1>5, <1>10, <2>1
    <3> QED  BY <1>1, <1>2, <1>4, <1>15, <3>1
  <2>2. CASE i # Len(appended) + 1
    <3>1. i \in DOMAIN appended /\ appended'[i] = appended[i]
      BY <1>3, <1>10, <2>2
    <3>2. PICK h : h = appended[i].of
      OBVIOUS
    <3>3. appended[i].n \in Nat /\ appended[i].n <= Cardinality(UpdatesOf(appended, h)) /\ h \in DOMAIN frames
      BY <1>18, <3>1, <3>2
    <3>4. CASE h = turn
      BY <1>1, <1>4, <1>15, <3>1, <3>2, <3>3, <3>4
    <3>5. CASE h # turn
      BY <1>1, <1>16, <3>1, <3>2, <3>3, <3>5
    <3> QED  BY <3>4, <3>5
  <2> QED  BY <2>1, <2>2
<1>20. \A i \in DOMAIN wire' : wire'[i] \in Updates => Speaks(appended', wire'[i])
  <2> TAKE i \in DOMAIN wire'
  <2>1. HAVE wire'[i] \in Updates
  <2>2. CASE i \in DOMAIN wire
    BY <1>9, <1>12, <2>1, <2>2 DEF BridgeInv, HeardInv
  <2>3. CASE i \notin DOMAIN wire
    BY <1>9, <1>12, <2>3
  <2> QED  BY <2>2, <2>3
<1>21. \A i \in DOMAIN wire' : wire'[i] \in AnswersOf =>
         /\ wire'[i].to \in DOMAIN frames' /\ frames'[wire'[i].to].at = "done"
         /\ \A j \in UpdatesOf(wire', wire'[i].to) : j < i
  <2> TAKE i \in DOMAIN wire'
  <2>1. HAVE wire'[i] \in AnswersOf
  <2>2. i \in DOMAIN wire /\ wire'[i] = wire[i]
    BY <1>5, <1>9, <2>1
  <2>3. PICK h : h = wire[i].to
    OBVIOUS
  <2>4. Finished(h) /\ \A j \in UpdatesOf(wire, h) : j < i
    BY <2>1, <2>2, <2>3 DEF BridgeInv, HeardInv
  <2>5. h # turn /\ h \in DOMAIN frames' /\ frames'[h].at = "done"
    BY <1>13, <2>4 DEF Finished
  <2> QED  BY <1>17, <2>2, <2>3, <2>4, <2>5
<1>22. UNCHANGED <<frames, client, reply, queue, gathered>>
  BY <1>1 DEF clientSide
<1>23. reply' # "none" => client' # 0 /\ Finished(client)' /\ UpdatesOf(wire', client') = {}
  <2>1. PICK c : c = client
    OBVIOUS
  <2> QED  BY <1>13, <1>17, <1>22, <2>1 DEF BridgeInv, HeardInv
<1>24. gathered'.of # 0 => Finished(gathered.of)' /\ Tells(gathered.updates, gathered.of)'
  <2>1. PICK h : h = gathered.of
    OBVIOUS
  <2> QED  BY <1>13, <1>14, <1>22, <2>1 DEF BridgeInv, HeardInv
<1>25. client' # 0 => Tells(queue \o wire, client)'
  <2>1. PICK s : s = queue \o wire
    OBVIOUS
  <2>2. PICK t : t = Append(s, u)
    OBVIOUS
  <2>3. PICK c : c = client
    OBVIOUS
  <2>4. (queue \o wire)' = t /\ client' = c
    BY <1>3, <1>5, <1>7, <1>22, <2>1, <2>2, <2>3, AppendBehind
  <2>5. c # 0 => Tells(s, c)
    BY <2>1, <2>3 DEF BridgeInv, HeardInv
  <2>6. /\ s \in Seq(All) /\ t \in Seq(All) /\ Len(s) \in Nat /\ DOMAIN s = 1 .. Len(s)
        /\ DOMAIN t = 1 .. Len(s) + 1 /\ t[Len(s) + 1] = u /\ \A i \in 1 .. Len(s) : t[i] = s[i]
    BY <1>3, <1>5, <2>1, <2>2
  <2>7. CASE c # 0 /\ c # turn
    <3>1. Tells(t, c)
      BY <1>5, <2>2, <2>5, <2>6, <2>7, TellsMore
    <3> QED  BY <1>14, <2>4, <2>7, <3>1
  <2>8. CASE c # 0 /\ c = turn
    <3>1. UpdatesOf(t, c) = UpdatesOf(s, c) \cup {Len(s) + 1}
      BY <1>5, <2>2, <2>6, <2>8, UpdatesGrow
    <3>2. UpdatesOf(s, c) = {i \in 1 .. Len(s) : s[i] \in Updates /\ s[i].of = c}
      BY <2>6, UpdatesAre DEF All
    <3>3. \A i \in UpdatesOf(s, c) : s[i].n \in Nat /\ s[i].n < u.n
      <4> TAKE i \in UpdatesOf(s, c)
      <4>1. i \in 1 .. Len(s) /\ s[i] \in Updates /\ s[i].of = c
        BY <3>2
      <4>2. Speaks(s, s[i])
        BY <2>6, <4>1 DEF Speaks
      <4>3. Speaks(appended, s[i])
        BY <2>5, <2>8, <4>1, <4>2 DEF Tells
      <4>4. s[i].n \in Nat /\ s[i].n <= Cardinality(UpdatesOf(appended, turn))
        BY <1>18, <2>8, <4>1, <4>3 DEF Speaks
      <4> QED  BY <1>4, <1>5, <4>4
    <3>4. \A i, j \in UpdatesOf(t, c) : i < j => t[i].n < t[j].n
      <4> TAKE i, j \in UpdatesOf(t, c)
      <4>1. HAVE i < j
      <4>2. i \in UpdatesOf(s, c) /\ i \in 1 .. Len(s)
        BY <2>6, <3>1, <3>2, <4>1
      <4>3. CASE j \in UpdatesOf(s, c)
        BY <2>5, <2>6, <2>8, <3>2, <4>1, <4>2, <4>3 DEF Tells
      <4>4. CASE j = Len(s) + 1
        BY <2>6, <3>3, <4>2, <4>4
      <4> QED  BY <3>1, <4>3, <4>4
    <3>5. \A x : Speaks(t, x) <=> Speaks(s, x) \/ x = u
      <4> TAKE x
      <4>1. ASSUME Speaks(s, x) PROVE Speaks(t, x)
        BY <2>6, <4>1 DEF Speaks
      <4>2. ASSUME x = u PROVE Speaks(t, x)
        <5>1. Len(s) + 1 \in DOMAIN t
          BY <2>6
        <5> QED  BY <2>6, <4>2, <5>1 DEF Speaks
      <4>3. ASSUME Speaks(t, x), x # u PROVE Speaks(s, x)
        BY <2>6, <4>3 DEF Speaks
      <4> QED  BY <4>1, <4>2, <4>3
    <3>6. \A x \in Updates : x.of = c => (Speaks(t, x) <=> Speaks(appended', x))
      BY <1>12, <2>5, <2>8, <3>5 DEF Tells
    <3>7. Tells(t, c)'
      BY <3>4, <3>6 DEF Tells
    <3> QED  BY <2>4, <3>7
  <2> QED  BY <2>4, <2>7, <2>8
<1>26. HeardInv'
  BY <1>19, <1>20, <1>21, <1>22, <1>23, <1>24, <1>25 DEF HeardInv, Finished
<1> QED  BY <1>8, <1>11, <1>26 DEF BridgeInv

LEMMA BridgeStarts ==
  BridgeInit => BridgeInv
<1> SUFFICES ASSUME BridgeInit PROVE BridgeInv
  OBVIOUS
<1>1. SlotInv
  BY DEF BridgeInit, SlotInv, CancelHeard
<1>2. WireTyped
  BY DEF BridgeInit, WireTyped, NothingTaken, Stops
<1>3. HeardInv
  BY DEF BridgeInit, HeardInv, NothingTaken
<1> QED  BY <1>1, <1>2, <1>3 DEF BridgeInv

LEMMA BridgeSteps ==
  ASSUME ~Reloads, BridgeInv, [BridgeNext]_bridgeVars
  PROVE  BridgeInv'
<1>1. CASE UNCHANGED bridgeVars
  <2>1. UNCHANGED <<frames, spawned, record, turn, appended, wire, client, reply, queue, gathered>>
    BY <1>1 DEF bridgeVars, agentSide, clientSide
  <2>2. SlotInv'
    BY <2>1 DEF BridgeInv, SlotInv, CancelHeard
  <2>3. WireTyped'
    BY <2>1 DEF BridgeInv, WireTyped
  <2>4. HeardInv'
    BY <2>1 DEF BridgeInv, HeardInv, Finished, Tells, Speaks
  <2> QED  BY <2>2, <2>3, <2>4 DEF BridgeInv
<1>2. CASE CallAgent("load")
  BY <1>2 DEF CallAgent
<1>3. ASSUME NEW f \in DOMAIN frames, Serve(f) PROVE BridgeInv'
  <2>1. frames[f].kind # "load"
    <3>1. frames[f] \in Frame
      BY DEF BridgeInv, SlotInv
    <3> QED  BY <3>1 DEF Frame
  <2>2. ~LoadHistory(f) /\ ~LoadDone(f)
    BY <2>1 DEF LoadHistory, LoadDone, Stands
  <2> QED  BY <1>3, <2>2, Claims, Refuses, Steps, Releases, Replies, Marks DEF Serve
<1> QED  BY <1>1, <1>2, <1>3, Calls, Cancels, Routes, Gathers, Expires, Spawns, Pushes, TurnIsOver,
            Closes DEF BridgeNext

LEMMA BridgeHears ==
  BridgeInv => PromptHeardOut
<1> SUFFICES ASSUME BridgeInv PROVE PromptHeardOut
  OBVIOUS
<1>1. CancelHeard
  BY DEF BridgeInv, SlotInv
<1>2. HoldsItsTurn
  <2> SUFFICES ASSUME gathered.of # 0
      PROVE  LET heard == gathered.updates own == UpdatesOf(heard, gathered.of)
             IN  /\ \A i, j \in own : i < j => heard[i].n < heard[j].n
                 /\ {heard[i] : i \in own} = {appended[i] : i \in UpdatesOf(appended, gathered.of)}
    BY DEF HoldsItsTurn
  <2>1. PICK f : f = gathered.of
    OBVIOUS
  <2>2. PICK s : s = gathered.updates
    OBVIOUS
  <2>3. /\ s \in Seq(Updates) /\ s \in Seq(All) /\ appended \in Seq(Updates) /\ appended \in Seq(All)
        /\ Tells(s, f)
    BY <2>1, <2>2, UpdatesSeq DEF BridgeInv, WireTyped, HeardInv, All
  <2>4. /\ UpdatesOf(s, f) = {i \in 1 .. Len(s) : s[i] \in Updates /\ s[i].of = f}
        /\ UpdatesOf(appended, f) = {i \in 1 .. Len(appended) : appended[i] \in Updates /\ appended[i].of = f}
    BY <2>3, UpdatesAre DEF All
  <2>5. \A x : x \in {s[i] : i \in UpdatesOf(s, f)} <=> x \in Updates /\ x.of = f /\ Speaks(s, x)
    BY <2>3, <2>4 DEF Speaks
  <2>6. \A x : x \in {appended[i] : i \in UpdatesOf(appended, f)} <=>
               x \in Updates /\ x.of = f /\ Speaks(appended, x)
    BY <2>3, <2>4 DEF Speaks
  <2>7. {s[i] : i \in UpdatesOf(s, f)} = {appended[i] : i \in UpdatesOf(appended, f)}
    BY <2>3, <2>5, <2>6 DEF Tells
  <2>8. \A i, j \in UpdatesOf(s, f) : i < j => s[i].n < s[j].n
    BY <2>3 DEF Tells
  <2> QED  BY <2>1, <2>2, <2>7, <2>8
<1> QED  BY <1>1, <1>2 DEF PromptHeardOut

(* What a prompt's caller gathers holds every update of its turn, once and *)
(* in order, and a prompt that was cancelled while it held the slot is     *)
(* answered so, as long as nobody loads the session again (bridge.rs claim *)
(* and release, engine.rs's push on append, client.rs read_frames).        *)
THEOREM HearsItsTurn == ~Reloads => (BridgeSpec => []PromptHeardOut)
<1> SUFFICES ASSUME ~Reloads PROVE BridgeSpec => []PromptHeardOut
  OBVIOUS
<1>1. BridgeInit => BridgeInv
  BY BridgeStarts
<1>2. BridgeInv /\ [BridgeNext]_bridgeVars => BridgeInv'
  BY BridgeSteps
<1>3. BridgeInv => PromptHeardOut
  BY BridgeHears
<1> QED  BY <1>1, <1>2, <1>3, PTL DEF BridgeSpec

-----------------------------------------------------------------------------
(***************************************************************************)
(* For any sizes, heights, matches, block and resumed journals: a view     *)
(* keeps the row at the foot of a window that was scrolled back, knows the *)
(* matches of its rows, and shows the match that is named.                 *)
(***************************************************************************)
(* What is carried along a sequence stays where every onward leaves it.      *)
StaysIn(g, len, V, b, onward) ==
  /\ DOMAIN g = 0 .. len /\ g[0] = b
  /\ \A k \in 1 .. len : g[k - 1] \in V => g[k] = onward[k][g[k - 1]]

LEMMA CarriedWithin ==
  ASSUME NEW len \in Nat, NEW V, NEW b \in V, NEW onward \in [1 .. len -> [V -> V]],
         NEW g, StaysIn(g, len, V, b, onward)
  PROVE  \A k \in 0 .. len : g[k] \in V
<1> DEFINE Bad == {k \in 0 .. len : g[k] \notin V}
<1> SUFFICES ASSUME Bad # {} PROVE FALSE
  OBVIOUS
<1>1. Bad \in SUBSET Nat
  OBVIOUS
<1>2. PICK k \in Bad : \A j \in Bad : k <= j
  <2> HIDE DEF Bad
  <2> QED  BY <1>1, Least
<1>3. k # 0
  BY <1>2 DEF StaysIn
<1>4. k \in 1 .. len /\ k - 1 \in 0 .. len /\ ~(k <= k - 1)
  BY <1>2, <1>3
<1>5. g[k - 1] \in V
  BY <1>2, <1>4
<1>6. onward[k] \in [V -> V]
  BY <1>4
<1> QED  BY <1>2, <1>4, <1>5, <1>6 DEF StaysIn

(* What every thing said leaves in a set, a conversation composed leaves there. *)
LEMMA ComposedWithin ==
  ASSUME NEW V, NEW p \in V, NEW K, NEW s \in Seq(K),
         \A q \in V, k \in K : Compose(q, k) \in V
  PROVE  Composed(p, s) \in V
<1> DEFINE len == Len(s)
           onward == [k \in 1 .. len |-> [q \in V |-> Compose(q, s[k])]]
           Upon(g) == [k \in 0 .. len |-> IF k = 0 THEN p ELSE Compose(g[k - 1], s[k])]
           upTo == CHOOSE g : g = Upon(g)
<1>1. len \in Nat /\ p \in V /\ \A k \in 1 .. len : s[k] \in K
  OBVIOUS
<1>2. onward \in [1 .. len -> [V -> V]]
      /\ \A k \in 1 .. len : \A q \in V : onward[k][q] = Compose(q, s[k])
  BY <1>1
<1> HIDE DEF onward, len
<1>3. PICK f \in [0 .. len -> V] : Carries(f, len, p, onward)
  BY <1>1, <1>2, CarriedExists
<1>4. f = Upon(f)
  <2>1. \A k \in 0 .. len : f[k] = IF k = 0 THEN p ELSE Compose(f[k - 1], s[k])
    <3> SUFFICES ASSUME NEW k \in 0 .. len, k # 0 PROVE f[k] = Compose(f[k - 1], s[k])
      BY <1>3 DEF Carries
    <3>1. k \in 1 .. len /\ k - 1 \in 0 .. len
      BY <1>1
    <3> QED  BY <1>2, <1>3, <3>1 DEF Carries
  <2> QED  BY <1>3, <2>1
<1>5. upTo = Upon(upTo)
  <2> HIDE DEF Upon
  <2> QED  BY <1>4
<1>6. Composed(p, s) = upTo[len]
  BY DEF Composed, len
<1>7. /\ DOMAIN upTo = 0 .. len /\ upTo[0] = p
      /\ \A k \in 1 .. len : upTo[k] = Compose(upTo[k - 1], s[k])
  <2> HIDE DEF upTo
  <2>1. 0 \in 0 .. len /\ \A k \in 1 .. len : k \in 0 .. len /\ k # 0
    BY <1>1
  <2> QED  BY <1>5, <2>1
<1> HIDE DEF upTo
<1>8. \A k \in 1 .. len : upTo[k - 1] \in V => upTo[k] = onward[k][upTo[k - 1]]
  BY <1>2, <1>7
<1>9. \A k \in 0 .. len : upTo[k] \in V
  <2>1. len \in Nat /\ p \in V /\ onward \in [1 .. len -> [V -> V]]
    BY <1>1, <1>2
  <2>2. StaysIn(upTo, len, V, p, onward)
    BY <1>7, <1>8 DEF StaysIn
  <2> QED  BY <2>1, <2>2, CarriedWithin
<1>10. len \in 0 .. len
  BY <1>1
<1> QED  BY <1>6, <1>9, <1>10

(* The same of the things said one after the other. *)
LEMMA SaysWithin ==
  ASSUME NEW V, NEW p \in V, NEW K, NEW s \in Seq(K),
         \A q \in V, k \in K : say(q, k) \in V
  PROVE  Says(p, s) \in V
<1> DEFINE len == Len(s)
           onward == [k \in 1 .. len |-> [q \in V |-> say(q, s[k])]]
           Upon(g) == [k \in 0 .. len |-> IF k = 0 THEN p ELSE say(g[k - 1], s[k])]
           upTo == CHOOSE g : g = Upon(g)
<1>1. len \in Nat /\ p \in V /\ \A k \in 1 .. len : s[k] \in K
  OBVIOUS
<1>2. onward \in [1 .. len -> [V -> V]]
      /\ \A k \in 1 .. len : \A q \in V : onward[k][q] = say(q, s[k])
  BY <1>1
<1> HIDE DEF onward, len
<1>3. PICK f \in [0 .. len -> V] : Carries(f, len, p, onward)
  BY <1>1, <1>2, CarriedExists
<1>4. f = Upon(f)
  <2>1. \A k \in 0 .. len : f[k] = IF k = 0 THEN p ELSE say(f[k - 1], s[k])
    <3> SUFFICES ASSUME NEW k \in 0 .. len, k # 0 PROVE f[k] = say(f[k - 1], s[k])
      BY <1>3 DEF Carries
    <3>1. k \in 1 .. len /\ k - 1 \in 0 .. len
      BY <1>1
    <3> QED  BY <1>2, <1>3, <3>1 DEF Carries
  <2> QED  BY <1>3, <2>1
<1>5. upTo = Upon(upTo)
  <2> HIDE DEF Upon
  <2> QED  BY <1>4
<1>6. Says(p, s) = upTo[len]
  BY DEF Says, len
<1>7. /\ DOMAIN upTo = 0 .. len /\ upTo[0] = p
      /\ \A k \in 1 .. len : upTo[k] = say(upTo[k - 1], s[k])
  <2> HIDE DEF upTo
  <2>1. 0 \in 0 .. len /\ \A k \in 1 .. len : k \in 0 .. len /\ k # 0
    BY <1>1
  <2> QED  BY <1>5, <2>1
<1> HIDE DEF upTo
<1>8. \A k \in 1 .. len : upTo[k - 1] \in V => upTo[k] = onward[k][upTo[k - 1]]
  BY <1>2, <1>7
<1>9. \A k \in 0 .. len : upTo[k] \in V
  <2>1. len \in Nat /\ p \in V /\ onward \in [1 .. len -> [V -> V]]
    BY <1>1, <1>2
  <2>2. StaysIn(upTo, len, V, p, onward)
    BY <1>7, <1>8 DEF StaysIn
  <2> QED  BY <2>1, <2>2, CarriedWithin
<1>10. len \in 0 .. len
  BY <1>1
<1> QED  BY <1>6, <1>9, <1>10

(* The same of the keys of a beat. *)
LEMMA PressedWithin ==
  ASSUME NEW V, NEW p \in V, NEW K, NEW s \in Seq(K),
         \A q \in V, k \in K : moved(q, k) \in V
  PROVE  Pressed(p, s) \in V
<1> DEFINE len == Len(s)
           onward == [k \in 1 .. len |-> [q \in V |-> moved(q, s[k])]]
           Upon(g) == [k \in 0 .. len |-> IF k = 0 THEN p ELSE moved(g[k - 1], s[k])]
           upTo == CHOOSE g : g = Upon(g)
<1>1. len \in Nat /\ p \in V /\ \A k \in 1 .. len : s[k] \in K
  OBVIOUS
<1>2. onward \in [1 .. len -> [V -> V]]
      /\ \A k \in 1 .. len : \A q \in V : onward[k][q] = moved(q, s[k])
  BY <1>1
<1> HIDE DEF onward, len
<1>3. PICK f \in [0 .. len -> V] : Carries(f, len, p, onward)
  BY <1>1, <1>2, CarriedExists
<1>4. f = Upon(f)
  <2>1. \A k \in 0 .. len : f[k] = IF k = 0 THEN p ELSE moved(f[k - 1], s[k])
    <3> SUFFICES ASSUME NEW k \in 0 .. len, k # 0 PROVE f[k] = moved(f[k - 1], s[k])
      BY <1>3 DEF Carries
    <3>1. k \in 1 .. len /\ k - 1 \in 0 .. len
      BY <1>1
    <3> QED  BY <1>2, <1>3, <3>1 DEF Carries
  <2> QED  BY <1>3, <2>1
<1>5. upTo = Upon(upTo)
  <2> HIDE DEF Upon
  <2> QED  BY <1>4
<1>6. Pressed(p, s) = upTo[len]
  BY DEF Pressed, len
<1>7. /\ DOMAIN upTo = 0 .. len /\ upTo[0] = p
      /\ \A k \in 1 .. len : upTo[k] = moved(upTo[k - 1], s[k])
  <2> HIDE DEF upTo
  <2>1. 0 \in 0 .. len /\ \A k \in 1 .. len : k \in 0 .. len /\ k # 0
    BY <1>1
  <2> QED  BY <1>5, <2>1
<1> HIDE DEF upTo
<1>8. \A k \in 1 .. len : upTo[k - 1] \in V => upTo[k] = onward[k][upTo[k - 1]]
  BY <1>2, <1>7
<1>9. \A k \in 0 .. len : upTo[k] \in V
  <2>1. len \in Nat /\ p \in V /\ onward \in [1 .. len -> [V -> V]]
    BY <1>1, <1>2
  <2>2. StaysIn(upTo, len, V, p, onward)
    BY <1>7, <1>8 DEF StaysIn
  <2> QED  BY <2>1, <2>2, CarriedWithin
<1>10. len \in 0 .. len
  BY <1>1
<1> QED  BY <1>6, <1>9, <1>10

-----------------------------------------------------------------------------
(* The view.                                                               *)
Widths == {z.cols : z \in Sizes}
Rows == Kinds \X Nat

Pages == [said : Seq(Kinds), lines : Seq(Rows), back : Nat, answer : Nat, over : BOOLEAN,
          working : BOOLEAN, body : Nat, width : Widths, whole : BOOLEAN, wanted : BOOLEAN,
          hits : Seq(Nat), at : Nat, turns : Seq(Nat \ {0})]

Matched(p) == p.hits = IF p.wanted THEN Matching(p, 0) ELSE <<>>

(* No block stands on a page with no turn running.                         *)
Quiet(p) == ~p.working => p.over

(* What composing again, and saying one more thing, leave alone.           *)
Alike(p, q) ==
  /\ q.back = p.back /\ q.working = p.working /\ q.body = p.body
  /\ q.whole = p.whole /\ q.wanted = p.wanted /\ q.at = p.at

LEMMA RowsAre ==
  ASSUME NEW p \in Pages, NEW kind \in Kinds
  PROVE  /\ RowsOf(p, kind) \in Seq(Rows) /\ Height[kind, p.width, p.whole] \in Nat
         /\ Len(RowsOf(p, kind)) = Height[kind, p.width, p.whole]
<1>1. p.width \in Widths /\ p.whole \in BOOLEAN
  BY DEF Pages
<1>2. Height[kind, p.width, p.whole] \in Nat
  <2>1. PICK z \in Sizes : p.width = z.cols
    BY <1>1 DEF Widths
  <2>2. \A k \in Kinds, y \in Sizes, w \in BOOLEAN : Height[k, y.cols, w] \in Nat
    BY ConversationAssumption, Zenon
  <2>3. Height[kind, z.cols, p.whole] \in Nat
    BY <1>1, <2>2, Zenon
  <2> QED  BY <2>1, <2>3
<1> DEFINE h == Height[kind, p.width, p.whole]
<1> HIDE DEF h
<1>3. RowsOf(p, kind) = [r \in 1 .. h |-> <<kind, r>>] /\ h \in Nat
  BY <1>2 DEF RowsOf, h
<1>4. [r \in 1 .. h |-> <<kind, r>>] \in [1 .. h -> Rows]
  BY <1>3 DEF Rows
<1>5. RowsOf(p, kind) \in Seq(Rows) /\ Len(RowsOf(p, kind)) = h
  BY <1>3, <1>4
<1> QED  BY <1>2, <1>5 DEF h

(* What the composer hears changes the block alone.                        *)
LEMMA HearIs ==
  ASSUME NEW p \in Pages, NEW kind \in Kinds
  PROVE  /\ Hear(p, kind) \in Pages /\ Alike(p, Hear(p, kind))
         /\ Hear(p, kind).said = p.said /\ Hear(p, kind).lines = p.lines
         /\ Hear(p, kind).width = p.width /\ Hear(p, kind).hits = p.hits
         /\ Hear(p, kind).turns = p.turns /\ (p.over => Hear(p, kind).over)
<1>0. Block \in Nat /\ p.answer \in Nat
  BY ConversationAssumption DEF Pages
<1>1. CASE kind = "assistant/chunk"
  <2>1. Hear(p, kind) = [p EXCEPT !.answer = Lesser(p.answer + 1, Block)]
    BY <1>1 DEF Hear
  <2>2. Lesser(p.answer + 1, Block) \in Nat
    BY <1>0 DEF Lesser
  <2> DEFINE b == Lesser(p.answer + 1, Block)
  <2> HIDE DEF b
  <2>3. Hear(p, kind) = [p EXCEPT !.answer = b] /\ b \in Nat
    BY <2>1, <2>2 DEF b
  <2> QED  BY <2>3 DEF Pages, Alike
<1>2. CASE kind = "assistant/message"
  <2>1. Hear(p, kind) = [p EXCEPT !.answer = 0]
    BY <1>2 DEF Hear
  <2> QED  BY <2>1 DEF Pages, Alike
<1>3. CASE kind = "turn/end"
  <2>1. Hear(p, kind) = [p EXCEPT !.over = TRUE]
    BY <1>3 DEF Hear
  <2> QED  BY <2>1 DEF Pages, Alike
<1>4. CASE kind \notin {"assistant/chunk", "assistant/message", "turn/end"}
  <2>1. Hear(p, kind) = p
    BY <1>4 DEF Hear
  <2> QED  BY <2>1 DEF Alike
<1> QED  BY <1>1, <1>2, <1>3, <1>4

LEMMA ComposeIs ==
  ASSUME NEW p \in Pages, NEW kind \in Kinds
  PROVE  /\ Compose(p, kind) \in Pages /\ Alike(p, Compose(p, kind))
         /\ Compose(p, kind).said = p.said
         /\ Compose(p, kind).lines = p.lines \o RowsOf(p, kind)
         /\ Compose(p, kind).width = p.width /\ Compose(p, kind).hits = p.hits
         /\ Compose(p, kind).turns = p.turns /\ (p.over => Compose(p, kind).over)
<1> DEFINE h == Hear(p, kind)
<1>1. /\ h \in Pages /\ Alike(p, h) /\ h.said = p.said /\ h.lines = p.lines
      /\ h.width = p.width /\ h.hits = p.hits /\ h.turns = p.turns /\ (p.over => h.over)
  BY HearIs
<1>2. RowsOf(p, kind) \in Seq(Rows) /\ p.lines \in Seq(Rows)
  BY RowsAre DEF Pages
<1>3. p.lines \o RowsOf(p, kind) \in Seq(Rows)
  BY <1>2
<1>4. Compose(p, kind) = [h EXCEPT !.lines = p.lines \o RowsOf(p, kind)]
  BY <1>1 DEF Compose
<1> HIDE DEF h
<1> QED  BY <1>1, <1>3, <1>4 DEF Pages, Alike

(* The matches of a page are numbers of its rows, from the first on.       *)
MatchRows(p, from) == {i \in from + 1 .. Len(p.lines) : HoldsWord(p, i)}

LEMMA MatchingIs ==
  ASSUME NEW p \in Pages, NEW from \in Nat
  PROVE  /\ MatchRows(p, from) \in SUBSET (1 .. Len(p.lines))
         /\ Matching(p, from) = InOrder(MatchRows(p, from)) /\ Matching(p, from) \in Seq(Nat)
         /\ Increasing(Matching(p, from)) /\ Lists(Matching(p, from), MatchRows(p, from))
<1> DEFINE H == MatchRows(p, from)
           len == Len(p.lines)
           o == InOrder(H)
<1>1. len \in Nat
  BY DEF Pages
<1>2. H \in SUBSET (1 .. len)
  BY <1>1 DEF MatchRows
<1> HIDE DEF H, len
<1>3. /\ o \in Seq(H) /\ DOMAIN o = 1 .. Len(o) /\ \A i \in H : \E k \in DOMAIN o : o[k] = i
      /\ \A j, k \in DOMAIN o : j < k => o[j] < o[k]
  BY <1>1, <1>2, InOrderLists
<1> HIDE DEF o
<1>4. H \in SUBSET Nat
  BY <1>1, <1>2
<1>5. o \in Seq(Nat) /\ Increasing(o) /\ Lists(o, H)
  BY <1>3, <1>4, NumbersSeq DEF Increasing, Lists
<1>6. Matching(p, from) = o
  BY DEF Matching, MatchRows, o, H
<1> QED  BY <1>2, <1>5, <1>6 DEF o, H, len

(* More rows, more matches: those there were and those of the new rows.    *)
LEMMA MatchingGrows ==
  ASSUME NEW p \in Pages, NEW q \in Pages, NEW rows \in Seq(Rows),
         q.lines = p.lines \o rows, q.width = p.width, q.whole = p.whole
  PROVE  Matching(q, 0) = Matching(p, 0) \o Matching(q, Len(p.lines))
<1> DEFINE len == Len(p.lines)
           m == Len(q.lines)
           A == MatchRows(p, 0)
           B == MatchRows(q, len)
           a == Matching(p, 0)
           b == Matching(q, len)
<1>1. len \in Nat /\ m \in Nat /\ len <= m /\ \A i \in 1 .. len : q.lines[i] = p.lines[i]
  BY DEF Pages
<1>2. /\ A \in SUBSET (1 .. len) /\ a \in Seq(Nat) /\ Increasing(a) /\ Lists(a, A)
  BY MatchingIs
<1>3. /\ B \in SUBSET (1 .. m) /\ b \in Seq(Nat) /\ Increasing(b) /\ Lists(b, B)
  BY <1>1, MatchingIs
<1>4. Matching(q, 0) = InOrder(MatchRows(q, 0)) /\ MatchRows(q, 0) \in SUBSET (1 .. m)
  BY MatchingIs
<1>5. MatchRows(q, 0) = A \cup B
  <2>1. \A i \in 1 .. len : HoldsWord(q, i) <=> HoldsWord(p, i)
    BY <1>1 DEF HoldsWord
  <2>2. A = {i \in 1 .. len : HoldsWord(q, i)}
    BY <1>1, <2>1 DEF MatchRows
  <2>3. B = {i \in len + 1 .. m : HoldsWord(q, i)}
        /\ MatchRows(q, 0) = {i \in 1 .. m : HoldsWord(q, i)}
    BY <1>1 DEF MatchRows
  <2>4. 1 .. m = (1 .. len) \cup (len + 1 .. m)
    BY <1>1
  <2> HIDE DEF A, B, len, m
  <2> QED  BY <2>2, <2>3, <2>4
<1>6. \A i \in B : i > len
  BY <1>1 DEF MatchRows
<1> DEFINE c == a \o b
<1> HIDE DEF A, B, a, b, len, m
<1>7. /\ c \in Seq(Nat) /\ Len(a) \in Nat /\ Len(b) \in Nat /\ Len(c) = Len(a) + Len(b)
      /\ DOMAIN a = 1 .. Len(a) /\ DOMAIN b = 1 .. Len(b) /\ DOMAIN c = 1 .. Len(c)
      /\ \A i \in 1 .. Len(a) + Len(b) : c[i] = IF i <= Len(a) THEN a[i] ELSE b[i - Len(a)]
  BY <1>2, <1>3
<1>8. /\ \A k \in DOMAIN a : a[k] \in A /\ a[k] \in Nat /\ a[k] <= len
      /\ \A k \in DOMAIN b : b[k] \in B /\ b[k] \in Nat /\ b[k] > len
  BY <1>1, <1>2, <1>3, <1>6 DEF Lists
<1>9. Joined(c, a, b)
  BY DEF Joined
<1> HIDE DEF c
<1>10. Lists(c, A \cup B)
  <2>1. /\ \A i \in DOMAIN c : \/ \E k \in DOMAIN a : c[i] = a[k]
                               \/ \E k \in DOMAIN b : c[i] = b[k]
        /\ \A k \in DOMAIN a : \E i \in DOMAIN c : c[i] = a[k]
        /\ \A k \in DOMAIN b : \E i \in DOMAIN c : c[i] = b[k]
    <3>1. a \in Seq(Nat) /\ b \in Seq(Nat)
      BY <1>2, <1>3
    <3>2. \A i \in DOMAIN c : (\E k \in DOMAIN a : c[i] = a[k]) \/ (\E k \in DOMAIN b : c[i] = b[k])
      <4> SUFFICES ASSUME NEW i \in DOMAIN c
                   PROVE  (\E k \in DOMAIN a : c[i] = a[k]) \/ (\E k \in DOMAIN b : c[i] = b[k])
        OBVIOUS
      <4>1. i \in 1 .. Len(a) + Len(b)
        BY <1>7
      <4>2. i <= Len(a) => i \in DOMAIN a /\ c[i] = a[i]
        BY <1>7, <4>1
      <4>3. ~(i <= Len(a)) => i - Len(a) \in DOMAIN b /\ c[i] = b[i - Len(a)]
        BY <1>7, <4>1
      <4> QED  BY <4>2, <4>3
    <3>3. \A k \in DOMAIN a : \E i \in DOMAIN c : c[i] = a[k]
      BY <1>9, <3>1, JoinedIs
    <3>4. \A k \in DOMAIN b : \E i \in DOMAIN c : c[i] = b[k]
      BY <1>9, <3>1, JoinedIs
    <3> QED  BY <3>2, <3>3, <3>4
  <2>2. ASSUME NEW i \in DOMAIN c PROVE c[i] \in A \cup B
    BY <1>8, <2>1
  <2>3. ASSUME NEW x \in A \cup B PROVE \E i \in DOMAIN c : c[i] = x
    <3>1. CASE x \in A
      <4>1. PICK k \in DOMAIN a : a[k] = x
        BY <1>2, <3>1 DEF Lists
      <4> QED  BY <2>1, <4>1
    <3>2. CASE x \in B
      <4>1. PICK k \in DOMAIN b : b[k] = x
        BY <1>3, <3>2 DEF Lists
      <4> QED  BY <2>1, <4>1
    <3> QED  BY <3>1, <3>2
  <2> QED  BY <2>2, <2>3 DEF Lists
<1>11. Increasing(c)
  <2> SUFFICES ASSUME NEW j \in DOMAIN c, NEW k \in DOMAIN c, j < k PROVE c[j] < c[k]
    BY DEF Increasing
  <2>1. j \in Nat /\ k \in Nat /\ j >= 1 /\ k <= Len(a) + Len(b)
    BY <1>7
  <2>2. CASE k <= Len(a)
    <3>1. j \in DOMAIN a /\ k \in DOMAIN a /\ c[j] = a[j] /\ c[k] = a[k]
      BY <1>7, <2>1, <2>2
    <3> QED  BY <1>2, <3>1 DEF Increasing
  <2>3. CASE ~(k <= Len(a)) /\ j <= Len(a)
    <3>1. j \in DOMAIN a /\ k - Len(a) \in DOMAIN b /\ c[j] = a[j] /\ c[k] = b[k - Len(a)]
      BY <1>7, <2>1, <2>3
    <3>2. a[j] \in Nat /\ a[j] <= len /\ b[k - Len(a)] \in Nat /\ b[k - Len(a)] > len
      BY <1>8, <3>1
    <3> QED  BY <1>1, <3>1, <3>2
  <2>4. CASE ~(j <= Len(a))
    <3>1. /\ j - Len(a) \in DOMAIN b /\ k - Len(a) \in DOMAIN b /\ j - Len(a) < k - Len(a)
          /\ c[j] = b[j - Len(a)] /\ c[k] = b[k - Len(a)]
      <4>1. j - Len(a) \in 1 .. Len(b) /\ k - Len(a) \in 1 .. Len(b) /\ j - Len(a) < k - Len(a)
            /\ ~(k <= Len(a)) /\ j \in 1 .. Len(a) + Len(b) /\ k \in 1 .. Len(a) + Len(b)
        <5>1. /\ Len(a) \in Nat /\ Len(b) \in Nat /\ j \in 1 .. Len(a) + Len(b)
              /\ k \in 1 .. Len(a) + Len(b)
          BY <1>7
        <5>2. ~(k <= Len(a))
          BY <2>1, <2>4, <5>1
        <5> QED  BY <2>1, <2>4, <5>1, <5>2
      <4> QED  BY <1>7, <2>4, <4>1
    <3> QED  BY <1>3, <3>1 DEF Increasing
  <2> QED  BY <2>1, <2>2, <2>3, <2>4
<1>12. A \cup B \in SUBSET (1 .. m)
  BY <1>4, <1>5
<1>13. InOrder(A \cup B) = c
  BY <1>1, <1>7, <1>10, <1>11, <1>12, InOrderIs
<1> QED  BY <1>4, <1>5, <1>13 DEF a, b, c, len

(* Composing again makes the rows of what was said at the columns it is    *)
(* given, and knows the matches of those rows, whatever it knew before.    *)
LEMMA FillIs ==
  ASSUME NEW p \in Pages, NEW cols \in Widths
  PROVE  /\ fill(p, cols) \in Pages /\ Alike(p, fill(p, cols)) /\ fill(p, cols).said = p.said
         /\ fill(p, cols).width = cols /\ Matched(fill(p, cols)) /\ Quiet(fill(p, cols))
<1> DEFINE fresh == [p EXCEPT !.lines = <<>>, !.hits = <<>>, !.turns = <<>>,
                              !.answer = 0, !.over = FALSE, !.width = cols]
           V == {q \in Pages : /\ Alike(p, q) /\ q.said = p.said
                               /\ q.width = cols /\ q.hits = <<>>}
           c == Composed(fresh, p.said)
           d == [c EXCEPT !.over = c.over \/ ~p.working]
           f == mark(d, 0)
<1>1. fresh \in V
  <2>1. <<>> \in Seq(Rows) /\ <<>> \in Seq(Nat) /\ <<>> \in Seq(Nat \ {0})
    OBVIOUS
  <2>2. fresh \in Pages
    BY <2>1 DEF Pages
  <2> QED  BY <2>2 DEF Alike, Pages
<1>2. \A q \in V, k \in Kinds : Compose(q, k) \in V
  <2> SUFFICES ASSUME NEW q \in V, NEW k \in Kinds PROVE Compose(q, k) \in V
    OBVIOUS
  <2>1. /\ Compose(q, k) \in Pages /\ Alike(q, Compose(q, k)) /\ Compose(q, k).said = q.said
        /\ Compose(q, k).width = q.width /\ Compose(q, k).hits = q.hits
    BY ComposeIs
  <2> QED  BY <2>1 DEF Alike
<1>3. p.said \in Seq(Kinds)
  BY DEF Pages
<1>4. fill(p, cols) = f
  BY DEF fill
<1> HIDE DEF fresh
<1>5. c \in V
  <2> HIDE DEF V
  <2> QED  BY <1>1, <1>2, <1>3, ComposedWithin
<1> HIDE DEF c
<1>6. /\ d \in Pages /\ Alike(p, d) /\ d.said = p.said /\ d.width = cols /\ d.hits = <<>>
      /\ Quiet(d)
  BY <1>5 DEF Pages, Alike, Quiet
<1> HIDE DEF d
<1>7. CASE d.wanted
  <2>1. Matching(d, 0) \in Seq(Nat)
    BY <1>6, MatchingIs
  <2>2. <<>> \o Matching(d, 0) = Matching(d, 0)
    BY <2>1
  <2>3. f = [d EXCEPT !.hits = Matching(d, 0)]
    BY <1>6, <1>7, <2>2 DEF mark
  <2> HIDE DEF f
  <2>4. /\ f \in Pages /\ f.hits = Matching(d, 0) /\ f.wanted /\ f.lines = d.lines
        /\ f.width = d.width /\ f.whole = d.whole
    BY <1>6, <1>7, <2>1, <2>3 DEF Pages
  <2>5. Matching(f, 0) = Matching(d, 0)
    BY <2>4 DEF Matching, HoldsWord
  <2>6. Alike(p, f) /\ f.said = p.said /\ f.width = cols /\ Quiet(f)
    BY <1>6, <2>3 DEF Alike, Quiet, Pages
  <2>7. Matched(f)
    BY <2>4, <2>5 DEF Matched
  <2> QED  BY <1>4, <2>4, <2>6, <2>7
<1>8. CASE ~d.wanted
  <2>1. f = d
    BY <1>8 DEF mark
  <2>2. Matched(d)
    BY <1>6, <1>8 DEF Matched
  <2> QED  BY <1>4, <1>6, <2>1, <2>2
<1> QED  BY <1>7, <1>8

(* A turn answers the opening page, which composes again what is left.     *)
OpeningShows(p) == Contains(p.said, "opening")

LEMMA AnsweredIs ==
  ASSUME NEW p \in Pages, Matched(p), Quiet(p), NEW kind \in Kinds
  PROVE  /\ Answered(p, kind) \in Pages /\ Matched(Answered(p, kind)) /\ Quiet(Answered(p, kind))
         /\ Alike(p, Answered(p, kind)) /\ Answered(p, kind).width = p.width
         /\ Answered(p, kind) # p => OpeningShows(p) /\ ~OpeningShows(Answered(p, kind))
<1>1. CASE ~(kind = "turn/start" /\ OpeningShows(p))
  <2>1. Answered(p, kind) = p
    BY <1>1 DEF Answered, OpeningShows
  <2> QED  BY <2>1 DEF Alike
<1>2. CASE kind = "turn/start" /\ OpeningShows(p)
  <2> DEFINE S == {i \in DOMAIN p.said : p.said[i] # "opening"}
             rest == Picked(p.said, S)
             q == [p EXCEPT !.said = rest]
             a == fill(q, p.width)
  <2>1. p.said \in Seq(Kinds) /\ p.width \in Widths /\ S \in SUBSET DOMAIN p.said
    BY DEF Pages
  <2>2. Answered(p, kind) = a
    BY <1>2 DEF Answered, OpeningShows
  <2> HIDE DEF S
  <2>3. /\ rest \in Seq(Kinds) /\ DOMAIN rest = DOMAIN InOrder(S) /\ InOrder(S) \in Seq(S)
        /\ Lists(InOrder(S), S)
        /\ \A k \in DOMAIN InOrder(S) : rest[k] = p.said[InOrder(S)[k]]
    BY <2>1, PickedLists
  <2>4. \A k \in DOMAIN rest : rest[k] # "opening"
    BY <2>3 DEF Lists, S
  <2> HIDE DEF rest
  <2>5. q \in Pages /\ Alike(p, q) /\ q.said = rest /\ q.width = p.width
    BY <2>3 DEF Pages, Alike
  <2> HIDE DEF q
  <2>6. /\ a \in Pages /\ Alike(q, a) /\ a.said = q.said /\ a.width = p.width
        /\ Matched(a) /\ Quiet(a)
    BY <2>1, <2>5, FillIs
  <2>7. ~OpeningShows(a)
    <3>1. DOMAIN rest = 1 .. Len(rest)
      BY <2>3
    <3> QED  BY <2>4, <2>5, <2>6, <3>1 DEF OpeningShows, Contains
  <2> HIDE DEF a
  <2>8. Alike(p, a)
    BY <2>5, <2>6 DEF Alike
  <2> QED  BY <1>2, <2>2, <2>6, <2>7, <2>8
<1> QED  BY <1>1, <1>2

(* One more thing said keeps the row at the foot of a window that was      *)
(* scrolled back, unless it is composed again, and knows every match.      *)
LEMMA SayIs ==
  ASSUME NEW p \in Pages, Matched(p), Quiet(p), NEW kind \in Kinds
  PROVE  /\ say(p, kind) \in Pages /\ Matched(say(p, kind)) /\ Quiet(say(p, kind))
         /\ say(p, kind).working = p.working /\ say(p, kind).width = p.width
         /\ say(p, kind).body = p.body
         /\ kind # "opening" /\ OpeningShows(say(p, kind)) => OpeningShows(p) /\ Answered(p, kind) = p
         /\ kind # "opening" /\ Answered(p, kind) # p => ~OpeningShows(say(p, kind))
         /\ p.back > 0 => say(p, kind).back > 0
         /\ p.back > 0 /\ Answered(p, kind) = p => Foot(say(p, kind)) = Foot(p)
<1> DEFINE q == Answered(p, kind)
           from == Len(q.lines)
           rows == RowsOf(q, kind)
           c == Compose(q, kind)
           turns == IF kind = "turn/start" /\ rows # <<>> THEN Append(c.turns, from + 1) ELSE c.turns
           back == IF c.back > 0 THEN c.back + Len(rows) ELSE 0
           d == [c EXCEPT !.said = Append(c.said, kind), !.back = back, !.turns = turns]
           s == mark(d, from)
<1>1. /\ q \in Pages /\ Matched(q) /\ Quiet(q) /\ Alike(p, q) /\ q.width = p.width
      /\ (q # p => OpeningShows(p) /\ ~OpeningShows(q))
  BY AnsweredIs
<1>2. say(p, kind) = s
  BY DEF say
<1> HIDE DEF q
<1>3. /\ c \in Pages /\ Alike(q, c) /\ c.said = q.said /\ c.lines = q.lines \o rows
      /\ c.width = q.width /\ c.hits = q.hits /\ c.turns = q.turns /\ (q.over => c.over)
  BY <1>1, ComposeIs
<1>4. rows \in Seq(Rows) /\ Len(rows) \in Nat
  BY <1>1, RowsAre
<1> HIDE DEF c, rows
<1>5. from \in Nat /\ q.lines \in Seq(Rows) /\ Len(c.lines) = from + Len(rows)
  BY <1>1, <1>3, <1>4 DEF Pages
<1>6. turns \in Seq(Nat \ {0}) /\ back \in Nat
  <2>1. c.turns \in Seq(Nat \ {0}) /\ c.back \in Nat
    BY <1>3 DEF Pages
  <2>2. Append(c.turns, from + 1) \in Seq(Nat \ {0})
    <3>1. from + 1 \in Nat \ {0}
      BY <1>5
    <3> QED  BY <2>1, <3>1
  <2> QED  BY <1>4, <2>1, <2>2
<1> HIDE DEF from, turns, back
<1>7. Append(c.said, kind) \in Seq(Kinds)
  BY <1>3 DEF Pages
<1>8. /\ d \in Pages /\ d.said = Append(c.said, kind) /\ d.back = back /\ d.turns = turns
      /\ d.lines = c.lines /\ d.hits = c.hits /\ d.wanted = c.wanted /\ d.width = c.width
      /\ d.whole = c.whole /\ d.over = c.over /\ d.working = c.working /\ d.body = c.body
  BY <1>3, <1>6, <1>7 DEF Pages
<1> HIDE DEF d
<1>9. /\ s \in Pages /\ s.said = d.said /\ s.back = d.back /\ s.lines = d.lines
      /\ s.wanted = d.wanted /\ s.width = d.width /\ s.whole = d.whole /\ s.over = d.over
      /\ s.working = d.working /\ s.body = d.body /\ Matched(s)
  <2>1. CASE ~d.wanted
    <3>1. s = d
      BY <2>1 DEF mark
    <3>2. ~q.wanted /\ d.hits = <<>>
      BY <1>1, <1>3, <1>8, <2>1 DEF Alike, Matched
    <3> QED  BY <1>8, <2>1, <3>1, <3>2 DEF Matched
  <2>2. CASE d.wanted
    <3>1. /\ q.wanted /\ d.hits = Matching(q, 0) /\ d.lines = q.lines \o rows
          /\ d.width = q.width /\ d.whole = q.whole
      BY <1>1, <1>3, <1>8, <2>2 DEF Alike, Matched
    <3>2. Matching(d, 0) = Matching(q, 0) \o Matching(d, from)
      BY <1>1, <1>4, <1>8, <3>1, MatchingGrows DEF from
    <3>3. Matching(d, 0) \in Seq(Nat)
      BY <1>8, MatchingIs
    <3>4. s = [d EXCEPT !.hits = Matching(d, 0)]
      BY <2>2, <3>1, <3>2 DEF mark
    <3> HIDE DEF s
    <3>5. /\ s \in Pages /\ s.said = d.said /\ s.back = d.back /\ s.lines = d.lines
          /\ s.wanted = d.wanted /\ s.width = d.width /\ s.whole = d.whole /\ s.over = d.over
          /\ s.working = d.working /\ s.body = d.body /\ s.hits = Matching(d, 0)
      BY <1>8, <3>3, <3>4 DEF Pages
    <3>6. Matching(s, 0) = Matching(d, 0)
      BY <3>5 DEF Matching, HoldsWord
    <3> QED  BY <2>2, <3>5, <3>6 DEF Matched
  <2> QED  BY <2>1, <2>2
<1> HIDE DEF s
<1>10. Quiet(s) /\ s.working = p.working /\ s.width = p.width /\ s.body = p.body
  BY <1>1, <1>3, <1>8, <1>9 DEF Quiet, Alike
<1>11. kind # "opening" => (OpeningShows(s) <=> OpeningShows(q))
  <2>1. s.said = Append(q.said, kind) /\ q.said \in Seq(Kinds)
    BY <1>1, <1>3, <1>8, <1>9 DEF Pages
  <2>2. Len(q.said) \in Nat /\ Len(s.said) = Len(q.said) + 1 /\ s.said[Len(q.said) + 1] = kind
        /\ \A i \in 1 .. Len(q.said) : s.said[i] = q.said[i]
    BY <2>1
  <2> QED  BY <2>2 DEF OpeningShows, Contains
<1>12. back = IF p.back > 0 THEN p.back + Len(rows) ELSE 0
  BY <1>1, <1>3 DEF back, Alike
<1>13. p.back \in Nat /\ Len(p.lines) \in Nat
  BY DEF Pages
<1>14. p.back > 0 => s.back > 0
  BY <1>4, <1>8, <1>9, <1>12, <1>13
<1>15. p.back > 0 /\ q = p => Foot(s) = Foot(p)
  <2> SUFFICES ASSUME p.back > 0, q = p PROVE Foot(s) = Foot(p)
    OBVIOUS
  <2>1. Len(s.lines) = Len(p.lines) + Len(rows) /\ s.back = p.back + Len(rows)
    BY <1>5, <1>8, <1>9, <1>12 DEF from
  <2> QED  BY <1>4, <1>13, <2>1 DEF Foot
<1> QED  BY <1>1, <1>2, <1>9, <1>10, <1>11, <1>14, <1>15 DEF q

(* What holds of a view between any two of its operations.                 *)
Views == {p \in Pages : Matched(p) /\ Quiet(p)}

(* The same of what is said one thing after the other.                     *)
LEMMA SaysIs ==
  ASSUME NEW p \in Views, NEW s \in Seq(Kinds)
  PROVE  /\ Says(p, s) \in Views /\ Says(p, s).working = p.working
         /\ Says(p, s).width = p.width /\ Says(p, s).body = p.body
<1> DEFINE V == {q \in Views : q.working = p.working /\ q.width = p.width /\ q.body = p.body}
<1>1. ASSUME NEW q \in V, NEW k \in Kinds PROVE say(q, k) \in V
  BY SayIs DEF Views
<1>2. p \in V
  OBVIOUS
<1> HIDE DEF V
<1>3. Says(p, s) \in V
  BY <1>1, <1>2, SaysWithin
<1> QED  BY <1>3 DEF V

(* Unless the opening page went away, a reader who scrolled back has the   *)
(* same row at the foot when all has settled.                              *)
LEMMA SaysKeeps ==
  ASSUME NEW p \in Views, NEW s \in Seq(Events), p.back > 0, OpeningShows(p) => OpeningShows(Says(p, s))
  PROVE  Says(p, s).back > 0 /\ Foot(Says(p, s)) = Foot(p)
<1> DEFINE V == {q \in Views : /\ OpeningShows(q) => OpeningShows(p)
                               /\ (OpeningShows(p) => OpeningShows(q)) => q.back > 0 /\ Foot(q) = Foot(p)}
<1>1. ASSUME NEW q \in V, NEW k \in Events PROVE say(q, k) \in V
  <2> DEFINE t == say(q, k)
  <2>1. k \in Kinds /\ k # "opening"
    BY DEF Kinds, Events
  <2>2. q \in Pages /\ Matched(q) /\ Quiet(q)
    BY DEF Views
  <2>3. /\ t \in Views /\ (OpeningShows(t) => OpeningShows(q) /\ Answered(q, k) = q)
        /\ (q.back > 0 => t.back > 0)
        /\ (q.back > 0 /\ Answered(q, k) = q => Foot(t) = Foot(q))
        /\ (Answered(q, k) # q => ~OpeningShows(t))
    BY <2>1, <2>2, SayIs DEF Views
  <2>4. Answered(q, k) # q => OpeningShows(q)
    BY <2>1, <2>2, AnsweredIs
  <2> HIDE DEF t
  <2>5. ASSUME OpeningShows(p) => OpeningShows(t) PROVE t.back > 0 /\ Foot(t) = Foot(p)
    <3>1. Answered(q, k) = q /\ (OpeningShows(p) => OpeningShows(q))
      BY <2>3, <2>4, <2>5
    <3> QED  BY <2>3, <3>1
  <2> QED  BY <2>3, <2>5 DEF t
<1>2. p \in V
  OBVIOUS
<1> HIDE DEF V
<1>3. Says(p, s) \in V
  BY <1>1, <1>2, SaysWithin
<1> QED  BY <1>3 DEF V

-----------------------------------------------------------------------------
(* What moves the window alone.                                            *)
Still(p, q) ==
  /\ q.said = p.said /\ q.lines = p.lines /\ q.answer = p.answer /\ q.over = p.over
  /\ q.working = p.working /\ q.body = p.body /\ q.width = p.width /\ q.whole = p.whole
  /\ q.wanted = p.wanted /\ q.hits = p.hits /\ q.turns = p.turns

LEMMA StillIs ==
  ASSUME NEW p \in Views, NEW q \in Pages, Still(p, q)
  PROVE  q \in Views
<1>1. Matching(q, 0) = Matching(p, 0)
  BY DEF Still, Matching, HoldsWord
<1> QED  BY <1>1 DEF Views, Matched, Quiet, Still

LEMMA BackIs ==
  ASSUME NEW p \in Pages, NEW back \in Nat
  PROVE  /\ [p EXCEPT !.back = back] \in Pages /\ Still(p, [p EXCEPT !.back = back])
         /\ [p EXCEPT !.back = back].back = back /\ [p EXCEPT !.back = back].at = p.at
  BY DEF Pages, Still

LEMMA AtIs ==
  ASSUME NEW p \in Pages, NEW place \in Nat
  PROVE  /\ [p EXCEPT !.at = place] \in Pages /\ Still(p, [p EXCEPT !.at = place])
         /\ [p EXCEPT !.at = place].at = place /\ [p EXCEPT !.at = place].back = p.back
  BY DEF Pages, Still

LEMMA LessIs ==
  ASSUME NEW a \in Nat, NEW b \in Nat
  PROVE  Less(a, b) \in Nat /\ Lesser(a, b) \in Nat /\ Less(a, b) <= a /\ Lesser(a, b) <= b
         /\ Lesser(a, b) <= a
  BY DEF Less, Lesser

LEMMA RoomIs ==
  ASSUME NEW p \in Pages
  PROVE  Room(p) \in Nat \ {0} /\ Screenful(p) \in Nat /\ (p.body > 0 => Room(p) = p.body)
  BY DEF Pages, Room, Screenful

(* A match is a row.                                                       *)
LEMMA HitsAreRows ==
  ASSUME NEW p \in Views
  PROVE  \A k \in DOMAIN p.hits : p.hits[k] \in 1 .. Len(p.lines)
<1>1. CASE p.wanted
  <2>1. Lists(Matching(p, 0), MatchRows(p, 0)) /\ MatchRows(p, 0) \in SUBSET (1 .. Len(p.lines))
    BY MatchingIs DEF Views
  <2>2. p.hits = Matching(p, 0)
    BY <1>1 DEF Views, Matched
  <2> QED  BY <2>1, <2>2 DEF Lists
<1>2. CASE ~p.wanted
  BY <1>2 DEF Views, Matched
<1> QED  BY <1>1, <1>2

(* The match the reader is on is put in the window, when the window has    *)
(* the whole body.                                                         *)
OnView(p, h) ==
  /\ h <= Len(p.lines) - p.back /\ h + Room(p) > Len(p.lines) - p.back
  /\ p.back <= Less(Len(p.lines), Room(p))

LEMMA LandIs ==
  ASSUME NEW p \in Views
  PROVE  /\ land(p) \in Views /\ Still(p, land(p)) /\ land(p).at = p.at
         /\ p.at < Len(p.hits) => OnView(land(p), p.hits[p.at + 1])
<1>0. p \in Pages /\ p.at \in Nat /\ p.hits \in Seq(Nat) /\ Len(p.hits) \in Nat
      /\ Len(p.lines) \in Nat /\ Room(p) \in Nat \ {0}
  BY RoomIs DEF Views, Pages
<1>1. CASE ~(p.at < Len(p.hits))
  <2>1. land(p) = p
    BY <1>1 DEF land
  <2> QED  BY <1>1, <2>1 DEF Still
<1>2. CASE p.at < Len(p.hits)
  <2> DEFINE h == p.hits[p.at + 1]
             len == Len(p.lines)
             b == Lesser(len - h, Less(len, Room(p)))
             q == [p EXCEPT !.back = b]
  <2>1. p.at + 1 \in DOMAIN p.hits
    BY <1>0, <1>2
  <2>2. h \in 1 .. len
    BY <2>1, HitsAreRows
  <2>3. land(p) = q
    BY <1>2 DEF land
  <2> HIDE DEF h, len
  <2>4. len \in Nat /\ h \in Nat /\ 1 <= h /\ h <= len /\ len - h \in Nat
    BY <1>0, <2>2 DEF len
  <2>5. b \in Nat /\ b <= Less(len, Room(p)) /\ h <= len - b /\ h + Room(p) > len - b
    BY <1>0, <2>4 DEF Less, Lesser
  <2> HIDE DEF b
  <2>6. q \in Pages /\ Still(p, q) /\ q.back = b /\ q.at = p.at
    BY <1>0, <2>5, BackIs
  <2> HIDE DEF q
  <2>7. q \in Views
    BY <2>6, StillIs
  <2>8. OnView(q, h)
    BY <2>5, <2>6 DEF OnView, Still, Room, len
  <2> QED  BY <2>3, <2>6, <2>7, <2>8 DEF h
<1> QED  BY <1>1, <1>2

(* The same through everything that presses or finds.                      *)
Same(p, q) == q.working = p.working /\ q.width = p.width /\ q.body = p.body

LEMMA FindIs ==
  ASSUME NEW p \in Views, NEW word \in BOOLEAN
  PROVE  /\ find(p, word) \in Views /\ Same(p, find(p, word))
         /\ find(p, word).hits # <<>> =>
              /\ find(p, word).at < Len(find(p, word).hits)
              /\ OnView(find(p, word), find(p, word).hits[find(p, word).at + 1])
<1> DEFINE w == [p EXCEPT !.wanted = word]
           q == fill(w, p.width)
           r == [q EXCEPT !.at = Less(Len(q.hits), 1)]
           l == land(r)
<1>1. /\ w \in Pages /\ w.working = p.working /\ w.width = p.width /\ w.body = p.body
      /\ p.width \in Widths
  BY DEF Views, Pages
<1>2. find(p, word) = l
  BY DEF find
<1> HIDE DEF w
<1>3. q \in Views /\ Alike(w, q) /\ q.width = p.width
  BY <1>1, FillIs DEF Views
<1> HIDE DEF q
<1>4. Len(q.hits) \in Nat /\ Less(Len(q.hits), 1) \in Nat
      /\ (q.hits # <<>> => Less(Len(q.hits), 1) < Len(q.hits))
  <2>1. q.hits \in Seq(Nat)
    BY <1>3 DEF Views, Pages
  <2>2. Len(q.hits) \in Nat /\ (q.hits # <<>> => Len(q.hits) > 0)
    BY <2>1
  <2> QED  BY <2>2 DEF Less
<1>5. r \in Views /\ Still(q, r) /\ r.at = Less(Len(q.hits), 1)
  <2>1. q \in Pages /\ q.back \in Nat
    BY <1>3 DEF Views, Pages
  <2>2. r \in Pages /\ Still(q, r) /\ r.at = Less(Len(q.hits), 1)
    BY <1>4, <2>1, AtIs
  <2> HIDE DEF r
  <2> QED  BY <1>3, <2>2, StillIs
<1> HIDE DEF r
<1>6. l \in Views /\ Still(r, l) /\ l.at = r.at
      /\ (r.at < Len(r.hits) => OnView(l, r.hits[r.at + 1]))
  BY <1>5, LandIs
<1> HIDE DEF l
<1>7. l.hits = r.hits /\ r.hits = q.hits
  BY <1>5, <1>6 DEF Still
<1>8. Same(p, l)
  BY <1>1, <1>3, <1>5, <1>6 DEF Still, Alike, Same
<1> QED  BY <1>2, <1>4, <1>5, <1>6, <1>7, <1>8

LEMMA WalkIs ==
  ASSUME NEW p \in Views, NEW forward \in BOOLEAN
  PROVE  /\ WalkTo(p, forward) \in Views /\ Still(p, WalkTo(p, forward))
         /\ p.hits # <<>> =>
              /\ WalkTo(p, forward).at < Len(p.hits)
              /\ OnView(WalkTo(p, forward), p.hits[WalkTo(p, forward).at + 1])
<1> DEFINE len == Len(p.hits)
           place == IF forward THEN (p.at + 1) % len ELSE (p.at + len - 1) % len
           q == [p EXCEPT !.at = place]
           l == land(q)
<1>0. p \in Pages /\ p.at \in Nat /\ p.back \in Nat /\ p.hits \in Seq(Nat) /\ len \in Nat
      /\ (p.hits # <<>> <=> len > 0)
  BY DEF Views, Pages
<1>1. CASE len = 0
  BY <1>0, <1>1 DEF WalkTo, Still
<1>2. CASE len > 0
  <2>1. WalkTo(p, forward) = l
    BY <1>2 DEF WalkTo
  <2> HIDE DEF len
  <2>2. place \in Nat /\ place < len
    <3>1. p.at + 1 \in Nat /\ p.at + len - 1 \in Nat
      BY <1>0, <1>2
    <3>2. \A a \in Nat : a % len \in 0 .. len - 1
      BY <1>0, <1>2
    <3>3. place \in 0 .. len - 1
      BY <3>1, <3>2
    <3> QED  BY <1>0, <3>3
  <2> HIDE DEF place
  <2>3. q \in Pages /\ Still(p, q) /\ q.at = place
    BY <1>0, <2>2, AtIs
  <2> HIDE DEF q
  <2>4. q \in Views
    BY <2>3, StillIs
  <2>5. l \in Views /\ Still(q, l) /\ l.at = q.at
        /\ (q.at < Len(q.hits) => OnView(l, q.hits[q.at + 1]))
    BY <2>4, LandIs
  <2> HIDE DEF l
  <2>6. Still(p, l) /\ q.hits = p.hits
    BY <2>3, <2>5 DEF Still
  <2> QED  BY <2>1, <2>2, <2>3, <2>5, <2>6 DEF len
<1> QED  BY <1>0, <1>1, <1>2

LEMMA FollowIs ==
  ASSUME NEW p \in Views
  PROVE  follow(p) \in Views /\ Still(p, follow(p))
<1>1. follow(p) = [p EXCEPT !.back = 0]
  BY DEF follow
<1>2. p \in Pages /\ 0 \in Nat
  BY DEF Views
<1>3. follow(p) \in Pages /\ Still(p, follow(p))
  BY <1>1, <1>2, BackIs
<1> QED  BY <1>3, StillIs

LEMMA TurnIs ==
  ASSUME NEW p \in Views, NEW forward \in BOOLEAN
  PROVE  TurnTo(p, forward) \in Views /\ Still(p, TurnTo(p, forward))
<1> DEFINE len == Len(p.lines)
           top == Less(len, p.back + Room(p))
           far == Less(len, Room(p))
           A == {k \in DOMAIN p.turns : p.turns[k] - 1 > top}
           B == {k \in DOMAIN p.turns : p.turns[k] - 1 < top}
           ahead == Picked(p.turns, A)
           behind == Picked(p.turns, B)
           To(i) == [p EXCEPT !.back = Lesser(Less(len, i - 1 + Room(p)), far)]
<1>1. /\ p \in Pages /\ len \in Nat /\ Room(p) \in Nat /\ p.turns \in Seq(Nat \ {0})
      /\ p.back \in Nat
  BY RoomIs DEF Views, Pages
<1>2. ahead \in Seq(Nat \ {0}) /\ behind \in Seq(Nat \ {0})
  <2>1. A \in SUBSET DOMAIN p.turns /\ B \in SUBSET DOMAIN p.turns
    OBVIOUS
  <2> HIDE DEF A, B
  <2> QED  BY <1>1, <2>1, PickedLists
<1>3. TurnTo(p, forward) =
        CASE p.turns = <<>>            -> p
          [] forward /\ ahead # <<>>   -> To(Head(ahead))
          [] forward /\ ahead = <<>>   -> follow(p)
          [] ~forward /\ behind # <<>> -> To(Last(behind))
          [] OTHER                     -> [p EXCEPT !.back = far]
  BY DEF TurnTo
<1> HIDE DEF ahead, behind
<1>4. ASSUME NEW i \in Nat \ {0} PROVE To(i) \in Views /\ Still(p, To(i))
  <2>1. i - 1 + Room(p) \in Nat
    BY <1>1
  <2>2. Less(len, i - 1 + Room(p)) \in Nat /\ far \in Nat
    BY <1>1, <2>1, LessIs
  <2> DEFINE b == Lesser(Less(len, i - 1 + Room(p)), far)
  <2>3. b \in Nat
    BY <2>2, LessIs
  <2>4. To(i) = [p EXCEPT !.back = b]
    OBVIOUS
  <2> HIDE DEF b, To
  <2>5. To(i) \in Pages /\ Still(p, To(i))
    BY <1>1, <2>3, <2>4, BackIs
  <2> QED  BY <2>5, StillIs
<1>5. [p EXCEPT !.back = far] \in Views /\ Still(p, [p EXCEPT !.back = far])
  <2>1. far \in Nat
    BY <1>1, LessIs
  <2> HIDE DEF far
  <2>2. [p EXCEPT !.back = far] \in Pages /\ Still(p, [p EXCEPT !.back = far])
    BY <1>1, <2>1, BackIs
  <2> QED  BY <2>2, StillIs
<1>6. ahead # <<>> => Head(ahead) \in Nat \ {0}
  BY <1>2
<1>7. behind # <<>> => Last(behind) \in Nat \ {0}
  BY <1>2 DEF Last
<1>8. follow(p) \in Views /\ Still(p, follow(p)) /\ Still(p, p)
  BY FollowIs DEF Still
<1> DEFINE back == [p EXCEPT !.back = far]
<1> HIDE DEF To
<1>9. \/ TurnTo(p, forward) = p
      \/ ahead # <<>> /\ TurnTo(p, forward) = To(Head(ahead))
      \/ TurnTo(p, forward) = follow(p)
      \/ behind # <<>> /\ TurnTo(p, forward) = To(Last(behind))
      \/ TurnTo(p, forward) = back
  BY <1>3
<1> HIDE DEF back
<1>10. back \in Views /\ Still(p, back)
  BY <1>5 DEF back
<1> QED  BY <1>4, <1>6, <1>7, <1>8, <1>9, <1>10

Strokes == PageKeys \cup WaysOut

LEMMA MovedIs ==
  ASSUME NEW p \in Views, NEW key \in Strokes
  PROVE  moved(p, key) \in Views /\ Same(p, moved(p, key))
<1>0. p \in Pages /\ p.back \in Nat /\ Screenful(p) \in Nat
  BY RoomIs DEF Views, Pages
<1>1. ASSUME NEW b \in Nat, moved(p, key) = [p EXCEPT !.back = b]
      PROVE  moved(p, key) \in Views /\ Same(p, moved(p, key))
  <2>1. moved(p, key) \in Pages /\ Still(p, moved(p, key))
    BY <1>0, <1>1, BackIs
  <2> QED  BY <2>1, StillIs DEF Same, Still
<1>2. CASE key = "pageup"
  <2>1. moved(p, key) = [p EXCEPT !.back = p.back + Screenful(p)]
    BY <1>2 DEF moved
  <2>2. p.back + Screenful(p) \in Nat
    BY <1>0
  <2> QED  BY <1>1, <2>1, <2>2
<1>3. CASE key = "pagedown"
  <2>1. moved(p, key) = [p EXCEPT !.back = Less(p.back, Screenful(p))]
    BY <1>3 DEF moved
  <2>2. Less(p.back, Screenful(p)) \in Nat
    BY <1>0, LessIs
  <2> QED  BY <1>1, <2>1, <2>2
<1>4. CASE key = "ctrl-n"
  <2>1. moved(p, key) = WalkTo(p, TRUE)
    BY <1>4 DEF moved
  <2>2. WalkTo(p, TRUE) \in Views /\ Still(p, WalkTo(p, TRUE))
    BY WalkIs
  <2> QED  BY <2>1, <2>2 DEF Same, Still
<1>8. CASE key = "ctrl-p"
  <2>1. moved(p, key) = WalkTo(p, FALSE)
    BY <1>8 DEF moved
  <2>2. WalkTo(p, FALSE) \in Views /\ Still(p, WalkTo(p, FALSE))
    BY WalkIs
  <2> QED  BY <2>1, <2>2 DEF Same, Still
<1>5. CASE key = "tab"
  <2>1. moved(p, key) = TurnTo(p, TRUE)
    BY <1>5 DEF moved
  <2>2. TurnTo(p, TRUE) \in Views /\ Still(p, TurnTo(p, TRUE))
    BY TurnIs
  <2> QED  BY <2>1, <2>2 DEF Same, Still
<1>9. CASE key = "backtab"
  <2>1. moved(p, key) = TurnTo(p, FALSE)
    BY <1>9 DEF moved
  <2>2. TurnTo(p, FALSE) \in Views /\ Still(p, TurnTo(p, FALSE))
    BY TurnIs
  <2> QED  BY <2>1, <2>2 DEF Same, Still
<1>6. CASE key = "esc"
  <2>1. moved(p, key) = follow(find(p, FALSE))
    BY <1>6 DEF moved
  <2>2. find(p, FALSE) \in Views /\ Same(p, find(p, FALSE))
    BY FindIs
  <2> QED  BY <2>1, <2>2, FollowIs DEF Same, Still
<1>7. CASE key \notin PageKeys
  <2>1. moved(p, key) = p
    BY <1>7 DEF moved, PageKeys
  <2> QED  BY <2>1 DEF Same
<1> QED  BY <1>2, <1>3, <1>4, <1>5, <1>6, <1>7, <1>8, <1>9 DEF PageKeys

LEMMA PressedIs ==
  ASSUME NEW p \in Views, NEW ks \in Seq(Strokes)
  PROVE  Pressed(p, ks) \in Views /\ Same(p, Pressed(p, ks))
<1> DEFINE V == {q \in Views : Same(p, q)}
<1>1. ASSUME NEW q \in V, NEW k \in Strokes PROVE moved(q, k) \in V
  BY MovedIs DEF Same
<1>2. p \in V
  BY DEF Same
<1> HIDE DEF V
<1>3. Pressed(p, ks) \in V
  BY <1>1, <1>2, PressedWithin
<1> QED  BY <1>3 DEF V

(* Nothing pressed, nothing settled, one key pressed.                      *)
LEMMA NoneIs ==
  ASSUME NEW p
  PROVE  Says(p, <<>>) = p /\ Pressed(p, <<>>) = p
<1> DEFINE V == {p}
           K == {}
<1>1. p \in V /\ <<>> \in Seq(K)
  OBVIOUS
<1>2. (\A q \in V, k \in K : say(q, k) \in V) /\ (\A q \in V, k \in K : moved(q, k) \in V)
  OBVIOUS
<1> HIDE DEF V, K
<1>3. Says(p, <<>>) \in V
  BY <1>1, <1>2, SaysWithin
<1>4. Pressed(p, <<>>) \in V
  BY <1>1, <1>2, PressedWithin
<1> QED  BY <1>3, <1>4 DEF V

LEMMA OneIs ==
  ASSUME NEW p, NEW key
  PROVE  Pressed(p, <<key>>) = moved(p, key)
<1> DEFINE s == <<key>>
           Upon(g) == [k \in 0 .. Len(s) |-> IF k = 0 THEN p ELSE moved(g[k - 1], s[k])]
           upTo == CHOOSE g : g = Upon(g)
           f == [k \in 0 .. 1 |-> IF k = 0 THEN p ELSE moved(p, key)]
<1>1. Len(s) = 1 /\ s[1] = key
  OBVIOUS
<1>2. Pressed(p, s) = upTo[Len(s)]
  BY DEF Pressed
<1> HIDE DEF s
<1>3. f = Upon(f)
  <2>1. \A k \in 0 .. 1 : k = 0 \/ (k = 1 /\ k - 1 = 0)
    OBVIOUS
  <2>2. f[0] = p /\ f[1] = moved(p, key) /\ DOMAIN f = 0 .. 1
    OBVIOUS
  <2> HIDE DEF f
  <2>3. \A k \in 0 .. 1 : f[k] = IF k = 0 THEN p ELSE moved(f[k - 1], s[k])
    BY <1>1, <2>1, <2>2
  <2>4. f = [k \in 0 .. 1 |-> f[k]]
    BY <2>2 DEF f
  <2> QED  BY <1>1, <2>3, <2>4
<1>4. upTo = Upon(upTo)
  <2> HIDE DEF Upon
  <2> QED  BY <1>3
<1> HIDE DEF upTo
<1>5. upTo[0] = p /\ upTo[1] = moved(upTo[0], key)
  <2>1. 0 \in 0 .. 1 /\ 1 \in 0 .. 1 /\ 1 # 0 /\ 1 - 1 = 0
    OBVIOUS
  <2> QED  BY <1>1, <1>4, <2>1
<1> QED  BY <1>1, <1>2, <1>5 DEF s

(* The frame clamps the window, and composes again for other columns.      *)
LEMMA WindowIs ==
  ASSUME NEW p \in Pages
  PROVE  WindowRows(p) \in Nat /\ (p.over => WindowRows(p) = p.body)
<1>1. p.body \in Nat /\ p.answer \in Nat /\ Block - 1 \in Nat
  <2>1. Block \in Nat \ {0}
    BY ConversationAssumption
  <2>2. Block - 1 \in Nat
    BY <2>1
  <2> QED  BY <2>2 DEF Pages
<1>2. BlockRows(p) \in Nat /\ (p.over => BlockRows(p) = 0)
  BY <1>1 DEF BlockRows, Lesser
<1> QED  BY <1>1, <1>2 DEF WindowRows, Less

LEMMA FrameIs ==
  ASSUME NEW p \in Views, NEW z \in Sizes
  PROVE  /\ frame(p, z) \in Views /\ frame(p, z).working = p.working
         /\ frame(p, z).width = z.cols /\ frame(p, z).body = z.body
         /\ frame(p, z).said = p.said
         /\ z.cols = p.width =>
              /\ frame(p, z).lines = p.lines /\ frame(p, z).hits = p.hits
              /\ frame(p, z).at = p.at /\ frame(p, z).over = p.over
              /\ frame(p, z).back = Lesser(p.back, Less(Len(p.lines), WindowRows(frame(p, z))))
<1> DEFINE c == IF z.cols # p.width THEN fill(p, z.cols) ELSE p
           q == [c EXCEPT !.body = z.body]
           b == Lesser(q.back, Less(Len(q.lines), WindowRows(q)))
           f == [q EXCEPT !.back = b]
<1>1. p \in Pages /\ z.cols \in Widths /\ z.body \in Nat
  BY ConversationAssumption DEF Views, Widths
<1>2. frame(p, z) = f
  BY DEF frame
<1>3. /\ c \in Views /\ c.working = p.working /\ c.width = z.cols /\ c.said = p.said
      /\ (z.cols = p.width => c = p)
  <2>1. CASE z.cols # p.width
    BY <1>1, <2>1, FillIs DEF Views, Alike
  <2>2. CASE z.cols = p.width
    BY <2>2
  <2> QED  BY <2>1, <2>2
<1> HIDE DEF c
<1>4. c \in Pages /\ Matched(c) /\ Quiet(c)
  BY <1>3 DEF Views
<1>5. /\ q \in Pages /\ q.working = c.working /\ q.width = c.width /\ q.said = c.said
      /\ q.body = z.body /\ q.lines = c.lines /\ q.hits = c.hits /\ q.at = c.at
      /\ q.over = c.over /\ q.back = c.back /\ q.wanted = c.wanted /\ q.whole = c.whole
  BY <1>1, <1>4 DEF Pages
<1> HIDE DEF q
<1>6. Matching(q, 0) = Matching(c, 0)
  BY <1>5 DEF Matching, HoldsWord
<1>7. q \in Views
  BY <1>4, <1>5, <1>6 DEF Views, Matched, Quiet
<1>8. b \in Nat
  <2>1. q.back \in Nat /\ Len(q.lines) \in Nat /\ WindowRows(q) \in Nat
    BY <1>5, WindowIs DEF Pages
  <2> QED  BY <2>1, LessIs
<1>9. f \in Pages /\ Still(q, f) /\ f.back = b /\ f.at = q.at
  <2> HIDE DEF b
  <2> QED  BY <1>5, <1>8, BackIs
<1> HIDE DEF f
<1>10. f \in Views
  BY <1>7, <1>9, StillIs
<1>11. WindowRows(f) = WindowRows(q)
  BY <1>9 DEF WindowRows, BlockRows, Still
<1>12. b = Lesser(q.back, Less(Len(q.lines), WindowRows(f)))
  BY <1>11
<1> HIDE DEF b
<1>13. /\ f.working = p.working /\ f.width = z.cols /\ f.body = z.body /\ f.said = p.said
       /\ f.lines = c.lines /\ f.hits = c.hits /\ f.at = c.at /\ f.over = c.over
       /\ f.back = Lesser(c.back, Less(Len(c.lines), WindowRows(f)))
  BY <1>3, <1>5, <1>9, <1>12 DEF Still
<1> QED  BY <1>2, <1>3, <1>10, <1>13

(* So a row at the foot of the window stays in it.                         *)
LEMMA FrameKeeps ==
  ASSUME NEW p \in Views, NEW z \in Sizes, z.cols = p.width,
         Foot(p) > 0, WindowRows(frame(p, z)) > 0
  PROVE  InWindow(frame(p, z), Foot(p))
<1> DEFINE f == frame(p, z)
           W == WindowRows(f)
           len == Len(p.lines)
<1>1. f \in Views /\ f.lines = p.lines /\ f.back = Lesser(p.back, Less(len, W))
  BY FrameIs
<1>2. len \in Nat /\ p.back \in Nat /\ W \in Nat
  BY <1>1, WindowIs DEF Views, Pages
<1> HIDE DEF f, len
<1>3. Foot(p) = len - p.back /\ Foot(f) = len - f.back
  BY <1>1 DEF Foot, len
<1> HIDE DEF W
<1>4. W > 0 /\ len - p.back > 0
  BY <1>3 DEF f, W
<1>5. len - p.back <= len - f.back /\ (len - p.back) + W > len - f.back
  BY <1>1, <1>2, <1>4 DEF Less, Lesser
<1> QED  BY <1>3, <1>5 DEF InWindow, W, f

(* A match that land put on view stays there when the body stays as it is  *)
(* and no block takes of it.                                               *)
LEMMA FrameShows ==
  ASSUME NEW p \in Views, NEW z \in Sizes, z.cols = p.width, z.body = p.body, p.body > 0,
         p.over, NEW h \in Nat \ {0}, OnView(p, h)
  PROVE  InWindow(frame(p, z), h)
<1> DEFINE f == frame(p, z)
           len == Len(p.lines)
<1>1. /\ f \in Views /\ f.lines = p.lines /\ f.back = Lesser(p.back, Less(len, WindowRows(f)))
      /\ f.over /\ f.body = p.body
  BY FrameIs
<1>2. WindowRows(f) = p.body
  BY <1>1, WindowIs DEF Views
<1>3. len \in Nat /\ p.back \in Nat /\ p.body \in Nat /\ Room(p) = p.body
  BY RoomIs DEF Views, Pages
<1>4. h <= len - p.back /\ h + p.body > len - p.back /\ p.back <= Less(len, p.body)
  BY <1>3 DEF OnView
<1> HIDE DEF f, len
<1>5. f.back = p.back
  BY <1>1, <1>2, <1>3, <1>4 DEF Less, Lesser
<1>6. Foot(f) = len - p.back
  BY <1>1, <1>5 DEF Foot, len
<1> QED  BY <1>2, <1>4, <1>6 DEF InWindow, f

-----------------------------------------------------------------------------
(* What the conversation keeps: between two beats the view knows its       *)
(* matches, and outside a turn nothing waits to be settled and no block    *)
(* stands.                                                                 *)
ConversationInv ==
  /\ page \in Views /\ unseen \in Seq(Events) /\ size \in Sizes
  /\ stage \in {"line", "asked", "turn", "left"}
  /\ stage # "turn" => unseen = <<>>
  /\ stage \in {"line", "asked"} => ~page.working

LEMMA EventsAreKinds == \A s \in Seq(Events) : s \in Seq(Kinds)
<1> SUFFICES ASSUME NEW s \in Seq(Events) PROVE s \in Seq(Kinds)
  OBVIOUS
<1>1. s \in [1 .. Len(s) -> Kinds] /\ Len(s) \in Nat
  BY DEF Kinds
<1> QED  BY <1>1

LEMMA OpenedIs ==
  ASSUME NEW cols \in Widths, NEW kinds \in Seq(Events)
  PROVE  Opened(cols, kinds) \in Views /\ ~Opened(cols, kinds).working
<1> DEFINE blank == [said |-> <<>>, lines |-> <<>>, back |-> 0, answer |-> 0, over |-> TRUE,
                     working |-> FALSE, body |-> 0, width |-> cols, whole |-> FALSE,
                     wanted |-> FALSE, hits |-> <<>>, at |-> 0, turns |-> <<>>]
           s == <<"opening">> \o kinds
<1>1. blank \in Pages /\ blank.hits = <<>> /\ ~blank.wanted /\ blank.over /\ ~blank.working
  <2>1. /\ <<>> \in Seq(Kinds) /\ <<>> \in Seq(Rows) /\ <<>> \in Seq(Nat)
        /\ <<>> \in Seq(Nat \ {0})
    OBVIOUS
  <2> QED  BY <2>1 DEF Pages
<1>2. s \in Seq(Kinds)
  <2>1. kinds \in Seq(Kinds) /\ <<"opening">> \in Seq(Kinds)
    BY EventsAreKinds DEF Kinds
  <2> QED  BY <2>1
<1>3. Opened(cols, kinds) = Says(blank, s)
  BY DEF Opened
<1> HIDE DEF blank, s
<1>4. blank \in Views
  BY <1>1 DEF Views, Matched, Quiet
<1> QED  BY <1>1, <1>2, <1>3, <1>4, SaysIs

(* A beat leaves a view, and keeps whether a turn runs.                    *)
LEMMA BeatIs ==
  ASSUME ConversationInv, NEW ks \in Seq(Strokes)
  PROVE  /\ frame(settle(Pressed(page, ks)), size) \in Views
         /\ frame(settle(Pressed(page, ks)), size).working = page.working
<1>1. page \in Views /\ unseen \in Seq(Kinds) /\ size \in Sizes
  BY EventsAreKinds DEF ConversationInv
<1>2. Pressed(page, ks) \in Views /\ Pressed(page, ks).working = page.working
  BY <1>1, PressedIs DEF Same
<1>3. /\ settle(Pressed(page, ks)) \in Views
      /\ settle(Pressed(page, ks)).working = page.working
  BY <1>1, <1>2, SaysIs DEF settle
<1> QED  BY <1>1, <1>3, FrameIs

LEMMA FinishedIs ==
  ASSUME NEW p \in Views
  PROVE  /\ finished(p) \in Views /\ ~finished(p).working /\ finished(p).over
         /\ finished(p).back = p.back /\ finished(p).lines = p.lines
         /\ finished(p).said = p.said /\ finished(p).width = p.width
<1> DEFINE q == finished(p)
<1>1. q = [p EXCEPT !.over = TRUE, !.working = FALSE] /\ p \in Pages
  BY DEF finished, Views
<1> HIDE DEF q
<1>2. /\ q \in Pages /\ ~q.working /\ q.over /\ q.back = p.back /\ q.lines = p.lines
      /\ q.said = p.said /\ q.width = p.width /\ q.whole = p.whole /\ q.hits = p.hits
      /\ q.wanted = p.wanted
  BY <1>1 DEF Pages
<1>3. Matching(q, 0) = Matching(p, 0)
  BY <1>2 DEF Matching, HoldsWord
<1>4. q \in Views
  BY <1>2, <1>3 DEF Views, Matched, Quiet
<1> QED  BY <1>2, <1>4 DEF q

LEMMA NoteIs ==
  ASSUME NEW p \in Views
  PROVE  say(p, "note") \in Views /\ say(p, "note").working = p.working
<1>1. "note" \in Kinds /\ p \in Pages /\ Matched(p) /\ Quiet(p)
  BY DEF Kinds, Views
<1> QED  BY <1>1, SayIs DEF Views

LEMMA RunsAre ==
  ASSUME NEW p, NEW ks \in Runs(p)
  PROVE  ks \in Seq(Strokes)
<1>1. MaxKeys \in Nat
  BY ConversationAssumption
<1>2. ks \in BoundedSeq(Strokes, MaxKeys)
  BY DEF Runs, Strokes
<1>3. PICK m \in 0 .. MaxKeys : ks \in [1 .. m -> Strokes]
  BY <1>2 DEF BoundedSeq, SeqOf
<1>4. m \in Nat
  BY <1>1
<1> QED  BY <1>3, <1>4

LEMMA ConversationStarts == ConversationInit => ConversationInv
<1> SUFFICES ASSUME ConversationInit PROVE ConversationInv
  OBVIOUS
<1>1. PICK kinds \in Resumed : page = Opened(size.cols, kinds)
  BY DEF ConversationInit
<1>2. kinds \in Seq(Events) /\ size \in Sizes /\ size.cols \in Widths
  BY ConversationAssumption DEF ConversationInit, Widths
<1>3. page \in Views /\ ~page.working
  BY <1>1, <1>2, OpenedIs
<1>4. unseen = <<>> /\ unseen \in Seq(Events) /\ stage = "line"
  BY DEF ConversationInit
<1> QED  BY <1>2, <1>3, <1>4 DEF ConversationInv

LEMMA ConversationStep ==
  ASSUME ConversationInv, [ConversationNext]_conversationVars
  PROVE  ConversationInv'
<1>0. /\ page \in Views /\ page \in Pages /\ unseen \in Seq(Events) /\ unseen \in Seq(Kinds)
      /\ size \in Sizes /\ stage \in {"line", "asked", "turn", "left"}
      /\ (stage # "turn" => unseen = <<>>) /\ (stage \in {"line", "asked"} => ~page.working)
  BY EventsAreKinds DEF ConversationInv, Views
<1>12. <<>> \in Seq(Events)
  OBVIOUS
<1>1. CASE UNCHANGED conversationVars
  BY <1>0, <1>1 DEF ConversationInv, conversationVars
<1>2. ASSUME NEW z \in Sizes, Resize(z) PROVE ConversationInv'
  BY <1>0, <1>2 DEF ConversationInv, Resize
<1>3. ASSUME NEW ks \in Runs(page), LineBeat(ks) PROVE ConversationInv'
  <2>1. ks \in Seq(Strokes)
    BY RunsAre
  <2>2. page' \in Views /\ page'.working = page.working
    BY <1>3, <2>1, BeatIs DEF LineBeat
  <2>3. stage = "line" /\ unseen' = <<>> /\ size' = size /\ stage' \in {"line", "asked", "left"}
    BY <1>3 DEF LineBeat
  <2> QED  BY <1>0, <1>12, <2>2, <2>3 DEF ConversationInv
<1>4. ASSUME NEW ks \in Runs(page), TurnBeat(ks) PROVE ConversationInv'
  <2> DEFINE painted == frame(settle(Pressed(page, ks)), size)
  <2>1. ks \in Seq(Strokes)
    BY RunsAre
  <2>2. painted \in Views
    BY <2>1, BeatIs
  <2>3. /\ stage = "turn" /\ unseen' = <<>> /\ size' = size /\ stage' \in {"turn", "left"}
        /\ page' = IF Acts(ks) = "go" THEN painted ELSE finished(painted)
    BY <1>4 DEF TurnBeat
  <2> HIDE DEF painted
  <2>4. page' \in Views
    BY <2>2, <2>3, FinishedIs
  <2> QED  BY <1>0, <1>12, <2>3, <2>4 DEF ConversationInv
<1>5. ASSUME NEW ty \in Events, Write(ty) PROVE ConversationInv'
  <2>1. unseen' \in Seq(Events) /\ stage = "turn" /\ UNCHANGED <<page, size, stage>>
    BY <1>0, <1>5 DEF Write
  <2> QED  BY <1>0, <2>1 DEF ConversationInv
<1>6. ASSUME NEW failed \in BOOLEAN, TurnOver(failed) PROVE ConversationInv'
  <2> DEFINE over == finished(settle(page))
             said == IF failed THEN say(over, "note") ELSE over
  <2>1. settle(page) \in Views
    BY <1>0, SaysIs DEF settle
  <2>2. over \in Views /\ ~over.working
    BY <2>1, FinishedIs
  <2>3. page' = frame(said, size) /\ unseen' = <<>> /\ stage' = "line" /\ size' = size
    BY <1>6 DEF TurnOver
  <2> HIDE DEF over
  <2>4. said \in Views /\ ~said.working
    BY <2>2, NoteIs
  <2> HIDE DEF said
  <2>5. page' \in Views /\ ~page'.working
    BY <1>0, <2>3, <2>4, FrameIs
  <2> QED  BY <1>0, <1>12, <2>3, <2>5 DEF ConversationInv
<1>7. CASE Ask
  <2> DEFINE q == [page EXCEPT !.answer = 0, !.over = FALSE, !.working = TRUE]
  <2>1. page' = follow(q) /\ stage' = "turn" /\ UNCHANGED <<unseen, size>>
    BY <1>7 DEF Ask, started
  <2>2. /\ q \in Pages /\ q.working /\ q.lines = page.lines /\ q.width = page.width
        /\ q.whole = page.whole /\ q.hits = page.hits /\ q.wanted = page.wanted
    BY <1>0 DEF Pages
  <2> HIDE DEF q
  <2>3. Matching(q, 0) = Matching(page, 0)
    BY <2>2 DEF Matching, HoldsWord
  <2>4. q \in Views
    BY <1>0, <2>2, <2>3 DEF Views, Matched, Quiet
  <2>5. page' \in Views
    BY <2>1, <2>4, FollowIs
  <2> QED  BY <1>0, <2>1, <2>5 DEF ConversationInv
<1>8. CASE Fold
  <2> DEFINE q == [page EXCEPT !.whole = ~page.whole]
             c == fill(q, page.width)
  <2>1. /\ page' = say(c, "note") /\ stage = "asked" /\ stage' = "line"
        /\ UNCHANGED <<unseen, size>>
    BY <1>8 DEF Fold
  <2>2. q \in Pages /\ q.working = page.working /\ page.width \in Widths
    BY <1>0 DEF Pages
  <2> HIDE DEF q
  <2>3. c \in Views /\ c.working = page.working
    BY <2>2, FillIs DEF Views, Alike
  <2> HIDE DEF c
  <2>4. page' \in Views /\ page'.working = page.working
    BY <2>1, <2>3, NoteIs
  <2> QED  BY <1>0, <2>1, <2>4 DEF ConversationInv
<1>9. CASE Tell
  <2>1. /\ page' = say(page, "note") /\ stage = "asked" /\ stage' = "line"
        /\ UNCHANGED <<unseen, size>>
    BY <1>9 DEF Tell
  <2>2. page' \in Views /\ page'.working = page.working
    BY <1>0, <2>1, NoteIs
  <2> QED  BY <1>0, <2>1, <2>2 DEF ConversationInv
<1>10. CASE Leave
  BY <1>0, <1>10 DEF ConversationInv, Leave
<1>11. ASSUME NEW word \in BOOLEAN, Find(word) PROVE ConversationInv'
  <2>1. /\ page' = find(page, word) /\ stage = "asked" /\ stage' = "line"
        /\ UNCHANGED <<unseen, size>>
    BY <1>11 DEF Find
  <2>2. page' \in Views /\ page'.working = page.working
    BY <1>0, <2>1, FindIs DEF Same
  <2> QED  BY <1>0, <2>1, <2>2 DEF ConversationInv
<1> QED  BY <1>1, <1>2, <1>3, <1>4, <1>5, <1>6, <1>7, <1>8, <1>9, <1>10, <1>11
         DEF ConversationNext

-----------------------------------------------------------------------------
(* A view that settles what waits and is painted, and one whose turn ends. *)
LEMMA SettledKeeps ==
  ASSUME ConversationInv, page.back > 0, Foot(page) > 0,
         NEW p \in Views, p.back > 0, Foot(p) = Foot(page), p.width = page.width,
         NEW q, q = frame(p, size), q.width = page.width, WindowRows(q) > 0
  PROVE  InWindow(q, Foot(page))
<1>1. size \in Sizes
  BY DEF ConversationInv
<1>2. size.cols = p.width
  BY <1>1, FrameIs
<1> QED  BY <1>1, <1>2, FrameKeeps

(* The reader keeps their place: whatever settles, whatever room the block *)
(* takes or gives back and however the turn ends, the row at the foot of a *)
(* window that was scrolled back stays in it (Fire::say, fill, frame).     *)
THEOREM ReaderKeepsPlace == ConversationSpec => KeepsItsPlace
<1>1. ASSUME ConversationInv, page.back > 0, Foot(page) > 0, WindowRows(page') > 0,
             page'.width = page.width,
             Contains(page.said, "opening") => Contains(page'.said, "opening"),
             LineBeat(<<>>) \/ TurnBeat(<<>>) \/ TurnOver(TRUE) \/ TurnOver(FALSE)
      PROVE  InWindow(page', Foot(page))
  <2> DEFINE s == Says(page, unseen)
             f == finished(s)
  <2>1. page \in Views /\ unseen \in Seq(Events) /\ unseen \in Seq(Kinds) /\ size \in Sizes
    BY <1>1, EventsAreKinds DEF ConversationInv
  <2>2. s \in Views /\ s.width = page.width
    BY <2>1, SaysIs
  <2>3. (OpeningShows(page) => OpeningShows(s)) => s.back > 0 /\ Foot(s) = Foot(page)
    BY <1>1, <2>1, SaysKeeps
  <2>4. settle(page) = s
    BY DEF settle
  <2> HIDE DEF s
  <2>5. CASE LineBeat(<<>>) \/ TurnBeat(<<>>)
    <3>1. Pressed(page, <<>>) = page
      BY NoneIs
    <3>2. Acts(<<>>) = "go"
      BY DEF Acts
    <3>3. page' = frame(s, size)
      BY <2>4, <2>5, <3>1, <3>2 DEF LineBeat, TurnBeat
    <3>4. page'.said = s.said
      BY <2>1, <2>2, <3>3, FrameIs
    <3>5. s.back > 0 /\ Foot(s) = Foot(page)
      BY <1>1, <2>3, <3>4 DEF OpeningShows
    <3> QED  BY <1>1, <2>2, <3>3, <3>5, SettledKeeps
  <2>6. f \in Views /\ f.back = s.back /\ f.lines = s.lines /\ f.said = s.said /\ f.width = s.width
    BY <2>2, FinishedIs
  <2> HIDE DEF f
  <2>7. CASE TurnOver(FALSE)
    <3>1. page' = frame(f, size)
      BY <2>4, <2>7 DEF TurnOver, f
    <3>2. page'.said = s.said
      BY <2>1, <2>6, <3>1, FrameIs
    <3>3. s.back > 0 /\ Foot(s) = Foot(page)
      BY <1>1, <2>3, <3>2 DEF OpeningShows
    <3>4. f.back > 0 /\ Foot(f) = Foot(page)
      BY <2>6, <3>3 DEF Foot
    <3> QED  BY <1>1, <2>2, <2>6, <3>1, <3>4, SettledKeeps
  <2>8. CASE TurnOver(TRUE)
    <3> DEFINE t == say(f, "note")
    <3>1. page' = frame(t, size)
      BY <2>4, <2>8 DEF TurnOver, f
    <3>2. f \in Pages /\ Matched(f) /\ Quiet(f) /\ "note" \in Kinds
      BY <2>6 DEF Views, Kinds
    <3>3. /\ t \in Views /\ t.width = f.width /\ (OpeningShows(t) => OpeningShows(f))
          /\ (f.back > 0 => t.back > 0)
          /\ (f.back > 0 /\ Answered(f, "note") = f => Foot(t) = Foot(f))
      BY <3>2, SayIs DEF Views
    <3>4. Answered(f, "note") = f
      BY DEF Answered
    <3> HIDE DEF t
    <3>5. page'.said = t.said
      BY <2>1, <3>1, <3>3, FrameIs
    <3>6. OpeningShows(page) => OpeningShows(s)
      BY <1>1, <2>6, <3>3, <3>5 DEF OpeningShows
    <3>7. s.back > 0 /\ Foot(s) = Foot(page)
      BY <2>3, <3>6
    <3>8. f.back > 0 /\ Foot(f) = Foot(page)
      BY <2>6, <3>7 DEF Foot
    <3>9. t.back > 0 /\ Foot(t) = Foot(page) /\ t.width = page.width
      BY <2>2, <2>6, <3>3, <3>4, <3>8
    <3> QED  BY <1>1, <3>1, <3>3, <3>9, SettledKeeps
  <2> QED  BY <1>1, <2>5, <2>7, <2>8
<1>2. ConversationInv /\ [ConversationNext]_conversationVars
        => [/\ page.back > 0 /\ Foot(page) > 0 /\ WindowRows(page) > 0 /\ WindowRows(page') > 0
            /\ page'.width = page.width
            /\ Contains(page.said, "opening") => Contains(page'.said, "opening")
            /\ LineBeat(<<>>) \/ TurnBeat(<<>>) \/ TurnOver(TRUE) \/ TurnOver(FALSE)
            => InWindow(page', Foot(page))]_conversationVars
  BY <1>1
<1> QED  BY <1>2, ConversationStarts, ConversationStep, PTL DEF ConversationSpec, KeepsItsPlace

(* A search knows every row that holds the word and no other, and what is  *)
(* found, or walked to with no turn running, is in the window (Fire::fill, *)
(* mark, land).                                                            *)
THEOREM SearchShows == ConversationSpec => FindShows
<1>1. ASSUME ConversationInv, ConversationInv', page'.hits # <<>>, page'.body > 0, Lands
      PROVE  InWindow(page', page'.hits[page'.at + 1])
  <2>1. page \in Views /\ size \in Sizes /\ page' \in Views
    BY <1>1 DEF ConversationInv
  <2>2. CASE Find(TRUE)
    <3> DEFINE q == find(page, TRUE)
               h == q.hits[q.at + 1]
    <3>1. page' = q /\ stage = "asked"
      BY <2>2 DEF Find
    <3>2. q \in Views /\ Same(page, q) /\ (q.hits # <<>> => OnView(q, h))
      BY <2>1, FindIs
    <3> HIDE DEF q
    <3>3. q.over
      <4>1. ~page.working
        BY <1>1, <3>1 DEF ConversationInv
      <4> QED  BY <3>2, <4>1 DEF Same, Views, Quiet
    <3>4. WindowRows(q) = q.body /\ Room(q) = q.body
      BY <1>1, <3>1, <3>2, <3>3, WindowIs, RoomIs DEF Views
    <3> QED  BY <1>1, <3>1, <3>2, <3>4 DEF InWindow, Foot, OnView
  <2>3. ASSUME NEW forward \in BOOLEAN, NEW key, key \in {"ctrl-n", "ctrl-p"},
               moved(page, key) = WalkTo(page, forward), LineBeat(<<key>>),
               page'.body = page.body, page'.width = page.width
        PROVE  InWindow(page', page'.hits[page'.at + 1])
    <3> DEFINE q == WalkTo(page, forward)
               h == q.hits[q.at + 1]
    <3>1. stage = "line" /\ page' = frame(settle(Pressed(page, <<key>>)), size)
      BY <2>3 DEF LineBeat
    <3>2. unseen = <<>> /\ ~page.working
      BY <1>1, <3>1 DEF ConversationInv
    <3>3. page' = frame(q, size)
      <4>1. Pressed(page, <<key>>) = q
        BY <2>3, OneIs
      <4>2. settle(q) = q
        BY <3>2, NoneIs DEF settle
      <4> QED  BY <3>1, <4>1, <4>2
    <3>4. /\ q \in Views /\ Still(page, q)
          /\ (page.hits # <<>> => q.at < Len(page.hits) /\ OnView(q, page.hits[q.at + 1]))
      BY <2>1, WalkIs
    <3> HIDE DEF q
    <3>5. page.over /\ q.over /\ q.hits = page.hits /\ q.width = page.width /\ q.body = page.body
      BY <2>1, <3>2, <3>4 DEF Still, Views, Quiet
    <3>6. size.cols = q.width /\ size.body = q.body
      BY <2>1, <2>3, <3>3, <3>4, <3>5, FrameIs
    <3>7. page'.hits = q.hits /\ page'.at = q.at
      BY <2>1, <3>3, <3>4, <3>6, FrameIs
    <3>8. q.at < Len(q.hits) /\ OnView(q, h)
      BY <1>1, <3>4, <3>5, <3>7
    <3>9. h \in Nat \ {0}
      <4>1. q.at + 1 \in DOMAIN q.hits
        BY <3>4, <3>8 DEF Views, Pages
      <4>2. h \in 1 .. Len(q.lines)
        BY <3>4, <4>1, HitsAreRows
      <4> QED  BY <4>2
    <3> HIDE DEF h
    <3>10. InWindow(page', h)
      BY <1>1, <2>1, <2>3, <3>3, <3>4, <3>5, <3>6, <3>8, <3>9, FrameShows
    <3> QED  BY <3>7, <3>10 DEF h
  <2>4. CASE /\ LineBeat(<<"ctrl-n">>) \/ LineBeat(<<"ctrl-p">>)
             /\ page'.body = page.body /\ page'.width = page.width
    <3>1. moved(page, "ctrl-n") = WalkTo(page, TRUE) /\ moved(page, "ctrl-p") = WalkTo(page, FALSE)
      BY DEF moved
    <3> QED  BY <2>3, <2>4, <3>1
  <2> QED  BY <1>1, <2>2, <2>4 DEF Lands
<1>2. ConversationInv => HitsAreMatches
  BY DEF ConversationInv, Views, Matched, HitsAreMatches
<1>3. ASSUME ConversationInv, ConversationInv',
             HitsAreMatches'
      PROVE  [/\ HitsAreMatches'
              /\ page'.hits # <<>> /\ page'.body > 0 /\ Lands
                   => InWindow(page', page'.hits[page'.at + 1])]_conversationVars
  BY <1>1, <1>3
<1>4. ConversationInv' => HitsAreMatches'
  BY DEF ConversationInv, Views, Matched, HitsAreMatches
<1>5. ConversationInv /\ [ConversationNext]_conversationVars =>
        /\ ConversationInv'
        /\ [/\ HitsAreMatches'
            /\ page'.hits # <<>> /\ page'.body > 0 /\ Lands
                 => InWindow(page', page'.hits[page'.at + 1])]_conversationVars
  BY <1>3, <1>4, ConversationStep
<1> QED  BY <1>5, ConversationStarts, PTL DEF ConversationSpec, FindShows
=============================================================================
