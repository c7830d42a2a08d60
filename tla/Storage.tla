------------------------------ MODULE Storage ------------------------------
(***************************************************************************)
(* The key-value store that keeps its tables in one file and the domains   *)
(* that write through it: a publish through a temporary file, its failures *)
(* and the ends of the machine at every step of it, the roll-back, the     *)
(* version a domain stamps before its first record, and the check of it    *)
(* when a domain is opened.                                                *)
(*                                                                         *)
(* A store holds one domain's stamp and one table of one record; a record  *)
(* is the version of the build that wrote it.                              *)
(***************************************************************************)
EXTENDS Naturals, FiniteSets

CONSTANTS
  Openers,     \* stores open on the one file
  Builds,      \* domains open on them
  StoreOf(_),  \* which store a domain is routed to
  Versions,    \* versions a build may declare
  Absent,      \* no stamp, no record, no file
  Partial,     \* a file that does not parse
  MaxWrites,   \* bound: writes of all domains
  MaxLosses    \* bound: ends of the process or of the machine

Tables == [stamp : Versions \cup {Absent}, record : Versions \cup {Absent}]

ASSUME StorageAssumption ==
  /\ \A b \in Builds : StoreOf(b) \in Openers
  /\ Absent \notin Versions /\ Partial \notin Versions
  /\ Absent # Partial /\ {Absent, Partial} \cap Tables = {}
  /\ MaxWrites \in Nat /\ MaxLosses \in Nat

VARIABLES
  stored,   \* what the path holds, and whether that is on the disk
  older,    \* what it may hold again after a power loss
  temp,     \* the temporary file, likewise
  tables,   \* each store's tables in memory
  publishing,  \* each store's publish: where it is and what it puts back
  domain,   \* each domain's version, or Absent while it is not open
  write,    \* each domain's write: where it is and the record it brings
  writes, losses

storageVars == <<stored, older, temp, tables, publishing, domain, write, writes, losses>>
onDisk == <<stored, older, temp>>

Empty == [stamp |-> Absent, record |-> Absent]
Held(content, synced) == [content |-> content, synced |-> synced]
Nothing == Held(Absent, TRUE)
Resting == [at |-> "idle", restore |-> Empty]
NoWrite == [at |-> "idle", record |-> Absent]
Closed == [at |-> "closed", restore |-> Empty]

Reading(f) == IF f.content = Absent THEN Empty ELSE f.content

StorageInit ==
  /\ stored = Nothing /\ older = {Absent} /\ temp = Nothing
  /\ tables = [s \in Openers |-> Empty]
  /\ publishing = [s \in Openers |-> Closed]
  /\ domain = [b \in Builds |-> Absent]
  /\ write = [b \in Builds |-> NoWrite]
  /\ writes = 0 /\ losses = 0

(* Store::open reads the file; one that does not parse is refused.         *)
OpenStore(s) ==
  /\ publishing[s].at = "closed" /\ stored.content # Partial
  /\ tables' = [tables EXCEPT ![s] = Reading(stored)]
  /\ publishing' = [publishing EXCEPT ![s] = Resting]
  /\ UNCHANGED <<onDisk, domain, write, writes, losses>>

OpenDomain_Unchecked(b) ==
  LET s == StoreOf(b) IN
  /\ domain[b] = Absent /\ publishing[s].at = "idle"
  /\ \A c \in Builds : StoreOf(c) = s => write[c].at = "idle"
  /\ \E v \in Versions : domain' = [domain EXCEPT ![b] = v]
  /\ UNCHANGED <<onDisk, tables, publishing, write, writes, losses>>

(* Domain::open checks the stamp there is and writes none.                 *)
OpenDomain(b) ==
  LET s == StoreOf(b) IN
  /\ domain[b] = Absent /\ publishing[s].at = "idle"
  /\ \A c \in Builds : StoreOf(c) = s => write[c].at = "idle"
  /\ \E v \in Versions :
       /\ tables[s].stamp \in {Absent, v}
       /\ domain' = [domain EXCEPT ![b] = v]
  /\ UNCHANGED <<onDisk, tables, publishing, write, writes, losses>>

--------------------------------------------------------------------------
(* mutate: the change is made in memory, then the whole file is published. *)
Mutate(s, after) ==
  /\ publishing[s].at = "idle"
  /\ publishing' = [publishing EXCEPT ![s] = [at |-> "begun", restore |-> tables[s]]]
  /\ tables' = [tables EXCEPT ![s] = after]

PublishAt(s, place) == publishing[s].at = place
Goes(s, place) == publishing' = [publishing EXCEPT ![s].at = place]

Create(s) ==
  /\ PublishAt(s, "begun") /\ Goes(s, "created")
  /\ temp' = Held(Partial, FALSE)
  /\ UNCHANGED <<stored, older, tables, domain, write, writes, losses>>

WriteAll(s) ==
  /\ PublishAt(s, "created") /\ Goes(s, "written")
  /\ temp' = IF temp.content = Absent THEN temp ELSE Held(tables[s], FALSE)
  /\ UNCHANGED <<stored, older, tables, domain, write, writes, losses>>

SyncAll(s) ==
  /\ PublishAt(s, "written") /\ Goes(s, "synced")
  /\ temp' = [temp EXCEPT !.synced = TRUE]
  /\ UNCHANGED <<stored, older, tables, domain, write, writes, losses>>

Rename(s) ==
  /\ PublishAt(s, "synced") /\ temp.content # Absent /\ Goes(s, "renamed")
  /\ older' = older \cup {stored.content}
  /\ stored' = temp /\ temp' = Nothing
  /\ UNCHANGED <<tables, domain, write, writes, losses>>

(* The directory is synced, or is not: that failure is nobody's.           *)
Published(s) ==
  /\ PublishAt(s, "renamed") /\ Goes(s, "published")
  /\ older' \in {{stored.content}, older}
  /\ UNCHANGED <<stored, temp, tables, domain, write, writes, losses>>

PublishFails_Kept(s) ==
  /\ publishing[s].at \in {"begun", "created", "written", "synced"}
  /\ Goes(s, "failed")
  /\ temp' = Nothing
  /\ UNCHANGED <<stored, older, tables, domain, write, writes, losses>>

(* A step fails: the temporary is removed and memory is put back.          *)
PublishFails(s) ==
  /\ publishing[s].at \in {"begun", "created", "written", "synced"}
  /\ Goes(s, "failed")
  /\ temp' = Nothing
  /\ tables' = [tables EXCEPT ![s] = publishing[s].restore]
  /\ UNCHANGED <<stored, older, domain, write, writes, losses>>

--------------------------------------------------------------------------
(* Domain::write holds its store's lock: the stamp if there is none, then  *)
(* the record; Domain::delete is a write of no record, and removing what   *)
(* is not there publishes nothing.                                         *)
Free(s) == \A b \in Builds : StoreOf(b) = s => write[b].at = "idle"

BeginWrite(b) ==
  LET s == StoreOf(b) IN
  /\ domain[b] # Absent /\ Free(s) /\ publishing[s].at = "idle" /\ writes < MaxWrites
  /\ \E record \in {domain[b], Absent} :
       /\ record = Absent => tables[s].record # Absent
       /\ write' = [write EXCEPT ![b] = [at |-> IF record = Absent \/ tables[s].stamp # Absent
                                                THEN "stamped" ELSE "begun",
                                         record |-> record]]
  /\ writes' = writes + 1
  /\ UNCHANGED <<onDisk, tables, publishing, domain, losses>>

Stamp(b) ==
  LET s == StoreOf(b) IN
  /\ write[b].at = "begun" /\ Mutate(s, [tables[s] EXCEPT !.stamp = domain[b]])
  /\ write' = [write EXCEPT ![b].at = "stamping"]
  /\ UNCHANGED <<onDisk, domain, writes, losses>>

PutRecord(b) ==
  LET s == StoreOf(b) IN
  /\ write[b].at = "stamped" /\ Mutate(s, [tables[s] EXCEPT !.record = write[b].record])
  /\ write' = [write EXCEPT ![b].at = "putting"]
  /\ UNCHANGED <<onDisk, domain, writes, losses>>

(* A publish is over: the write goes on, or its caller is told.            *)
WriteGoesOn(b) ==
  LET s == StoreOf(b) IN
  /\ write[b].at \in {"stamping", "putting"} /\ publishing[s].at \in {"published", "failed"}
  /\ publishing' = [publishing EXCEPT ![s] = Resting]
  /\ write' = [write EXCEPT ![b] =
       IF write[b].at = "stamping" /\ publishing[s].at = "published"
       THEN [write[b] EXCEPT !.at = "stamped"] ELSE NoWrite]
  /\ UNCHANGED <<onDisk, tables, domain, writes, losses>>

--------------------------------------------------------------------------
Ends ==
  /\ losses < MaxLosses /\ losses' = losses + 1
  /\ tables' = [s \in Openers |-> Empty]
  /\ publishing' = [s \in Openers |-> Closed]
  /\ domain' = [b \in Builds |-> Absent]
  /\ write' = [b \in Builds |-> NoWrite]
  /\ UNCHANGED writes

ProcessEnds == Ends /\ UNCHANGED onDisk

(* What was not synced may be gone, and a rename not synced undone.        *)
MachineEnds ==
  /\ Ends
  /\ \E content \in older \cup {IF stored.synced THEN stored.content ELSE Partial} :
       stored' = Held(content, TRUE) /\ older' = {content}
  /\ temp' = Nothing

StorageNext ==
  \/ \E s \in Openers : \/ OpenStore(s) \/ Create(s) \/ WriteAll(s) \/ SyncAll(s)
                        \/ Rename(s) \/ Published(s) \/ PublishFails(s)
  \/ \E b \in Builds : OpenDomain(b) \/ BeginWrite(b) \/ Stamp(b) \/ PutRecord(b) \/ WriteGoesOn(b)
  \/ ProcessEnds \/ MachineEnds

StorageSpec == StorageInit /\ [][StorageNext]_storageVars

--------------------------------------------------------------------------
StorageTypeOK ==
  /\ stored.content \in Tables \cup {Absent, Partial} /\ temp.content \in Tables \cup {Absent, Partial}
  /\ tables \in [Openers -> Tables]
  /\ domain \in [Builds -> Versions \cup {Absent}]
  /\ writes \in Nat /\ losses \in Nat

(* Memory never gets ahead of the disk: between two writes a store serves  *)
(* what a fresh open would read, whichever steps of a publish failed, and  *)
(* a fresh open can read what any end left.                                *)
MemoryIsStored ==
  /\ stored.content # Partial
  /\ \A s \in Openers : publishing[s].at \in {"idle", "published", "failed"} =>
       tables[s] = Reading(stored)

(* A record is dated: the file never holds one whose build's version is    *)
(* not the one stamped beside it.                                          *)
RecordsAreDated ==
  stored.content \in Tables /\ stored.content.record # Absent
    => stored.content.stamp = stored.content.record

(* What a store serves is what is stored, and what is stored can be dated: *)
(* over publishes that fail at any step, ends between two writes, and      *)
(* other builds (json.rs, publish; domain.rs, open and put).               *)
StoredAndDated == MemoryIsStored /\ RecordsAreDated
=============================================================================
