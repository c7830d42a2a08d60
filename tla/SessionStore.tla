---------------------------- MODULE SessionStore ----------------------------
(***************************************************************************)
(* The sessions of one root directory: opening a journal and making it     *)
(* live, forking one into another, and the prompts and subscriptions that  *)
(* find a session through the store.  Calls run on tasks of their own, in  *)
(* one process or in several that share the root; the live map is locked   *)
(* for a lookup or an insert and for nothing in between.                   *)
(*                                                                         *)
(* A line is its seq, its type, the session it was first written in and,   *)
(* on a session/start, the fork_seq its header carries.  One append is one *)
(* step here and many in JsonlJournal; a turn is its two ends.             *)
(***************************************************************************)
EXTENDS Naturals, Sequences, FiniteSets

CONSTANTS
  Sessions,    \* session ids
  Processes,   \* processes sharing the root
  Callers,     \* tasks serving one call at a time
  ProcessOf,   \* the process of each caller
  Jobs,        \* the calls a caller makes: <<"fork", source, child>>, or
               \* <<op, id>> with op "create", "prompt" or "subscribe"
  MaxRecords,  \* bound: lines of a journal
  MaxOpens,    \* bound: journals opened, over all processes
  Crashes      \* whether a process may die

(* A call names the session it is about last, and a fork its source before. *)
Named(j) == j[Len(j)] \in Sessions /\ (j[1] = "fork" => j[2] \in Sessions)

ASSUME StoreAssumption ==
  /\ ProcessOf \in [Callers -> Processes]
  /\ \A c \in Callers : \A j \in Jobs[c] : Named(j)
  /\ MaxRecords \in Nat /\ MaxOpens \in Nat /\ Crashes \in BOOLEAN

VARIABLES
  exists,  \* the sessions that have a journal file
  journal, \* the committed lines of each
  mirror,  \* JsonlSessionLog::state.events of each handle opened so far
  live,    \* SessionStore::live of each process: a handle, or 0
  agent,   \* Runtime::agents of each process: the handle its engine writes
  busy,    \* SessionAgent::busy
  at,      \* where each caller is
  job,     \* the call it makes
  hold,    \* the handle it holds
  known,   \* the stored journal it read has a header
  seed     \* the lines its fork has yet to write

storeVars == <<exists, journal, mirror, live, agent, busy, at, job, hold, known, seed>>

disk == <<exists, journal>>
memory == <<live, agent, busy>>
local == <<job, hold, known, seed>>

Line(n, ty, s, fork) == [seq |-> n, ty |-> ty, in |-> s, fork |-> fork]

Types == {"session/start", "turn/start", "turn/end"}

Places == {"out", "looking", "reading", "opening", "repairing", "heading",
           "inserting", "taking", "agent", "prompting", "running", "watching",
           "forking", "creating", "seeding"}

StoreTypeOK ==
  /\ exists \subseteq Sessions
  /\ \A s \in Sessions : \A i \in DOMAIN journal[s] :
       journal[s][i] \in [seq : Nat, ty : Types, in : Sessions, fork : Nat]
  /\ Len(mirror) <= MaxOpens
  /\ live \in [Processes -> [Sessions -> 0 .. Len(mirror)]]
  /\ agent \in [Processes -> [Sessions -> 0 .. Len(mirror)]]
  /\ busy \in [Processes -> [Sessions -> BOOLEAN]]
  /\ at \in [Callers -> Places]
  /\ hold \in [Callers -> 0 .. Len(mirror)]
  /\ known \in [Callers -> BOOLEAN]

Nowhere == [s \in Sessions |-> 0]

StoreInit ==
  /\ exists = {} /\ journal = [s \in Sessions |-> <<>>] /\ mirror = <<>>
  /\ live = [p \in Processes |-> Nowhere]
  /\ agent = [p \in Processes |-> Nowhere]
  /\ busy = [p \in Processes |-> [s \in Sessions |-> FALSE]]
  /\ at = [c \in Callers |-> "out"]
  /\ job = [c \in Callers |-> <<>>]
  /\ hold = [c \in Callers |-> 0]
  /\ known = [c \in Callers |-> FALSE]
  /\ seed = [c \in Callers |-> <<>>]

-----------------------------------------------------------------------------

(* replay: every seq is the index of its line. *)
Readable(l) == \A i \in DOMAIN l : l[i].seq = i - 1

HasHeader(l) == l # <<>> /\ l[1].ty = "session/start"

(* The last turn/start or turn/end decides. *)
OpenTurn(l) ==
  \E i \in DOMAIN l : /\ l[i].ty = "turn/start"
                      /\ \A j \in i + 1 .. Len(l) : l[j].ty # "turn/start" /\ l[j].ty # "turn/end"

Goto(c, place) == at' = [at EXCEPT ![c] = place]

Store(c) == ProcessOf[c]
Op(c) == job[c][1]
Id(c) == job[c][Len(job[c])]
Live(c) == live[Store(c)][Id(c)]
Journal(c) == journal[Id(c)]

(* SessionLog::append through a handle: the seq is the length of its own   *)
(* mirror, and the line goes where the file ends.                          *)
AppendLine(h, s, ty, fork) ==
  LET line == Line(Len(mirror[h]), ty, s, fork)
  IN  /\ Len(journal[s]) < MaxRecords
      /\ journal' = [journal EXCEPT ![s] = Append(@, line)]
      /\ mirror' = [mirror EXCEPT ![h] = Append(@, line)]
      /\ UNCHANGED exists

-----------------------------------------------------------------------------
(* session.create, and the open every other call goes through.             *)

Call(c, j) == /\ at[c] = "out"
              /\ job' = [job EXCEPT ![c] = j]
              /\ Goto(c, IF j[1] = "fork" THEN "forking" ELSE "looking")
              /\ UNCHANGED <<disk, mirror, memory, hold, known, seed>>

(* After a live session is at hand: what the call wanted it for.           *)
Onwards(c) == CASE Op(c) = "prompt"    -> "agent"
                [] Op(c) = "subscribe" -> "watching"
                [] OTHER               -> "out"

FindLive(c) == /\ at[c] = "looking" /\ Live(c) # 0
               /\ hold' = [hold EXCEPT ![c] = Live(c)]
               /\ Goto(c, Onwards(c))
               /\ UNCHANGED <<disk, mirror, memory, job, known, seed>>

Miss_Ignores(c) ==
  /\ at[c] = "looking"
  /\ Goto(c, IF Op(c) \in {"prompt", "subscribe"} /\ Id(c) \notin exists
             THEN "out" ELSE "reading")
  /\ UNCHANGED <<disk, mirror, memory, local>>

(* Only create may name a session that has no journal.                     *)
Miss(c) == /\ at[c] = "looking" /\ Live(c) = 0
           /\ Goto(c, IF Op(c) \in {"prompt", "subscribe"} /\ Id(c) \notin exists
                      THEN "out" ELSE "reading")
           /\ UNCHANGED <<disk, mirror, memory, local>>

ReadStored(c) ==
  /\ at[c] = "reading"
  /\ known' = [known EXCEPT ![c] = HasHeader(Journal(c))]
  /\ Goto(c, IF Readable(Journal(c)) THEN "opening" ELSE "out")
  /\ UNCHANGED <<disk, mirror, memory, job, hold, seed>>

(* Opening takes no lock on the file, and parses its lines without reading *)
(* their seqs.                                                             *)
OpenLog(c) == /\ at[c] = "opening" /\ Len(mirror) < MaxOpens
              /\ mirror' = Append(mirror, Journal(c))
              /\ exists' = exists \cup {Id(c)}
              /\ hold' = [hold EXCEPT ![c] = Len(mirror) + 1]
              /\ Goto(c, "repairing")
              /\ UNCHANGED <<journal, memory, job, known, seed>>

Repair(c) == /\ at[c] = "repairing"
             /\ IF OpenTurn(mirror[hold[c]])
                THEN AppendLine(hold[c], Id(c), "turn/end", 0)
                ELSE UNCHANGED <<disk, mirror>>
             /\ Goto(c, "heading")
             /\ UNCHANGED <<memory, local>>

WriteHeader(c) == /\ at[c] = "heading"
                  /\ IF known[c] THEN UNCHANGED <<disk, mirror>>
                     ELSE AppendLine(hold[c], Id(c), "session/start", 0)
                  /\ Goto(c, "inserting")
                  /\ UNCHANGED <<memory, local>>

(* The insert replaces what another opener has put there since the lookup. *)
Insert(c) == /\ at[c] = "inserting"
             /\ live' = [live EXCEPT ![Store(c)][Id(c)] = hold[c]]
             /\ Goto(c, IF Op(c) \in {"prompt", "subscribe"} THEN "taking" ELSE "out")
             /\ UNCHANGED <<disk, mirror, agent, busy, local>>

Take(c) == /\ at[c] = "taking"
           /\ hold' = [hold EXCEPT ![c] = Live(c)]
           /\ Goto(c, Onwards(c))
           /\ UNCHANGED <<disk, mirror, memory, job, known, seed>>

Unsubscribe(c) == /\ at[c] = "watching"
                  /\ Goto(c, "out")
                  /\ UNCHANGED <<disk, mirror, memory, local>>

Opening(c) == \/ FindLive(c) \/ Miss(c) \/ ReadStored(c) \/ OpenLog(c)
              \/ Repair(c) \/ WriteHeader(c) \/ Insert(c) \/ Take(c)

-----------------------------------------------------------------------------
(* agent.prompt.                                                           *)

(* The agent already in the map wins, whatever handle this caller holds.   *)
AgentFor(c) ==
  /\ at[c] = "agent"
  /\ agent' = [agent EXCEPT ![Store(c)][Id(c)] = IF @ = 0 THEN hold[c] ELSE @]
  /\ Goto(c, "prompting")
  /\ UNCHANGED <<disk, mirror, live, busy, local>>

TurnStart(c) ==
  /\ at[c] = "prompting"
  /\ IF busy[Store(c)][Id(c)]
     THEN Goto(c, "out") /\ UNCHANGED <<disk, mirror, busy>>
     ELSE /\ busy' = [busy EXCEPT ![Store(c)][Id(c)] = TRUE]
          /\ AppendLine(agent[Store(c)][Id(c)], Id(c), "turn/start", 0)
          /\ Goto(c, "running")
  /\ UNCHANGED <<live, agent, local>>

TurnEnd(c) ==
  /\ at[c] = "running"
  /\ AppendLine(agent[Store(c)][Id(c)], Id(c), "turn/end", 0)
  /\ busy' = [busy EXCEPT ![Store(c)][Id(c)] = FALSE]
  /\ Goto(c, "out")
  /\ UNCHANGED <<live, agent, local>>

-----------------------------------------------------------------------------
(* session.fork.                                                           *)

(* resolve: a live session, or a journal on disk.                          *)
Resolves(c, s) == live[Store(c)][s] # 0 \/ s \in exists

Child(c) == Id(c)
Source(c) == job[c][2]

Refuse(c) == Goto(c, "out") /\ UNCHANGED <<disk, mirror, memory, local>>

ForkRefused(c) == /\ at[c] = "forking"
                  /\ Resolves(c, Child(c)) \/ ~Resolves(c, Source(c))
                  /\ Refuse(c)

(* read_all: a live session is read from memory, a cold one from disk.     *)
History(c) == IF live[Store(c)][Source(c)] # 0
              THEN mirror[live[Store(c)][Source(c)]] ELSE journal[Source(c)]

Inherited_All(l, b, c) ==
  <<Line(0, "session/start", Child(c), b)>> \o Tail(l)

(* The prefix through seq b, the child's header in place of the first.     *)
Inherited(l, b, c) ==
  <<Line(0, "session/start", Child(c), b)>> \o SubSeq(l, 2, b + 1)

(* A boundary the fork takes: one that exists, outside any turn.           *)
Boundary(l, b) == b < Len(l) /\ ~OpenTurn(SubSeq(l, 1, b + 1))

ReadParent(c) ==
  /\ at[c] = "forking" /\ ~Resolves(c, Child(c)) /\ Resolves(c, Source(c))
  /\ LET l == History(c)
     IN  \/ /\ ~HasHeader(l) \/ (live[Store(c)][Source(c)] = 0 /\ ~Readable(l))
            /\ Refuse(c)
         \/ /\ HasHeader(l) /\ (live[Store(c)][Source(c)] # 0 \/ Readable(l))
            /\ \E b \in 0 .. MaxRecords :
                 /\ Boundary(l, b)
                 /\ seed' = [seed EXCEPT ![c] = Inherited(l, b, c)]
            /\ Goto(c, "creating")
            /\ UNCHANGED <<disk, mirror, memory, job, hold, known>>

(* create_new: a file that is there by now refuses the seed.               *)
CreateSeed(c) ==
  /\ at[c] = "creating"
  /\ IF Child(c) \in exists THEN Refuse(c)
     ELSE /\ exists' = exists \cup {Child(c)}
          /\ Goto(c, "seeding")
          /\ UNCHANGED <<journal, mirror, memory, local>>

SeedLine(c) ==
  /\ at[c] = "seeding" /\ seed[c] # <<>>
  /\ journal' = [journal EXCEPT ![Child(c)] = Append(@, Head(seed[c]))]
  /\ seed' = [seed EXCEPT ![c] = Tail(@)]
  /\ UNCHANGED <<exists, mirror, memory, at, job, hold, known>>

(* The seeded child is opened through the ordinary path.                   *)
Seeded(c) == /\ at[c] = "seeding" /\ seed[c] = <<>>
             /\ Goto(c, "looking")
             /\ UNCHANGED <<disk, mirror, memory, local>>

Fork(c) == ForkRefused(c) \/ ReadParent(c) \/ CreateSeed(c) \/ SeedLine(c) \/ Seeded(c)

-----------------------------------------------------------------------------

(* A process dies: its maps, its handles and its calls go with it.         *)
Crash(p) ==
  /\ Crashes
  /\ \E s \in Sessions : live[p][s] # 0 \/ \E c \in Callers : Store(c) = p /\ at[c] # "out"
  /\ live' = [live EXCEPT ![p] = Nowhere]
  /\ agent' = [agent EXCEPT ![p] = Nowhere]
  /\ busy' = [busy EXCEPT ![p] = [s \in Sessions |-> FALSE]]
  /\ at' = [c \in Callers |-> IF Store(c) = p THEN "out" ELSE at[c]]
  /\ hold' = [c \in Callers |-> IF Store(c) = p THEN 0 ELSE hold[c]]
  /\ seed' = [c \in Callers |-> IF Store(c) = p THEN <<>> ELSE seed[c]]
  /\ UNCHANGED <<disk, mirror, job, known>>

StoreNext ==
  \/ \E c \in Callers :
       \/ \E j \in Jobs[c] : Call(c, j)
       \/ Opening(c) \/ Unsubscribe(c)
       \/ AgentFor(c) \/ TurnStart(c) \/ TurnEnd(c)
       \/ Fork(c)
  \/ \E p \in Processes : Crash(p)

StoreSpec == StoreInit /\ [][StoreNext]_storeVars

-----------------------------------------------------------------------------

(* No two calls make a journal live at a time, and none does while another *)
(* process has it: nothing in the code keeps them apart, so this is what   *)
(* it takes of its callers.                                                *)
OpensAt == {"reading", "opening", "repairing", "heading", "inserting", "seeding"}

OpensApart ==
  \A c \in Callers : at[c] \in OpensAt =>
    /\ \A d \in Callers \ {c} : at[d] \in OpensAt => Id(d) # Id(c)
    /\ \A p \in Processes \ {Store(c)} : live[p][Id(c)] = 0

(* Each session has one caller that opens it, prompts it or forks into it. *)
OneCaller ==
  \A c, d \in Callers : c # d =>
    \A j \in Jobs[c], k \in Jobs[d] : j[Len(j)] # k[Len(k)]

(* What a live session remembers is what its journal holds: readers and    *)
(* subscribers are served from the one and a restart from the other.       *)
LiveIsJournal ==
  \A p \in Processes, s \in Sessions :
    live[p][s] # 0 => mirror[live[p][s]] = journal[s]

(* Neither journal of a fork reaches the other: what a child has from its  *)
(* source is what the source holds at the same seq, none of it lies past   *)
(* the fork_seq of its header, and a source holds only its own lines       *)
(* (fork, seed; contract 4.4.6).                                           *)
ForkIsPrefix ==
  \A s \in Sessions : \A i \in DOMAIN journal[s] :
    LET line == journal[s][i]
    IN  line.in # s => /\ i <= journal[s][1].fork + 1
                       /\ i <= Len(journal[line.in]) /\ journal[line.in][i] = line

(* The memory of a session, its file, and the files it was forked from     *)
(* tell one history.                                                       *)
JournalsAgree == LiveIsJournal /\ ForkIsPrefix

-----------------------------------------------------------------------------
(* What the code says of itself and does not keep: TLC refutes each of     *)
(* these (README, "Disagreements").                                        *)

(* No journal is ever put into a state a later open refuses: every line    *)
(* carries its own index, whoever opens, forks, prompts or dies (append,   *)
(* seed, replay; contract 4.4.6 "cannot reach that state").                *)
JournalsReplay == \A s \in Sessions : Readable(journal[s])

(* A child's lines through its fork_seq come from its source, and those    *)
(* after it are its own.                                                   *)
ForkKeepsHistory ==
  \A p \in Processes, s \in Sessions :
    live[p][s] # 0 /\ HasHeader(journal[s]) =>
      \A i \in 2 .. Len(journal[s]) :
        (journal[s][i].in = s) <=> (i > journal[s][1].fork + 1)

(* Everything appended to a journal reaches those who subscribed to it.    *)
SubscribersHear ==
  \A c \in Callers :
    at[c] = "watching" /\ Readable(Journal(c)) => mirror[hold[c]] = Journal(c)

(* No session a turn runs on has its turn closed by an open's repair: the  *)
(* turn of a running call is open (create, repair).                        *)
RunningTurnIsOpen ==
  \A c \in Callers : at[c] = "running" => OpenTurn(journal[Id(c)])

(* At most one process has a session open for work.                        *)
OneWriter ==
  \A s \in Sessions, p, q \in Processes :
    live[p][s] # 0 /\ live[q][s] # 0 => p = q

=============================================================================
