-------------------------------- MODULE Jobs --------------------------------
(***************************************************************************)
(* Background commands and the durable record of them: JobStore over one   *)
(* file of transitions, the task that runs a command, and the tool that    *)
(* kills one.                                                              *)
(*                                                                         *)
(* Every session of a harness builds its tools over a store of its own,    *)
(* and all of those open the one file.  A check and the append it allows   *)
(* are two critical sections, so they are two steps.  An id is the number  *)
(* minted for it; labels, times and outputs are left out.                  *)
(***************************************************************************)
EXTENDS Naturals, Sequences, FiniteSets

CONSTANTS
  Stores,    \* the sessions that compose shell tools
  MaxJobs,   \* bound: ids a store may mint
  MaxDeaths  \* bound: deaths of the process

ASSUME JobsAssumption == MaxJobs \in Nat /\ MaxDeaths \in Nat

Ids == 1..MaxJobs
Ends == {"completed", "failed"}
Terminal == Ends \cup {"cancelled", "interrupted"}

VARIABLES
  lines,   \* the committed transitions of the file
  tail,    \* the file ends in a record that was cut short
  opening, \* how far each store's open has come
  jobs,    \* State::jobs of each store
  minted,  \* State::minted
  committed, \* the records each open found
  repairs, \* the jobs an open has yet to close
  work,    \* where the task of each command is
  ending,  \* how its command ended
  kill,    \* where each session's job_kill is, and the job it names
  deaths

jobsVars == <<lines, tail, opening, committed, jobs, minted, repairs, work, ending, kill,
              deaths>>
disk == <<lines, tail>>
opens == <<opening, committed, repairs>>
calls == <<work, ending, kill>>
idle == [at |-> "idle", id |-> 0]
NoJob == [status |-> "none", session |-> "none"]
NoJobs == [id \in Ids |-> NoJob]

JobsInit == /\ lines = <<>> /\ tail = FALSE /\ deaths = 0
            /\ opening = [s \in Stores |-> "closed"]
            /\ jobs = [s \in Stores |-> NoJobs]
            /\ minted = [s \in Stores |-> 0]
            /\ repairs = [s \in Stores |-> {}] /\ committed = [s \in Stores |-> 0]
            /\ work = [s \in Stores |-> [id \in Ids |-> "none"]]
            /\ ending = [s \in Stores |-> [id \in Ids |-> "none"]]
            /\ kill = [s \in Stores |-> idle]

-----------------------------------------------------------------------------
(* The record: a transition names a job, what happened to it and by whom.  *)

(* A job is introduced once, and only an introduced one changes.           *)
folded(js, t) ==
  IF (t.op = "queue") = (js[t.id] = NoJob)
  THEN [js EXCEPT ![t.id] =
          [status |-> CASE t.op = "queue" -> "queued"
                        [] t.op = "start" -> "running"
                        [] OTHER -> t.op,
           session |-> IF t.op = "queue" THEN t.session ELSE @.session]]
  ELSE js

scan == LET Fold[n \in 0..Len(lines)] ==
              IF n = 0 THEN NoJobs ELSE folded(Fold[n - 1], lines[n])
        IN  Fold[Len(lines)]

(* Written, synced and only then folded, under the store's lock.           *)
append(s, id, op) ==
  LET t == [id |-> id, op |-> op, session |-> s]
  IN  /\ lines' = Append(lines, t)
      /\ jobs' = [jobs EXCEPT ![s] = folded(@, t)]

live(job) == job.status \in {"queued", "running"}

(* A death forgets everything but the file, and cuts a write in two.       *)
Die == /\ deaths < MaxDeaths
       /\ deaths' = deaths + 1
       /\ tail' \in {tail, TRUE}
       /\ opening' = [s \in Stores |-> "closed"]
       /\ jobs' = [s \in Stores |-> NoJobs]
       /\ minted' = [s \in Stores |-> 0]
       /\ repairs' = [s \in Stores |-> {}] /\ committed' = [s \in Stores |-> 0]
       /\ work' = [s \in Stores |-> [id \in Ids |-> "none"]]
       /\ ending' = [s \in Stores |-> [id \in Ids |-> "none"]]
       /\ kill' = [s \in Stores |-> idle]
       /\ UNCHANGED lines

(* open: read what is committed, cut off what is not, close what was live. *)
Open(s) == /\ opening[s] = "closed"
           /\ jobs' = [jobs EXCEPT ![s] = scan]
           /\ opening' = [opening EXCEPT ![s] = "scanned"]
           /\ committed' = [committed EXCEPT ![s] = Len(lines)]
           /\ UNCHANGED <<disk, minted, repairs, calls, deaths>>

(* What is past the records it read is cut, whoever wrote it since.        *)
Cut(s) == /\ opening[s] = "scanned"
          /\ lines' = SubSeq(lines, 1, committed[s])
          /\ tail' = FALSE
          /\ repairs' = [repairs EXCEPT ![s] = {id \in Ids : live(jobs[s][id])}]
          /\ opening' = [opening EXCEPT ![s] = "repairing"]
          /\ UNCHANGED <<committed, jobs, minted, calls, deaths>>

Close(s, id) == /\ opening[s] = "repairing" /\ id \in repairs[s]
                /\ append(s, id, "interrupted")
                /\ repairs' = [repairs EXCEPT ![s] = @ \ {id}]
                /\ UNCHANGED <<tail, opening, committed, minted, calls, deaths>>

Opened(s) == /\ opening[s] = "repairing" /\ repairs[s] = {}
             /\ opening' = [opening EXCEPT ![s] = "open"]
             /\ UNCHANGED <<disk, jobs, committed, minted, repairs, calls, deaths>>

-----------------------------------------------------------------------------
(* start_in_background: the record, then the task.                         *)

Move(s, id, from, to) == work[s][id] = from /\ work' = [work EXCEPT ![s][id] = to]

Mint_Forgetful(s, id) ==
  /\ opening[s] = "open"
  /\ id = minted[s] + 1
  /\ minted' = [minted EXCEPT ![s] = id]
  /\ Move(s, id, "none", "minted")
  /\ UNCHANGED <<disk, opens, jobs, ending, kill, deaths>>

(* The next number no job of this store goes by.                           *)
Mint(s, id) ==
  /\ opening[s] = "open"
  /\ id > minted[s] /\ jobs[s][id] = NoJob
  /\ \A other \in (minted[s] + 1)..(id - 1) : jobs[s][other] # NoJob
  /\ minted' = [minted EXCEPT ![s] = id]
  /\ Move(s, id, "none", "minted")
  /\ UNCHANGED <<disk, opens, jobs, ending, kill, deaths>>

Queue(s, id) == /\ Move(s, id, "minted", "spawned")
                /\ append(s, id, "queue")
                /\ UNCHANGED <<tail, opens, minted, ending, kill, deaths>>

(* The task gives up on a job that is no longer queued.                    *)
Start(s, id) == /\ \/ jobs[s][id].status = "queued" /\ Move(s, id, "spawned", "starting")
                   \/ jobs[s][id].status # "queued" /\ Move(s, id, "spawned", "done")
                /\ UNCHANGED <<disk, opens, jobs, minted, ending, kill, deaths>>

Started(s, id) == /\ Move(s, id, "starting", "running")
                  /\ append(s, id, "start")
                  /\ UNCHANGED <<tail, opens, minted, ending, kill, deaths>>

(* The command ends, or was refused: either way the job is owed an end.    *)
CommandEnds(s, id, how) == /\ Move(s, id, "running", "exited")
                    /\ ending' = [ending EXCEPT ![s][id] = how]
                    /\ UNCHANGED <<disk, opens, jobs, minted, kill, deaths>>

Finish(s, id) == /\ \/ live(jobs[s][id]) /\ Move(s, id, "exited", "finishing")
                    \/ ~live(jobs[s][id]) /\ Move(s, id, "exited", "done")
                 /\ UNCHANGED <<disk, opens, jobs, minted, ending, kill, deaths>>

Finished(s, id) == /\ Move(s, id, "finishing", "done")
                   /\ append(s, id, ending[s][id])
                   /\ UNCHANGED <<tail, opens, minted, ending, kill, deaths>>

(* job_kill: the session's own live job is interrupted and settled.        *)
Kill(s, id) == /\ opening[s] = "open" /\ kill[s] = idle
               /\ live(jobs[s][id]) /\ jobs[s][id].session = s
               /\ kill' = [kill EXCEPT ![s] = [at |-> "checking", id |-> id]]
               /\ UNCHANGED <<disk, opens, jobs, minted, work, ending, deaths>>

KillFinish(s) == /\ kill[s].at = "checking"
                 /\ kill' = [kill EXCEPT ![s] = IF live(jobs[s][kill[s].id])
                                                THEN [@ EXCEPT !.at = "finishing"]
                                                ELSE idle]
                 /\ UNCHANGED <<disk, opens, jobs, minted, work, ending, deaths>>

Killed(s) == /\ kill[s].at = "finishing"
             /\ append(s, kill[s].id, "cancelled")
             /\ kill' = [kill EXCEPT ![s] = idle]
             /\ UNCHANGED <<tail, opens, minted, work, ending, deaths>>

Task(s, id) == \/ Queue(s, id) \/ Start(s, id) \/ Started(s, id)
               \/ \E how \in Ends : CommandEnds(s, id, how)
               \/ Finish(s, id) \/ Finished(s, id)

Opening(s) == Open(s) \/ Cut(s) \/ Opened(s) \/ \E id \in Ids : Close(s, id)

JobsNext == \/ Die
            \/ \E s \in Stores : \/ Opening(s) \/ KillFinish(s) \/ Killed(s)
                                 \/ \E id \in Ids : Mint(s, id) \/ Task(s, id) \/ Kill(s, id)

JobsSpec == JobsInit /\ [][JobsNext]_jobsVars

-----------------------------------------------------------------------------
(* Properties. *)

(* A number names one job for good: no two commands, of one process or of  *)
(* a later one, are recorded under one id, so none reads or kills another. *)
QueuedOnce ==
  \A i, j \in DOMAIN lines :
    lines[i].op = "queue" /\ lines[j].op = "queue" /\ lines[i].id = lines[j].id => i = j

(* jobs.rs: a job the log last saw live cannot still be live when a store  *)
(* opens, so what was closed as interrupted is not running.                *)
InterruptedIsDead ==
  \A s \in Stores, id \in Ids :
    work[s][id] = "running" => scan[id].status # "interrupted"

-----------------------------------------------------------------------------
(* What the code says of itself and does not keep (README, Disagreements). *)

(* "One terminal transition per job": a task's finish and a kill that both *)
(* found the job live both settle it.                                      *)
EndsOnce ==
  \A i, j \in DOMAIN lines :
    lines[i].id = lines[j].id /\ {lines[i].op, lines[j].op} \subseteq Terminal => i = j
=============================================================================
