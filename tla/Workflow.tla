------------------------------ MODULE Workflow ------------------------------
(***************************************************************************)
(* Runs of a workflow: declared steps in a sequence, every boundary a      *)
(* record on the session's journal, cancelled between steps, and resumed   *)
(* from what the journal says by whoever comes next.                       *)
(*                                                                         *)
(* Steps are numbered from 0 as the records number them.  What a step does *)
(* is its outcome; performed counts whether it did it once or again.       *)
(***************************************************************************)
EXTENDS Naturals, Sequences

CONSTANTS
  RunIds,       \* ids of runs; run is called with a fresh one
  Workers,      \* tasks that call run and resume
  StepCount,    \* steps the workflow declares
  Claims,       \* the callers keep a run to one worker; nothing in the code does
  MaxRecords    \* bound: records on the journal

ASSUME WorkflowAssumption ==
  /\ RunIds # {} /\ StepCount \in Nat \ {0}
  /\ Claims \in BOOLEAN /\ MaxRecords \in Nat

VARIABLES
  events,       \* the records of runs on the journal
  interrupted,  \* Interrupt::stopped
  drives,       \* what each worker is doing
  performed     \* how often each step of each run was Done, up to Again

workflowVars == <<events, interrupted, drives, performed>>

Declared == 0 .. StepCount - 1
Again == 2
WorkPlaces == {"free", "boundary", "step", "said", "ending"}
StopReasons == {"completed", "cancelled", "failed"}
Records == [ty : {"start", "step-start", "step-end", "end"}, run : RunIds,
            step : 0 .. StepCount, ok : BOOLEAN, reason : StopReasons]
Free == [at : {"free"}, run : RunIds, step : {0}, ok : {FALSE}, reason : {"completed"}]
NoDrive == CHOOSE w \in Free : TRUE

WorkflowInit ==
  /\ events = <<>> /\ interrupted = FALSE
  /\ drives = [w \in Workers |-> NoDrive]
  /\ performed = [r \in RunIds |-> [s \in Declared |-> 0]]

Fact(ty, r, s, ok, why) == [ty |-> ty, run |-> r, step |-> s, ok |-> ok, reason |-> why]
Appends(record) == Len(events) < MaxRecords /\ events' = Append(events, record)

Mentions(r) == {i \in DOMAIN events : events[i].run = r}
Ends(r) == {i \in Mentions(r) : events[i].ty = "end"}
Done(r, s) ==
  \E i \in Mentions(r) : events[i].ty = "step-end" /\ events[i].step = s /\ events[i].ok

(* The step after the last started one, whatever became of it.             *)
resume_point_Started(r) ==
  CHOOSE k \in 0 .. StepCount :
    LET Begun(s) == \E i \in Mentions(r) : events[i].ty = "step-start" /\ events[i].step = s
    IN  (k = 0 \/ Begun(k - 1)) /\ \A s \in Declared : s >= k => ~Begun(s)

resume_point(r) ==
  CHOOSE k \in 0 .. StepCount :
    (k = 0 \/ Done(r, k - 1)) /\ \A s \in Declared : s >= k => ~Done(r, s)

(* The last end on the journal says it.                                    *)
finished(r) ==
  IF Ends(r) = {} THEN "no"
  ELSE LET last == CHOOSE i \in Ends(r) : \A j \in Ends(r) : j <= i IN events[last].reason

UnderWay(r) == \E w \in Workers : drives[w].at # "free" /\ drives[w].run = r

--------------------------------------------------------------------------
SetsOut(w, r, from) ==
  drives' = [drives EXCEPT ![w] = [at |-> "boundary", run |-> r, step |-> from,
                                   ok |-> FALSE, reason |-> "completed"]]

run(w, r) ==
  /\ drives[w].at = "free" /\ Mentions(r) = {} /\ ~UnderWay(r)
  /\ Appends(Fact("start", r, 0, FALSE, "completed"))
  /\ SetsOut(w, r, 0)
  /\ UNCHANGED <<interrupted, performed>>

(* A run that completed is refused.  One the journal never heard of is not.*)
resume_Anyhow(w, r) ==
  /\ drives[w].at = "free" /\ Claims => ~UnderWay(r)
  /\ SetsOut(w, r, IF resume_point(r) = StepCount THEN 0 ELSE resume_point(r))
  /\ UNCHANGED <<events, interrupted, performed>>

resume(w, r) ==
  /\ drives[w].at = "free"
  /\ Claims => ~UnderWay(r)
  /\ finished(r) # "completed"
  /\ SetsOut(w, r, resume_point(r))
  /\ UNCHANGED <<events, interrupted, performed>>

(* drive: the next boundary, where the interrupt is asked only when there  *)
(* is a step left.                                                         *)
BeginStep(w) ==
  LET d == drives[w]
  IN  /\ d.at = "boundary" /\ d.step < StepCount /\ ~interrupted
      /\ Appends(Fact("step-start", d.run, d.step, FALSE, "completed"))
      /\ drives' = [drives EXCEPT ![w].at = "step"]
      /\ UNCHANGED <<interrupted, performed>>

LeaveLoop(w) ==
  LET d == drives[w]
  IN  /\ d.at = "boundary" /\ (d.step = StepCount \/ interrupted)
      /\ drives' = [drives EXCEPT ![w].at = "ending",
                      ![w].reason = IF d.step = StepCount THEN "completed" ELSE "cancelled"]
      /\ UNCHANGED <<events, interrupted, performed>>

(* The runner performs the step, or fails.                                 *)
Perform(w, ok) ==
  LET d == drives[w]
  IN  /\ d.at = "step"
      /\ drives' = [drives EXCEPT ![w].at = "said", ![w].ok = ok]
      /\ performed' = IF ~ok \/ performed[d.run][d.step] = Again THEN performed
                       ELSE [performed EXCEPT ![d.run][d.step] = @ + 1]
      /\ UNCHANGED <<events, interrupted>>

(* A failed step does not end the run.                                     *)
EndStep_GoesOn(w) ==
  LET d == drives[w]
  IN  /\ d.at = "said"
      /\ Appends(Fact("step-end", d.run, d.step, d.ok, "completed"))
      /\ drives' = [drives EXCEPT ![w].at = "boundary", ![w].step = @ + 1]
      /\ UNCHANGED <<interrupted, performed>>

EndStep(w) ==
  LET d == drives[w]
  IN  /\ d.at = "said"
      /\ Appends(Fact("step-end", d.run, d.step, d.ok, "completed"))
      /\ drives' = [drives EXCEPT ![w] =
           IF d.ok THEN [d EXCEPT !.at = "boundary", !.step = @ + 1]
           ELSE [d EXCEPT !.at = "ending", !.reason = "failed"]]
      /\ UNCHANGED <<interrupted, performed>>

EndRun(w) ==
  LET d == drives[w]
  IN  /\ d.at = "ending"
      /\ Appends(Fact("end", d.run, d.step, FALSE, d.reason))
      /\ drives' = [drives EXCEPT ![w] = NoDrive]
      /\ UNCHANGED <<interrupted, performed>>

(* The journal refuses a record, and the call is an error; or the process  *)
(* is gone, with every call.                                               *)
Refused(w) ==
  /\ drives[w].at \in {"boundary", "said", "ending"}
  /\ drives' = [drives EXCEPT ![w] = NoDrive]
  /\ UNCHANGED <<events, interrupted, performed>>

Restarts ==
  /\ drives' = [w \in Workers |-> NoDrive] /\ interrupted' = FALSE
  /\ UNCHANGED <<events, performed>>

(* Interrupt::stop, and the clear of the session's next turn.              *)
Interrupts ==
  /\ interrupted' = ~interrupted
  /\ UNCHANGED <<events, drives, performed>>

WorkflowNext ==
  \/ \E w \in Workers, r \in RunIds : run(w, r) \/ resume(w, r)
  \/ \E w \in Workers : BeginStep(w) \/ LeaveLoop(w) \/ EndStep(w) \/ EndRun(w) \/ Refused(w)
  \/ \E w \in Workers, ok \in BOOLEAN : Perform(w, ok)
  \/ Restarts \/ Interrupts

WorkflowSpec == WorkflowInit /\ [][WorkflowNext]_workflowVars

--------------------------------------------------------------------------
WorkflowTypeOK ==
  /\ events \in Seq(Records) /\ interrupted \in BOOLEAN
  /\ drives \in [Workers -> [at : WorkPlaces, run : RunIds, step : 0 .. StepCount,
                             ok : BOOLEAN, reason : StopReasons]]
  /\ performed \in [RunIds -> [Declared -> 0 .. Again]]

DoneBefore(i, s) ==
  \E j \in 1 .. i - 1 : /\ events[j].ty = "step-end" /\ events[j].run = events[i].run
                        /\ events[j].step = s /\ events[j].ok

(* The journal tells one run, over deaths, refused records, cancellations, *)
(* failures and resumes: a step starts when every earlier one is done and  *)
(* it is not, and a run ends completed once, when all are done, and        *)
(* nothing follows (drive, resume, resume_point, finished).                *)
TellsOneRun ==
  \A i \in DOMAIN events :
    /\ events[i].ty = "step-start" =>
         /\ \A s \in 0 .. events[i].step - 1 : DoneBefore(i, s)
         /\ ~DoneBefore(i, events[i].step)
    /\ events[i].ty = "end" /\ events[i].reason = "completed" =>
         /\ \A s \in Declared : DoneBefore(i, s)
         /\ \A j \in i + 1 .. Len(events) : events[j].run # events[i].run

--------------------------------------------------------------------------
(* What the code says of itself and does not keep: TLC refutes each of     *)
(* these (README, "Disagreements").                                        *)

(* A completed step is never run twice (the module's third promise).       *)
PerformedOnce == \A r \in RunIds, s \in Declared : performed[r][s] <= 1

(* What a restart has to look for: a run that was under way is found       *)
(* unfinished (unfinished).                                                *)
RestartFinds ==
  \A r \in RunIds :
    /\ Mentions(r) # {} /\ \A i \in Ends(r) : \E j \in Mentions(r) : j > i
    => finished(r) = "no" /\ \E i \in Mentions(r) : events[i].ty = "start"
=============================================================================
