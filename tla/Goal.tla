-------------------------------- MODULE Goal --------------------------------
(***************************************************************************)
(* The standing goal of a session: one record per change, each with the    *)
(* whole goal, and changes that name the revision they are made to.        *)
(*                                                                         *)
(* Changes are made by a tool that runs alone in its turn, so reading the  *)
(* journal, deciding and appending are one step.  What the model was told  *)
(* of a goal stays in its history, and it may name any of it.              *)
(***************************************************************************)
EXTENDS Naturals, Sequences, FiniteSetsExt

CONSTANTS
  Objectives, \* what finishing may look like
  MaxChanges  \* bound: records

VARIABLES
  changes, \* the goal/changed records of the journal
  known,   \* history: the goals get_goal and update_goal have answered
  clears   \* history: goals dropped so far

goalVars == <<changes, known, clears>>

NoGoal == [revision |-> 0, objective |-> "none", phase |-> "none", blocker |-> FALSE]
Refusal == [NoGoal EXCEPT !.phase = "refused"]
Unreadable == [NoGoal EXCEPT !.phase = "unreadable"]

GoalInit == changes = <<>> /\ known = {} /\ clears = 0

(* A record that cannot be read leaves no goal.                            *)
Counting_Unread == DOMAIN changes

(* Only a clear and what this build can read count, and the last one wins. *)
Counting == {i \in DOMAIN changes : changes[i].operation = "clear" \/ changes[i].goal # Unreadable}

current ==
  LET i == Max(Counting \cup {0})
  IN IF i = 0 \/ (i # 0 /\ changes[i].operation = "clear") \/ changes[i].goal = Unreadable
     THEN NoGoal ELSE changes[i].goal

-----------------------------------------------------------------------------
(* decide: what the goal becomes, or Refusal.                              *)

unfinished(goal) == goal.phase \in {"active", "paused", "blocked"}

Created(goal, objective) ==
  IF goal # NoGoal /\ unfinished(goal) THEN Refusal
  ELSE [revision |-> goal.revision + 1, objective |-> objective, phase |-> "active",
        blocker |-> FALSE]

(* A move that keeps the revision.                                         *)
moved_InPlace(goal, to, from) ==
  IF goal.phase \notin from THEN Refusal ELSE [goal EXCEPT !.phase = to, !.blocker = FALSE]

moved(goal, to, from) ==
  IF goal.phase \notin from THEN Refusal
  ELSE [goal EXCEPT !.revision = @ + 1, !.phase = to, !.blocker = FALSE]

edited(goal, objective) ==
  IF goal.phase = "complete" THEN Refusal
  ELSE [goal EXCEPT !.revision = @ + 1, !.objective = objective]

blocked(goal) == LET to == moved(goal, "blocked", {"active", "paused"})
                 IN IF to = Refusal THEN Refusal ELSE [to EXCEPT !.blocker = TRUE]

Operations == {"edit", "pause", "resume", "block", "complete", "clear"}

transition(goal, operation, objective) ==
  CASE operation = "edit"     -> edited(goal, objective)
    [] operation = "pause"    -> moved(goal, "paused", {"active", "blocked"})
    [] operation = "resume"   -> moved(goal, "active", {"paused", "blocked"})
    [] operation = "block"    -> blocked(goal)
    [] operation = "complete" -> moved(goal, "complete", {"active", "paused", "blocked"})
    [] operation = "clear"    -> [goal EXCEPT !.revision = @ + 1]

(* A change of anything but what is there is refused as stale.             *)
decide(goal, operation, revision, objective) ==
  IF goal = NoGoal \/ revision # goal.revision THEN Refusal
  ELSE transition(goal, operation, objective)

-----------------------------------------------------------------------------
(* The tools.  A refused change and a refused append record nothing.       *)

Told(goal) == known' = known \cup {[goal |-> goal, life |-> clears]}

Record(operation, goal) == /\ goal # Refusal /\ Len(changes) < MaxChanges
                           /\ changes' = Append(changes, [operation |-> operation, goal |-> goal])

CreateGoal(objective) == /\ Record("create", Created(current, objective))
                         /\ Told(Created(current, objective))
                         /\ UNCHANGED clears

(* The answer to a clear is the goal it dropped, a revision on.            *)
ChangeGoal(k, operation, objective) ==
  LET next == decide(current, operation, k.goal.revision, objective)
  IN /\ Record(operation, next) /\ Told(next)
     /\ clears' = IF operation = "clear" THEN clears + 1 ELSE clears

GetGoal == /\ current # NoGoal /\ Told(current)
           /\ UNCHANGED <<changes, clears>>

(* A build that knows another phase had the session in between.            *)
OtherBuild == /\ Record("other", Unreadable)
              /\ UNCHANGED <<known, clears>>

-----------------------------------------------------------------------------

GoalNext ==
  \/ GetGoal \/ OtherBuild
  \/ \E objective \in Objectives :
       \/ CreateGoal(objective)
       \/ \E k \in known, operation \in Operations : ChangeGoal(k, operation, objective)

GoalSpec == GoalInit /\ [][GoalNext]_goalVars

-----------------------------------------------------------------------------
(* Properties. *)

(* A revision names one state of the goal until the goal is cleared, so    *)
(* what the compare accepts is a change of what the caller was told        *)
(* (decide, current).                                                      *)
RevisionNamesOneState ==
  \A k \in known :
    k.life = clears /\ current # NoGoal /\ k.goal.revision = current.revision => k.goal = current

-----------------------------------------------------------------------------
(* What the code says of itself and does not keep (README, Disagreements). *)

(* "a stale revision is refused so a change always lands on the goal you   *)
(* read": a goal created after a clear counts from one again.              *)
LandsOnWhatWasRead ==
  \A k \in known :
    current # NoGoal /\ k.goal.revision = current.revision => k.goal = current

=============================================================================
