------------------------ MODULE AgentRuntime_proofs ------------------------
(***************************************************************************)
(* What holds of one session's agent for any number of prompts, askers,    *)
(* turns and steps.                                                        *)
(***************************************************************************)
EXTENDS AgentRuntime, SequenceTheorems, TLAPS

Places == {"out", "claimed", "starting", "clearing", "turn", "settling",
           "stopping", "returned", "released", "found", "set", "waiting", "done"}

(* Between TypeOK and OneTurnAtATime: the one prompt inside its claim      *)
(* decides whether a turn runs and whether the next one is still to be     *)
(* numbered, and a turn that is open runs or could not be closed.          *)
Claimed ==
  /\ OneTurnAtATime
  /\ TurnRuns => turn > 0
  /\ Starting => turn < MaxTurns
  /\ \A t \in open : ends[t] = "unclosed" \/ (TurnRuns /\ t = turn)

(* A started turn that an asker found is at most the present one, and if   *)
(* it is the present one and was answered, or is about to be, it is        *)
(* stopped.                                                                *)
Asked ==
  /\ \A c \in Askers : target[c].started => target[c].turn <= turn
  /\ \A a \in asked : a.started => a.turn <= turn
  /\ TurnRuns /\ [turn |-> turn, started |-> TRUE] \in asked => stopped
  /\ \A c \in Askers :
       TurnRuns /\ at[c] = "set" /\ target[c] = [turn |-> turn, started |-> TRUE]
         => stopped

IInv == TypeOK /\ Claimed /\ Asked

(* A prompt is never an asker: the two kinds of caller are told apart.     *)
LEMMA Apart == \A p \in Prompters : p \notin Askers
  BY ConstantsAssumption DEF Askers

(* The initial state satisfies the invariant. *)
LEMMA InitIInv == Init => IInv
  <1> SUFFICES ASSUME Init PROVE IInv  OBVIOUS
  <1>1. ends \in Seq(Reasons) /\ Len(ends) = turn
    BY DEF Init
  <1>2. target \in [Askers -> Targets]
    BY ConstantsAssumption DEF Init, Targets
  <1>3. at \in [Prompters \cup Askers -> Places]
    BY DEF Init, Places
  <1>4. turn \in 0 .. MaxTurns /\ steps \in 0 .. MaxSteps
    BY ConstantsAssumption DEF Init
  <1>5. busy \in BOOLEAN /\ stopped \in BOOLEAN /\ open \subseteq 1 .. turn
    BY Zenon DEF Init
  <1>6. /\ cause \in Causes /\ pushed \in {"none", "running", "idle"}
        /\ drained \in {"no", "zero", "late"} /\ asked \subseteq Targets
    BY DEF Init, Causes
  <1>7. TypeOK
    BY <1>1, <1>2, <1>3, <1>4, <1>5, <1>6, Zenon DEF TypeOK, Places
  <1>8. Claimed
    BY DEF Init, Claimed, OneTurnAtATime, Inside, TurnRuns, Starting
  <1>9. Asked
    BY ConstantsAssumption DEF Init, Asked
  <1> QED BY <1>7, <1>8, <1>9 DEF IInv

(* Claiming: nobody was inside, so the claimer is the only one. *)
LEMMA ClaimIInv == ASSUME IInv, NEW p \in Prompters, Claim(p) PROVE IInv'
  <1> USE DEF IInv, Claim, Goto, interrupt, flow, asks
  <1>1. TypeOK'
    BY DEF TypeOK
  <1>2. Claimed'
    BY DEF TypeOK, Claimed, OneTurnAtATime, Inside, TurnRuns, Starting
  <1>3. Asked'
    BY Apart DEF TypeOK, Asked, TurnRuns
  <1> QED BY <1>1, <1>2, <1>3 DEF IInv

LEMMA PushRunningIInv ==
  ASSUME IInv, NEW p \in Prompters, PushRunning(p) PROVE IInv'
  <1> USE DEF IInv, PushRunning, Goto, interrupt, flow, asks
  <1>1. TypeOK'
    BY DEF TypeOK
  <1>2. Claimed'
    BY DEF TypeOK, Claimed, OneTurnAtATime, Inside, TurnRuns, Starting
  <1>3. Asked'
    BY Apart DEF TypeOK, Asked, TurnRuns
  <1> QED BY <1>1, <1>2, <1>3 DEF IInv

(* Clearing the flag: the claimer has not opened its turn yet. *)
LEMMA ClearStoppedIInv ==
  ASSUME IInv, NEW p \in Prompters, ClearStopped(p) PROVE IInv'
  <1> USE DEF IInv, ClearStopped, Goto, interrupt, flow, asks
  <1>1. TypeOK'
    BY DEF TypeOK
  <1>2. Claimed'
    BY DEF TypeOK, Claimed, OneTurnAtATime, Inside, TurnRuns, Starting
  <1>3. ~TurnRuns
    BY DEF TypeOK, Claimed, OneTurnAtATime, Inside, TurnRuns
  <1>4. ~TurnRuns'
    BY <1>3 DEF TypeOK, TurnRuns
  <1>5. Asked'
    BY <1>4, Apart DEF TypeOK, Asked
  <1> QED BY <1>1, <1>2, <1>5 DEF IInv

(* Starting the turn: no asker has found this turn started, since every    *)
(* started target is of an earlier one.                                    *)
LEMMA ClearCauseIInv ==
  ASSUME IInv, NEW p \in Prompters, ClearCause(p) PROVE IInv'
  <1> USE DEF IInv, ClearCause, Goto, interrupt, flow, asks
  <1>1. turn < MaxTurns /\ turn \in Nat /\ turn' = turn + 1 /\ Len(ends) = turn
    BY ConstantsAssumption DEF TypeOK, Claimed, Starting
  <1>2. PICK why \in Reasons : /\ ends' = Append(ends, why)
                               /\ \/ why = "unclosed" /\ open' = open \cup {turn'}
                                  \/ why = "failed" /\ open' = open
                                  \/ at'[p] = "turn" /\ open' = open \cup {turn'}
    BY DEF TypeOK, Reasons
  <1>3. /\ ends' \in Seq(Reasons) /\ Len(ends') = turn'
        /\ \A t \in 1 .. turn : ends'[t] = ends[t]
        /\ ends'[turn'] = why
    BY <1>1, <1>2 DEF TypeOK
  <1>4. turn' \in 0 .. MaxTurns /\ steps' \in 0 .. MaxSteps
    BY <1>1, ConstantsAssumption
  <1>5. open' \subseteq 1 .. turn'
    <2>1. \A t \in open' : t \in open \/ t = turn'
      BY <1>2
    <2>2. \A t \in open : t \in 1 .. turn
      BY DEF TypeOK
    <2> QED BY <1>1, <2>1, <2>2
  <1>6. TypeOK'
    BY <1>3, <1>4, <1>5 DEF TypeOK, Causes
  <1>7. at' = [at EXCEPT ![p] = "turn"] \/ at' = [at EXCEPT ![p] = "returned"]
    OBVIOUS
  <1>8. ~TurnRuns
    BY DEF TypeOK, Claimed, OneTurnAtATime, Inside, TurnRuns
  <1>9. Claimed'
    <2>1. OneTurnAtATime'
      BY <1>7 DEF TypeOK, Claimed, OneTurnAtATime, Inside
    <2>2. turn' > 0
      BY <1>1
    <2>3. ~Starting'
      BY <1>7 DEF TypeOK, Claimed, OneTurnAtATime, Inside, Starting
    <2>4. \A t \in open' : ends'[t] = "unclosed" \/ (TurnRuns' /\ t = turn')
      <3>1. \A t \in open : ends'[t] = "unclosed"
        BY <1>3, <1>8 DEF TypeOK, Claimed
      <3>2. at'[p] = "turn" => TurnRuns'
        BY DEF TurnRuns
      <3> SUFFICES ASSUME NEW t \in open', t \notin open
                   PROVE  ends'[t] = "unclosed" \/ (TurnRuns' /\ t = turn')
        BY <3>1
      <3> QED BY <1>2, <1>3, <3>2
    <2> QED BY <2>1, <2>2, <2>3, <2>4 DEF Claimed
  <1>10. Asked'
    <2>1. \A c \in Askers : target[c].started => target[c].turn < turn'
      BY <1>1 DEF TypeOK, Asked, Targets
    <2>2. \A a \in asked : a.started => a.turn < turn'
      BY <1>1 DEF TypeOK, Asked, Targets
    <2> QED BY <1>1, <2>1, <2>2 DEF TypeOK, Asked, Targets
  <1> QED BY <1>6, <1>9, <1>10 DEF IInv

LEMMA NextStepIInv ==
  ASSUME IInv, NEW p \in Prompters, NextStep(p) PROVE IInv'
  <1> USE DEF IInv, NextStep, Goto, interrupt, flow, asks
  <1>1. TypeOK'
    BY ConstantsAssumption DEF TypeOK
  <1>2. Claimed'
    BY DEF TypeOK, Claimed, OneTurnAtATime, Inside, TurnRuns, Starting
  <1>3. Asked'
    BY Apart DEF TypeOK, Asked, TurnRuns
  <1> QED BY <1>1, <1>2, <1>3 DEF IInv

LEMMA SeesStopIInv ==
  ASSUME IInv, NEW p \in Prompters, SeesStop(p) PROVE IInv'
  <1> USE DEF IInv, SeesStop, Goto, interrupt, flow, asks
  <1>1. TypeOK'
    BY DEF TypeOK
  <1>2. Claimed'
    BY DEF TypeOK, Claimed, OneTurnAtATime, Inside, TurnRuns, Starting
  <1>3. Asked'
    BY Apart DEF TypeOK, Asked, TurnRuns
  <1> QED BY <1>1, <1>2, <1>3 DEF IInv

LEMMA TurnEndIInv ==
  ASSUME IInv, NEW p \in Prompters, TurnEnd(p) PROVE IInv'
  <1> USE DEF IInv, TurnEnd, Goto, interrupt, flow, asks
  <1>1. TypeOK'
    BY DEF TypeOK
  <1>2. Claimed'
    BY DEF TypeOK, Claimed, OneTurnAtATime, Inside, TurnRuns, Starting
  <1>3. Asked'
    BY Apart DEF TypeOK, Asked, TurnRuns
  <1> QED BY <1>1, <1>2, <1>3 DEF IInv

LEMMA EndRefusedIInv ==
  ASSUME IInv, NEW p \in Prompters, EndRefused(p) PROVE IInv'
  <1> USE DEF IInv, EndRefused, Goto, interrupt, flow, asks
  <1>1. turn \in 1 .. Len(ends)
    BY ConstantsAssumption DEF TypeOK, Claimed, TurnRuns
  <1>2. ends' \in Seq(Reasons) /\ Len(ends') = turn'
    BY <1>1, ExceptSeq DEF TypeOK, Reasons
  <1>3. TypeOK'
    BY <1>2 DEF TypeOK
  <1>4. Claimed'
    BY <1>1 DEF TypeOK, Claimed, OneTurnAtATime, Inside, TurnRuns, Starting
  <1>5. Asked'
    BY Apart DEF TypeOK, Asked, TurnRuns
  <1> QED BY <1>3, <1>4, <1>5 DEF IInv

LEMMA ReleaseIInv ==
  ASSUME IInv, NEW p \in Prompters, Release(p) PROVE IInv'
  <1> USE DEF IInv, Release, Goto, interrupt, flow, asks
  <1>1. TypeOK'
    BY DEF TypeOK
  <1>2. Claimed'
    BY DEF TypeOK, Claimed, OneTurnAtATime, Inside, TurnRuns, Starting
  <1>3. Asked'
    BY Apart DEF TypeOK, Asked, TurnRuns
  <1> QED BY <1>1, <1>2, <1>3 DEF IInv

LEMMA PushIdleIInv ==
  ASSUME IInv, NEW p \in Prompters, PushIdle(p) PROVE IInv'
  <1> USE DEF IInv, PushIdle, Goto, interrupt, flow, asks
  <1>1. TypeOK'
    BY DEF TypeOK
  <1>2. Claimed'
    BY DEF TypeOK, Claimed, OneTurnAtATime, Inside, TurnRuns, Starting
  <1>3. Asked'
    BY Apart DEF TypeOK, Asked, TurnRuns
  <1> QED BY <1>1, <1>2, <1>3 DEF IInv

(* Naming the reason of the turn that is ending. *)
LEMMA EndIInv ==
  ASSUME IInv, NEW p \in Prompters, at[p] \in {"turn", "settling"},
         NEW reason \in Reasons, End(p, reason)
  PROVE  IInv'
  <1> USE DEF IInv, End, Goto, interrupt, flow, asks
  <1>1. turn \in 1 .. Len(ends)
    BY ConstantsAssumption DEF TypeOK, Claimed, TurnRuns
  <1>2. ends' \in Seq(Reasons) /\ Len(ends') = turn'
    BY <1>1, ExceptSeq DEF TypeOK
  <1>3. TypeOK'
    BY <1>2 DEF TypeOK
  <1>4. Claimed'
    BY DEF TypeOK, Claimed, OneTurnAtATime, Inside, TurnRuns, Starting
  <1>5. Asked'
    BY Apart DEF TypeOK, Asked, TurnRuns
  <1> QED BY <1>3, <1>4, <1>5 DEF IInv

(* An asker finds the agent busy: with the turn that runs, or with the one *)
(* that is still to be opened.                                             *)
LEMMA FindBusyIInv ==
  ASSUME IInv, NEW c \in Askers, FindBusy(c) PROVE IInv'
  <1> USE DEF IInv, FindBusy, Goto, interrupt, flow, asks
  <1> DEFINE found == [turn |-> IF Starting THEN turn + 1 ELSE turn,
                       started |-> ~Starting]
  <1>1. found \in Targets
    <2>1. found.started \in BOOLEAN
      BY Zenon
    <2>2. found.turn \in 0 .. MaxTurns
      BY ConstantsAssumption DEF TypeOK, Claimed
    <2> QED BY <2>1, <2>2 DEF Targets
  <1>2. target' \in [Askers -> Targets]
    BY <1>1 DEF TypeOK
  <1>3. TypeOK'
    BY <1>2 DEF TypeOK
  <1>4. \A p \in Prompters : at'[p] = at[p]
    BY Apart DEF TypeOK
  <1>5. Claimed'
    BY <1>4 DEF TypeOK, Claimed, OneTurnAtATime, Inside, TurnRuns, Starting
  <1>6. Asked'
    <2>1. found.started => found.turn <= turn
      <3>1. found.started = ~Starting
        BY Zenon
      <3>2. ~Starting => found.turn = turn
        BY Zenon
      <3>3. turn <= turn
        BY ConstantsAssumption DEF TypeOK
      <3> HIDE DEF found
      <3> QED BY <3>1, <3>2, <3>3, Zenon
    <2>2. target'[c] = found /\ at'[c] = "found"
      BY DEF TypeOK
    <2>3. \A d \in Askers \ {c} : target'[d] = target[d] /\ at'[d] = at[d]
      BY DEF TypeOK
    <2>3a. TurnRuns' <=> TurnRuns
      BY <1>4 DEF TurnRuns
    <2> HIDE DEF found
    <2>4. \A d \in Askers : target'[d].started => target'[d].turn <= turn'
      BY <2>1, <2>2, <2>3 DEF Asked
    <2>5. \A d \in Askers :
            TurnRuns' /\ at'[d] = "set" /\ target'[d] = [turn |-> turn', started |-> TRUE]
              => stopped'
      BY <2>2, <2>3, <2>3a DEF Asked
    <2> QED BY <2>3a, <2>4, <2>5 DEF Asked
  <1> QED BY <1>3, <1>5, <1>6 DEF IInv

LEMMA SetStoppedIInv ==
  ASSUME IInv, NEW c \in Askers, SetStopped(c) PROVE IInv'
  <1> USE DEF IInv, SetStopped, Goto, interrupt, flow, asks
  <1>1. TypeOK'
    BY DEF TypeOK
  <1>2. \A p \in Prompters : at'[p] = at[p]
    BY Apart DEF TypeOK
  <1>3. Claimed'
    BY <1>2 DEF TypeOK, Claimed, OneTurnAtATime, Inside, TurnRuns, Starting
  <1>4. Asked'
    BY DEF TypeOK, Asked, TurnRuns
  <1> QED BY <1>1, <1>3, <1>4 DEF IInv

(* The answer: whoever reaches here set the flag after it found its turn,  *)
(* and only the next turn clears it.                                       *)
LEMMA SetCauseIInv ==
  ASSUME IInv, NEW c \in Askers, SetCause(c) PROVE IInv'
  <1> USE DEF IInv, SetCause, Goto, interrupt, flow, asks
  <1>1. target[c] \in Targets
    BY DEF TypeOK
  <1>2. TypeOK'
    BY <1>1 DEF TypeOK, CauseOf, Causes
  <1>3. \A p \in Prompters : at'[p] = at[p]
    BY Apart DEF TypeOK
  <1>4. Claimed'
    BY <1>3 DEF TypeOK, Claimed, OneTurnAtATime, Inside, TurnRuns, Starting
  <1>5. Asked'
    BY DEF TypeOK, Asked, TurnRuns
  <1> QED BY <1>2, <1>4, <1>5 DEF IInv

LEMMA DrainAnswersIInv == ASSUME IInv, DrainAnswers PROVE IInv'
  <1> USE DEF IInv, DrainAnswers, Goto, interrupt, flow, asks
  <1>1. Drainer \in Askers
    BY DEF Askers
  <1>2. TypeOK'
    BY <1>1 DEF TypeOK
  <1>3. \A p \in Prompters : at'[p] = at[p]
    BY <1>1, Apart DEF TypeOK
  <1>4. Claimed'
    BY <1>3 DEF TypeOK, Claimed, OneTurnAtATime, Inside, TurnRuns, Starting
  <1>5. Asked'
    BY <1>1, <1>3 DEF TypeOK, Asked, TurnRuns
  <1> QED BY <1>2, <1>4, <1>5 DEF IInv

(* Every step of the agent preserves the invariant. *)
LEMMA NextIInv == IInv /\ [Next]_vars => IInv'
  <1> SUFFICES ASSUME IInv, [Next]_vars PROVE IInv'  OBVIOUS
  <1>1. CASE UNCHANGED vars
    BY <1>1 DEF vars, IInv, TypeOK, Claimed, Asked, OneTurnAtATime, TurnRuns, Starting
  <1>2. ASSUME NEW p \in Prompters, Claim(p) \/ Prompt(p) PROVE IInv'
    <2>1. CASE ReadCause(p)
      <3>1. PICK reason \in Reasons : End(p, reason)
        BY <2>1 DEF ReadCause, Reasons, Causes
      <3> QED BY <2>1, <3>1, EndIInv DEF ReadCause
    <2>2. CASE Finish(p)
      <3>1. PICK reason \in Reasons : End(p, reason)
        BY <2>2 DEF Finish, Reasons, Causes
      <3> QED BY <2>2, <3>1, EndIInv DEF Finish
    <2> QED BY <1>2, <2>1, <2>2, ClaimIInv, PushRunningIInv, ClearStoppedIInv,
               ClearCauseIInv, NextStepIInv, SeesStopIInv, TurnEndIInv, EndRefusedIInv,
               ReleaseIInv, PushIdleIInv DEF Prompt
  <1>3. ASSUME NEW c \in Askers, FindBusy(c) \/ Ask(c) PROVE IInv'
    BY <1>3, FindBusyIInv, SetStoppedIInv, SetCauseIInv DEF Ask
  <1> QED BY <1>1, <1>2, <1>3, DrainAnswersIInv DEF Next

LEMMA Invariant == Spec => []IInv
  BY InitIInv, NextIInv, PTL DEF Spec

(* TypeOK: every flag, place and number keeps its type, for any callers    *)
(* and bounds.                                                             *)
THEOREM TypeCorrect == Spec => []TypeOK
  BY Invariant, PTL DEF IInv

(* OneTurnAtATime: the busy flag alone keeps two prompts of one session    *)
(* apart (prompt, BusyGuard).                                              *)
THEOREM OneAtATime == Spec => []OneTurnAtATime
  BY Invariant, PTL DEF IInv, Claimed

(* ZeroMeansClosed: a drain that answers zero leaves no turn under way,    *)
(* and none open but those whose lines the journal refused.  It reads      *)
(* busy, which is set as long as a turn runs (drain, prompt).              *)
THEOREM ZeroClosed == Spec => ZeroMeansClosed
  <1>1. IInv /\ [Next]_vars =>
          [drained = "no" /\ drained' = "zero" =>
             ~TurnRuns /\ \A t \in open : ends[t] = "unclosed"]_vars
    <2> SUFFICES ASSUME IInv, Next, drained = "no", drained' = "zero"
                 PROVE  ~TurnRuns /\ \A t \in open : ends[t] = "unclosed"
      OBVIOUS
    <2>1. ~busy
      BY DEF Next, Prompt, Ask, Claim, PushRunning, ClearStopped, ClearCause,
             NextStep, SeesStop, ReadCause, Finish, End, TurnEnd, EndRefused, Release,
             PushIdle, FindBusy, SetStopped, SetCause, DrainAnswers, interrupt,
             flow, asks
    <2>2. ~TurnRuns
      BY <2>1 DEF IInv, Claimed, OneTurnAtATime, TurnRuns, Inside
    <2> QED BY <2>2 DEF IInv, Claimed
  <1> QED BY <1>1, Invariant, PTL DEF Spec, ZeroMeansClosed

(* HeardOnceStarted: the turn an answered interrupt found started takes no *)
(* further step (interrupt, run_steps).                                    *)
THEOREM Heard == Spec => HeardOnceStarted
  <1>1. IInv /\ [Next]_vars =>
          [turn' = turn /\ steps' > steps => [turn |-> turn, started |-> TRUE] \notin asked]_vars
    <2> SUFFICES ASSUME IInv, Next, turn' = turn, steps' > steps
                 PROVE  [turn |-> turn, started |-> TRUE] \notin asked
      OBVIOUS
    <2>1. PICK p \in Prompters : NextStep(p)
      <3>1. \A p \in Prompters : ~ClearCause(p)
        BY ConstantsAssumption DEF ClearCause, IInv, TypeOK
      <3>2. steps \in Nat /\ steps # steps'
        BY ConstantsAssumption DEF IInv, TypeOK
      <3> QED BY <3>1, <3>2 DEF Next, Prompt, Ask, Claim, PushRunning,
            ClearStopped, SeesStop, ReadCause, Finish, End, TurnEnd, EndRefused,
            Release, PushIdle, FindBusy, SetStopped, SetCause, DrainAnswers,
            interrupt, flow, asks
    <2>2. ~stopped /\ TurnRuns
      BY <2>1 DEF NextStep, TurnRuns
    <2> QED BY <2>2 DEF IInv, Asked
  <1> QED BY <1>1, Invariant, PTL DEF Spec, HeardOnceStarted

=============================================================================
