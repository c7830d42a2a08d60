------------------------------- MODULE Inbox -------------------------------
(***************************************************************************)
(* The two queues of input that waits for a boundary of the turn loop, and *)
(* the splices of the journal they are the fold of.  Every mutation is one *)
(* record, appended before the queues move; a record the journal refuses   *)
(* and a splice that fails its check change nothing, so neither is a step  *)
(* here, except in the middle of a call that makes two.                    *)
(*                                                                         *)
(* The journal is that of a fork: after its header stand the splices of    *)
(* its parent's, which were copied in, and then its own.                   *)
(***************************************************************************)
EXTENDS Integers, Sequences, SequencesExt

CONSTANTS
  Inputs,       \* the names of pending messages
  Seed,      \* the parent's splices up to the fork
  MaxSplices \* bound: records the session writes

Targets == {"next-turn", "next-step"}

Splices == [target : Targets, start : Nat, removed : Nat, inserted : Seq(Inputs)]

ASSUME InboxConstants == Seed \in Seq(Splices) /\ MaxSplices \in Nat

VARIABLES
  log,     \* the journal after its header; fork_seq is Len(Seed)
  torn,    \* how much of the seed is missing: the fork died while copying it
  queues,  \* Inbox::next_turn and Inbox::next_step
  claim,   \* the call that is between its two splices, and what it has taken
  dropped  \* history: messages a claim took out and handed to nobody

inboxVars == <<log, torn, queues, claim, dropped>>

Empty == [t \in Targets |-> <<>>]
NoClaim == [at |-> "none", got |-> <<>>]

-----------------------------------------------------------------------------
(* The splice.                                                             *)

normalize_start(start, len) ==
  IF start < 0 THEN (IF len + start < 0 THEN 0 ELSE len + start)
  ELSE IF start < len THEN start ELSE len
normalize_delete(count, available) ==
  IF count <= 0 THEN 0 ELSE IF count < available THEN count ELSE available

Normalized(q, t, start, count, inserted) ==
  LET from == normalize_start(start, Len(q[t]))
  IN  [target |-> t, start |-> from, inserted |-> inserted,
       removed |-> normalize_delete(count, Len(q[t]) - from)]

Removed(q, s) == SubSeq(q[s.target], s.start + 1, s.start + s.removed)
Applied(q, s) ==
  [q EXCEPT ![s.target] = SubSeq(@, 1, s.start) \o s.inserted
                            \o SubSeq(@, s.start + s.removed + 1, Len(@))]

(* It fits, and no id is pending twice over both queues after it.          *)
Checks(q, s) ==
  /\ s.start + s.removed <= Len(q[s.target])
  /\ IsInjective(Applied(q, s)["next-turn"] \o Applied(q, s)["next-step"])

(* replay: with a splice that does not fit the session does not open.      *)
Refused == [t \in Targets |-> <<"refused">>]
Replayed(q, s) == IF q = Refused \/ ~Checks(q, s) THEN Refused ELSE Applied(q, s)
replay(records) ==
  LET upTo[n \in 0 .. Len(records)] ==
        IF n = 0 THEN Empty ELSE Replayed(upTo[n - 1], records[n])
  IN  upTo[Len(records)]

own_suffix(records) ==
  SubSeq(records, (IF Len(Seed) < Len(records) THEN Len(Seed) ELSE Len(records)) + 1,
         Len(records))

Mutate_Raw(t, start, count, inserted) ==
  LET s == Normalized(queues, t, start, count, inserted)
  IN  /\ queues # Refused
      /\ s.removed > 0 \/ inserted # <<>>
      /\ Checks(queues, s)
      /\ Len(log) < Len(Seed) - torn + MaxSplices
      /\ log' = Append(log, [s EXCEPT !.start = IF start < 0 THEN 0 ELSE start])
      /\ queues' = Applied(queues, s)

Mutate(t, start, count, inserted) ==
  LET s == Normalized(queues, t, start, count, inserted)
  IN  /\ queues # Refused
      /\ s.removed > 0 \/ inserted # <<>>
      /\ Checks(queues, s)
      /\ Len(log) < Len(Seed) - torn + MaxSplices
      /\ log' = Append(log, s)
      /\ queues' = Applied(queues, s)

-----------------------------------------------------------------------------
(* Callers. *)

InboxInit == /\ torn \in 0 .. Len(Seed)
             /\ log = SubSeq(Seed, 1, Len(Seed) - torn)
             /\ queues = replay(own_suffix(log))
             /\ claim = NoClaim /\ dropped = {}

(* append, prepend, replace and remove are the splice with the ends of a   *)
(* queue or the place of an id for coordinates.                            *)
Splice(t, start, count, inserted) ==
  /\ claim = NoClaim
  /\ Mutate(t, start, count, inserted)
  /\ UNCHANGED <<torn, claim, dropped>>

(* claim and clear splice both queues, next-step first; a queue that is    *)
(* empty gets no record.                                                   *)
Begin(at) ==
  /\ claim = NoClaim
  /\ claim' = [at |-> at, got |-> queues["next-step"]]
  /\ IF queues["next-step"] = <<>> THEN UNCHANGED <<log, queues>>
     ELSE Mutate("next-step", 0, Len(queues["next-step"]), <<>>)
  /\ UNCHANGED <<torn, dropped>>

Count(at) == IF at = "claim-turn" THEN 1 ELSE IF at = "clear" THEN Len(queues["next-turn"]) ELSE 0

End == /\ claim # NoClaim /\ claim' = NoClaim
       /\ IF Count(claim.at) = 0 \/ queues["next-turn"] = <<>> THEN UNCHANGED <<log, queues>>
          ELSE Mutate("next-turn", 0, Count(claim.at), <<>>)
       /\ UNCHANGED <<torn, dropped>>

(* The journal refuses the second record of the call.                      *)
EndFails == /\ claim # NoClaim /\ Count(claim.at) > 0 /\ queues["next-turn"] # <<>>
            /\ claim' = NoClaim
            /\ dropped' = dropped \cup (IF claim.at = "clear" THEN {} ELSE ToSet(claim.got))
            /\ UNCHANGED <<log, torn, queues>>

(* The process dies and the session is opened again.                       *)
Reopen == /\ queues' = replay(own_suffix(log))
          /\ claim' = NoClaim
          /\ dropped' = dropped \cup (IF claim.at = "clear" THEN {} ELSE ToSet(claim.got))
          /\ UNCHANGED <<log, torn>>

InboxNext == \/ End \/ EndFails \/ Reopen
             \/ \E at \in {"claim-step", "claim-turn", "clear"} : Begin(at)
             \/ \E t \in Targets, start \in -1 .. 1, count \in 0 .. 1,
                   inserted \in {<<>>} \cup {<<id>> : id \in Inputs} :
                  Splice(t, start, count, inserted)

InboxSpec == InboxInit /\ [][InboxNext]_inboxVars

-----------------------------------------------------------------------------
(* Properties. *)

(* The queues a session serves are the ones its next process will: the     *)
(* journal's own splices always fit and fold to the queues in memory,      *)
(* whatever coordinates the callers gave and wherever a call was cut.      *)
ReplayAgrees == torn = 0 => queues = replay(own_suffix(log)) /\ queues # Refused

-----------------------------------------------------------------------------
(* What the code says of itself and does not keep (README, Disagreements). *)

(* The same of a fork that died while its seed was copied: its header's    *)
(* fork_seq reaches into what it writes itself later.                      *)
ReplaysWhenTorn == queues = replay(own_suffix(log))

(* inbox.rs: input that waits must not be dropped.                         *)
NothingDropped == dropped = {}
=============================================================================
