----------------------------- MODULE SessionLog -----------------------------
(***************************************************************************)
(* What the `SessionLog` seam promises a caller, whichever provider serves *)
(* it: a sequence of facts that only grows, of which a crash may take back *)
(* an unacknowledged suffix and nothing else.                              *)
(***************************************************************************)
EXTENDS Naturals, Sequences

CONSTANT Payloads               \* the facts a caller appends

VARIABLES log,                  \* what a reader of the journal finds
          acknowledged          \* positions whose append has returned Ok

vars == <<log, acknowledged>>

Init == log = <<>> /\ acknowledged = {}

(* A fact joins the end of the log. *)
Record(e) == log' = Append(log, e) /\ UNCHANGED acknowledged

(* A fork or an import lays a whole history down, and is told so at once. *)
Lay == /\ log = <<>>
       /\ log' \in Seq(Payloads)
       /\ acknowledged' = DOMAIN log'

(* `append` returns: the caller has been told position i is durable. *)
Acknowledge(i) == acknowledged' = acknowledged \cup {i} /\ UNCHANGED log

(* A crash keeps a prefix that holds everything a caller was told about. *)
Lose(n) == /\ acknowledged \subseteq 1 .. n
           /\ log' = SubSeq(log, 1, n)
           /\ UNCHANGED acknowledged

Next == \/ \E e \in Payloads : Record(e)
        \/ Lay
        \/ \E i \in DOMAIN log : Acknowledge(i)
        \/ \E n \in 0 .. Len(log) : Lose(n)

Spec == Init /\ [][Next]_vars

=============================================================================
