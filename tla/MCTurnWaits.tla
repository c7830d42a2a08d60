---------------------------- MODULE MCTurnWaits ----------------------------
(* Instances of TurnWaits for TLC. *)
EXTENDS TurnWaits

CONSTANTS q1, q2, x, y

Choice == [id |-> q1, options |-> {x, y}, multi |-> FALSE]
FreeText == [id |-> q2, options |-> {}, multi |-> FALSE]

(* Two questions, one nobody could answer. *)
MCQuestionSets == {<<Choice, FreeText>>, <<[FreeText EXCEPT !.multi = TRUE]>>}

Selects(q, labels) == [id |-> q, selected |-> labels, text |-> FALSE]
Says(q) == [id |-> q, selected |-> <<>>, text |-> TRUE]

(* A full answer in another order, one with a part missing, one with two   *)
(* labels where one is asked for, and one that says nothing.               *)
MCGiven == {<<Says(q2), Selects(q1, <<x>>)>>, <<Selects(q1, <<y>>)>>,
            <<Selects(q1, <<x, y>>), Says(q2)>>,
            <<Selects(q1, <<x>>), Selects(q2, <<>>)>>}
=============================================================================
