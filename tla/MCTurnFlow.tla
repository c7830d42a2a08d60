----------------------------- MODULE MCTurnFlow -----------------------------
(* Instances of TurnFlow for TLC: what the model may ask for in one step. *)
EXTENDS TurnFlow

SmallAnswers == {<<>>, <<"gated", "exclusive">>}
FaultAnswers == {<<>>, <<"gated", "parallel">>,
                 <<"parallel", "exclusive", "parallel">>}
=============================================================================
