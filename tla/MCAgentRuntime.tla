--------------------------- MODULE MCAgentRuntime ---------------------------
(* Instances of AgentRuntime for TLC: the sets and bounds are in the cfgs. *)
EXTENDS AgentRuntime
=============================================================================
