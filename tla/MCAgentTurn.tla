---------------------------- MODULE MCAgentTurn ----------------------------
(* Instances of AgentTurn for TLC. *)
EXTENDS AgentTurn, TLC

\* No call differs from another.
Alike == Permutations(Calls)
=============================================================================
