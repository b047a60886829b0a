--------------------------- MODULE MCAgentService ---------------------------
(* AgentService for TLC. *)
EXTENDS AgentService, TLC

Symmetry == Permutations(Requests) \cup Permutations(Tools)
=============================================================================
