------------------------------ MODULE MCAgents ------------------------------
(* Small instances of AgentLifecycle for TLC.                              *)
EXTENDS AgentLifecycle, TLC

Symmetry == Permutations(Calls)
=============================================================================
