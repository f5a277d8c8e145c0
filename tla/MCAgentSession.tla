---------------------------- MODULE MCAgentSession -----------------------------
(* AgentSession for TLC: the runs of one instance are interchangeable.     *)
EXTENDS AgentSession, TLC

RunSymmetry == Permutations(Runs)
================================================================================
