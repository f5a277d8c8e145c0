---------------------------- MODULE MCInstancePool -----------------------------
(* InstancePool for TLC: callers are interchangeable, and so are ids.      *)
EXTENDS InstancePool, TLC

PoolSymmetry == Permutations(Callers) \cup Permutations(SessionIds)
================================================================================
