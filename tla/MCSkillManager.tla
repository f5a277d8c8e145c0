---------------------------- MODULE MCSkillManager -----------------------------
(* SkillManager for TLC: sessions of one tenant, one with a row that has a *)
(* skill from before the server's start, the others started afresh.        *)
EXTENDS SkillManager, TLC

MCTenantOf == [l \in Loops |-> CHOOSE t \in Tenants : TRUE]

MCRows ==
  LET old == [name |-> CHOOSE name \in Names : TRUE, tools |-> Registered]
  IN  [l \in Loops |-> IF l = CHOOSE m \in Loops : TRUE
                       THEN AugmentedPrompt(<<old>>, Registered) ELSE NoPrompt]

SkillSymmetry == Permutations(Calls)
================================================================================
