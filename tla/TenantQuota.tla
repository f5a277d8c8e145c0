------------------------------ MODULE TenantQuota -------------------------------
(***************************************************************************)
(* The memory of a tenant's guests and the two limiters that are asked     *)
(* before it grows (jadepaw-wasm/src/limits/): TenantQuotaLimiter, whose   *)
(* counter the guests of a tenant share, around InstanceHardLimiter.  They *)
(* run on the guest's thread: what other threads can come between is a     *)
(* step.  A guest's tables count against the same budget, but have no cap. *)
(***************************************************************************)
EXTENDS Integers, FiniteSetsExt

CONSTANTS
  Guests,      \* the instances of one tenant
  BudgetMax,   \* tenant_budget_max
  MaxBytes,    \* InstanceHardLimiter's cap, for each instance
  MaxGrowth    \* bound: what a guest asks for at once

ASSUME QuotaAssumption ==
  IsFiniteSet(Guests) /\ {BudgetMax, MaxBytes, MaxGrowth} \subseteq Nat

VARIABLES
  used,     \* tenant_budget_used
  size,     \* the guests' memories
  growth    \* the growths under way: what grows, by how much, how far it got

quotaVars == <<used, size, growth>>

NotGrowing == [what |-> "nothing", delta |-> 0, pc |-> "none"]

QuotaInit ==
  /\ used = 0
  /\ size = [g \in Guests |-> 0]
  /\ growth = [g \in Guests |-> NotGrowing]

Growing(g) == growth[g].pc # "none"

Over(g) == growth' = [growth EXCEPT ![g] = NotGrowing]

(* Mutant: only what is in use already is compared with the budget.        *)
RefusedIfFull(delta) == used > BudgetMax

(* Does the growth fit the budget no more?                                 *)
Refused(delta) == used + delta > BudgetMax

(* The instance's own cap, which its tables do not have, is beyond         *)
(* recovery: the guest traps.                                              *)
Trapped(g, what, delta) ==
  ~Refused(delta) /\ what = "memory" /\ size[g] + delta > MaxBytes

(* The budget is read once; a growth that does not fit is refused, and the *)
(* guest gets -1.  Then the instance's cap is asked.                       *)
StartGrowth(g, what, delta) ==
  /\ growth' = IF Refused(delta) \/ Trapped(g, what, delta) THEN growth
               ELSE [growth EXCEPT ![g] = [what |-> what, delta |-> delta, pc |-> "commit"]]
  /\ UNCHANGED <<used, size>>

Commit(g) ==
  /\ growth[g].pc = "commit"
  /\ used' = used + growth[g].delta
  /\ growth' = [growth EXCEPT ![g] =
                  IF @.what = "memory" THEN [@ EXCEPT !.pc = "grow"] ELSE NotGrowing]
  /\ UNCHANGED size

(* wasmtime grows the memory, or cannot after all: nothing is given back.  *)
Grow(g) ==
  /\ growth[g].pc = "grow"
  /\ \/ UNCHANGED size
     \/ size' = [size EXCEPT ![g] = @ + growth[g].delta]
  /\ Over(g)
  /\ UNCHANGED used

(* A guest that ends takes its memory with it, and leaves the counter.     *)
Freed(g) ==
  /\ size' = [size EXCEPT ![g] = 0]
  /\ Over(g)
  /\ UNCHANGED used
================================================================================
