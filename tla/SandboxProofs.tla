----------------------------- MODULE SandboxProofs ------------------------------
(***************************************************************************)
(* A tenant's memory budget and what host functions tell its guests,       *)
(* whatever the number of guests and worker threads, and what they ask for.*)
(***************************************************************************)
EXTENDS Sandbox, FoldLemmas

(* The growths that were found to fit and are not counted yet.             *)
Committing == {g \in Guests : growth[g].pc = "commit"}

GrowthType ==
  growth \in [Guests -> {NotGrowing} \cup
                [what : {"memory", "table"}, delta : 1..MaxGrowth, pc : {"commit", "grow"}]]

Promised(n) == BudgetMax + (Workers - n) * MaxGrowth

(* One of the growths to be counted fits, with room for all the others the *)
(* workers may come with.                                                  *)
RoomForOne ==
  Committing # {} =>
    \E g \in Committing : used + growth[g].delta <= Promised(Cardinality(Committing))

(* Where a guest is.                                                       *)
Places == {"ready", "yielded", "running", "waiting", "ended"}

(* The workers a guest grows on are its own for as long as it grows.       *)
BudgetInv ==
  /\ used \in Nat /\ GrowthType /\ guest \in [Guests -> Places]
  /\ IsFiniteSet(Running) /\ Cardinality(Running) <= Workers
  /\ \A g \in Guests : Growing(g) => g \in Running
  /\ used <= Promised(1)
  /\ RoomForOne

--------------------------------------------------------------------------------
(* Each growth under way leaves room for one of every other worker.        *)
LEMMA Room ==
  ASSUME NEW n \in Nat, 1 <= n, n <= Workers
  PROVE  /\ Promised(n) \in Nat
         /\ BudgetMax <= Promised(n)
         /\ Promised(n) <= Promised(1)
         /\ Promised(n) + MaxGrowth = Promised(n - 1)
<1> DEFINE rest == Workers - n
           others == n - 1
<1>1. Workers \in Nat /\ BudgetMax \in Nat /\ MaxGrowth \in Nat
  BY SandboxAssumption, QuotaAssumption
<1>2. /\ rest \in Nat /\ others \in Nat
      /\ Workers - (n - 1) = rest + 1 /\ Workers - 1 = rest + others
  BY <1>1
<1> HIDE DEF rest, others
<1>3. /\ rest * MaxGrowth \in Nat /\ others * MaxGrowth \in Nat
      /\ (rest + 1) * MaxGrowth = rest * MaxGrowth + MaxGrowth
      /\ (rest + others) * MaxGrowth = rest * MaxGrowth + others * MaxGrowth
  BY <1>1, <1>2
<1>4. Promised(n) = BudgetMax + rest * MaxGrowth
  BY DEF Promised, rest
<1>5. Promised(n - 1) = BudgetMax + (rest + 1) * MaxGrowth
  BY <1>2 DEF Promised
<1>6. Promised(1) = BudgetMax + (rest + others) * MaxGrowth
  BY <1>2 DEF Promised
<1> QED
  BY <1>1, <1>3, <1>4, <1>5, <1>6

(* Growths between check and commit are on workers, and no more than       *)
(* those.                                                                  *)
LEMMA CommittingCount ==
  ASSUME BudgetInv
  PROVE  /\ IsFiniteSet(Committing) /\ Cardinality(Committing) \in Nat
         /\ Cardinality(Committing) <= Workers
         /\ \A g \in Committing : /\ growth[g].delta \in Nat /\ growth[g].delta <= MaxGrowth
                                  /\ Cardinality(Committing) >= 1
<1>1. /\ IsFiniteSet(Running) /\ Cardinality(Running) <= Workers /\ Committing \subseteq Running
      /\ Workers \in Nat /\ MaxGrowth \in Nat
  BY SandboxAssumption, QuotaAssumption DEF BudgetInv, Committing, Growing
<1>2. /\ IsFiniteSet(Committing) /\ Cardinality(Committing) <= Cardinality(Running)
  BY <1>1, FS_Subset
<1>3. Cardinality(Committing) \in Nat /\ Cardinality(Running) \in Nat
  BY <1>1, <1>2, FS_CardinalityType
<1>4. ASSUME NEW g \in Committing
      PROVE  /\ growth[g].delta \in Nat /\ growth[g].delta <= MaxGrowth
             /\ Cardinality(Committing) >= 1
  <2>1. growth[g].delta \in 1..MaxGrowth
    BY DEF BudgetInv, GrowthType, Committing, NotGrowing
  <2>2. Cardinality(Committing) # 0
    BY <1>2, FS_EmptySet
  <2> QED
    BY <1>1, <1>3, <2>1, <2>2
<1> QED
  BY <1>1, <1>2, <1>3, <1>4

(* Whatever leaves the counter and the growths alone, and no growing guest *)
(* off its worker, keeps the invariant.                                    *)
LEMMA BudgetUntouched ==
  ASSUME BudgetInv, used' = used, growth' = growth, guest' \in [Guests -> Places],
         IsFiniteSet(Running'), Cardinality(Running') <= Workers,
         \A g \in Guests : Growing(g) => g \in Running'
  PROVE  BudgetInv'
<1>1. Committing' = Committing
  BY DEF Committing
<1> QED
  BY <1>1 DEF BudgetInv, GrowthType, RoomForOne, Promised, Growing

(* A guest that is not growing leaves its worker.                          *)
LEMMA LeavesWorker ==
  ASSUME BudgetInv, NEW g \in Guests, ~Growing(g), used' = used, growth' = growth,
         guest' \in [Guests -> Places], guest'[g] # "running",
         \A h \in Guests \ {g} : guest'[h] = guest[h]
  PROVE  BudgetInv'
<1>1. guest' \in [Guests -> Places] /\ Running' \subseteq Running
  BY DEF BudgetInv, Running
<1>2. IsFiniteSet(Running') /\ Cardinality(Running') <= Cardinality(Running)
  BY <1>1, FS_Subset DEF BudgetInv
<1>3. Cardinality(Running') <= Workers
  BY <1>2, FS_CardinalityType, SandboxAssumption DEF BudgetInv
<1>4. \A h \in Guests : Growing(h) => h \in Running'
  BY DEF BudgetInv, Running, Growing
<1> QED
  BY <1>1, <1>2, <1>3, <1>4, BudgetUntouched

(* A guest that gets a worker is not growing.                              *)
LEMMA ScheduleKeepsBudget ==
  ASSUME BudgetInv, NEW g \in Guests, Schedule(g)
  PROVE  BudgetInv'
<1>1. /\ used' = used /\ growth' = growth /\ g \notin Running
      /\ guest' = [guest EXCEPT ![g] = "running"] /\ Cardinality(Running) < Workers
      /\ IsFiniteSet(Running)
  BY DEF BudgetInv, Schedule, quotaVars, Becomes, Running
<1>2. guest' \in [Guests -> Places] /\ Running' = Running \cup {g}
  BY <1>1 DEF BudgetInv, Running, Places
<1>3. IsFiniteSet(Running') /\ Cardinality(Running') = Cardinality(Running) + 1
  BY <1>1, <1>2, FS_AddElement
<1>4. Cardinality(Running') <= Workers
  BY <1>1, <1>3, FS_CardinalityType, SandboxAssumption DEF BudgetInv
<1>5. \A h \in Guests : Growing(h) => h \in Running'
  BY <1>2 DEF BudgetInv
<1> QED
  BY <1>1, <1>2, <1>3, <1>4, <1>5, BudgetUntouched

(* A guest that is not growing ends.                                       *)
LEMMA EndKeepsBudget ==
  ASSUME BudgetInv, NEW g \in Guests, ~Growing(g), Becomes(g, "ended"), Freed(g)
  PROVE  BudgetInv'
<1>1. growth[g] = NotGrowing
  BY DEF BudgetInv, GrowthType, Growing
<1>2. growth' = growth /\ used' = used
  BY <1>1 DEF BudgetInv, GrowthType, Freed, Over
<1>3. /\ guest' \in [Guests -> Places] /\ guest'[g] = "ended"
      /\ \A h \in Guests \ {g} : guest'[h] = guest[h]
  BY DEF BudgetInv, Becomes, Places
<1> QED
  BY <1>2, <1>3, LeavesWorker

(* A growth that is found to fit now leaves room for as many others as     *)
(* there are workers beside its own.                                       *)
LEMMA StartKeepsBudget ==
  ASSUME BudgetInv, NEW g \in Guests, guest[g] = "running", guest' = guest, ~Growing(g),
         NEW what \in {"memory", "table"}, NEW delta \in 1..MaxGrowth,
         StartGrowth(g, what, delta)
  PROVE  BudgetInv'
<1> DEFINE new == [what |-> what, delta |-> delta, pc |-> "commit"]
<1>1. used' = used /\ guest' \in [Guests -> Places] /\ Running' = Running
  BY DEF BudgetInv, StartGrowth, Running
<1>2. CASE growth' = growth
  BY <1>1, <1>2, BudgetUntouched DEF BudgetInv, Running
<1>3. CASE ~Refused(delta) /\ growth' = [growth EXCEPT ![g] = new]
  <2>1. GrowthType' /\ growth'[g] = new
    BY <1>3 DEF BudgetInv, GrowthType
  <2>2. Committing' = Committing \cup {g}
    BY <1>3, <2>1 DEF BudgetInv, GrowthType, Committing
  <2>3. /\ \A h \in Guests : Growing(h)' => h \in Running'
        /\ Committing' \subseteq Running
    BY <1>1, <1>3, <2>2 DEF BudgetInv, GrowthType, Running, Growing, Committing
  <2>4. IsFiniteSet(Running) /\ Cardinality(Running) <= Workers
    BY DEF BudgetInv
  <2>5. IsFiniteSet(Committing') /\ Cardinality(Committing') <= Cardinality(Running)
    BY <1>1, <2>3, <2>4, FS_Subset
  <2>6. /\ Cardinality(Committing') \in Nat /\ Cardinality(Committing') # 0
        /\ Cardinality(Committing') <= Workers
    <3>1. Cardinality(Committing') \in Nat /\ Cardinality(Running) \in Nat
      BY <2>4, <2>5, FS_CardinalityType
    <3>2. Cardinality(Committing') # 0
      BY <2>2, <2>5, FS_EmptySet
    <3> QED
      BY <2>4, <2>5, <3>1, <3>2, SandboxAssumption
  <2>7. used' + growth'[g].delta <= BudgetMax
    BY <1>1, <1>3, <2>1, QuotaAssumption DEF Refused, BudgetInv
  <2> DEFINE n == Cardinality(Committing')
  <2>8. /\ n \in Nat /\ 1 <= n /\ n <= Workers
    BY <2>6
  <2> HIDE DEF n
  <2>9. BudgetMax <= Promised(n) /\ Promised(n) \in Nat
    BY <2>8, Room
  <2>10. used' + growth'[g].delta <= Promised(n)
    BY <1>1, <2>1, <2>7, <2>9, QuotaAssumption DEF BudgetInv
  <2>11. RoomForOne'
    BY <2>2, <2>10 DEF RoomForOne, Promised, n
  <2> QED
    BY <1>1, <2>1, <2>3, <2>11 DEF BudgetInv, Promised
<1> QED
  BY <1>2, <1>3 DEF StartGrowth

(* A growth that is counted makes room for one more of its size at most.   *)
LEMMA CommitKeepsBudget ==
  ASSUME BudgetInv, NEW g \in Guests, Commit(g), UNCHANGED guest
  PROVE  BudgetInv'
<1> DEFINE n == Cardinality(Committing)
<1>1. g \in Committing /\ used' = used + growth[g].delta
  BY DEF Commit, Committing
<1>2. /\ n \in Nat /\ 1 <= n /\ n <= Workers /\ IsFiniteSet(Committing)
      /\ \A h \in Committing : growth[h].delta \in Nat /\ growth[h].delta <= MaxGrowth
  BY <1>1, CommittingCount
<1>3. /\ GrowthType' /\ Committing' = Committing \ {g}
      /\ \A h \in Guests \ {g} : growth'[h] = growth[h]
  BY DEF Commit, BudgetInv, GrowthType, Committing, NotGrowing
<1>4. Cardinality(Committing') = n - 1
  BY <1>1, <1>2, <1>3, FS_RemoveElement
<1>5. PICK h \in Committing : used + growth[h].delta <= Promised(n)
  BY <1>1 DEF BudgetInv, RoomForOne
<1> HIDE DEF n
<1>6. /\ Promised(n) \in Nat /\ Promised(n) <= Promised(1) /\ Promised(n) + MaxGrowth = Promised(n - 1)
      /\ Promised(1) \in Nat /\ Promised(n - 1) \in Nat
      /\ used \in Nat /\ MaxGrowth \in Nat
  <2>1. /\ Promised(n) \in Nat /\ Promised(n) <= Promised(1) /\ Promised(n) + MaxGrowth = Promised(n - 1)
    BY <1>2, Room
  <2>2. Promised(1) \in Nat
    BY Room, SandboxAssumption
  <2> QED
    BY <2>1, <2>2, QuotaAssumption DEF BudgetInv
<1>7. \A k \in Committing' : used' + growth'[k].delta <= Promised(n - 1) \/ h # g
  <2> SUFFICES ASSUME NEW k \in Committing', h = g
               PROVE  used' + growth'[k].delta <= Promised(n - 1)
    OBVIOUS
  <2>1. k \in Committing /\ growth'[k] = growth[k]
    BY <1>3 DEF Committing
  <2> QED
    BY <1>1, <1>2, <1>5, <1>6, <2>1
<1>8. h # g => h \in Committing' /\ used' + growth'[h].delta <= Promised(n - 1)
  <2> SUFFICES ASSUME h # g
               PROVE  h \in Committing' /\ used' + growth'[h].delta <= Promised(n - 1)
    OBVIOUS
  <2>1. h \in Committing' /\ growth'[h] = growth[h]
    BY <1>3, <1>5 DEF Committing
  <2> QED
    BY <1>1, <1>2, <1>5, <1>6, <2>1
<1>9. RoomForOne'
  BY <1>4, <1>7, <1>8 DEF RoomForOne, Promised
<1>10. used' \in Nat /\ used' <= Promised(1)
  <2>1. CASE h = g
    BY <1>1, <1>2, <1>5, <1>6, <2>1
  <2>2. CASE h # g
    <3>1. n >= 2
      <4>1. IsFiniteSet(Committing') /\ h \in Committing'
        BY <1>2, <1>3, <1>8, <2>2, FS_RemoveElement
      <4>2. Cardinality(Committing') # 0
        BY <4>1, FS_EmptySet
      <4> QED
        BY <1>2, <1>4, <4>2
    <3>2. Promised(n - 1) <= Promised(1)
      <4> DEFINE m == n - 1
      <4>1. m \in Nat /\ 1 <= m /\ m <= Workers
        BY <1>2, <3>1, SandboxAssumption
      <4> HIDE DEF m
      <4>2. Promised(m) <= Promised(1)
        BY <4>1, Room
      <4> QED
        BY <4>2 DEF m
    <3> QED
      BY <1>1, <1>2, <1>5, <1>6, <2>2, <3>2
  <2> QED
    BY <2>1, <2>2
<1>11. Running' = Running /\ \A k \in Guests : Growing(k)' => k \in Running'
  BY <1>1, <1>3 DEF BudgetInv, Running, Growing, Committing
<1> QED
  BY <1>3, <1>9, <1>10, <1>11 DEF BudgetInv, Promised

(* The growth itself charges nothing.                                      *)
LEMMA GrowKeepsBudget ==
  ASSUME BudgetInv, NEW g \in Guests, Grow(g), UNCHANGED guest
  PROVE  BudgetInv'
<1>1. /\ used' = used /\ Running' = Running /\ GrowthType'
      /\ \A h \in Guests \ {g} : growth'[h] = growth[h]
      /\ Committing' = Committing /\ g \notin Committing
      /\ \A h \in Guests : Growing(h)' => h \in Running'
  BY DEF Grow, Over, BudgetInv, GrowthType, Committing, NotGrowing, Running, Growing
<1>2. RoomForOne'
  BY <1>1 DEF BudgetInv, RoomForOne, Promised, Committing
<1> QED
  BY <1>1, <1>2 DEF BudgetInv, Promised

--------------------------------------------------------------------------------
(* Nothing is used and nobody grows at first.                              *)
LEMMA BudgetInit ==
  Init => BudgetInv
<1> SUFFICES ASSUME Init PROVE BudgetInv
  OBVIOUS
<1>1. used = 0 /\ GrowthType /\ guest \in [Guests -> Places]
  BY DEF Init, QuotaInit, GrowthType, Places
<1>2. Running = {} /\ Committing = {} /\ \A g \in Guests : ~Growing(g)
  BY DEF Init, QuotaInit, Running, Committing, NotGrowing, Growing
<1>3. IsFiniteSet(Running) /\ Cardinality(Running) <= Workers
  BY <1>2, FS_EmptySet, SandboxAssumption
<1>4. Promised(1) \in Nat
  BY Room, SandboxAssumption
<1> QED
  BY <1>1, <1>2, <1>3, <1>4 DEF BudgetInv, RoomForOne

(* No step of a guest goes beyond the room that its growth had.            *)
LEMMA GuestKeepsBudget ==
  ASSUME BudgetInv, NEW g \in Guests, GuestStep(g)
  PROVE  BudgetInv'
<1>1. CASE Schedule(g)
  BY <1>1, ScheduleKeepsBudget
<1>2. CASE Yield(g)
  <2>1. /\ used' = used /\ growth' = growth /\ ~Growing(g)
        /\ guest' \in [Guests -> Places] /\ guest'[g] = "yielded"
        /\ \A h \in Guests \ {g} : guest'[h] = guest[h]
    BY <1>2 DEF Yield, quotaVars, Becomes, BudgetInv, Places
  <2> QED
    BY <2>1, LeavesWorker
<1>3. CASE End(g)
  BY <1>3, EndKeepsBudget DEF End
<1>4. CASE AskToGrow(g)
  <2>1. PICK what \in {"memory", "table"}, delta \in 1..MaxGrowth :
          IF Trapped(g, what, delta) THEN Becomes(g, "ended") /\ Freed(g)
          ELSE StartGrowth(g, what, delta) /\ UNCHANGED guest
    BY <1>4 DEF AskToGrow
  <2>2. guest[g] = "running" /\ ~Growing(g)
    BY <1>4 DEF AskToGrow
  <2>3. CASE Trapped(g, what, delta)
    BY <2>1, <2>2, <2>3, EndKeepsBudget
  <2>4. CASE ~Trapped(g, what, delta)
    BY <2>1, <2>2, <2>4, StartKeepsBudget
  <2> QED
    BY <2>3, <2>4
<1>5. CASE GrowthStep(g)
  BY <1>5, CommitKeepsBudget, GrowKeepsBudget DEF GrowthStep, guestVars
<1>6. CASE CallHost(g)
  <2>1. /\ used' = used /\ growth' = growth /\ ~Growing(g)
        /\ Becomes(g, "waiting") \/ guest' = guest
    BY <1>6 DEF CallHost, quotaVars
  <2>2. CASE Becomes(g, "waiting")
    <3>1. /\ guest' \in [Guests -> Places] /\ guest'[g] = "waiting"
          /\ \A h \in Guests \ {g} : guest'[h] = guest[h]
      BY <2>2 DEF Becomes, BudgetInv, Places
    <3> QED
      BY <2>1, <3>1, LeavesWorker
  <2>3. CASE guest' = guest
    BY <2>1, <2>3, BudgetUntouched DEF BudgetInv, Running
  <2> QED
    BY <2>1, <2>2, <2>3
<1>7. CASE HostAnswers(g)
  <2>1. used' = used /\ growth' = growth /\ guest[g] = "waiting"
    BY <1>7 DEF HostAnswers, quotaVars
  <2>2. Becomes(g, "ready")
    BY <1>7 DEF HostAnswers, HostReturns, HostRead, HostWrite, HostSend
  <2>3. ~Growing(g)
    BY <2>1 DEF BudgetInv, Running
  <2>4. /\ guest' \in [Guests -> Places] /\ guest'[g] = "ready"
        /\ \A h \in Guests \ {g} : guest'[h] = guest[h]
    BY <2>2 DEF Becomes, BudgetInv, Places
  <2> QED
    BY <2>1, <2>3, <2>4, LeavesWorker
<1> QED
  BY <1>1, <1>2, <1>3, <1>4, <1>5, <1>6, <1>7 DEF GuestStep

(* The inductive invariant of a tenant's budget.                           *)
THEOREM BudgetInvariant == Spec => []BudgetInv
<1>1. ASSUME BudgetInv, [Next]_vars PROVE BudgetInv'
  <2>1. CASE \E g \in Guests : GuestStep(g)
    BY <1>1, <2>1, GuestKeepsBudget
  <2>2. CASE TickerStep \/ Shutdown \/ UNCHANGED vars
    <3>1. used' = used /\ growth' = growth /\ guest' = guest
      BY <2>2 DEF TickerStep, Shutdown, vars, quotaVars, guestVars
    <3> QED
      BY <1>1, <3>1, BudgetUntouched DEF BudgetInv, Running
  <2> QED
    BY <1>1, <2>1, <2>2 DEF Next
<1> QED
  BY <1>1, BudgetInit, PTL DEF Spec

(* However many guests a tenant has, its counter exceeds the budget by at  *)
(* most one growth for each worker but one: the check that reads it and    *)
(* the addition that follows (tenant_quota.rs:82-108) are two steps, but a *)
(* guest is on a worker from the one to the other.                         *)
THEOREM OvershootIsBounded == Spec => []OvershootBounded
<1>1. BudgetInv => OvershootBounded
  BY DEF BudgetInv, OvershootBounded, Promised
<1> QED
  BY <1>1, BudgetInvariant, PTL
--------------------------------------------------------------------------------
(* The counter and the memory there is.                                    *)

(* What a guest has, and what it is about to have that is counted already. *)
Held(g) == size[g] + (IF growth[g].pc = "grow" THEN growth[g].delta ELSE 0)

AllHeld == [g \in Guests |-> Held(g)]

CountInv ==
  /\ size \in [Guests -> Nat]
  /\ SumFunction(AllHeld) <= used

(* What a guest holds is a number, and covers its memory.                  *)
LEMMA HeldType ==
  ASSUME size \in [Guests -> Nat], GrowthType
  PROVE  /\ AllHeld \in [Guests -> Int]
         /\ \A g \in Guests : size[g] <= Held(g) /\ Held(g) \in Nat
<1>1. ASSUME NEW g \in Guests PROVE size[g] <= Held(g) /\ Held(g) \in Nat
  <2>1. growth[g].delta \in Nat /\ size[g] \in Nat
    BY QuotaAssumption DEF GrowthType, NotGrowing
  <2> QED
    BY <2>1 DEF Held
<1> QED
  BY <1>1 DEF AllHeld

(* A step of one guest that adds to what it holds no more than is counted. *)
LEMMA OneHolds ==
  ASSUME BudgetInv, BudgetInv', CountInv, size' \in [Guests -> Nat], NEW g \in Guests,
         \A h \in Guests \ {g} : size'[h] = size[h] /\ growth'[h] = growth[h],
         Held(g)' - Held(g) <= used' - used
  PROVE  CountInv'
<1> DEFINE before == AllHeld  after == AllHeld'
<1>1. /\ before \in [Guests -> Int] /\ after \in [Guests -> Int]
      /\ Held(g) \in Nat /\ Held(g)' \in Nat
      /\ before[g] = Held(g) /\ after[g] = Held(g)'
  <2>1. AllHeld \in [Guests -> Int] /\ \A h \in Guests : Held(h) \in Nat
    BY HeldType DEF BudgetInv, CountInv
  <2>2. ASSUME NEW h \in Guests PROVE Held(h)' \in Nat
    <3>1. growth'[h].delta \in Nat /\ size'[h] \in Nat
      BY QuotaAssumption DEF BudgetInv, GrowthType, NotGrowing
    <3> QED
      BY <3>1 DEF Held
  <2> QED
    BY <2>1, <2>2 DEF AllHeld
<1>2. \A h \in Guests \ {g} : after[h] = before[h]
  BY DEF AllHeld, Held
<1> HIDE DEF before, after
<1>3. /\ SumFunction(before) \in Int /\ SumFunction(after) \in Int
      /\ SumFunction(after) = SumFunction(before) + (after[g] - before[g])
  BY <1>1, <1>2, SumChanges, QuotaAssumption
<1>4. used \in Nat /\ used' \in Nat /\ SumFunction(before) <= used
  BY DEF BudgetInv, CountInv, before
<1>5. SumFunction(after) <= used'
  BY <1>1, <1>3, <1>4
<1> QED
  BY <1>5 DEF CountInv, after

(* Steps that touch no memory and no growth leave the sum.                 *)
LEMMA NobodyHolds ==
  ASSUME CountInv, UNCHANGED quotaVars
  PROVE  CountInv'
BY DEF CountInv, quotaVars, AllHeld, Held

(* A guest that ends holds nothing; the counter stays.                     *)
LEMMA FreedHolds ==
  ASSUME BudgetInv, BudgetInv', CountInv, NEW g \in Guests, Freed(g)
  PROVE  CountInv'
<1>1. /\ size' \in [Guests -> Nat] /\ used' = used
      /\ size'[g] = 0 /\ growth'[g] = NotGrowing
      /\ \A h \in Guests \ {g} : size'[h] = size[h] /\ growth'[h] = growth[h]
  BY DEF Freed, Over, CountInv, BudgetInv, GrowthType
<1>2. Held(g) \in Nat /\ Held(g)' = 0
  BY <1>1, HeldType DEF BudgetInv, CountInv, Held, NotGrowing
<1> QED
  BY <1>1, <1>2, OneHolds DEF BudgetInv

(* A growth that was checked is not charged yet, and not held.             *)
LEMMA StartHolds ==
  ASSUME BudgetInv, BudgetInv', CountInv, NEW g \in Guests, ~Growing(g),
         NEW what \in {"memory", "table"}, NEW delta \in 1..MaxGrowth,
         StartGrowth(g, what, delta)
  PROVE  CountInv'
<1>1. size' = size /\ used' = used /\ growth[g].pc = "none"
  BY DEF StartGrowth, Growing
<1>2. /\ \A h \in Guests \ {g} : growth'[h] = growth[h]
      /\ growth'[g] = growth[g] \/ growth'[g].pc = "commit"
  BY DEF StartGrowth, BudgetInv, GrowthType
<1>3. Held(g)' = Held(g) /\ Held(g) \in Nat
  BY <1>1, <1>2, HeldType DEF Held, BudgetInv, CountInv
<1> QED
  BY <1>1, <1>2, <1>3, OneHolds DEF BudgetInv, CountInv

(* A growth that is charged is held from then on.                          *)
LEMMA CommitHolds ==
  ASSUME BudgetInv, BudgetInv', CountInv, NEW g \in Guests, Commit(g)
  PROVE  CountInv'
<1> DEFINE delta == growth[g].delta
<1>1. /\ size' = size /\ used' = used + delta /\ growth[g].pc = "commit"
      /\ size[g] \in Nat /\ delta \in Nat /\ used \in Nat
  BY QuotaAssumption DEF Commit, BudgetInv, CountInv, GrowthType, NotGrowing
<1>2. /\ \A h \in Guests \ {g} : growth'[h] = growth[h]
      /\ \/ growth'[g] = NotGrowing
         \/ growth'[g].pc = "grow" /\ growth'[g].delta = delta
  <2>1. CASE growth[g].what = "memory"
    BY <2>1 DEF Commit, BudgetInv, GrowthType, NotGrowing
  <2>2. CASE growth[g].what # "memory"
    BY <2>2 DEF Commit, BudgetInv, GrowthType, NotGrowing
  <2> QED
    BY <2>1, <2>2
<1>3. Held(g) = size[g] /\ Held(g)' \in {size[g], size[g] + delta}
  BY <1>1, <1>2 DEF Held, NotGrowing
<1> HIDE DEF delta
<1>4. Held(g)' - Held(g) <= used' - used
  BY <1>1, <1>3
<1> QED
  BY <1>1, <1>2, <1>4, OneHolds DEF CountInv

(* Memory that has grown was held before, and charged.                     *)
LEMMA GrowHolds ==
  ASSUME BudgetInv, BudgetInv', CountInv, NEW g \in Guests, Grow(g)
  PROVE  CountInv'
<1> DEFINE delta == growth[g].delta
<1>1. /\ used' = used /\ growth[g].pc = "grow" /\ used \in Nat
      /\ size[g] \in Nat /\ delta \in Nat
      /\ growth'[g] = NotGrowing /\ \A h \in Guests \ {g} : growth'[h] = growth[h]
  BY QuotaAssumption DEF Grow, Over, BudgetInv, CountInv, GrowthType, NotGrowing
<1>2. /\ size' \in [Guests -> Nat] /\ size'[g] \in {size[g], size[g] + delta}
      /\ \A h \in Guests \ {g} : size'[h] = size[h]
  BY <1>1 DEF Grow, CountInv
<1>3. Held(g) = size[g] + delta /\ Held(g)' = size'[g]
  BY <1>1, <1>2 DEF Held, NotGrowing
<1> HIDE DEF delta
<1>4. Held(g)' - Held(g) <= used' - used
  BY <1>1, <1>2, <1>3
<1> QED
  BY <1>1, <1>2, <1>4, OneHolds

(* The inductive invariant of the counter, on top of the budget's.         *)
THEOREM CountInvariant == Spec => []CountInv
<1>1. Init => CountInv
  <2> SUFFICES ASSUME Init PROVE CountInv
    OBVIOUS
  <2>1. size = [g \in Guests |-> 0] /\ growth = [g \in Guests |-> NotGrowing] /\ used = 0
    BY DEF Init, QuotaInit
  <2>2. AllHeld = [g \in Guests |-> 0]
    BY <2>1 DEF AllHeld, Held, NotGrowing
  <2> QED
    BY <2>1, <2>2, SumOfZeros, QuotaAssumption DEF CountInv
<1>2. ASSUME BudgetInv, BudgetInv', CountInv, NEW g \in Guests, GuestStep(g) PROVE CountInv'
  <2>1. CASE Schedule(g) \/ Yield(g) \/ CallHost(g) \/ HostAnswers(g)
    BY <1>2, <2>1, NobodyHolds DEF Schedule, Yield, CallHost, HostAnswers
  <2>2. CASE End(g)
    BY <1>2, <2>2, FreedHolds DEF End
  <2>3. CASE AskToGrow(g)
    <3>1. PICK what \in {"memory", "table"}, delta \in 1..MaxGrowth :
            IF Trapped(g, what, delta) THEN Becomes(g, "ended") /\ Freed(g)
            ELSE StartGrowth(g, what, delta) /\ UNCHANGED guest
      BY <2>3 DEF AskToGrow
    <3>2. ~Growing(g)
      BY <2>3 DEF AskToGrow
    <3> QED
      BY <1>2, <3>1, <3>2, FreedHolds, StartHolds
  <2>4. CASE GrowthStep(g)
    BY <1>2, <2>4, CommitHolds, GrowHolds DEF GrowthStep
  <2> QED
    BY <1>2, <2>1, <2>2, <2>3, <2>4 DEF GuestStep
<1>3. ASSUME BudgetInv, BudgetInv', CountInv, [Next]_vars PROVE CountInv'
  <2>1. CASE TickerStep \/ Shutdown \/ UNCHANGED vars
    BY <1>3, <2>1, NobodyHolds DEF TickerStep, Shutdown, vars
  <2> QED
    BY <1>2, <1>3, <2>1 DEF Next
<1> QED
  BY <1>1, <1>3, BudgetInvariant, PTL DEF Spec

(* The tenant's counter never falls behind the memory its guests have, and *)
(* exceeds the budget by less than what the other workers may have been    *)
(* growing by (tenant_quota.rs:82-108).                                    *)
THEOREM BudgetOvershootHolds == Spec => []BudgetOvershoot
<1>1. BudgetInv /\ CountInv => SumFunction(size) <= used
  <2> SUFFICES ASSUME BudgetInv, CountInv PROVE SumFunction(size) <= used
    OBVIOUS
  <2> DEFINE held == AllHeld
  <2>1. /\ size \in [Guests -> Int] /\ held \in [Guests -> Int]
        /\ \A g \in Guests : size[g] <= held[g]
    BY HeldType DEF BudgetInv, CountInv, AllHeld
  <2>2. SumFunction(held) <= used /\ used \in Nat
    BY DEF BudgetInv, CountInv
  <2> HIDE DEF held
  <2>3. /\ SumFunction(size) \in Int /\ SumFunction(held) \in Int
        /\ SumFunction(size) <= SumFunction(held)
    BY <2>1, SumAtMost, QuotaAssumption
  <2> QED
    BY <2>2, <2>3
<1> QED
  BY <1>1, BudgetInvariant, CountInvariant, OvershootIsBounded, PTL DEF BudgetOvershoot

--------------------------------------------------------------------------------
(* Powers of two.                                                          *)
LEMMA TwoToIs ==
  /\ \A w \in 0..2 * Bits : TwoTo[w] \in Nat \ {0}
  /\ \A w \in 1..2 * Bits : TwoTo[w] = 2 * TwoTo[w - 1]
<1> DEFINE n == 2 * Bits
           V == Nat \ {0}
           step == [k \in 1..n |-> [v \in V |-> 2 * v]]
           Is(f) == f = [w \in 0..n |-> IF w = 0 THEN 1 ELSE 2 * f[w - 1]]
<1>1. n \in Nat /\ 1 \in V /\ step \in [1..n -> [V -> V]]
  BY SandboxAssumption
<1>2. PICK g \in [0..n -> V] : CountsAlong(g, n, 1, step)
  <2> HIDE DEF n, step, V
  <2> QED
    BY <1>1, AlongNumbers
<1>3. Is(g)
  <2> SUFFICES ASSUME NEW w \in 0..n PROVE g[w] = IF w = 0 THEN 1 ELSE 2 * g[w - 1]
    OBVIOUS
  <2>1. g[w] = IF w = 0 THEN 1 ELSE step[w][g[w - 1]]
    BY <1>2 DEF CountsAlong
  <2>2. CASE w # 0
    <3>1. w \in 1..n /\ g[w - 1] \in Nat \ {0}
      BY <1>1, <2>2
    <3> QED
      BY <2>1, <2>2, <3>1
  <2> QED
    BY <2>1, <2>2
<1>4. Is(TwoTo)
  BY <1>3 DEF TwoTo
<1> HIDE DEF n
<1>5. \A w \in 0..n : TwoTo[w] = IF w = 0 THEN 1 ELSE 2 * TwoTo[w - 1]
  BY <1>4
<1> HIDE DEF Is, step
<1> DEFINE T == {w \in 0..n : TwoTo[w] \notin Nat \ {0}}
<1>6. T = {}
  <2> SUFFICES ASSUME T # {} PROVE FALSE
    OBVIOUS
  <2>1. PICK w \in T : \A v \in T : w <= v
    <3>1. T \in SUBSET Nat
      BY <1>1
    <3> HIDE DEF T
    <3> QED
      BY <3>1, LeastNatural
  <2>2. w # 0
    <3>1. 0 \in 0..n /\ TwoTo[0] = 1
      BY <1>1, <1>5
    <3> QED
      BY <2>1, <3>1
  <2>3. w \in 1..n /\ w - 1 \in 0..n
    BY <1>1, <2>2
  <2>4. w - 1 \notin T
    BY <1>1, <2>1, <2>3
  <2>5. TwoTo[w - 1] \in Nat \ {0} /\ TwoTo[w] = 2 * TwoTo[w - 1]
    BY <1>1, <1>5, <2>2, <2>3, <2>4
  <2>6. TwoTo[w] \in Nat \ {0}
    BY <2>5
  <2> QED
    BY <2>1, <2>6
<1>7. \A w \in 1..n : w \in 0..n /\ w # 0
  BY <1>1
<1> QED
  BY <1>5, <1>6, <1>7 DEF n

(* The integers a guest passes have two halves, and there are at least as  *)
(* many of the host's.                                                     *)
LEMMA Widths ==
  /\ TwoTo[Bits - 1] \in Nat \ {0}
  /\ TwoTo[Bits] = 2 * TwoTo[Bits - 1]
  /\ UsizeMax \in Nat /\ UsizeMax >= TwoTo[Bits]
<1>1. Bits \in Nat /\ Bits - 1 \in 0..2 * Bits /\ Bits \in 1..2 * Bits /\ 2 * Bits \in 0..2 * Bits
  BY SandboxAssumption
<1> DEFINE T == {w \in Bits..2 * Bits : ~(TwoTo[w] >= TwoTo[Bits])}
<1>2. T = {}
  <2> SUFFICES ASSUME T # {} PROVE FALSE
    OBVIOUS
  <2>1. PICK w \in T : \A v \in T : w <= v
    <3>1. T \in SUBSET Nat
      BY <1>1
    <3> HIDE DEF T
    <3> QED
      BY <3>1, LeastNatural
  <2>2. TwoTo[Bits] \in Nat
    BY <1>1, TwoToIs
  <2>3. w # Bits /\ w \in Bits..2 * Bits
    BY <2>1, <2>2
  <2>4. w - 1 \in Bits..2 * Bits /\ w \in 1..2 * Bits /\ w - 1 \in 0..2 * Bits /\ w - 1 \notin T
    BY <1>1, <2>1, <2>3
  <2>5. TwoTo[w - 1] >= TwoTo[Bits] /\ TwoTo[w - 1] \in Nat /\ TwoTo[w] = 2 * TwoTo[w - 1]
    BY <2>4, TwoToIs
  <2>6. TwoTo[w] >= TwoTo[Bits]
    BY <2>2, <2>5
  <2> QED
    BY <2>1, <2>6
<1>3. 2 * Bits \in Bits..2 * Bits
  BY <1>1
<1> QED
  BY <1>1, <1>2, <1>3, TwoToIs DEF UsizeMax

--------------------------------------------------------------------------------
(* Where a URL leads.                                                      *)

(* Position is the first place of a unit, or 0.                            *)
LEMMA PositionIs ==
  ASSUME NEW text \in Seq(STRING), NEW unit
  PROVE  /\ Position(text, unit) \in 0..Len(text)
         /\ Position(text, unit) = 0 => \A k \in 1..Len(text) : text[k] # unit
         /\ Position(text, unit) # 0 =>
              /\ text[Position(text, unit)] = unit
              /\ \A k \in 1..Len(text) : text[k] = unit => Position(text, unit) <= k
<1> DEFINE I == {k \in 1..Len(text) : text[k] = unit}
<1>1. Position(text, unit) = IF I # {} THEN Min(I) ELSE 0
  BY DEF Position, SelectInSeq
<1>2. I \in SUBSET Nat /\ I \in SUBSET (1..Len(text)) /\ Len(text) \in Nat
  OBVIOUS
<1>3. CASE I = {}
  BY <1>1, <1>2, <1>3
<1>4. CASE I # {}
  <2>1. Min(I) \in I /\ \A k \in I : Min(I) <= k
    BY <1>2, <1>4, MinIsLeast
  <2> QED
    BY <1>1, <1>2, <1>4, <2>1
<1> QED
  BY <1>3, <1>4

(* The first place of a unit is its Position.                              *)
LEMMA PositionAt ==
  ASSUME NEW text \in Seq(STRING), NEW unit, NEW p \in 1..Len(text), text[p] = unit,
         \A k \in 1..Len(text) : text[k] = unit => p <= k
  PROVE  Position(text, unit) = p
<1>1. /\ Position(text, unit) \in 0..Len(text) /\ Position(text, unit) # 0
      /\ text[Position(text, unit)] = unit /\ Position(text, unit) <= p
  BY PositionIs
<1>2. p <= Position(text, unit) /\ Len(text) \in Nat
  BY <1>1
<1> QED
  BY <1>1, <1>2

(* What is left of a text when its beginning is gone.                      *)
LEMMA PositionShifts ==
  ASSUME NEW text \in Seq(STRING), NEW unit, NEW at \in 0..Len(text),
         Position(text, unit) = 0 \/ Position(text, unit) > at
  PROVE  Position(SubSeq(text, at + 1, Len(text)), unit) =
           IF Position(text, unit) = 0 THEN 0 ELSE Position(text, unit) - at
<1> DEFINE rest == SubSeq(text, at + 1, Len(text))
           p == Position(text, unit)
<1>1. /\ rest \in Seq(STRING) /\ Len(rest) = Len(text) - at
      /\ \A k \in 1..Len(rest) : rest[k] = text[at + k]
      /\ Len(text) \in Nat
  OBVIOUS
<1>2. /\ p \in 0..Len(text)
      /\ p = 0 => \A k \in 1..Len(text) : text[k] # unit
      /\ p # 0 => text[p] = unit /\ \A k \in 1..Len(text) : text[k] = unit => p <= k
  BY PositionIs
<1>3. p = 0 \/ p > at
  OBVIOUS
<1> HIDE DEF rest, p
<1>4. CASE p = 0
  <2>1. \A k \in 1..Len(rest) : rest[k] # unit
    BY <1>1, <1>2, <1>4
  <2>2. Position(rest, unit) = 0
    BY <1>1, <2>1, PositionIs
  <2> QED
    BY <1>4, <2>2 DEF rest, p
<1>5. CASE p # 0
  <2> DEFINE q == p - at
  <2>1. q \in 1..Len(rest) /\ at + q = p
    BY <1>1, <1>2, <1>3, <1>5
  <2>2. rest[q] = unit
    BY <1>1, <1>2, <1>5, <2>1
  <2>3. ASSUME NEW k \in 1..Len(rest), rest[k] = unit PROVE q <= k
    <3>1. at + k \in 1..Len(text) /\ text[at + k] = unit
      BY <1>1, <2>3
    <3>2. p <= at + k
      BY <1>2, <1>5, <3>1
    <3> QED
      BY <1>1, <2>1, <3>2
  <2> HIDE DEF q
  <2>4. Position(rest, unit) = q
    BY <1>1, <2>1, <2>2, <2>3, PositionAt
  <2> QED
    BY <1>5, <2>4 DEF rest, p, q
<1> QED
  BY <1>4, <1>5

(* The authority is the beginning of the text.                             *)
LEMMA AuthorityType ==
  ASSUME NEW text \in Seq(STRING)
  PROVE  /\ Authority(text) \in Seq(STRING) /\ Len(Authority(text)) \in 0..Len(text)
         /\ \A k \in 1..Len(Authority(text)) : Authority(text)[k] = text[k]
<1> DEFINE delimiters == <<"/", "?", "#">>
           ends == {d \in 1..3 : Position(text, delimiters[d]) # 0}
           p == Position(text, delimiters[Min(ends)])
<1>1. Authority(text) = IF ends = {} THEN text ELSE SubSeq(text, 1, p - 1)
  BY DEF Authority
<1>2. p \in 0..Len(text) /\ Len(text) \in Nat
  BY PositionIs
<1>3. ends # {} => p # 0
  <2> SUFFICES ASSUME ends # {} PROVE p # 0
    OBVIOUS
  <2>1. ends \in SUBSET Nat
    OBVIOUS
  <2> HIDE DEF ends
  <2>2. Min(ends) \in ends
    BY <2>1, MinIsLeast
  <2> QED
    BY <2>2 DEF ends
<1> HIDE DEF p, ends
<1>4. CASE ends = {}
  BY <1>1, <1>2, <1>4
<1>5. CASE ends # {}
  <2>1. p \in 1..Len(text) /\ Authority(text) = SubSeq(text, 1, p - 1)
    BY <1>1, <1>2, <1>3, <1>5
  <2>2. /\ Authority(text) \in Seq(STRING) /\ Len(Authority(text)) = p - 1
        /\ \A k \in 1..p - 1 : Authority(text)[k] = text[k]
    BY <1>2, <2>1
  <2> QED
    BY <1>2, <2>1, <2>2
<1> QED
  BY <1>4, <1>5

(* The authority ends where it did.                                        *)
LEMMA AuthorityShifts ==
  ASSUME NEW text \in Seq(STRING), NEW at \in 0..Len(Authority(text))
  PROVE  Authority(SubSeq(text, at + 1, Len(text))) =
           SubSeq(Authority(text), at + 1, Len(Authority(text)))
<1> DEFINE delimiters == <<"/", "?", "#">>
           Ends(t) == {d \in 1..3 : Position(t, delimiters[d]) # 0}
           rest == SubSeq(text, at + 1, Len(text))
<1>1. Len(text) \in Nat /\ rest = SubSeq(text, at + 1, Len(text))
  OBVIOUS
<1>2. \A t : Authority(t) = IF Ends(t) = {} THEN t
                            ELSE SubSeq(t, 1, Position(t, delimiters[Min(Ends(t))]) - 1)
  BY DEF Authority
<1> HIDE DEF delimiters, rest
<1>3. CASE Ends(text) = {}
  <2>1. Authority(text) = text
    BY <1>2, <1>3
  <2>2. at \in 0..Len(text)
    BY <2>1
  <2>3. \A d \in 1..3 : Position(rest, delimiters[d]) = 0
    BY <1>1, <1>3, <2>2, PositionShifts
  <2>4. Authority(rest) = rest
    BY <1>2, <2>3
  <2> QED
    BY <1>1, <2>1, <2>4
<1>4. CASE Ends(text) # {}
  <2> DEFINE first == Min(Ends(text))
             p == Position(text, delimiters[first])
  <2>1. first \in Ends(text) /\ \A d \in Ends(text) : first <= d
    <3>1. Ends(text) \in SUBSET Nat
      OBVIOUS
    <3> HIDE DEF Ends
    <3> QED
      BY <1>4, <3>1, MinIsLeast
  <2>2. p \in 1..Len(text) /\ first \in 1..3
    BY <2>1, PositionIs
  <2>3. Authority(text) = SubSeq(text, 1, p - 1)
    BY <1>2, <1>4
  <2> HIDE DEF p, first
  <2>4. /\ Authority(text) \in Seq(STRING) /\ Len(Authority(text)) = p - 1
        /\ \A k \in 1..p - 1 : Authority(text)[k] = text[k]
    BY <2>2, <2>3
  <2>5. at \in 0..Len(text) /\ at < p /\ at \in Nat
    BY <1>1, <2>2, <2>4
  <2>6. Position(rest, delimiters[first]) = p - at /\ p - at # 0
    <3>1. Position(text, delimiters[first]) = p
      BY DEF p
    <3> QED
      BY <1>1, <2>2, <2>5, <3>1, PositionShifts
  <2>7. ASSUME NEW d \in 1..3, d < first PROVE Position(rest, delimiters[d]) = 0
    <3>1. Position(text, delimiters[d]) = 0
      BY <2>1, <2>2, <2>7
    <3> QED
      BY <1>1, <2>5, <3>1, PositionShifts
  <2>8. first \in Ends(rest) /\ \A d \in Ends(rest) : first <= d
    BY <2>2, <2>6, <2>7
  <2>9. Min(Ends(rest)) = first
    <3>1. Ends(rest) \in SUBSET Nat /\ Ends(rest) # {}
      BY <2>8
    <3> HIDE DEF Ends
    <3>2. Min(Ends(rest)) \in Ends(rest) /\ Min(Ends(rest)) <= first
      BY <2>8, <3>1, MinIsLeast
    <3>3. first <= Min(Ends(rest)) /\ Min(Ends(rest)) \in Nat /\ first \in Nat
      BY <2>8, <3>1, <3>2
    <3> QED
      BY <3>2, <3>3
  <2>10. Authority(rest) = SubSeq(rest, 1, p - at - 1)
    BY <1>2, <2>6, <2>8, <2>9
  <2>11. SubSeq(rest, 1, p - at - 1) = SubSeq(text, at + 1, p - 1)
    BY <1>1, <2>2, <2>5
  <2>12. SubSeq(SubSeq(text, 1, p - 1), at + 1, p - 1) = SubSeq(text, at + 1, p - 1)
    BY <1>1, <2>2, <2>5
  <2>13. Authority(rest) = SubSeq(Authority(text), at + 1, Len(Authority(text)))
    BY <2>3, <2>4, <2>10, <2>11, <2>12
  <2> QED
    BY <2>13 DEF rest
<1> QED
  BY <1>3, <1>4

(* LastPosition is the last place of a unit, or 0.                         *)
LEMMA LastPositionIs ==
  ASSUME NEW text \in Seq(STRING), NEW unit
  PROVE  /\ LastPosition(text, unit) \in 0..Len(text)
         /\ LastPosition(text, unit) # 0 => text[LastPosition(text, unit)] = unit
         /\ \A k \in 1..Len(text) : text[k] = unit => k <= LastPosition(text, unit)
<1> DEFINE I == {k \in 1..Len(text) : text[k] = unit}
<1>1. LastPosition(text, unit) = IF I # {} THEN Max(I) ELSE 0
  BY DEF LastPosition, SelectLastInSeq
<1>2. I \in SUBSET (0..Len(text)) /\ Len(text) \in Nat
  OBVIOUS
<1>3. CASE I = {}
  BY <1>1, <1>2, <1>3
<1>4. CASE I # {}
  <2>1. Max(I) \in I /\ \A k \in I : k <= Max(I)
    <3> HIDE DEF I
    <3> QED
      BY <1>2, <1>4, MaxIsGreatest
  <2> QED
    BY <1>1, <1>2, <1>4, <2>1
<1> QED
  BY <1>3, <1>4

(* The host function asks for the host that was checked (network.rs:258).  *)
LEMMA RequestHost ==
  ASSUME NEW url \in Seq(STRING), Position(url, "://") = 2
  PROVE  HostOf(RequestUrl(url)) = HostOf(url)
<1> DEFINE after == AfterScheme(url)
           authority == Authority(after)
           at == LastPosition(authority, "@")
           rest == WithoutUserinfo(url)
           sent == RequestUrl(url)
<1>1. /\ Len(url) \in Nat /\ 2 <= Len(url) /\ url[2] = "://" /\ url[1] # "://"
  <2>1. /\ 2 \in 0..Len(url) /\ url[2] = "://"
        /\ \A k \in 1..Len(url) : url[k] = "://" => 2 <= k
    BY PositionIs
  <2>2. Len(url) \in Nat /\ 2 <= Len(url)
    BY <2>1
  <2>3. url[1] = "://" => 2 <= 1
    BY <2>1, <2>2
  <2> QED
    BY <2>1, <2>2, <2>3
<1>2. after \in Seq(STRING) /\ after = SubSeq(url, 3, Len(url)) /\ Len(after) \in Nat
  BY <1>1 DEF AfterScheme
<1>3. rest = SubSeq(after, at + 1, Len(after))
  BY DEF WithoutUserinfo
<1>4. sent = SubSeq(url, 1, 2) \o rest
  BY DEF RequestUrl
<1> HIDE DEF rest, sent
<1>5. authority \in Seq(STRING) /\ Len(authority) \in 0..Len(after)
  BY <1>2, AuthorityType
<1>6. /\ at \in 0..Len(authority) /\ at \in 0..Len(after)
      /\ \A k \in 1..Len(authority) : authority[k] = "@" => k <= at
  BY <1>2, <1>5, LastPositionIs
<1>7. Authority(SubSeq(after, at + 1, Len(after))) = SubSeq(authority, at + 1, Len(authority))
  BY <1>2, <1>6, AuthorityShifts
<1> HIDE DEF after, authority, at
<1>8. /\ rest \in Seq(STRING) /\ Len(rest) \in Nat
       /\ Authority(rest) = SubSeq(authority, at + 1, Len(authority))
  BY <1>2, <1>3, <1>5, <1>6, <1>7
<1>9. Authority(rest) \in Seq(STRING) /\ \A k \in 1..Len(Authority(rest)) : Authority(rest)[k] # "@"
  BY <1>5, <1>6, <1>8
<1>10. LastPosition(Authority(rest), "@") = 0
  <2> DEFINE none == Authority(rest)
             l == LastPosition(none, "@")
  <2>1. \/ l = 0
        \/ none[l] = "@" /\ l \in 1..Len(none)
    BY <1>9, LastPositionIs
  <2> QED
    BY <1>9, <2>1
<1>11. Position(sent, "://") = 2 /\ sent \in Seq(STRING) /\ Len(sent) = 2 + Len(rest)
  <2>1. /\ sent \in Seq(STRING) /\ Len(sent) = 2 + Len(rest)
        /\ sent[1] = url[1] /\ sent[2] = url[2]
    BY <1>1, <1>4, <1>8
  <2>2. 2 \in 1..Len(sent) /\ \A k \in 1..Len(sent) : sent[k] = "://" => 2 <= k
    BY <1>1, <1>8, <2>1
  <2> QED
    BY <1>1, <2>1, <2>2, PositionAt
<1>12. AfterScheme(sent) = rest
  <2> DEFINE first == SubSeq(url, 1, 2)
             got == SubSeq(sent, 3, Len(sent))
  <2>1. first \in Seq(STRING) /\ Len(first) = 2
    BY <1>1
  <2>2. /\ got \in Seq(STRING) /\ Len(got) = Len(rest)
        /\ \A k \in 1..Len(got) : got[k] = sent[2 + k]
    BY <1>11, <1>8
  <2> HIDE DEF first, got
  <2>3. \A k \in 1..Len(rest) : sent[2 + k] = rest[k]
    BY <1>4, <1>8, <2>1 DEF first
  <2>4. got = rest
    BY <1>8, <2>2, <2>3, SeqEqual
  <2> QED
    BY <1>11, <2>4 DEF AfterScheme, got
<1>13. WithoutUserinfo(sent) = rest
  <2>1. WithoutUserinfo(sent) = SubSeq(rest, 1, Len(rest))
    BY <1>10, <1>12 DEF WithoutUserinfo
  <2> QED
    BY <1>8, <2>1, SubSeqFull
<1> QED
  BY <1>13 DEF HostOf, rest, sent

--------------------------------------------------------------------------------
(* What host functions tell the guests.                                    *)

(* A memory and what it is growing by are within the instance's cap.       *)
WithinCap(g) ==
  /\ size[g] <= MaxBytes
  /\ growth[g].what = "memory" => size[g] + growth[g].delta <= MaxBytes
  /\ growth[g].pc = "grow" => growth[g].what = "memory"

CapInv == \A g \in Guests : WithinCap(g)

(* A step of one guest.                                                    *)
LEMMA OneWithinCap ==
  ASSUME CapInv, NEW g \in Guests, WithinCap(g)',
         \A h \in Guests \ {g} : size'[h] = size[h] /\ growth'[h] = growth[h]
  PROVE  CapInv'
BY DEF CapInv, WithinCap

(* Steps that touch no memory and no growth keep the cap.                  *)
LEMMA CapStays ==
  ASSUME CapInv, UNCHANGED quotaVars
  PROVE  CapInv'
BY DEF CapInv, WithinCap, quotaVars

(* A guest that ends has no memory.                                        *)
LEMMA FreedCap ==
  ASSUME BudgetInv, CountInv, CapInv, NEW g \in Guests, Freed(g)
  PROVE  CapInv'
<1>1. /\ size'[g] = 0 /\ growth'[g] = NotGrowing
      /\ \A h \in Guests \ {g} : size'[h] = size[h] /\ growth'[h] = growth[h]
  BY DEF Freed, Over, CountInv, BudgetInv, GrowthType
<1>2. WithinCap(g)'
  BY <1>1, QuotaAssumption DEF WithinCap, NotGrowing
<1> QED
  BY <1>1, <1>2, OneWithinCap

(* A growth beyond the cap traps, so one that starts is within it.         *)
LEMMA StartCap ==
  ASSUME BudgetInv, CountInv, CapInv, NEW g \in Guests,
         NEW what \in {"memory", "table"}, NEW delta \in 1..MaxGrowth,
         StartGrowth(g, what, delta), ~Trapped(g, what, delta)
  PROVE  CapInv'
<1>1. CASE growth' = growth
  BY <1>1, CapStays DEF StartGrowth, quotaVars
<1>2. CASE ~Refused(delta) /\ growth' = [growth EXCEPT ![g] = [what |-> what, delta |-> delta, pc |-> "commit"]]
  <2>1. /\ size' = size /\ growth'[g] = [what |-> what, delta |-> delta, pc |-> "commit"]
        /\ \A h \in Guests \ {g} : growth'[h] = growth[h]
    BY <1>2 DEF StartGrowth, BudgetInv, GrowthType
  <2>2. what = "memory" => ~(size[g] + delta > MaxBytes)
    BY <1>2 DEF Trapped
  <2>3. WithinCap(g)'
    <3>1. growth'[g].what = what /\ growth'[g].delta = delta /\ growth'[g].pc = "commit"
      BY <2>1
    <3>2. size[g] <= MaxBytes /\ size[g] \in Nat /\ MaxBytes \in Nat /\ delta \in Nat
      BY QuotaAssumption DEF CapInv, WithinCap, CountInv
    <3>3. what = "memory" => size[g] + delta <= MaxBytes
      BY <2>2, <3>2
    <3> QED
      BY <2>1, <3>1, <3>2, <3>3 DEF WithinCap
  <2> QED
    BY <2>1, <2>3, OneWithinCap
<1> QED
  BY <1>1, <1>2 DEF StartGrowth

(* What is charged is what was checked.                                    *)
LEMMA CommitCap ==
  ASSUME BudgetInv, CountInv, CapInv, NEW g \in Guests, Commit(g)
  PROVE  CapInv'
<1>1. /\ size' = size
      /\ \A h \in Guests \ {g} : growth'[h] = growth[h]
      /\ \/ growth'[g] = NotGrowing
         \/ /\ growth'[g].pc = "grow" /\ growth'[g].delta = growth[g].delta
            /\ growth'[g].what = "memory" /\ growth[g].what = "memory"
  <2>1. CASE growth[g].what = "memory"
    BY <2>1 DEF Commit, BudgetInv, GrowthType, NotGrowing
  <2>2. CASE growth[g].what # "memory"
    BY <2>2 DEF Commit, BudgetInv, GrowthType, NotGrowing
  <2> QED
    BY <2>1, <2>2
<1>2. WithinCap(g)'
  BY <1>1 DEF CapInv, WithinCap, NotGrowing
<1> QED
  BY <1>1, <1>2, OneWithinCap

(* Memory grows to what was checked.                                       *)
LEMMA GrowCap ==
  ASSUME BudgetInv, CountInv, CapInv, NEW g \in Guests, Grow(g)
  PROVE  CapInv'
<1>1. /\ growth'[g] = NotGrowing /\ \A h \in Guests \ {g} : growth'[h] = growth[h]
      /\ size'[g] \in {size[g], size[g] + growth[g].delta}
      /\ \A h \in Guests \ {g} : size'[h] = size[h]
  BY DEF Grow, Over, BudgetInv, CountInv, GrowthType
<1>2. /\ size[g] <= MaxBytes
      /\ size[g] + growth[g].delta <= MaxBytes
  BY DEF CapInv, WithinCap, Grow
<1>3. WithinCap(g)'
  BY <1>1, <1>2 DEF WithinCap, NotGrowing
<1> QED
  BY <1>1, <1>3, OneWithinCap

(* The inductive invariant of the memories, on top of the budget's.        *)
THEOREM CapInvariant == Spec => []CapInv
<1>1. Init => CapInv
  BY QuotaAssumption DEF Init, QuotaInit, CapInv, WithinCap, NotGrowing
<1>2. ASSUME BudgetInv, CountInv, CapInv, NEW g \in Guests, GuestStep(g) PROVE CapInv'
  <2>1. CASE Schedule(g) \/ Yield(g) \/ CallHost(g) \/ HostAnswers(g)
    BY <1>2, <2>1, CapStays DEF Schedule, Yield, CallHost, HostAnswers
  <2>2. CASE End(g)
    BY <1>2, <2>2, FreedCap DEF End
  <2>3. CASE AskToGrow(g)
    <3>1. PICK what \in {"memory", "table"}, delta \in 1..MaxGrowth :
            IF Trapped(g, what, delta) THEN Becomes(g, "ended") /\ Freed(g)
            ELSE StartGrowth(g, what, delta) /\ UNCHANGED guest
      BY <2>3 DEF AskToGrow
    <3> QED
      BY <1>2, <3>1, FreedCap, StartCap
  <2>4. CASE GrowthStep(g)
    BY <1>2, <2>4, CommitCap, GrowCap DEF GrowthStep
  <2> QED
    BY <1>2, <2>1, <2>2, <2>3, <2>4 DEF GuestStep
<1>3. ASSUME BudgetInv, CountInv, CapInv, [Next]_vars PROVE CapInv'
  <2>1. CASE TickerStep \/ Shutdown \/ UNCHANGED vars
    BY <1>3, <2>1, CapStays DEF TickerStep, Shutdown, vars
  <2> QED
    BY <1>2, <1>3, <2>1 DEF Next
<1> QED
  BY <1>1, <1>3, BudgetInvariant, CountInvariant, PTL DEF Spec

(* No path leads through ".." once it is looked up.                        *)
LEMMA NowhereIsNoPath == Nowhere \notin Seq(STRING \ {".."}) /\ Nowhere \notin Tree
<1>1. Nowhere \notin Seq(STRING \ {".."})
  <2> SUFFICES ASSUME Nowhere \in Seq(STRING \ {".."}) PROVE FALSE
    OBVIOUS
  <2>1. Len(Nowhere) = 2 /\ Nowhere[1] = ".."
    BY DEF Nowhere
  <2>2. \A k \in 1..Len(Nowhere) : Nowhere[k] \in STRING \ {".."}
    OBVIOUS
  <2>3. Nowhere[1] \in STRING \ {".."}
    BY <2>1, <2>2
  <2> QED
    BY <2>1, <2>3
<1> QED
  BY <1>1, PathAssumption

(* A sequence of some is a sequence of more.                               *)
LEMMA SeqOfMore ==
  ASSUME NEW R, NEW S, R \subseteq S, NEW s \in Seq(R)
  PROVE  s \in Seq(S)
<1>1. Len(s) \in Nat /\ s \in [1..Len(s) -> R]
  OBVIOUS
<1>2. s \in [1..Len(s) -> S]
  BY <1>1
<1> QED
  BY <1>1, <1>2

(* What is in a directory of the sandbox is in the sandbox.                *)
LEMMA WithinAppend ==
  ASSUME NEW S, Root \in Seq(S), NEW at \in Seq(S), NEW component \in S, Within(at)
  PROVE  Within(Append(at, component))
<1>1. /\ Len(Root) <= Len(at) /\ Len(Root) \in Nat /\ Len(at) \in Nat
      /\ SubSeq(Root, 1, Len(Root)) = SubSeq(at, 1, Len(Root))
  BY DEF Within, IsPrefix
<1>2. Len(Append(at, component)) = Len(at) + 1
  OBVIOUS
<1>3. SubSeq(Append(at, component), 1, Len(Root)) = SubSeq(at, 1, Len(Root))
  BY <1>1, <1>2
<1> QED
  BY <1>1, <1>2, <1>3 DEF Within, IsPrefix

(* A valid path leads into the sandbox, or ends in a link of the sandbox   *)
(* that led to nothing.                                                    *)
LEMMA ValidLeadsInside ==
  ASSUME NEW path, NEW files, Nowhere \notin files, Valid(path, files)
  PROVE  Within(Target(path)) \/ EndsInStaleLink(path)
<1>1. PICK led, parent : led = Canonical(Candidate(path)) /\ parent = Parent(path)
  OBVIOUS
<1>2. Nowhere \notin Tree
  BY NowhereIsNoPath
<1>3. CASE led \in Tree \cup files
  BY <1>1, <1>2, <1>3 DEF Valid, Target
<1>4. CASE led \notin Tree \cup files /\ led # Nowhere
  BY <1>1, <1>4 DEF Valid, EndsInStaleLink
<1>5. CASE led \notin Tree \cup files /\ led = Nowhere
  <2>1. PICK last : last = Last(Candidate(path))
    OBVIOUS
  <2>2. PICK S : S = (STRING \ {".."}) \cup {last}
    OBVIOUS
  <2>3. parent \in Tree /\ Within(parent) /\ Target(path) = Append(parent, last)
    BY <1>1, <1>5, <2>1 DEF Valid, Target
  <2>4. \A p \in Tree : p \in Seq(S)
    <3>1. STRING \ {".."} \subseteq S
      BY <2>2
    <3>2. \A p \in Seq(STRING \ {".."}) : p \in Seq(S)
      BY <3>1, SeqOfMore
    <3> QED
      BY <3>2, PathAssumption
  <2>5. Root \in Seq(S) /\ parent \in Seq(S) /\ last \in S
    BY <2>2, <2>3, <2>4, PathAssumption
  <2> QED
    BY <2>3, <2>5, WithinAppend
<1> QED
  BY <1>3, <1>4, <1>5

(* What a path that was found valid is known to be, whatever files are     *)
(* made afterwards.                                                        *)
WriteChecked(request) ==
  /\ CanUseFile(request.path, Capabilities.writes)
  /\ Within(FileOf(request)) \/ EndsInStaleLink(request.path)

(* What a call was checked for before it waits.                            *)
Permitted(request) ==
  \/ request \in ReadRequest
  \/ request \in WriteRequest /\ WriteChecked(request)
  \/ request \in HttpRequest /\ AcceptsHttp(request)

(* A call that waits for its answer.                                       *)
Asked(told) ==
  /\ told = [request |-> told.request, result |-> 0, seen |-> {}]
  /\ Permitted(told.request)

(* What a guest was told, and what there is.                               *)
IsTrue(told, memory) ==
  LET request == told.request  result == told.result IN
  CASE request.function = "file_read" ->
         /\ told.seen = {result}
         /\ result <= Max({request.buffer.len, 0})
         /\ request.buffer.ptr \in 0..memory - result
    [] request.function = "file_write" ->
         WriteChecked(request)
    [] OTHER ->
         /\ CanAccessDomain(HostOf(request.url), Capabilities.domains)
         /\ told.seen \in AddressesOf[HostOf(request.url)]
         /\ \A a \in told.seen : ~IsBlocked(a)

(* The files there are: nothing is where no path leads.                    *)
DiskType == disk \in [DOMAIN disk -> Nat] /\ Nowhere \notin DOMAIN disk

HostInv ==
  /\ DiskType
  /\ host = [g \in Guests |-> host[g]]
  /\ \A g \in Guests :
       /\ guest[g] = "waiting" => Asked(host[g])
       /\ guest[g] = "ready" /\ host[g].request.function # "none" => IsTrue(host[g], size[g])

(* A step of one guest.                                                    *)
LEMMA OneIsTold ==
  ASSUME HostInv, DiskType', host' = [g \in Guests |-> host'[g]],
         NEW g \in Guests,
         \A h \in Guests \ {g} : guest'[h] = guest[h] /\ host'[h] = host[h] /\ size'[h] = size[h],
         guest'[g] = "waiting" => Asked(host'[g]),
         guest'[g] = "ready" /\ host'[g].request.function # "none" => IsTrue(host'[g], size'[g])
  PROVE  HostInv'
BY DEF HostInv

(* Files that nobody touches stay as they are.                             *)
LEMMA DiskStays ==
  ASSUME DiskType, UNCHANGED disk
  PROVE  DiskType'
BY DEF DiskType

(* Steps that touch neither guests, hosts, memories nor files.             *)
LEMMA NobodyIsTold ==
  ASSUME HostInv, UNCHANGED <<guest, host, size, disk>>
  PROVE  HostInv'
BY DEF HostInv, DiskType

(* A guest that gets a worker has taken its result.                        *)
LEMMA ScheduleTells ==
  ASSUME BudgetInv, HostInv, NEW g \in Guests, Schedule(g)
  PROVE  HostInv'
<1>1. /\ disk' = disk /\ size' = size /\ host' = [host EXCEPT ![g] = NoCall]
      /\ guest'[g] = "running" /\ \A h \in Guests \ {g} : guest'[h] = guest[h]
  BY DEF Schedule, Becomes, BudgetInv, quotaVars
<1>2. host' = [h \in Guests |-> host'[h]] /\ \A h \in Guests \ {g} : host'[h] = host[h]
  BY <1>1 DEF HostInv
<1> QED
  BY <1>1, <1>2, OneIsTold, DiskStays DEF HostInv

(* A guest at work is told nothing, whatever it does with its memory.      *)
LEMMA WorkTells ==
  ASSUME HostInv, NEW g \in Guests, UNCHANGED <<host, disk>>,
         guest'[g] \notin {"ready", "waiting"},
         \A h \in Guests \ {g} : guest'[h] = guest[h] /\ size'[h] = size[h]
  PROVE  HostInv'
BY OneIsTold, DiskStays DEF HostInv

(* What a guest waits for was accepted.                                    *)
LEMMA CallTells ==
  ASSUME BudgetInv, HostInv, NEW g \in Guests, CallHost(g)
  PROVE  HostInv'
<1>1. disk' = disk /\ size' = size
  BY DEF CallHost, quotaVars
<1>2. PICK request \in HostRequests :
         IF Accepted(g, request) /\ request.function # "log_message"
         THEN /\ Becomes(g, "waiting")
              /\ host' = [host EXCEPT ![g] = [NoCall EXCEPT !.request = request]]
         ELSE UNCHANGED <<guest, host>>
  BY DEF CallHost
<1>3. CASE UNCHANGED <<guest, host>>
  BY <1>1, <1>3, NobodyIsTold
<1>4. CASE /\ Accepted(g, request) /\ request.function # "log_message"
           /\ Becomes(g, "waiting")
           /\ host' = [host EXCEPT ![g] = [NoCall EXCEPT !.request = request]]
  <2>1. /\ guest'[g] = "waiting" /\ \A h \in Guests \ {g} : guest'[h] = guest[h]
    BY <1>4 DEF Becomes, BudgetInv
  <2>2. /\ host' = [h \in Guests |-> host'[h]] /\ \A h \in Guests \ {g} : host'[h] = host[h]
        /\ host'[g] = [NoCall EXCEPT !.request = request]
    BY <1>4 DEF HostInv
  <2>3. /\ host'[g].request = request
        /\ host'[g] = [request |-> request, result |-> 0, seen |-> {}]
    BY <2>2 DEF NoCall
  <2>4. Permitted(request)
    <3>1. request \in ReadRequest \cup WriteRequest \cup HttpRequest
      BY <1>4, SandboxAssumption DEF LogRequest
    <3>2. request \in WriteRequest => WriteChecked(request)
      <4> SUFFICES ASSUME request \in WriteRequest PROVE WriteChecked(request)
        OBVIOUS
      <4>1. CanUseFile(request.path, Capabilities.writes) /\ Valid(request.path, DOMAIN disk)
        BY <1>4 DEF Accepted, WriteRequest, AcceptsWrite
      <4>2. Nowhere \notin DOMAIN disk
        BY DEF HostInv, DiskType
      <4>3. Within(Target(request.path)) \/ EndsInStaleLink(request.path)
        BY <4>1, <4>2, ValidLeadsInside
      <4> QED
        BY <4>1, <4>3 DEF WriteChecked, FileOf
    <3>3. request \in HttpRequest => AcceptsHttp(request)
      BY <1>4 DEF Accepted, HttpRequest
    <3> QED
      BY <3>1, <3>2, <3>3 DEF Permitted
  <2> QED
    BY <1>1, <2>1, <2>2, <2>3, <2>4, OneIsTold, DiskStays DEF HostInv, Asked
<1> QED
  BY <1>2, <1>3, <1>4

(* A file that fits the memory has a length that does not wrap, and a      *)
(* pointer below zero is beyond any memory.                                *)
LEMMA ReadIsTrue ==
  ASSUME NEW ptr \in GuestInt, NEW len \in GuestInt, NEW length \in Nat,
         NEW memory \in Nat, memory <= MaxBytes,
         AsUsize(AsInt(length)) <= (IF len > 0 THEN len ELSE 0),
         AsUsize(ptr) + length <= memory
  PROVE  /\ AsInt(length) = length
         /\ length <= Max({len, 0})
         /\ ptr \in 0..memory - length
<1> DEFINE half == TwoTo[Bits - 1]
           range == TwoTo[Bits]
<1>1. /\ half \in Nat \ {0} /\ range = 2 * half /\ MaxBytes < half /\ MaxBytes \in Nat
      /\ UsizeMax \in Nat /\ UsizeMax >= range
      /\ ptr \in Int /\ -half <= ptr /\ len \in Int
  BY Widths, SandboxAssumption, QuotaAssumption DEF GuestInt
<1>2. AsUsize(ptr) = IF ptr < 0 THEN UsizeMax + ptr ELSE ptr
  BY DEF AsUsize
<1>3. AsInt(length) = LET low == length % range IN IF low < half THEN low ELSE low - range
  BY DEF AsInt
<1> HIDE DEF half, range
<1>4. 0 <= ptr
  BY <1>1, <1>2
<1>5. length < half /\ length < range
  BY <1>1, <1>2, <1>4
<1>6. length % range = length
  BY <1>1, <1>5
<1>7. AsInt(length) = length
  BY <1>3, <1>5, <1>6
<1>8. length <= (IF len > 0 THEN len ELSE 0)
  BY <1>7 DEF AsUsize
<1>9. Max({len, 0}) = IF len > 0 THEN len ELSE 0
  <2> DEFINE m == IF len > 0 THEN len ELSE 0
  <2>1. m \in {len, 0} /\ \A y \in {len, 0} : m >= y
    BY <1>1
  <2>2. \A x \in {len, 0} : (\A y \in {len, 0} : x >= y) => x = m
    BY <1>1
  <2> QED
    BY <2>1, <2>2 DEF Max
<1> QED
  BY <1>1, <1>2, <1>4, <1>7, <1>8, <1>9

(* What a host function returns is true of the memory the guest has now.   *)
LEMMA AnswerTells ==
  ASSUME BudgetInv, CountInv, CapInv, HostInv, NEW g \in Guests, HostAnswers(g)
  PROVE  HostInv'
<1> DEFINE request == host[g].request
<1>1. /\ guest[g] = "waiting" /\ Permitted(request) /\ size' = size
      /\ host[g] = [request |-> request, result |-> 0, seen |-> {}]
      /\ size[g] \in Nat /\ size[g] <= MaxBytes
  BY DEF HostAnswers, HostInv, quotaVars, CountInv, CapInv, WithinCap, Asked
<1>2. ASSUME NEW told, told.request.function # "none" => IsTrue(told, size[g]),
             host' = [host EXCEPT ![g] = told], DiskType', Becomes(g, "ready")
      PROVE  HostInv'
  <2>1. /\ guest'[g] = "ready" /\ \A h \in Guests \ {g} : guest'[h] = guest[h]
    BY <1>2 DEF Becomes, BudgetInv
  <2>2. /\ host' = [h \in Guests |-> host'[h]] /\ \A h \in Guests \ {g} : host'[h] = host[h]
        /\ host'[g] = told
    BY <1>2 DEF HostInv
  <2> QED
    BY <1>1, <1>2, <2>1, <2>2, OneIsTold
<1>7. UNCHANGED disk => DiskType'
  BY DiskStays DEF HostInv
<1>3. CASE HostReturns(g, -1, {}) /\ UNCHANGED disk
  <2>1. host' = [host EXCEPT ![g] = NoCall] /\ Becomes(g, "ready") /\ NoCall.request.function = "none"
    BY <1>3 DEF HostReturns, NoCall
  <2> QED
    BY <1>2, <1>3, <1>7, <2>1
<1>4. CASE request.function = "file_read" /\ HostRead(g) /\ UNCHANGED disk
  <2> DEFINE file == FileOf(request)
             buffer == request.buffer
             length == disk[file]
             n == AsInt(length)
             told == [request |-> request, result |-> n, seen |-> {length}]
  <2>1. CASE HostReturns(g, -1, {})
    BY <1>3, <1>4, <2>1
  <2>2. CASE /\ file \in DOMAIN disk
             /\ AsUsize(n) <= (IF buffer.len > 0 THEN buffer.len ELSE 0)
             /\ AsUsize(buffer.ptr) + length <= size[g]
             /\ HostReturns(g, n, {length})
    <3>1. buffer.ptr \in GuestInt /\ buffer.len \in GuestInt
      <4>1. request \in ReadRequest
        BY <1>1, <1>4 DEF Permitted, ReadRequest, WriteRequest, HttpRequest
      <4>2. buffer \in Region
        BY <4>1 DEF ReadRequest
      <4> QED
        BY <4>2 DEF Region
    <3>2. length \in Nat
      BY <2>2 DEF HostInv, DiskType
    <3>3. AsUsize(AsInt(length)) <= (IF buffer.len > 0 THEN buffer.len ELSE 0)
      BY <2>2
    <3>4. AsUsize(buffer.ptr) + length <= size[g]
      BY <2>2
    <3>5. /\ AsInt(length) = length
          /\ length <= Max({buffer.len, 0})
          /\ buffer.ptr \in 0..size[g] - length
      <4> HIDE DEF length, buffer, n, file
      <4> QED
        BY <1>1, <3>1, <3>2, <3>3, <3>4, ReadIsTrue
    <3>6. /\ n = length /\ n <= Max({buffer.len, 0}) /\ buffer.ptr \in 0..size[g] - n
      BY <3>5
    <3>7. n # -1
      BY <3>2, <3>6
    <3>8. host' = [host EXCEPT ![g] = told] /\ Becomes(g, "ready")
      BY <2>2, <3>7 DEF HostReturns
    <3>9. IsTrue(told, size[g])
      BY <1>4, <3>6 DEF IsTrue
    <3> QED
      BY <1>2, <1>4, <1>7, <3>8, <3>9
  <2> QED
    BY <1>4, <2>1, <2>2 DEF HostRead
<1>5. CASE request.function = "file_write" /\ HostWrite(g)
  <2> DEFINE file == FileOf(request)
             told == [request |-> request, result |-> 0, seen |-> {}]
  <2>1. request.length \in Nat /\ WriteChecked(request)
    BY <1>1, <1>5 DEF Permitted, ReadRequest, WriteRequest, HttpRequest
  <2>2. DiskType'
    <3>1. disk' \in [DOMAIN disk' -> Nat] /\ DOMAIN disk' = DOMAIN disk \cup {file}
      BY <1>5, <2>1 DEF HostWrite, HostInv, DiskType
    <3>2. CanBeFile(file, DOMAIN disk)
      BY <1>5 DEF HostWrite
    <3>3. Front(Nowhere) \notin Tree
      <4>1. /\ Len(Nowhere) = 2
            /\ Len(SubSeq(Nowhere, 1, 1)) = 1 /\ SubSeq(Nowhere, 1, 1)[1] = ".."
        BY DEF Nowhere
      <4> HIDE DEF file, told
      <4>2. Front(Nowhere) = SubSeq(Nowhere, 1, 1)
        BY <4>1 DEF Front
      <4>3. Len(Front(Nowhere)) = 1 /\ Front(Nowhere)[1] = ".."
        BY <4>1, <4>2
      <4>4. ASSUME Front(Nowhere) \in Seq(STRING \ {".."}) PROVE FALSE
        <5>1. \A k \in 1..Len(Front(Nowhere)) :
                Front(Nowhere)[k] \in STRING \ {".."}
          BY <4>4
        <5> QED
          BY <4>3, <5>1
      <4> QED
        BY <4>4, PathAssumption
    <3> HIDE DEF file
    <3>4. file # Nowhere
      BY <3>2, <3>3 DEF CanBeFile, HostInv, DiskType
    <3> QED
      BY <3>1, <3>4 DEF DiskType, HostInv
  <2>3. host' = [host EXCEPT ![g] = told] /\ Becomes(g, "ready")
    BY <1>5 DEF HostWrite, HostReturns
  <2>4. IsTrue(told, size[g])
    BY <1>5, <2>1 DEF IsTrue
  <2> QED
    BY <1>2, <2>2, <2>3, <2>4
<1>6. CASE request.function = "http_request" /\ HostSend(g) /\ UNCHANGED disk
  <2>1. /\ request \in HttpRequest /\ request.url \in Seq(STRING)
        /\ CanAccessDomain(HostOf(request.url), Capabilities.domains)
        /\ Scheme(request.url) \in AllowedSchemes
    BY <1>1, <1>6 DEF Permitted, ReadRequest, WriteRequest, HttpRequest, AcceptsHttp
  <2>2. Position(request.url, "://") = 2
    BY <2>1 DEF Scheme, AllowedSchemes
  <2>3. HostOf(RequestUrl(request.url)) = HostOf(request.url)
    BY <2>1, <2>2, RequestHost
  <2> DEFINE sent == [request EXCEPT !.url = RequestUrl(request.url)]
  <2>8. PICK addresses \in AddressesOf[HostOf(request.url)] :
               /\ Resolution(addresses) = "resolved" /\ Becomes(g, "ready")
               /\ host' = [host EXCEPT ![g] =
                              [request |-> sent, result |-> AnyStatus, seen |-> addresses]]
    BY <1>6 DEF HostSend
  <2> DEFINE told == [request |-> sent, result |-> AnyStatus, seen |-> addresses]
  <2>4. \A a \in addresses : ~IsBlocked(a)
    BY <2>8 DEF Resolution
  <2>5. host' = [host EXCEPT ![g] = told] /\ Becomes(g, "ready")
    BY <2>8
  <2>6. sent.function = "http_request" /\ sent.url = RequestUrl(request.url)
    BY <1>6, <2>1 DEF HttpRequest
  <2>7. IsTrue(told, size[g])
    BY <2>1, <2>3, <2>4, <2>6, <2>8 DEF IsTrue
  <2> QED
    BY <1>2, <1>6, <1>7, <2>5, <2>7
<1> QED
  BY <1>3, <1>4, <1>5, <1>6 DEF HostAnswers

(* The inductive invariant of what guests are told, on top of the others.  *)
THEOREM HostInvariant == Spec => []HostInv
<1>1. Init => HostInv
  BY SandboxAssumption, NowhereIsNoPath DEF Init, HostInv, DiskType, NoCall
<1>2. ASSUME BudgetInv, CountInv, CountInv', CapInv, HostInv, NEW g \in Guests, GuestStep(g)
      PROVE  HostInv'
  <2>1. CASE Schedule(g)
    BY <1>2, <2>1, ScheduleTells
  <2>2. CASE Yield(g)
    <3>1. /\ UNCHANGED <<host, disk>> /\ size' = size /\ guest'[g] = "yielded"
          /\ \A h \in Guests \ {g} : guest'[h] = guest[h]
      BY <1>2, <2>2 DEF Yield, quotaVars, Becomes, BudgetInv
    <3> QED
      BY <1>2, <3>1, WorkTells
  <2>3. ASSUME Freed(g), Becomes(g, "ended"), UNCHANGED <<host, disk>> PROVE HostInv'
    <3>1. /\ guest'[g] = "ended" /\ \A h \in Guests \ {g} : guest'[h] = guest[h] /\ size'[h] = size[h]
      BY <1>2, <2>3 DEF Freed, Becomes, BudgetInv, CountInv
    <3> QED
      BY <1>2, <2>3, <3>1, WorkTells
  <2>4. CASE End(g)
    BY <2>3, <2>4 DEF End
  <2>5. CASE AskToGrow(g)
    <3>1. PICK what \in {"memory", "table"}, delta \in 1..MaxGrowth :
            IF Trapped(g, what, delta) THEN Becomes(g, "ended") /\ Freed(g)
            ELSE StartGrowth(g, what, delta) /\ UNCHANGED guest
      BY <2>5 DEF AskToGrow
    <3>2. UNCHANGED <<host, disk>>
      BY <2>5 DEF AskToGrow
    <3>3. CASE StartGrowth(g, what, delta) /\ UNCHANGED guest
      BY <1>2, <3>2, <3>3, NobodyIsTold DEF StartGrowth
    <3> QED
      BY <2>3, <3>1, <3>2, <3>3
  <2>6. CASE GrowthStep(g)
    <3>1. UNCHANGED <<guest, host, disk>> /\ guest[g] = "running"
      BY <1>2, <2>6 DEF GrowthStep, guestVars, BudgetInv, Running, Growing, Commit, Grow
    <3>2. \A h \in Guests \ {g} : size'[h] = size[h]
      BY <1>2, <2>6 DEF GrowthStep, Commit, Grow, CountInv
    <3> QED
      BY <1>2, <3>1, <3>2, WorkTells
  <2>7. CASE CallHost(g)
    BY <1>2, <2>7, CallTells
  <2>8. CASE HostAnswers(g)
    BY <1>2, <2>8, AnswerTells
  <2> QED
    BY <1>2, <2>1, <2>2, <2>4, <2>5, <2>6, <2>7, <2>8 DEF GuestStep
<1>3. ASSUME BudgetInv, CountInv, CountInv', CapInv, HostInv, [Next]_vars PROVE HostInv'
  <2>1. CASE TickerStep \/ Shutdown \/ UNCHANGED vars
    BY <1>3, <2>1, NobodyIsTold DEF TickerStep, Shutdown, vars, guestVars, quotaVars
  <2> QED
    BY <1>2, <1>3, <2>1 DEF Next
<1> QED
  BY <1>1, <1>3, BudgetInvariant, CountInvariant, CapInvariant, PTL DEF Spec

(* A guest is told the truth: a length it gets is that of the whole file   *)
(* in its buffer though both were cast to an i32 (filesystem.rs:109-114),  *)
(* a write went where its path leads from the sandbox (path.rs:101), and a *)
(* status is the answer to a request whose host was checked, though the    *)
(* URL was rewritten since (network.rs:258).                               *)
THEOREM HostResultsAreTrueHolds == Spec => []HostResultsAreTrue
<1>1. HostInv => HostResultsAreTrue
  BY DEF HostInv, HostResultsAreTrue, IsTrue, WriteChecked
<1> QED
  BY <1>1, HostInvariant, PTL
================================================================================
