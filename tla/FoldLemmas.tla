------------------------------- MODULE FoldLemmas --------------------------------
(***************************************************************************)
(* What the folds of the community modules are, for proofs.  They are      *)
(* functions defined recursively, along the subsets of a finite set:       *)
(* existence is shown here once, for a step that is a function, and the    *)
(* inductions are on the least counterexample.                             *)
(***************************************************************************)
EXTENDS Integers, Sequences, SequencesExt, FiniteSetTheorems, SequenceTheorems,
        NaturalsInduction, WellFoundedInduction, TLAPS

(* A set of naturals that is not empty has a least element.                *)
LEMMA LeastNatural ==
  ASSUME NEW T \in SUBSET Nat, T # {}
  PROVE  \E n \in T : \A m \in T : n <= m
<1> DEFINE R == OpToRel(<, Nat)
<1>1. IsWellFoundedOn(R, Nat)
  BY NatLessThanWellFounded
<1> HIDE DEF R
<1>2. PICK n \in T : \A m \in T : ~(<<m, n>> \in R)
  BY <1>1, WFMin
<1>3. ASSUME NEW m \in T PROVE n <= m
  <2>1. m \in Nat /\ n \in Nat
    OBVIOUS
  <2>2. m < n => <<m, n>> \in R
    BY <2>1 DEF R, OpToRel
  <2>3. ~(m < n)
    BY <1>2, <2>2
  <2> QED
    BY <2>1, <2>3
<1> QED
  BY <1>3

(* The least of a set of naturals, and the greatest of a bounded one, as   *)
(* FiniteSetsExt chooses them.                                             *)
LEMMA MinIsLeast ==
  ASSUME NEW T \in SUBSET Nat, T # {}
  PROVE  Min(T) \in T /\ \A m \in T : Min(T) <= m
<1>1. \E n \in T : \A m \in T : n <= m
  BY LeastNatural
<1> QED
  BY <1>1 DEF Min

(* A set of naturals that is not empty and has a bound has a greatest      *)
(* element, which is what FiniteSetsExt chooses.                           *)
LEMMA MaxIsGreatest ==
  ASSUME NEW n \in Nat, NEW T \in SUBSET (0..n), T # {}
  PROVE  Max(T) \in T /\ \A m \in T : m <= Max(T)
<1> DEFINE Down == {k \in 0..n : n - k \in T}
<1>1. Down \in SUBSET Nat /\ Down # {}
  <2>1. PICK m \in T : TRUE
    OBVIOUS
  <2>2. m \in 0..n /\ n - m \in 0..n /\ n - (n - m) = m
    OBVIOUS
  <2> QED
    BY <2>1, <2>2
<1> HIDE DEF Down
<1>2. PICK k \in Down : \A m \in Down : k <= m
  BY <1>1, LeastNatural
<1>3. n - k \in T /\ k \in 0..n
  BY DEF Down
<1>4. ASSUME NEW m \in T PROVE m <= n - k
  <2>1. m \in 0..n /\ n - m \in 0..n /\ n - (n - m) = m
    OBVIOUS
  <2>2. n - m \in Down
    BY <2>1 DEF Down
  <2>3. k <= n - m
    BY <1>2, <2>2
  <2> QED
    BY <1>3, <2>1, <2>3
<1>5. \E x \in T : \A m \in T : x >= m
  BY <1>3, <1>4
<1>6. Max(T) \in T /\ \A m \in T : Max(T) >= m
  BY <1>5 DEF Max
<1> QED
  BY <1>6

(* A set of subsets of a finite set has a minimal one.                     *)
LEMMA MinimalSubset ==
  ASSUME NEW S, IsFiniteSet(S), NEW T \in SUBSET (SUBSET S), T # {}
  PROVE  \E s \in T : \A r \in T : r \subseteq s => r = s
<1>1. IsWellFoundedOn(StrictSubsetOrdering(S), SUBSET S)
  BY FS_StrictSubsetOrderingWellFounded, FS_FiniteSubsetsOfFinite
<1>2. PICK s \in T : \A r \in T : ~(<<r, s>> \in StrictSubsetOrdering(S))
  BY <1>1, WFMin
<1>3. ASSUME NEW r \in T, r \subseteq s, r # s PROVE FALSE
  BY <1>2, <1>3 DEF StrictSubsetOrdering
<1> QED
  BY <1>3

(* A function on the subsets of S that takes one element after another.    *)
TakesAlong(g, S, base, pick, step) ==
  \A s \in SUBSET S :
    g[s] = IF s = {} THEN base ELSE step[pick[s]][g[s \ {pick[s]}]]

(* A step that is a function can be taken along the subsets of a finite    *)
(* set, one chosen element at a time.                                      *)
LEMMA AlongSubsets ==
  ASSUME NEW S, IsFiniteSet(S), NEW V, NEW base \in V,
         NEW pick, \A s \in SUBSET S : s # {} => pick[s] \in s,
         NEW step \in [S -> [V -> V]]
  PROVE  \E g \in [SUBSET S -> V] : TakesAlong(g, S, base, pick, step)
<1> DEFINE Right(g, s) == g[s] = IF s = {} THEN base ELSE step[pick[s]][g[s \ {pick[s]}]]
           UpTo(n) == \E g \in [SUBSET S -> V] :
                        \A s \in SUBSET S : Cardinality(s) <= n => Right(g, s)
           T == {n \in Nat : ~UpTo(n)}
<1>1. \A s \in SUBSET S : /\ IsFiniteSet(s) /\ Cardinality(s) \in Nat
                          /\ Cardinality(s) <= Cardinality(S)
                          /\ Cardinality(s) = 0 <=> s = {}
  BY FS_Subset, FS_CardinalityType, FS_EmptySet
<1>2. \A s \in SUBSET S : s # {} => /\ s \ {pick[s]} \in SUBSET S
                                    /\ Cardinality(s \ {pick[s]}) = Cardinality(s) - 1
  BY <1>1, FS_RemoveElement
<1>3. UpTo(0)
  <2>1. [s \in SUBSET S |-> base] \in [SUBSET S -> V]
    OBVIOUS
  <2>2. \A s \in SUBSET S : Cardinality(s) <= 0 => s = {}
    BY <1>1
  <2> QED
    BY <2>1, <2>2
<1>4. ASSUME NEW n \in Nat, UpTo(n) PROVE UpTo(n + 1)
  <2>1. PICK g \in [SUBSET S -> V] :
               \A s \in SUBSET S : Cardinality(s) <= n => Right(g, s)
    BY <1>4
  <2> DEFINE h == [s \in SUBSET S |-> IF s = {} THEN base
                                      ELSE step[pick[s]][g[s \ {pick[s]}]]]
  <2>2. h \in [SUBSET S -> V]
    <3> SUFFICES ASSUME NEW s \in SUBSET S, s # {}
                 PROVE  step[pick[s]][g[s \ {pick[s]}]] \in V
      OBVIOUS
    <3>1. pick[s] \in S /\ g[s \ {pick[s]}] \in V
      BY <1>2
    <3> QED
      BY <3>1
  <2>3. \A s \in SUBSET S : Cardinality(s) <= n => h[s] = g[s]
    BY <2>1
  <2>4. ASSUME NEW s \in SUBSET S, Cardinality(s) <= n + 1, s # {}
        PROVE  h[s \ {pick[s]}] = g[s \ {pick[s]}]
    <3>1. /\ s \ {pick[s]} \in SUBSET S /\ Cardinality(s) \in Nat
          /\ Cardinality(s \ {pick[s]}) = Cardinality(s) - 1
      BY <1>1, <1>2, <2>4
    <3> DEFINE r == s \ {pick[s]}
    <3>2. r \in SUBSET S /\ Cardinality(r) <= n
      BY <2>4, <3>1
    <3> HIDE DEF r, h
    <3>3. h[r] = g[r]
      BY <2>3, <3>2
    <3> QED
      BY <3>3 DEF r
  <2>5. \A s \in SUBSET S : Cardinality(s) <= n + 1 => Right(h, s)
    BY <2>4
  <2> QED
    BY <2>2, <2>5
<1>5. T = {}
  <2> SUFFICES ASSUME T # {} PROVE FALSE
    OBVIOUS
  <2>1. PICK n \in T : \A m \in T : n <= m
    BY LeastNatural
  <2> HIDE DEF UpTo
  <2>2. n \in Nat /\ n # 0 /\ ~UpTo(n)
    BY <1>3, <2>1
  <2>3. n - 1 \in Nat /\ n - 1 \notin T
    BY <2>1, <2>2
  <2>4. UpTo(n - 1)
    BY <2>3
  <2>5. UpTo((n - 1) + 1)
    BY <1>4, <2>3, <2>4
  <2> QED
    BY <2>2, <2>5
<1>6. UpTo(Cardinality(S)) /\ Cardinality(S) \in Nat
  BY <1>1, <1>5
<1> QED
  BY <1>1, <1>6 DEF TakesAlong

(* A function on 0..n that is defined from what it is for the number       *)
(* before.                                                                 *)
CountsAlong(g, n, base, step) ==
  \A k \in 0..n : g[k] = IF k = 0 THEN base ELSE step[k][g[k - 1]]

(* It can be taken along the numbers up to n.                              *)
LEMMA AlongNumbers ==
  ASSUME NEW n \in Nat, NEW V, NEW base \in V, NEW step \in [1..n -> [V -> V]]
  PROVE  \E g \in [0..n -> V] : CountsAlong(g, n, base, step)
<1> DEFINE Right(g, k) == g[k] = IF k = 0 THEN base ELSE step[k][g[k - 1]]
           UpTo(m) == \E g \in [0..n -> V] : \A k \in 0..m : k <= n => Right(g, k)
           T == {m \in Nat : ~UpTo(m)}
<1>1. UpTo(0)
  <2> DEFINE h == [k \in 0..n |-> base]
  <2>1. h \in [0..n -> V] /\ 0 \in 0..n /\ \A k \in 0..0 : k = 0
    OBVIOUS
  <2>2. Right(h, 0)
    BY <2>1
  <2> HIDE DEF h, Right
  <2>3. \A k \in 0..0 : k <= n => Right(h, k)
    BY <2>1, <2>2
  <2> QED
    BY <2>1, <2>3
<1>2. ASSUME NEW m \in Nat, UpTo(m) PROVE UpTo(m + 1)
  <2>1. PICK g \in [0..n -> V] : \A k \in 0..m : k <= n => Right(g, k)
    BY <1>2
  <2> DEFINE h == [k \in 0..n |-> IF k = 0 THEN base ELSE step[k][g[k - 1]]]
  <2>2. h \in [0..n -> V]
    <3> SUFFICES ASSUME NEW k \in 0..n, k # 0 PROVE step[k][g[k - 1]] \in V
      OBVIOUS
    <3>1. k \in 1..n /\ k - 1 \in 0..n
      OBVIOUS
    <3> QED
      BY <3>1
  <2>3. \A k \in 0..m : k <= n => h[k] = g[k]
    BY <2>1
  <2>4. ASSUME NEW k \in 0..m + 1, k <= n PROVE Right(h, k)
    <3>1. CASE k = 0
      BY <2>4, <3>1
    <3>2. CASE k # 0
      <4>1. k - 1 \in 0..m /\ k - 1 <= n /\ k \in 0..n
        BY <2>4, <3>2
      <4>2. h[k - 1] = g[k - 1]
        BY <2>3, <4>1
      <4> QED
        BY <3>2, <4>1, <4>2
    <3> QED
      BY <3>1, <3>2
  <2> QED
    BY <2>2, <2>4
<1>3. T = {}
  <2> SUFFICES ASSUME T # {} PROVE FALSE
    OBVIOUS
  <2>1. PICK m \in T : \A k \in T : m <= k
    BY LeastNatural
  <2> HIDE DEF UpTo
  <2>2. m \in Nat /\ m # 0 /\ ~UpTo(m)
    BY <1>1, <2>1
  <2>3. m - 1 \in Nat /\ m - 1 \notin T
    BY <2>1, <2>2
  <2>4. UpTo((m - 1) + 1)
    BY <1>2, <2>3
  <2> QED
    BY <2>2, <2>4
<1>4. UpTo(n)
  BY <1>3
<1> QED
  BY <1>4 DEF CountsAlong

(* The sum of a function's values, along the subsets of its domain.        *)
Picked(s) == CHOOSE x \in s : TRUE

SumsAlong(g, S, f) ==
  /\ g[{}] = 0
  /\ \A s \in SUBSET S : s # {} => g[s] = f[Picked(s)] + g[s \ {Picked(s)}]

(* The sum of a function is the end of the sums along the subsets of its   *)
(* domain.                                                                 *)
LEMMA SumAlong ==
  ASSUME NEW S, IsFiniteSet(S), NEW f \in [S -> Int]
  PROVE  \E g \in [SUBSET S -> Int] : SumsAlong(g, S, f) /\ SumFunction(f) = g[S]
<1> DEFINE pick == [s \in SUBSET S |-> CHOOSE x \in s : TRUE]
           step == [x \in S |-> [n \in Int |-> f[x] + n]]
           Is(g) == g = [s \in SUBSET S |->
                           IF s = {} THEN 0
                           ELSE f[CHOOSE x \in s : TRUE] + g[s \ {CHOOSE x \in s : TRUE}]]
           sum == CHOOSE g : Is(g)
<1>1. SumFunction(f) = sum[S]
  <2>1. DOMAIN f = S
    OBVIOUS
  <2> QED
    BY <2>1 DEF SumFunction, SumFunctionOnSet, FoldFunctionOnSet, MapThenFoldSet
<1>2. PICK g \in [SUBSET S -> Int] : TakesAlong(g, S, 0, pick, step)
  <2>1. step \in [S -> [Int -> Int]]
    OBVIOUS
  <2>2. \A s \in SUBSET S : s # {} => pick[s] \in s
    OBVIOUS
  <2> HIDE DEF pick, step
  <2>3. 0 \in Int
    OBVIOUS
  <2> QED
    BY <2>1, <2>2, <2>3, AlongSubsets
<1>3. Is(g)
  <2> SUFFICES ASSUME NEW s \in SUBSET S
               PROVE  g[s] = IF s = {} THEN 0
                             ELSE f[CHOOSE x \in s : TRUE] + g[s \ {CHOOSE x \in s : TRUE}]
    OBVIOUS
  <2>1. g[s] = IF s = {} THEN 0 ELSE step[pick[s]][g[s \ {pick[s]}]]
    BY <1>2 DEF TakesAlong
  <2>2. CASE s # {}
    <3>1. pick[s] = (CHOOSE x \in s : TRUE) /\ pick[s] \in S /\ s \ {pick[s]} \in SUBSET S
      BY <2>2
    <3> QED
      BY <2>1, <2>2, <3>1
  <2> QED
    BY <2>1, <2>2
<1>4. Is(sum)
  BY <1>3
<1> HIDE DEF sum
<1>5. \A s \in SUBSET S : sum[s] = g[s]
  <2> DEFINE T == {s \in SUBSET S : sum[s] # g[s]}
  <2> SUFFICES ASSUME T # {} PROVE FALSE
    OBVIOUS
  <2>1. PICK s \in T : \A r \in T : r \subseteq s => r = s
    <3>1. T \in SUBSET (SUBSET S)
      OBVIOUS
    <3> HIDE DEF T
    <3> QED
      BY <3>1, MinimalSubset
  <2>2. s # {} /\ s \in SUBSET S
    BY <1>3, <1>4, <2>1
  <2> DEFINE x == CHOOSE x \in s : TRUE
  <2>3. x \in s
    BY <2>2
  <2>4. sum[s] = f[x] + sum[s \ {x}] /\ g[s] = f[x] + g[s \ {x}]
    BY <1>3, <1>4, <2>2
  <2> HIDE DEF x, Is
  <2>5. s \ {x} \in SUBSET S /\ s \ {x} \notin T
    BY <2>1, <2>2, <2>3
  <2>6. sum[s \ {x}] = g[s \ {x}]
    BY <2>5
  <2> QED
    BY <2>1, <2>4, <2>6
<1>6. S \in SUBSET S /\ {} \in SUBSET S
  OBVIOUS
<1>7. sum[S] = g[S]
  BY <1>5, <1>6
<1> QED
  BY <1>1, <1>3, <1>6, <1>7 DEF SumsAlong, Picked

(* A function that is nowhere above another one has no larger sum, and no  *)
(* other one if it is the same everywhere but at one place, where it       *)
(* differs by as much.                                                     *)
LEMMA SumAtMost ==
  ASSUME NEW S, IsFiniteSet(S), NEW f \in [S -> Int], NEW h \in [S -> Int],
         \A x \in S : f[x] <= h[x]
  PROVE  SumFunction(f) \in Int /\ SumFunction(h) \in Int /\ SumFunction(f) <= SumFunction(h)
<1>1. PICK p \in [SUBSET S -> Int] : SumsAlong(p, S, f) /\ SumFunction(f) = p[S]
  BY SumAlong
<1>2. PICK q \in [SUBSET S -> Int] : SumsAlong(q, S, h) /\ SumFunction(h) = q[S]
  BY SumAlong
<1> DEFINE T == {s \in SUBSET S : ~(p[s] <= q[s])}
<1>3. T = {}
  <2> SUFFICES ASSUME T # {} PROVE FALSE
    OBVIOUS
  <2>1. PICK s \in T : \A r \in T : r \subseteq s => r = s
    <3>1. T \in SUBSET (SUBSET S)
      OBVIOUS
    <3> HIDE DEF T
    <3> QED
      BY <3>1, MinimalSubset
  <2>2. s # {} /\ s \in SUBSET S
    <3>1. p[{}] = 0 /\ q[{}] = 0
      BY <1>1, <1>2 DEF SumsAlong
    <3>2. {} \notin T
      BY <3>1
    <3> QED
      BY <2>1, <3>2
  <2>3. Picked(s) \in s
    BY <2>2 DEF Picked
  <2>4. p[s] = f[Picked(s)] + p[s \ {Picked(s)}] /\ q[s] = h[Picked(s)] + q[s \ {Picked(s)}]
    BY <1>1, <1>2, <2>2 DEF SumsAlong
  <2> DEFINE x == Picked(s)  r == s \ {x}
  <2>5. r \in SUBSET S /\ r \notin T /\ x \in S
    BY <2>1, <2>2, <2>3
  <2>6. p[s] = f[x] + p[r] /\ q[s] = h[x] + q[r]
    BY <2>4
  <2> HIDE DEF x, r
  <2>7. /\ p[r] \in Int /\ q[r] \in Int /\ p[r] <= q[r]
        /\ f[x] \in Int /\ h[x] \in Int /\ f[x] <= h[x]
    BY <2>5
  <2>8. p[s] <= q[s]
    BY <2>6, <2>7
  <2> QED
    BY <2>1, <2>8
<1>4. S \in SUBSET S
  OBVIOUS
<1> QED
  BY <1>1, <1>2, <1>3, <1>4

(* A function that changes in one place changes its sum by as much.        *)
LEMMA SumChanges ==
  ASSUME NEW S, IsFiniteSet(S), NEW f \in [S -> Int], NEW h \in [S -> Int], NEW x \in S,
         \A y \in S \ {x} : h[y] = f[y]
  PROVE  /\ SumFunction(f) \in Int /\ SumFunction(h) \in Int
         /\ SumFunction(h) = SumFunction(f) + (h[x] - f[x])
<1>1. PICK p \in [SUBSET S -> Int] : SumsAlong(p, S, f) /\ SumFunction(f) = p[S]
  BY SumAlong
<1>2. PICK q \in [SUBSET S -> Int] : SumsAlong(q, S, h) /\ SumFunction(h) = q[S]
  BY SumAlong
<1> DEFINE Differs(s) == q[s] = p[s] + (IF x \in s THEN h[x] - f[x] ELSE 0)
           T == {s \in SUBSET S : ~Differs(s)}
<1>3. T = {}
  <2> SUFFICES ASSUME T # {} PROVE FALSE
    OBVIOUS
  <2>1. PICK s \in T : \A r \in T : r \subseteq s => r = s
    <3>1. T \in SUBSET (SUBSET S)
      OBVIOUS
    <3> HIDE DEF T
    <3> QED
      BY <3>1, MinimalSubset
  <2>2. s # {} /\ s \in SUBSET S
    <3>1. p[{}] = 0 /\ q[{}] = 0
      BY <1>1, <1>2 DEF SumsAlong
    <3>2. {} \notin T
      BY <3>1
    <3> QED
      BY <2>1, <3>2
  <2>3. Picked(s) \in s
    BY <2>2 DEF Picked
  <2>4. p[s] = f[Picked(s)] + p[s \ {Picked(s)}] /\ q[s] = h[Picked(s)] + q[s \ {Picked(s)}]
    BY <1>1, <1>2, <2>2 DEF SumsAlong
  <2> DEFINE y == Picked(s)  r == s \ {y}
  <2>5. r \in SUBSET S /\ r \notin T /\ y \in S /\ (x \in s <=> x \in r \/ x = y) /\ y \notin r
    BY <2>1, <2>2, <2>3
  <2>6. p[s] = f[y] + p[r] /\ q[s] = h[y] + q[r]
    BY <2>4
  <2> HIDE DEF y, r
  <2>7. /\ p[r] \in Int /\ q[r] \in Int /\ Differs(r)
        /\ f[y] \in Int /\ h[y] \in Int /\ f[x] \in Int /\ h[x] \in Int
        /\ y # x => h[y] = f[y]
    BY <2>5
  <2>8. Differs(s)
    <3>1. CASE x = y
      BY <2>5, <2>6, <2>7, <3>1
    <3>2. CASE x # y
      BY <2>5, <2>6, <2>7, <3>2
    <3> QED
      BY <3>1, <3>2
  <2> QED
    BY <2>1, <2>8
<1>4. S \in SUBSET S /\ f[x] \in Int /\ h[x] \in Int
  OBVIOUS
<1>5. Differs(S)
  BY <1>3, <1>4
<1> QED
  BY <1>1, <1>2, <1>4, <1>5

(* A sum of zeros is zero.                                                 *)
LEMMA SumOfZeros ==
  ASSUME NEW S, IsFiniteSet(S)
  PROVE  SumFunction([x \in S |-> 0]) = 0
<1> DEFINE f == [x \in S |-> 0]
<1>1. PICK p \in [SUBSET S -> Int] : SumsAlong(p, S, f) /\ SumFunction(f) = p[S]
  <2>1. f \in [S -> Int]
    OBVIOUS
  <2> HIDE DEF f
  <2> QED
    BY <2>1, SumAlong
<1> DEFINE T == {s \in SUBSET S : p[s] # 0}
<1>2. T = {}
  <2> SUFFICES ASSUME T # {} PROVE FALSE
    OBVIOUS
  <2>1. PICK s \in T : \A r \in T : r \subseteq s => r = s
    <3>1. T \in SUBSET (SUBSET S)
      OBVIOUS
    <3> HIDE DEF T
    <3> QED
      BY <3>1, MinimalSubset
  <2>2. s # {} /\ s \in SUBSET S
    BY <1>1, <2>1 DEF SumsAlong
  <2>3. Picked(s) \in s
    BY <2>2 DEF Picked
  <2>4. p[s] = f[Picked(s)] + p[s \ {Picked(s)}]
    BY <1>1, <2>2 DEF SumsAlong
  <2> DEFINE y == Picked(s)  r == s \ {y}
  <2>5. r \in SUBSET S /\ r \notin T /\ y \in S
    BY <2>1, <2>2, <2>3
  <2>6. p[s] = f[y] + p[r]
    BY <2>4
  <2> HIDE DEF y, r
  <2>7. p[r] = 0 /\ f[y] = 0
    BY <2>5
  <2> QED
    BY <2>1, <2>6, <2>7
<1>3. S \in SUBSET S
  OBVIOUS
<1> QED
  BY <1>1, <1>2, <1>3


(* The first k numbers without the greatest.                               *)
LEMMA UpTo ==
  ASSUME NEW n \in Nat, NEW k \in 1..n
  PROVE  /\ Max(1..k) = k /\ (1..k) \ {k} = 1..(k - 1)
         /\ 1..k \in SUBSET (1..n) /\ 1..k # {}
<1> DEFINE T == 1..k
<1>1. T \in SUBSET (0..n) /\ T # {} /\ k \in T /\ k \in Nat
  OBVIOUS
<1>2. T \in SUBSET (1..n) /\ T \ {k} = 1..(k - 1)
  OBVIOUS
<1> HIDE DEF T
<1>3. Max(T) \in T /\ k <= Max(T)
  BY <1>1, MaxIsGreatest
<1>4. Max(T) = k
  <2>1. PICK m \in T : m = Max(T)
    BY <1>3
  <2>2. m \in Nat /\ m <= k /\ k \in Nat
    BY <2>1 DEF T
  <2>3. k <= m
    BY <1>3, <2>1
  <2>4. m = k
    BY <2>2, <2>3
  <2> QED
    BY <2>1, <2>4
<1> QED
  BY <1>1, <1>2, <1>4 DEF T

(* A fold from the left: FoldLeft is a function on the subsets of the      *)
(* positions that takes off the greatest one.  There is such a function,   *)
(* and any that is one as long as it stays in V runs along the sequence.   *)
FoldsAlong(g, n, base, step) ==
  \A s \in SUBSET (1..n) : g[s] = IF s = {} THEN base ELSE step[Max(s)][g[s \ {Max(s)}]]

FoldsWithin(g, n, V, base, step) ==
  /\ g[{}] = base
  /\ \A s \in SUBSET (1..n) :
       s # {} /\ g[s \ {Max(s)}] \in V => g[s] = step[Max(s)][g[s \ {Max(s)}]]

(* The fold of a step along the subsets of 1..n exists.                    *)
LEMMA FoldExists ==
  ASSUME NEW n \in Nat, NEW V, NEW base \in V, NEW step \in [1..n -> [V -> V]]
  PROVE  \E g \in [SUBSET (1..n) -> V] : FoldsAlong(g, n, base, step)
<1> DEFINE S == 1..n
           pick == [s \in SUBSET S |-> Max(s)]
<1>1. ASSUME NEW s \in SUBSET S, s # {} PROVE pick[s] \in s
  <2>1. s \in SUBSET (0..n)
    OBVIOUS
  <2> QED
    BY <1>1, <2>1, MaxIsGreatest
<1>2. IsFiniteSet(S)
  BY FS_Interval
<1>3. \A s \in SUBSET S : pick[s] = Max(s)
  OBVIOUS
<1>8. PICK walk \in [S -> [V -> V]] : walk = step
  OBVIOUS
<1>9. base \in V
  OBVIOUS
<1> HIDE DEF S, pick
<1>4. \A s \in SUBSET S : s # {} => pick[s] \in s
  BY <1>1
<1>5. \E g \in [SUBSET S -> V] : TakesAlong(g, S, base, pick, walk)
  <2>1. walk \in [S -> [V -> V]]
    OBVIOUS
  <2> QED
    BY <1>2, <1>4, <2>1, <1>9, AlongSubsets, ZenonT(60)
<1>6. PICK g \in [SUBSET S -> V] : TakesAlong(g, S, base, pick, step)
  BY <1>5, <1>8
<1>7. ASSUME NEW s \in SUBSET S
      PROVE  g[s] = IF s = {} THEN base ELSE step[Max(s)][g[s \ {Max(s)}]]
  BY <1>3, <1>6 DEF TakesAlong
<1> QED
  BY <1>7 DEF S, FoldsAlong

EndsAs(fold, run, n) == fold[1..n] = run[n]

(* It ends where the step ends that is taken along the numbers.            *)
LEMMA FoldRuns ==
  ASSUME NEW n \in Nat, NEW V, NEW base \in V, NEW step \in [1..n -> [V -> V]], NEW fold,
         FoldsWithin(fold, n, V, base, step),
         NEW run \in [0..n -> V], CountsAlong(run, n, base, step)
  PROVE  EndsAs(fold, run, n)
<1> DEFINE T == {k \in 0..n : fold[1..k] # run[k]}
<1>1. T = {}
  <2> SUFFICES ASSUME T # {} PROVE FALSE
    OBVIOUS
  <2>1. PICK k \in T : \A m \in T : k <= m
    <3>1. T \in SUBSET Nat
      OBVIOUS
    <3> HIDE DEF T
    <3> QED
      BY <3>1, LeastNatural
  <2>2. k \in 0..n /\ fold[1..k] # run[k]
    BY <2>1
  <2>3. k # 0
    <3>1. 1..0 = {} /\ 0 \in 0..n
      OBVIOUS
    <3>2. run[0] = base
      BY <3>1 DEF CountsAlong
    <3>3. fold[1..0] = run[0]
      BY <3>1, <3>2 DEF FoldsWithin
    <3> QED
      BY <2>2, <3>3
  <2>4. k - 1 \in 0..n /\ k - 1 \notin T /\ k \in 1..n
    BY <2>1, <2>2, <2>3
  <2>5. fold[1..(k - 1)] = run[k - 1] /\ run[k - 1] \in V
    BY <2>4
  <2>6. /\ Max(1..k) = k /\ (1..k) \ {k} = 1..(k - 1)
        /\ 1..k \in SUBSET (1..n) /\ 1..k # {}
    BY <2>4, UpTo
  <2>7. fold[1..k] = step[k][run[k - 1]]
    BY <2>5, <2>6 DEF FoldsWithin
  <2>8. run[k] = step[k][run[k - 1]]
    BY <2>2, <2>3 DEF CountsAlong
  <2> QED
    BY <2>2, <2>7, <2>8
<1> QED
  BY <1>1 DEF EndsAs

--------------------------------------------------------------------------------
(* A sequence of sequences, put one after the other.                       *)
FlattensAlong(run, seqs, n) ==
  /\ run[0] = <<>>
  /\ \A k \in 1..n : run[k] = run[k - 1] \o seqs[k]

(* FlattenSeq does so.                                                     *)
LEMMA FlattenRuns ==
  ASSUME NEW S, NEW n \in Nat, NEW seqs \in [1..n -> Seq(S)]
  PROVE  \E run \in [0..n -> Seq(S)] : FlattensAlong(run, seqs, n) /\ FlattenSeq(seqs) = run[n]
<1> DEFINE Is(f) == f = [i \in 1..n |-> IF i = 1 THEN seqs[i] ELSE f[i - 1] \o seqs[i]]
<1>1. PICK V : V = Seq(S)
  OBVIOUS
<1>2. \A a, b \in V : a \o b \in V
  BY <1>1
<1>3. <<>> \in V /\ \A b \in V : <<>> \o b = b
  BY <1>1
<1>4. PICK step \in [1..n -> [V -> V]] : \A k \in 1..n, v \in V : step[k][v] = v \o seqs[k]
  <2>1. \A k \in 1..n, v \in V : v \o seqs[k] \in V
    BY <1>1, <1>2
  <2>2. [k \in 1..n |-> [v \in V |-> v \o seqs[k]]] \in [1..n -> [V -> V]]
    BY <2>1
  <2> QED
    BY <2>2
<1>5. PICK run \in [0..n -> V] : CountsAlong(run, n, <<>>, step)
  BY <1>3, AlongNumbers
<1>6. run[0] = <<>>
  BY <1>5 DEF CountsAlong
<1>7. ASSUME NEW k \in 1..n PROVE run[k] = run[k - 1] \o seqs[k]
  <2>1. k \in 0..n /\ k # 0 /\ run[k - 1] \in V
    OBVIOUS
  <2>2. run[k] = step[k][run[k - 1]]
    BY <1>5, <2>1 DEF CountsAlong
  <2> QED
    BY <1>4, <2>1, <2>2
<1>8. FlattensAlong(run, seqs, n)
  BY <1>6, <1>7 DEF FlattensAlong
<1>9. seqs \in Seq(V) /\ Len(seqs) = n
  BY <1>1
<1>10. CASE n = 0
  <2>1. FlattenSeq(seqs) = seqs /\ seqs = <<>>
    BY <1>9, <1>10 DEF FlattenSeq
  <2> QED
    BY <1>1, <1>6, <1>8, <1>10, <2>1
<1>11. CASE n # 0
  <2>0. run[1] = seqs[1]
    <3>1. 1 \in 1..n /\ 1 - 1 = 0
      BY <1>11
    <3>2. seqs[1] \in V
      BY <1>1, <3>1
    <3>3. <<>> \o seqs[1] = seqs[1]
      BY <1>3, <3>2
    <3>4. run[1] = run[0] \o seqs[1]
      BY <1>7, <3>1
    <3> QED
      BY <1>6, <3>3, <3>4
  <2>1. PICK g \in [1..n -> V] : \A i \in 1..n : g[i] = run[i]
    <3>1. [i \in 1..n |-> run[i]] \in [1..n -> V]
      OBVIOUS
    <3> QED
      BY <3>1
  <2>2. Is(g)
    <3>1. ASSUME NEW i \in 1..n
          PROVE  g[i] = IF i = 1 THEN seqs[i] ELSE g[i - 1] \o seqs[i]
      <4>1. CASE i = 1
        BY <2>0, <2>1, <4>1
      <4>2. CASE i # 1
        <5>1. i - 1 \in 1..n
          BY <4>2
        <5> QED
          BY <1>7, <2>1, <4>2, <5>1
      <4> QED
        BY <4>1, <4>2
    <3> QED
      BY <3>1
  <2>3. PICK f : f = CHOOSE h : Is(h)
    OBVIOUS
  <2>4. FlattenSeq(seqs) = f[n]
    BY <1>9, <1>11, <2>3 DEF FlattenSeq
  <2>5. Is(f)
    BY <2>2, <2>3
  <2>6. \A i \in 1..n : f[i] = IF i = 1 THEN seqs[i] ELSE f[i - 1] \o seqs[i]
    BY <2>5
  <2> HIDE DEF Is
  <2> DEFINE T == {i \in 1..n : f[i] # g[i]}
  <2>7. T = {}
    <3> SUFFICES ASSUME T # {} PROVE FALSE
      OBVIOUS
    <3>1. PICK i \in T : \A j \in T : i <= j
      <4>1. T \in SUBSET Nat
        OBVIOUS
      <4> HIDE DEF T
      <4> QED
        BY <4>1, LeastNatural
    <3>2. CASE i = 1
      BY <2>0, <2>1, <2>6, <3>1, <3>2
    <3>3. CASE i # 1
      <4>1. i - 1 \in 1..n /\ i \in 1..n
        BY <3>1, <3>3
      <4>2. i - 1 \notin T
        BY <3>1, <4>1
      <4>3. f[i - 1] = run[i - 1]
        BY <2>1, <4>1, <4>2
      <4>4. f[i] = run[i - 1] \o seqs[i]
        BY <2>6, <3>3, <4>1, <4>3
      <4>5. f[i] = g[i]
        BY <1>7, <2>1, <4>1, <4>4
      <4> QED
        BY <3>1, <4>5
    <3> QED
      BY <3>2, <3>3
  <2>8. n \in 1..n
    BY <1>11
  <2>9. f[n] = run[n]
    BY <2>1, <2>7, <2>8
  <2> QED
    BY <1>1, <1>8, <2>4, <2>9
<1> QED
  BY <1>10, <1>11
================================================================================
