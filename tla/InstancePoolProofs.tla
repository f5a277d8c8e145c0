--------------------------- MODULE InstancePoolProofs ---------------------------
(***************************************************************************)
(* Theorems about InstancePool, for any number of callers and ids and any  *)
(* capacity.                                                               *)
(***************************************************************************)
EXTENDS InstancePool, SequenceTheorems, FiniteSetTheorems, TLAPS

--------------------------------------------------------------------------------
(* Queues: sequences without repetition.                                   *)

(* Joining the queue.                                                      *)
LEMMA QueueAppend ==
  ASSUME NEW queue \in Seq(Callers), IsInjective(queue),
         NEW c \in Callers, c \notin ToSet(queue)
  PROVE  /\ Append(queue, c) \in Seq(Callers)
         /\ Append(queue, c) # <<>>
         /\ IsInjective(Append(queue, c))
         /\ ToSet(Append(queue, c)) = ToSet(queue) \cup {c}
<1> DEFINE longer == Append(queue, c)
<1>1. /\ longer \in Seq(Callers)
      /\ DOMAIN longer = 1..(Len(queue) + 1)
      /\ DOMAIN queue = 1..Len(queue)
      /\ \A k \in 1..Len(queue) : longer[k] = queue[k]
      /\ longer[Len(queue) + 1] = c
      /\ Len(queue) \in Nat
  OBVIOUS
<1> HIDE DEF longer
<1>2. IsInjective(longer)
  BY <1>1 DEF IsInjective, ToSet
<1>3. ToSet(longer) = ToSet(queue) \cup {c}
  BY <1>1 DEF ToSet
<1>4. longer # <<>>
  BY <1>1
<1> QED
  BY <1>1, <1>2, <1>3, <1>4 DEF longer

(* Leaving it at its head.                                                 *)
LEMMA QueueTail ==
  ASSUME NEW queue \in Seq(Callers), IsInjective(queue), queue # <<>>
  PROVE  /\ Head(queue) \in ToSet(queue)
         /\ Head(queue) \in Callers
         /\ Tail(queue) \in Seq(Callers)
         /\ IsInjective(Tail(queue))
         /\ ToSet(Tail(queue)) = ToSet(queue) \ {Head(queue)}
<1> DEFINE rest == Tail(queue)
<1>1. /\ rest \in Seq(Callers)
      /\ Len(queue) \in Nat \ {0}
      /\ DOMAIN rest = 1..(Len(queue) - 1)
      /\ DOMAIN queue = 1..Len(queue)
      /\ \A k \in 1..(Len(queue) - 1) : rest[k] = queue[k + 1]
      /\ Head(queue) = queue[1]
      /\ queue[1] \in Callers
  BY HeadTailProperties, EmptySeq, LenProperties
<1> HIDE DEF rest
<1>2. IsInjective(rest)
  <2> SUFFICES ASSUME NEW i \in 1..(Len(queue) - 1), NEW j \in 1..(Len(queue) - 1),
                      rest[i] = rest[j]
               PROVE  i = j
    BY <1>1 DEF IsInjective
  <2>1. queue[i + 1] = queue[j + 1]
    BY <1>1
  <2>2. i + 1 \in DOMAIN queue /\ j + 1 \in DOMAIN queue
    BY <1>1
  <2>3. i + 1 = j + 1
    BY <2>1, <2>2 DEF IsInjective
  <2> QED
    BY <2>3
<1>3. ToSet(rest) = ToSet(queue) \ {queue[1]}
  <2>1. ASSUME NEW x \in ToSet(rest) PROVE x \in ToSet(queue) \ {queue[1]}
    <3>1. PICK k \in 1..(Len(queue) - 1) : x = queue[k + 1]
      BY <1>1, <2>1 DEF ToSet
    <3>2. k + 1 \in DOMAIN queue /\ 1 \in DOMAIN queue /\ k + 1 # 1
      BY <1>1
    <3> QED
      BY <3>1, <3>2 DEF ToSet, IsInjective
  <2>2. ASSUME NEW x \in ToSet(queue) \ {queue[1]} PROVE x \in ToSet(rest)
    <3>1. PICK k \in 1..Len(queue) : x = queue[k]
      BY <1>1, <2>2 DEF ToSet
    <3>2. k - 1 \in 1..(Len(queue) - 1) /\ (k - 1) + 1 = k
      BY <1>1, <2>2, <3>1
    <3> QED
      BY <1>1, <3>1, <3>2 DEF ToSet
  <2> QED
    BY <2>1, <2>2
<1>4. queue[1] \in ToSet(queue)
  BY <1>1 DEF ToSet
<1> QED
  BY <1>1, <1>2, <1>3, <1>4 DEF rest

(* Leaving it anywhere.                                                    *)
LEMMA QueueRemove ==
  ASSUME NEW queue \in Seq(Callers), IsInjective(queue), NEW k \in 1..Len(queue)
  PROVE  /\ RemoveAt(queue, k) \in Seq(Callers)
         /\ RemoveAt(queue, k) # <<>> => queue # <<>>
         /\ IsInjective(RemoveAt(queue, k))
         /\ ToSet(RemoveAt(queue, k)) = ToSet(queue) \ {queue[k]}
<1> DEFINE n == Len(queue)
           front == SubSeq(queue, 1, k - 1)
           back == SubSeq(queue, k + 1, n)
           less == front \o back
<1>1. /\ n \in Nat
      /\ k \in 1..n
      /\ DOMAIN queue = 1..n
      /\ \A i \in 1..n : queue[i] \in Callers
  BY LenProperties
<1> HIDE DEF n
<1>2. /\ front \in Seq(Callers)
      /\ Len(front) = k - 1
      /\ \A i \in 1..(k - 1) : front[i] = queue[i]
  <2>1. \A i \in 1..(k - 1) : queue[i] \in Callers
    BY <1>1
  <2>2. 1 \in Int /\ k - 1 \in Int /\ (k - 1) - 1 + 1 = k - 1 /\ (1 > k - 1 => k - 1 = 0)
    BY <1>1
  <2>3. \A i \in 1..(k - 1) : 1 + i - 1 = i
    BY <1>1
  <2> QED
    BY <2>1, <2>2, <2>3, SubSeqProperties
<1>3. /\ back \in Seq(Callers)
      /\ Len(back) = n - k
      /\ \A i \in 1..(n - k) : back[i] = queue[k + i]
  <2>1. \A i \in (k + 1)..n : queue[i] \in Callers
    BY <1>1
  <2>2. k + 1 \in Int /\ n \in Int /\ n - (k + 1) + 1 = n - k /\ (k + 1 > n => n - k = 0)
    BY <1>1
  <2>3. \A i \in 1..(n - k) : (k + 1) + i - 1 = k + i
    BY <1>1
  <2> QED
    BY <2>1, <2>2, <2>3, SubSeqProperties
<1> HIDE DEF front, back
<1>4. /\ less \in Seq(Callers)
      /\ DOMAIN less = 1..(n - 1)
      /\ \A i \in 1..(n - 1) : less[i] = IF i < k THEN queue[i] ELSE queue[i + 1]
  <2>0. /\ less \in Seq(Callers)
        /\ Len(less) = Len(front) + Len(back)
        /\ \A i \in 1..(Len(front) + Len(back)) :
             less[i] = IF i <= Len(front) THEN front[i] ELSE back[i - Len(front)]
    BY <1>2, <1>3, ConcatProperties
  <2>1. /\ less \in Seq(Callers)
        /\ Len(less) = (k - 1) + (n - k)
        /\ \A i \in 1..((k - 1) + (n - k)) :
             less[i] = IF i <= k - 1 THEN front[i] ELSE back[i - (k - 1)]
    BY <1>2, <1>3, <2>0
  <2>2. (k - 1) + (n - k) = n - 1
    BY <1>1
  <2>3. DOMAIN less = 1..(n - 1)
    BY <2>1, <2>2, LenProperties
  <2> HIDE DEF less
  <2>4. ASSUME NEW i \in 1..(n - 1)
        PROVE  less[i] = IF i < k THEN queue[i] ELSE queue[i + 1]
    <3>1. CASE i < k
      BY <1>1, <1>2, <2>1, <2>2, <3>1
    <3>2. CASE ~(i < k)
      <4>1. i - (k - 1) \in 1..(n - k) /\ k + (i - (k - 1)) = i + 1 /\ ~(i <= k - 1)
        BY <1>1, <3>2
      <4> QED
        BY <1>3, <2>1, <2>2, <3>2, <4>1
    <3> QED
      BY <3>1, <3>2
  <2> QED
    BY <2>1, <2>3, <2>4
<1>5. less = RemoveAt(queue, k)
  BY DEF RemoveAt, less, front, back, n
<1> HIDE DEF less
<1>6. IsInjective(less)
  <2> SUFFICES ASSUME NEW i \in 1..(n - 1), NEW j \in 1..(n - 1), less[i] = less[j]
               PROVE  i = j
    BY <1>4 DEF IsInjective
  <2> DEFINE From(x) == IF x < k THEN x ELSE x + 1
  <2>1. /\ From(i) \in DOMAIN queue /\ queue[From(i)] = less[i]
        /\ From(j) \in DOMAIN queue /\ queue[From(j)] = less[j]
    BY <1>1, <1>4
  <2>2. From(i) = From(j) => i = j
    BY <1>1
  <2> HIDE DEF From
  <2> QED
    BY <2>1, <2>2 DEF IsInjective
<1>7. ToSet(less) = ToSet(queue) \ {queue[k]}
  <2>1. ASSUME NEW x \in ToSet(less) PROVE x \in ToSet(queue) \ {queue[k]}
    <3>1. PICK i \in 1..(n - 1) : x = less[i]
      BY <1>4, <2>1 DEF ToSet
    <3>2. PICK j \in 1..n : j # k /\ x = queue[j]
      BY <1>1, <1>4, <3>1
    <3> QED
      BY <1>1, <3>2 DEF ToSet, IsInjective
  <2>2. ASSUME NEW x \in ToSet(queue) \ {queue[k]} PROVE x \in ToSet(less)
    <3>1. PICK j \in 1..n : x = queue[j]
      BY <1>1, <2>2 DEF ToSet
    <3>2. PICK i \in 1..(n - 1) : less[i] = queue[j]
      <4>1. CASE j < k
        BY <1>1, <1>4, <4>1
      <4>2. CASE j > k
        <5>1. j - 1 \in 1..(n - 1) /\ ~(j - 1 < k) /\ (j - 1) + 1 = j
          BY <1>1, <4>2
        <5> QED
          BY <1>4, <5>1
      <4> QED
        BY <1>1, <2>2, <3>1, <4>1, <4>2
    <3> QED
      BY <1>4, <3>1, <3>2 DEF ToSet
  <2> QED
    BY <2>1, <2>2
<1>8. queue # <<>>
  BY <1>1
<1> QED
  BY <1>4, <1>5, <1>6, <1>7, <1>8

--------------------------------------------------------------------------------
(* The inductive invariant.                                                *)

Owned == {"granted", "starting", "held", "untracked", "freed", "aborted"}

(* Stores are alive from their instantiation to their drop.                *)
InstancesExact == instances = {c \in Callers : pc[c] \in {"starting", "held", "untracked"}}

(* The semaphore's queue: nobody queues while a permit is free, and the    *)
(* queue is exactly those who wait, each once.                             *)
QueueExact ==
  /\ waiters # <<>> => permits = 0
  /\ ToSet(waiters) = {c \in Callers : pc[c] = "waiting"}
  /\ IsInjective(waiters)

PoolInv == TypeOK /\ PermitsConserved /\ QueueExact /\ InstancesExact /\ TrackedIsHeld

(* Finitely many callers own permits.                                      *)
LEMMA OwningFinite ==
  ASSUME NEW S \in SUBSET Callers
  PROVE  IsFiniteSet(S) /\ Cardinality(S) \in Nat
<1>1. IsFiniteSet(S)
  BY PoolAssumption, FS_Subset
<1> QED
  BY <1>1, FS_CardinalityType

(* A caller that keeps its permit disturbs neither permits nor queue.      *)
LEMMA OwnedMove ==
  ASSUME TypeOK, PermitsConserved, QueueExact,
         NEW c \in Callers, pc[c] \in Owned, NEW label \in Owned, Goto(c, label),
         UNCHANGED <<permits, waiters>>
  PROVE  PermitsConserved' /\ QueueExact' /\ Owning' = Owning
<1>1. /\ pc'[c] = label
      /\ \A q \in Callers : q # c => pc'[q] = pc[q]
  BY DEF TypeOK, Goto
<1>2. Owning' = Owning
  BY <1>1 DEF Owning, Owned
<1>3. {q \in Callers : pc'[q] = "waiting"} = {q \in Callers : pc[q] = "waiting"}
  BY <1>1 DEF Owned
<1> QED
  BY <1>2, <1>3 DEF PermitsConserved, QueueExact

(* A permit given back is free, or the head of the queue has it.           *)
LEMMA GiveBackStep ==
  ASSUME TypeOK, PermitsConserved, QueueExact,
         NEW c \in Callers, pc[c] \in Owned, GiveBackPermit(c, "idle")
  PROVE  /\ permits' \in Nat
         /\ waiters' \in Seq(Callers)
         /\ PermitsConserved'
         /\ QueueExact'
         /\ pc' \in [Callers -> {"idle", "waiting", "granted", "starting", "held",
                                 "untracked", "freed", "aborted"}]
         /\ pc'[c] = "idle"
         /\ \A q \in Callers :
              q # c => pc'[q] = pc[q] \/ (pc[q] = "waiting" /\ pc'[q] = "granted")
         /\ \/ Owning' = Owning \ {c}
            \/ \E v \in Callers \ Owning : Owning' = (Owning \ {c}) \cup {v}
<1>0. /\ Owning \subseteq Callers
      /\ c \in Owning
      /\ IsFiniteSet(Owning)
      /\ Cardinality(Owning) \in Nat
      /\ permits \in Nat
      /\ MaxConcurrent \in Nat
  BY OwningFinite, PoolAssumption DEF Owning, Owned, TypeOK
<1>1. Cardinality(Owning \ {c}) = Cardinality(Owning) - 1 /\ IsFiniteSet(Owning \ {c})
  BY <1>0, FS_RemoveElement
<1>2. CASE /\ waiters = <<>>
           /\ permits' = permits + 1
           /\ Goto(c, "idle")
           /\ UNCHANGED waiters
  <2>1. pc'[c] = "idle" /\ \A q \in Callers : q # c => pc'[q] = pc[q]
    BY <1>2 DEF TypeOK, Goto
  <2>2. Owning' = Owning \ {c}
    BY <2>1 DEF Owning, Owned
  <2>3. {q \in Callers : pc'[q] = "waiting"} = {q \in Callers : pc[q] = "waiting"}
    BY <2>1 DEF Owned
  <2>4. PermitsConserved'
    BY <1>0, <1>1, <1>2, <2>2 DEF PermitsConserved
  <2>5. QueueExact'
    BY <1>2, <2>3 DEF QueueExact
  <2> QED
    BY <1>2, <2>1, <2>2, <2>4, <2>5 DEF TypeOK, Goto
<1>3. CASE /\ waiters # <<>>
           /\ waiters' = Tail(waiters)
           /\ pc' = [pc EXCEPT ![c] = "idle", ![Head(waiters)] = "granted"]
           /\ UNCHANGED permits
  <2> DEFINE v == Head(waiters)
  <2>1. /\ v \in Callers
        /\ v \in ToSet(waiters)
        /\ Tail(waiters) \in Seq(Callers)
        /\ IsInjective(Tail(waiters))
        /\ ToSet(Tail(waiters)) = ToSet(waiters) \ {v}
    BY <1>3, QueueTail DEF TypeOK, QueueExact
  <2>2. pc[v] = "waiting" /\ v # c /\ v \notin Owning
    BY <2>1 DEF QueueExact, Owned, Owning
  <2> HIDE DEF v
  <2>3. /\ pc'[c] = "idle"
        /\ pc'[v] = "granted"
        /\ \A q \in Callers : q # c /\ q # v => pc'[q] = pc[q]
        /\ pc' \in [Callers -> {"idle", "waiting", "granted", "starting", "held",
                                "untracked", "freed", "aborted"}]
    BY <1>3, <2>1, <2>2 DEF TypeOK, v
  <2>4. Owning' = (Owning \ {c}) \cup {v}
    BY <2>1, <2>2, <2>3 DEF Owning, Owned
  <2>5. Cardinality((Owning \ {c}) \cup {v}) = Cardinality(Owning)
    <3>1. v \notin Owning \ {c}
      BY <2>2
    <3>2. Cardinality((Owning \ {c}) \cup {v}) = Cardinality(Owning \ {c}) + 1
      BY <1>1, <3>1, FS_AddElement
    <3> QED
      BY <1>0, <1>1, <3>2
  <2>6. PermitsConserved'
    BY <1>3, <2>4, <2>5 DEF PermitsConserved
  <2>7. {q \in Callers : pc'[q] = "waiting"} = {q \in Callers : pc[q] = "waiting"} \ {v}
    BY <2>2, <2>3 DEF Owned
  <2>8. QueueExact'
    <3>1. permits' = 0
      BY <1>3 DEF QueueExact
    <3>2. ToSet(waiters') = {q \in Callers : pc'[q] = "waiting"}
      BY <1>3, <2>1, <2>7 DEF QueueExact
    <3>3. IsInjective(waiters')
      BY <1>3, <2>1
    <3> QED
      BY <3>1, <3>2, <3>3 DEF QueueExact
  <2> QED
    BY <1>3, <2>1, <2>2, <2>3, <2>4, <2>6, <2>8 DEF TypeOK
<1> QED
  BY <1>2, <1>3 DEF GiveBackPermit

(* The inductive invariant holds of an empty pool.                         *)
LEMMA PoolInit == Init => PoolInv
<1> SUFFICES ASSUME Init PROVE PoolInv
  OBVIOUS
<1>1. TypeOK
  BY PoolAssumption DEF Init, TypeOK
<1>2. PermitsConserved
  <2>1. Owning = {}
    BY DEF Init, Owning
  <2> QED
    BY <2>1, FS_EmptySet, PoolAssumption DEF Init, PermitsConserved
<1>3. QueueExact
  <2>1. ToSet(waiters) = {} /\ {c \in Callers : pc[c] = "waiting"} = {}
    BY DEF Init, ToSet
  <2>2. IsInjective(waiters)
    BY DEF Init, IsInjective
  <2> QED
    BY <2>1, <2>2 DEF Init, QueueExact
<1>4. InstancesExact /\ TrackedIsHeld
  BY DEF Init, InstancesExact, TrackedIsHeld
<1> QED
  BY <1>1, <1>2, <1>3, <1>4 DEF PoolInv

(* Every step of every caller preserves it.                                *)
LEMMA PoolNext == PoolInv /\ [Next]_vars => PoolInv'
<1> SUFFICES ASSUME PoolInv, [Next]_vars PROVE PoolInv'
  OBVIOUS
<1> USE DEF PoolInv
<1>moves. ASSUME NEW c \in Callers, NEW label, Goto(c, label)
          PROVE  pc'[c] = label /\ \A q \in Callers : q # c => pc'[q] = pc[q]
  BY <1>moves DEF TypeOK, Goto
<1>1. ASSUME NEW c \in Callers, NEW s \in SessionIds, Request(c, s) PROVE PoolInv'
  <2>0. pc[c] = "idle" /\ id' = [id EXCEPT ![c] = s] /\ UNCHANGED <<instances, active>>
    BY <1>1 DEF Request
  <2>1. CASE permits > 0 /\ permits' = permits - 1 /\ Goto(c, "granted") /\ UNCHANGED waiters
    <3>1. pc'[c] = "granted" /\ \A q \in Callers : q # c => pc'[q] = pc[q]
      BY <2>1, <1>moves
    <3>2. TypeOK'
      BY <2>0, <2>1 DEF TypeOK, Goto
    <3>3. Owning' = Owning \cup {c} /\ c \notin Owning /\ Owning \subseteq Callers
      BY <2>0, <3>1 DEF Owning
    <3>4. Cardinality(Owning') = Cardinality(Owning) + 1 /\ Cardinality(Owning) \in Nat
      BY <3>3, OwningFinite, FS_AddElement
    <3>5. PermitsConserved'
      BY <2>1, <3>4, PoolAssumption DEF PermitsConserved, TypeOK
    <3>6. {q \in Callers : pc'[q] = "waiting"} = {q \in Callers : pc[q] = "waiting"}
      BY <2>0, <3>1
    <3>7. QueueExact'
      BY <2>1, <3>6 DEF QueueExact, TypeOK
    <3>8. InstancesExact' /\ TrackedIsHeld'
      BY <2>0, <3>1 DEF InstancesExact, TrackedIsHeld, TypeOK
    <3> QED
      BY <3>2, <3>5, <3>7, <3>8
  <2>2. CASE /\ permits = 0
             /\ waiters' = Append(waiters, c)
             /\ Goto(c, "waiting")
             /\ UNCHANGED permits
    <3>1. pc'[c] = "waiting" /\ \A q \in Callers : q # c => pc'[q] = pc[q]
      BY <2>2, <1>moves
    <3>2. c \notin ToSet(waiters)
      BY <2>0 DEF QueueExact
    <3>3. /\ Append(waiters, c) \in Seq(Callers)
          /\ IsInjective(Append(waiters, c))
          /\ ToSet(Append(waiters, c)) = ToSet(waiters) \cup {c}
      BY <3>2, QueueAppend DEF QueueExact, TypeOK
    <3>4. TypeOK'
      BY <2>0, <2>2, <3>3 DEF TypeOK, Goto
    <3>5. Owning' = Owning
      BY <2>0, <3>1 DEF Owning
    <3>6. PermitsConserved'
      BY <2>2, <3>5 DEF PermitsConserved
    <3>7. {q \in Callers : pc'[q] = "waiting"} = {q \in Callers : pc[q] = "waiting"} \cup {c}
      BY <3>1
    <3>8. QueueExact'
      <4>1. ToSet(waiters') = {q \in Callers : pc'[q] = "waiting"}
        BY <2>2, <3>3, <3>7 DEF QueueExact
      <4>2. IsInjective(waiters') /\ permits' = 0
        BY <2>2, <3>3
      <4> QED
        BY <4>1, <4>2 DEF QueueExact
    <3>9. InstancesExact' /\ TrackedIsHeld'
      BY <2>0, <3>1 DEF InstancesExact, TrackedIsHeld, TypeOK
    <3> QED
      BY <3>4, <3>6, <3>8, <3>9
  <2> QED
    BY <1>1, <2>1, <2>2 DEF Request
<1>2. ASSUME NEW c \in Callers, Allocate(c) PROVE PoolInv'
  <2>1. /\ pc[c] = "granted"
        /\ Goto(c, "starting")
        /\ instances' = instances \cup {c}
        /\ UNCHANGED <<id, permits, waiters, active>>
    BY <1>2 DEF Allocate
  <2>2. PermitsConserved' /\ QueueExact'
    BY <2>1, OwnedMove DEF Owned
  <2>3. TypeOK'
    BY <2>1 DEF TypeOK, Goto
  <2>4. InstancesExact' /\ TrackedIsHeld'
    BY <1>moves, <2>1 DEF InstancesExact, TrackedIsHeld
  <2> QED
    BY <2>2, <2>3, <2>4
<1>3. ASSUME NEW c \in Callers, Exhausted(c) \/ CancelGranted(c) PROVE PoolInv'
  <2>1. /\ pc[c] = "granted"
        /\ Goto(c, "aborted")
        /\ UNCHANGED <<id, permits, waiters, instances, active>>
    BY <1>3 DEF Exhausted, CancelGranted
  <2>2. PermitsConserved' /\ QueueExact'
    BY <2>1, OwnedMove DEF Owned
  <2>3. TypeOK'
    BY <2>1 DEF TypeOK, Goto
  <2>4. InstancesExact' /\ TrackedIsHeld'
    BY <1>moves, <2>1 DEF InstancesExact, TrackedIsHeld
  <2> QED
    BY <2>2, <2>3, <2>4
<1>4. ASSUME NEW c \in Callers, Started(c) PROVE PoolInv'
  <2>1. /\ pc[c] = "starting"
        /\ Goto(c, "held")
        /\ active' = active \cup {id[c]}
        /\ UNCHANGED <<id, permits, waiters, instances>>
    BY <1>4 DEF Started
  <2>2. PermitsConserved' /\ QueueExact'
    BY <2>1, OwnedMove DEF Owned
  <2>3. TypeOK'
    BY <2>1 DEF TypeOK, Goto
  <2>4. InstancesExact' /\ TrackedIsHeld'
    BY <1>moves, <2>1 DEF InstancesExact, TrackedIsHeld
  <2> QED
    BY <2>2, <2>3, <2>4
<1>5. ASSUME NEW c \in Callers, StartFails(c) PROVE PoolInv'
  <2>1. /\ pc[c] = "starting"
        /\ Goto(c, "aborted")
        /\ instances' = instances \ {c}
        /\ UNCHANGED <<id, permits, waiters, active>>
    BY <1>5 DEF StartFails
  <2>2. PermitsConserved' /\ QueueExact'
    BY <2>1, OwnedMove DEF Owned
  <2>3. TypeOK'
    BY <2>1 DEF TypeOK, Goto
  <2>4. InstancesExact' /\ TrackedIsHeld'
    BY <1>moves, <2>1 DEF InstancesExact, TrackedIsHeld
  <2> QED
    BY <2>2, <2>3, <2>4
<1>6. ASSUME NEW c \in Callers, CancelWaiting(c) PROVE PoolInv'
  <2>1. PICK k \in 1..Len(waiters) : waiters[k] = c /\ waiters' = RemoveAt(waiters, k)
    BY <1>6 DEF CancelWaiting
  <2>2. /\ pc[c] = "waiting"
        /\ Goto(c, "idle")
        /\ UNCHANGED <<id, permits, instances, active>>
    BY <1>6 DEF CancelWaiting
  <2>3. pc'[c] = "idle" /\ \A q \in Callers : q # c => pc'[q] = pc[q]
    BY <1>moves, <2>2
  <2>4. /\ waiters' \in Seq(Callers)
        /\ IsInjective(waiters')
        /\ ToSet(waiters') = ToSet(waiters) \ {c}
        /\ waiters' # <<>> => waiters # <<>>
    BY <2>1, QueueRemove DEF TypeOK, QueueExact
  <2>5. TypeOK'
    BY <2>2, <2>4 DEF TypeOK, Goto
  <2>6. Owning' = Owning
    BY <2>2, <2>3 DEF Owning
  <2>7. PermitsConserved'
    BY <2>2, <2>6 DEF PermitsConserved
  <2>8. QueueExact'
    <3>1. ToSet(waiters') = {q \in Callers : pc'[q] = "waiting"}
      BY <2>3, <2>4 DEF QueueExact
    <3>2. waiters' # <<>> => permits' = 0
      BY <2>2, <2>4 DEF QueueExact
    <3> QED
      BY <2>4, <3>1, <3>2 DEF QueueExact
  <2>9. InstancesExact' /\ TrackedIsHeld'
    BY <2>2, <2>3 DEF InstancesExact, TrackedIsHeld
  <2> QED
    BY <2>5, <2>7, <2>8, <2>9
<1>7. ASSUME NEW c \in Callers, Unwind(c) \/ ReleasePermit(c) PROVE PoolInv'
  <2>1. /\ pc[c] \in {"aborted", "freed"}
        /\ GiveBackPermit(c, "idle")
        /\ UNCHANGED <<id, instances, active>>
    BY <1>7 DEF Unwind, ReleasePermit
  <2>2. /\ PermitsConserved' /\ QueueExact' /\ TypeOK'
        /\ pc'[c] = "idle"
        /\ \A q \in Callers :
             q # c => pc'[q] = pc[q] \/ (pc[q] = "waiting" /\ pc'[q] = "granted")
    BY <2>1, GiveBackStep DEF Owned, TypeOK
  <2>3. InstancesExact' /\ TrackedIsHeld'
    BY <2>1, <2>2 DEF InstancesExact, TrackedIsHeld
  <2> QED
    BY <2>2, <2>3
<1>8. ASSUME NEW c \in Callers, Untrack(c) PROVE PoolInv'
  <2>1. /\ pc[c] = "held"
        /\ Goto(c, "untracked")
        /\ active' = active \ {id[c]}
        /\ UNCHANGED <<id, permits, waiters, instances>>
    BY <1>8 DEF Untrack
  <2>2. PermitsConserved' /\ QueueExact'
    BY <2>1, OwnedMove DEF Owned
  <2>3. TypeOK'
    BY <2>1 DEF TypeOK, Goto
  <2>4. InstancesExact' /\ TrackedIsHeld'
    BY <1>moves, <2>1 DEF InstancesExact, TrackedIsHeld
  <2> QED
    BY <2>2, <2>3, <2>4
<1>9. ASSUME NEW c \in Callers, FreeStore(c) PROVE PoolInv'
  <2>1. /\ pc[c] = "untracked"
        /\ Goto(c, "freed")
        /\ instances' = instances \ {c}
        /\ UNCHANGED <<id, permits, waiters, active>>
    BY <1>9 DEF FreeStore
  <2>2. PermitsConserved' /\ QueueExact'
    BY <2>1, OwnedMove DEF Owned
  <2>3. TypeOK'
    BY <2>1 DEF TypeOK, Goto
  <2>4. InstancesExact' /\ TrackedIsHeld'
    BY <1>moves, <2>1 DEF InstancesExact, TrackedIsHeld
  <2> QED
    BY <2>2, <2>3, <2>4
<1>10. CASE UNCHANGED vars
  BY <1>10 DEF vars, TypeOK, PermitsConserved, QueueExact, InstancesExact,
               TrackedIsHeld, Owning
<1> QED
  BY <1>1, <1>2, <1>3, <1>4, <1>5, <1>6, <1>7, <1>8, <1>9, <1>10
  DEF Next, Advance, Abandon, DropHandle

(* The inductive invariant of the pool: permits, queue, stores and         *)
(* tracked sessions fit the places the callers are at, through failures,   *)
(* cancellations and drops in any order.                                   *)
THEOREM PoolInvariant == Spec => []PoolInv
BY PoolInit, PoolNext, PTL DEF Spec

--------------------------------------------------------------------------------
(* What follows from it.                                                   *)

(* Every variable keeps its type; above all, the semaphore never hands out *)
(* a permit it does not have.                                              *)
THEOREM TypeInvariant == Spec => []TypeOK
<1>1. PoolInv => TypeOK
  BY DEF PoolInv
<1> QED
  BY <1>1, PoolInvariant, PTL

(* The free permits and the owned ones are max_concurrent, always.         *)
THEOREM PermitsConservedHolds == Spec => []PermitsConserved
<1>1. PoolInv => PermitsConserved
  BY DEF PoolInv
<1> QED
  BY <1>1, PoolInvariant, PTL

(* active_sessions holds no session whose handle is gone.                  *)
THEOREM TrackedIsHeldHolds == Spec => []TrackedIsHeld
<1>1. PoolInv => TrackedIsHeld
  BY DEF PoolInv
<1> QED
  BY <1>1, PoolInvariant, PTL

(* An allocator as large as the pool has a slot for every permit: acquire  *)
(* does not fail for want of one.  The stores alive are those of callers   *)
(* that own a permit, and the caller that asks owns one and has no store.  *)
THEOREM PermitImpliesSlotHolds == Spec => []PermitImpliesSlot
<1>1. PoolInv => PermitImpliesSlot
  <2> SUFFICES ASSUME PoolInv, AllocatorSlots >= MaxConcurrent,
                      NEW c \in Callers, pc[c] = "granted"
               PROVE  Cardinality(instances) < AllocatorSlots
    BY DEF PermitImpliesSlot
  <2>1. /\ Owning \subseteq Callers
        /\ c \in Owning
        /\ instances \subseteq Owning \ {c}
    BY DEF PoolInv, InstancesExact, Owning
  <2>2. /\ IsFiniteSet(Owning)
        /\ Cardinality(Owning) \in Nat
        /\ Cardinality(instances) \in Nat
    BY <2>1, OwningFinite
  <2>3. Cardinality(Owning \ {c}) = Cardinality(Owning) - 1 /\ IsFiniteSet(Owning \ {c})
    BY <2>1, <2>2, FS_RemoveElement
  <2>4. Cardinality(instances) <= Cardinality(Owning \ {c})
    BY <2>1, <2>3, FS_Subset
  <2>5. Cardinality(Owning) <= MaxConcurrent
    BY <2>2, PoolAssumption DEF PoolInv, PermitsConserved, TypeOK
  <2> QED
    BY <2>2, <2>3, <2>4, <2>5, PoolAssumption
<1> QED
  BY <1>1, PoolInvariant, PTL

(* Callers at work on the pool share no id, and those with a handle are    *)
(* tracked.                                                                *)
DistinctInv ==
  /\ \A c, d \in Callers : c # d /\ pc[c] # "idle" /\ pc[d] # "idle" => id[c] # id[d]
  /\ HeldIsTracked

(* A step that moves nobody into the pool or to a handle keeps that.       *)
LEMMA OthersKeepDistinct ==
  ASSUME DistinctInv, UNCHANGED <<id, active>>,
         \A q \in Callers : pc[q] = "idle" => pc'[q] = "idle",
         \A q \in Callers : pc'[q] = "held" => pc[q] = "held"
  PROVE  DistinctInv'
BY DEF DistinctInv, HeldIsTracked

(* While callers share no id, every step keeps the entries apart.          *)
LEMMA DistinctNext ==
  ASSUME DistinctIds, PoolInv, DistinctInv, [Next]_vars
  PROVE  DistinctInv'
<1>1. ASSUME NEW c \in Callers, NEW s \in SessionIds, Request(c, s) PROVE DistinctInv'
  <2>1. /\ id' = [id EXCEPT ![c] = s] /\ active' = active /\ pc[c] = "idle"
        /\ \A d \in Callers : pc[d] # "idle" => id[d] # s
        /\ pc' = [pc EXCEPT ![c] = "granted"] \/ pc' = [pc EXCEPT ![c] = "waiting"]
    BY <1>1 DEF Request, Goto, InUse
  <2>2. /\ id'[c] = s /\ \A d \in Callers \ {c} : id'[d] = id[d] /\ pc'[d] = pc[d]
        /\ pc'[c] # "held"
    BY <2>1 DEF PoolInv, TypeOK
  <2> QED
    BY <2>1, <2>2 DEF DistinctInv, HeldIsTracked
<1>2. ASSUME NEW c \in Callers, Started(c) PROVE DistinctInv'
  BY <1>2 DEF Started, Goto, DistinctInv, HeldIsTracked, PoolInv, TypeOK
<1>3. ASSUME NEW c \in Callers, Untrack(c) PROVE DistinctInv'
  <2>1. /\ pc[c] = "held" /\ active' = active \ {id[c]} /\ id' = id
        /\ pc'[c] = "untracked" /\ \A d \in Callers \ {c} : pc'[d] = pc[d]
    BY <1>3 DEF Untrack, Goto, PoolInv, TypeOK
  <2>2. \A d \in Callers \ {c} : pc[d] = "held" => id[d] # id[c] /\ id[d] \in active
    BY <2>1 DEF DistinctInv, HeldIsTracked
  <2> QED
    BY <2>1, <2>2 DEF DistinctInv, HeldIsTracked
<1>4. ASSUME NEW c \in Callers, Unwind(c) \/ ReleasePermit(c) PROVE DistinctInv'
  <2>1. /\ pc[c] \in Owned /\ GiveBackPermit(c, "idle") /\ UNCHANGED <<id, active>>
    BY <1>4 DEF Unwind, ReleasePermit, Owned
  <2>2. /\ pc'[c] = "idle"
        /\ \A q \in Callers : q # c => pc'[q] = pc[q] \/ (pc[q] = "waiting" /\ pc'[q] = "granted")
    BY <2>1, GiveBackStep DEF PoolInv
  <2> QED
    BY <2>1, <2>2, OthersKeepDistinct
<1>5. ASSUME NEW c \in Callers,
             \/ Allocate(c) \/ Exhausted(c) \/ StartFails(c) \/ CancelWaiting(c)
             \/ CancelGranted(c) \/ FreeStore(c)
      PROVE  DistinctInv'
  <2>1. /\ UNCHANGED <<id, active>> /\ pc[c] # "idle"
        /\ \/ pc' = [pc EXCEPT ![c] = "starting"] \/ pc' = [pc EXCEPT ![c] = "aborted"]
           \/ pc' = [pc EXCEPT ![c] = "idle"] \/ pc' = [pc EXCEPT ![c] = "freed"]
    BY <1>5 DEF Allocate, Exhausted, StartFails, CancelWaiting, CancelGranted, FreeStore, Goto
  <2>2. pc'[c] # "held" /\ \A d \in Callers \ {c} : pc'[d] = pc[d]
    BY <2>1 DEF PoolInv, TypeOK
  <2> QED
    BY <2>1, <2>2, OthersKeepDistinct
<1>6. CASE UNCHANGED vars
  BY <1>6, OthersKeepDistinct DEF vars
<1> QED
  BY <1>1, <1>2, <1>3, <1>4, <1>5, <1>6 DEF Next, Advance, Abandon, DropHandle

(* Where callers share no id, a session with a live handle is in           *)
(* active_sessions: only its own handle's drop takes it out.               *)
THEOREM HeldIsTrackedHolds == Spec => [](DistinctIds => HeldIsTracked)
<1>1. Init => (DistinctIds => DistinctInv)
  BY DEF Init, DistinctInv, HeldIsTracked
<1>2. PoolInv /\ (DistinctIds => DistinctInv) /\ [Next]_vars => (DistinctIds => DistinctInv)'
  BY DistinctNext
<1>3. (DistinctIds => DistinctInv) => (DistinctIds => HeldIsTracked)
  BY DEF DistinctInv
<1> QED
  BY <1>1, <1>2, <1>3, PoolInvariant, PTL DEF Spec

(* A caller that takes a permit finds fewer than MaxConcurrent owners.     *)
LEMMA PermitFree ==
  ASSUME PoolInv, permits > 0
  PROVE  Cardinality(Owning) < MaxConcurrent
<1>1. Cardinality(Owning) \in Nat
  BY OwningFinite DEF Owning
<1> QED
  BY <1>1, PoolAssumption DEF PoolInv, PermitsConserved, TypeOK

(* The pool implements SlotPool: every step takes, gives back or hands     *)
(* over one slot, starts or stops one guest, or leaves both alone; no slot *)
(* is taken when max_concurrent are, and none let go under a live guest.   *)
THEOREM PoolImplementsSlotPool == Spec => ImplementsSlotPool
<1>1. Init => Slots!Init
  BY DEF Init, Slots!Init, Owning
<1>2. PoolInv /\ [Next]_vars => [Slots!Next]_<<Owning, instances>>
  <2> DEFINE Simulated == Slots!Next \/ UNCHANGED <<Owning, instances>>
  <2> SUFFICES ASSUME PoolInv, [Next]_vars PROVE Simulated
    OBVIOUS
  <2>kept. ASSUME NEW c \in Callers, pc[c] \in Owned, NEW label \in Owned, Goto(c, label)
           PROVE  Owning' = Owning /\ c \in Owning
    BY <2>kept DEF Goto, Owning, Owned, PoolInv, TypeOK
  <2>1. ASSUME NEW c \in Callers, NEW s \in SessionIds, Request(c, s)
        PROVE  Simulated
    <3>1. pc[c] = "idle" /\ c \notin Owning /\ UNCHANGED instances
      BY <2>1 DEF Request, Owning
    <3>2. CASE permits > 0 /\ Goto(c, "granted")
      <4>1. Owning' = Owning \cup {c}
        BY <3>2 DEF Goto, Owning, PoolInv, TypeOK
      <4>2. Slots!Cardinality(Owning) = Cardinality(Owning)
        BY Zenon DEF Slots!Cardinality, Cardinality
      <4>3. Slots!Take(c)
        BY <3>1, <3>2, <4>1, <4>2, PermitFree DEF Slots!Take
      <4> QED
        BY <4>3 DEF Slots!Next
    <3>3. CASE Goto(c, "waiting")
      BY <3>1, <3>3 DEF Goto, Owning, PoolInv, TypeOK
    <3> QED
      BY <2>1, <3>2, <3>3 DEF Request
  <2>2. ASSUME NEW c \in Callers, Unwind(c) \/ ReleasePermit(c)
        PROVE  Simulated
    <3>1. /\ pc[c] \in Owned /\ GiveBackPermit(c, "idle") /\ UNCHANGED instances
          /\ c \in Owning \ instances
      BY <2>2 DEF Unwind, ReleasePermit, Owned, Owning, PoolInv, InstancesExact
    <3>2. CASE Owning' = Owning \ {c}
      <4>1. Slots!Release(c)
        BY <3>1, <3>2 DEF Slots!Release
      <4> QED
        BY <4>1 DEF Slots!Next
    <3>3. ASSUME NEW v \in Callers \ Owning, Owning' = (Owning \ {c}) \cup {v}
          PROVE  Slots!Next
      <4>1. Slots!HandOver(c, v)
        BY <3>1, <3>3 DEF Slots!HandOver
      <4> QED
        BY <4>1 DEF Slots!Next
    <3> QED
      BY <3>1, <3>2, <3>3, GiveBackStep DEF PoolInv
  <2>3. ASSUME NEW c \in Callers, CancelWaiting(c) PROVE Simulated
    BY <2>3 DEF CancelWaiting, Goto, Owning, PoolInv, TypeOK
  <2>4. ASSUME NEW c \in Callers, Exhausted(c) \/ Started(c) \/ CancelGranted(c) \/ Untrack(c)
        PROVE  Simulated
    BY <2>4, <2>kept DEF Exhausted, Started, CancelGranted, Untrack, Owned
  <2>5. ASSUME NEW c \in Callers, Allocate(c) PROVE Simulated
    <3>1. /\ Owning' = Owning /\ c \in Owning \ instances
          /\ instances' = instances \cup {c}
      BY <2>5, <2>kept DEF Allocate, Owned, PoolInv, InstancesExact
    <3>2. Slots!StartGuest(c)
      BY <3>1 DEF Slots!StartGuest
    <3> QED
      BY <3>2 DEF Slots!Next
  <2>6. ASSUME NEW c \in Callers, StartFails(c) \/ FreeStore(c) PROVE Simulated
    <3>1. Owning' = Owning /\ c \in instances /\ instances' = instances \ {c}
      BY <2>6, <2>kept DEF StartFails, FreeStore, Owned, PoolInv, InstancesExact
    <3>2. Slots!StopGuest(c)
      BY <3>1 DEF Slots!StopGuest
    <3> QED
      BY <3>2 DEF Slots!Next
  <2>7. UNCHANGED vars => Simulated
    BY DEF vars, Owning
  <2> QED
    BY <2>1, <2>2, <2>3, <2>4, <2>5, <2>6, <2>7 DEF Next, Advance, Abandon, DropHandle
<1> QED
  BY <1>1, <1>2, PoolInvariant, PTL DEF Spec, ImplementsSlotPool, Slots!Spec, Slots!slots
================================================================================
