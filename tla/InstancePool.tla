----------------------------- MODULE InstancePool ------------------------------
(***************************************************************************)
(* jadepaw-wasm's InstancePool: acquire() and the drop of a SessionHandle, *)
(* on threads that interleave between any two steps.                       *)
(*                                                                         *)
(* Three resources are taken and given back: a permit of the tokio         *)
(* semaphore, an instance slot of wasmtime's pooling allocator, and an     *)
(* entry of active_sessions.  The order matters: acquire() takes them in   *)
(* this order, and both a drop and an error give them back in the reverse  *)
(* one, the handle's fields being declared store, instance, permit.        *)
(***************************************************************************)
EXTENDS Naturals, Sequences, FiniteSets, SequencesExt

CONSTANTS
  Callers,         \* concurrent users of the pool
  SessionIds,      \* the ids they acquire under
  MaxConcurrent,   \* PoolConfig::max_concurrent, the semaphore's permits
  AllocatorSlots,  \* instances the engine's pooling allocator can hold
  DistinctIds      \* do callers never use an id that is already in use?

ASSUME PoolAssumption ==
  /\ IsFiniteSet(Callers)
  /\ MaxConcurrent \in Nat \ {0}
  /\ AllocatorSlots \in Nat
  /\ DistinctIds \in BOOLEAN

VARIABLES
  pc,         \* where each caller is
  id,         \* the session id it asked for
  permits,    \* free permits of the semaphore
  waiters,    \* the semaphore's queue
  instances,  \* callers whose store occupies an allocator slot
  active      \* the keys of active_sessions

vars == <<pc, id, permits, waiters, instances, active>>

(* "granted" callers own a permit, "starting" ones an allocator slot too,  *)
(* "held" ones a handle; "untracked" and "freed" are a handle being        *)
(* dropped, "aborted" a failed or cancelled acquire() unwinding.           *)
Owning == {c \in Callers :
             pc[c] \in {"granted", "starting", "held", "untracked", "freed", "aborted"}}

Init ==
  /\ pc = [c \in Callers |-> "idle"]
  /\ id \in [Callers -> SessionIds]
  /\ permits = MaxConcurrent
  /\ waiters = <<>>
  /\ instances = {}
  /\ active = {}

Goto(c, label) == pc' = [pc EXCEPT ![c] = label]

--------------------------------------------------------------------------------
(* acquire()                                                               *)

InUse(s) == \E c \in Callers : pc[c] # "idle" /\ id[c] = s

(* Mutant: the semaphore hands out one permit too many.                    *)
RequestOvercommitted(c, s) ==
  /\ pc[c] = "idle"
  /\ id' = [id EXCEPT ![c] = s]
  /\ permits' = permits - 1
  /\ Goto(c, "granted")
  /\ UNCHANGED <<waiters, instances, active>>

(* The call: a free permit is taken at once, else the caller queues.       *)
Request(c, s) ==
  /\ pc[c] = "idle"
  /\ DistinctIds => ~InUse(s)
  /\ id' = [id EXCEPT ![c] = s]
  /\ \/ /\ permits > 0
        /\ permits' = permits - 1
        /\ Goto(c, "granted")
        /\ UNCHANGED waiters
     \/ /\ permits = 0
        /\ waiters' = Append(waiters, c)
        /\ Goto(c, "waiting")
        /\ UNCHANGED permits
  /\ UNCHANGED <<instances, active>>

(* Mutants: a permit given back becomes free though somebody queues for    *)
(* it, or is handed over and becomes free as well.                         *)
GiveBackPastQueue(c, label) ==
  /\ permits' = permits + 1
  /\ Goto(c, label)
  /\ UNCHANGED waiters

GiveBackTwice(c, label) ==
  \/ /\ waiters = <<>>
     /\ permits' = permits + 1
     /\ Goto(c, label)
     /\ UNCHANGED waiters
  \/ /\ waiters # <<>>
     /\ waiters' = Tail(waiters)
     /\ pc' = [pc EXCEPT ![c] = label, ![Head(waiters)] = "granted"]
     /\ permits' = permits + 1

(* A permit given back goes to the head of the queue, if there is one.     *)
GiveBackPermit(c, label) ==
  \/ /\ waiters = <<>>
     /\ permits' = permits + 1
     /\ Goto(c, label)
     /\ UNCHANGED waiters
  \/ /\ waiters # <<>>
     /\ waiters' = Tail(waiters)
     /\ pc' = [pc EXCEPT ![c] = label, ![Head(waiters)] = "granted"]
     /\ UNCHANGED permits

(* instantiate_async finds a free slot of the allocator, ...               *)
Allocate(c) ==
  /\ pc[c] = "granted"
  /\ Cardinality(instances) < AllocatorSlots
  /\ instances' = instances \cup {c}
  /\ Goto(c, "starting")
  /\ UNCHANGED <<id, permits, waiters, active>>

(* ... or none: acquire() fails with the permit still to be given back.    *)
Exhausted(c) ==
  /\ pc[c] = "granted"
  /\ Cardinality(instances) >= AllocatorSlots
  /\ Goto(c, "aborted")
  /\ UNCHANGED <<id, permits, waiters, instances, active>>

(* Mutant: the session is not entered in active_sessions.                  *)
StartedUntracked(c) ==
  /\ pc[c] = "starting"
  /\ Goto(c, "held")
  /\ UNCHANGED <<id, permits, waiters, instances, active>>

(* The guest has started: the handle is built and tracked.                 *)
Started(c) ==
  /\ pc[c] = "starting"
  /\ Goto(c, "held")
  /\ active' = active \cup {id[c]}
  /\ UNCHANGED <<id, permits, waiters, instances>>

(* The start function traps, or the caller drops the future while the      *)
(* guest starts: the store goes first, and its slot with it.               *)
StartFails(c) ==
  /\ pc[c] = "starting"
  /\ instances' = instances \ {c}
  /\ Goto(c, "aborted")
  /\ UNCHANGED <<id, permits, waiters, active>>

(* The caller drops the future while it queues, ...                        *)
CancelWaiting(c) ==
  /\ pc[c] = "waiting"
  /\ \E k \in 1..Len(waiters) :
       waiters[k] = c /\ waiters' = RemoveAt(waiters, k)
  /\ Goto(c, "idle")
  /\ UNCHANGED <<id, permits, instances, active>>

(* ... or after a permit was assigned to it.                               *)
CancelGranted(c) ==
  /\ pc[c] = "granted"
  /\ Goto(c, "aborted")
  /\ UNCHANGED <<id, permits, waiters, instances, active>>

(* Mutant: a failed acquire() forgets its permit.                          *)
UnwindForgetful(c) ==
  /\ pc[c] = "aborted"
  /\ Goto(c, "idle")
  /\ UNCHANGED <<id, permits, waiters, instances, active>>

Unwind(c) ==
  /\ pc[c] = "aborted"
  /\ GiveBackPermit(c, "idle")
  /\ UNCHANGED <<id, instances, active>>

--------------------------------------------------------------------------------
(* The drop of a SessionHandle: Drop::drop, then the fields in order.      *)

(* Mutants: the dropped handle's entry, or its store, is left behind.      *)
UntrackNothing(c) ==
  /\ pc[c] = "held"
  /\ Goto(c, "untracked")
  /\ UNCHANGED <<id, permits, waiters, instances, active>>

FreeNothing(c) ==
  /\ pc[c] = "untracked"
  /\ Goto(c, "freed")
  /\ UNCHANGED <<id, permits, waiters, instances, active>>

Untrack(c) ==
  /\ pc[c] = "held"
  /\ active' = active \ {id[c]}
  /\ Goto(c, "untracked")
  /\ UNCHANGED <<id, permits, waiters, instances>>

FreeStore(c) ==
  /\ pc[c] = "untracked"
  /\ instances' = instances \ {c}
  /\ Goto(c, "freed")
  /\ UNCHANGED <<id, permits, waiters, active>>

ReleasePermit(c) ==
  /\ pc[c] = "freed"
  /\ GiveBackPermit(c, "idle")
  /\ UNCHANGED <<id, instances, active>>

--------------------------------------------------------------------------------
Advance(c) == Allocate(c) \/ Exhausted(c) \/ Started(c) \/ Unwind(c)

DropHandle(c) == Untrack(c) \/ FreeStore(c) \/ ReleasePermit(c)

Abandon(c) == StartFails(c) \/ CancelWaiting(c) \/ CancelGranted(c)

Next ==
  \E c \in Callers :
    \/ \E s \in SessionIds : Request(c, s)
    \/ Advance(c)
    \/ Abandon(c)
    \/ DropHandle(c)

Spec == Init /\ [][Next]_vars

(* acquire() is driven to its end, and every handle is dropped some day:   *)
(* its owner is a run under run_with_guard, which returns.                 *)
FairSpec ==
  Spec /\ \A c \in Callers : WF_vars(Advance(c)) /\ WF_vars(DropHandle(c))

--------------------------------------------------------------------------------
(* Every variable of the model has its type.                               *)
TypeOK ==
  /\ pc \in [Callers -> {"idle", "waiting", "granted", "starting", "held",
                         "untracked", "freed", "aborted"}]
  /\ id \in [Callers -> SessionIds]
  /\ permits \in Nat
  /\ waiters \in Seq(Callers)
  /\ instances \subseteq Callers
  /\ active \subseteq SessionIds

(* Permits are neither lost nor made: through failures, cancellations and  *)
(* hand-overs, the free ones and the owned ones are max_concurrent.        *)
PermitsConserved == permits + Cardinality(Owning) = MaxConcurrent

(* A permit is worth an allocator slot: if the allocator is as large as    *)
(* the pool, acquire() never fails for want of a slot, because a store is  *)
(* gone before its permit is free.                                         *)
PermitImpliesSlot ==
  AllocatorSlots >= MaxConcurrent =>
    \A c \in Callers : pc[c] = "granted" => Cardinality(instances) < AllocatorSlots

(* A session whose handle is alive is tracked in active_sessions: the map  *)
(* has one entry per id, so this takes callers that share no id.           *)
HeldIsTracked == \A c \in Callers : pc[c] = "held" => id[c] \in active

(* The tracked sessions are those with a live handle: active_count()       *)
(* counts no session that is gone.                                         *)
TrackedIsHeld == \A s \in active : \E c \in Callers : pc[c] = "held" /\ id[c] = s

(* A caller in the queue gets a permit or gives up; it does not wait       *)
(* forever while others come and go.                                       *)
WaitersServed ==
  \A c \in Callers : pc[c] = "waiting" ~> pc[c] # "waiting"

(* The pool keeps the promise of SlotPool: a slot is a permit, a guest the *)
(* store on an allocator slot, and no step, of a failed or cancelled       *)
(* acquire() or of a drop, lets the permit go before the store.            *)
Slots == INSTANCE SlotPool
           WITH Users <- Callers, Capacity <- MaxConcurrent,
                holders <- Owning, running <- instances
ImplementsSlotPool == Slots!Spec
================================================================================
