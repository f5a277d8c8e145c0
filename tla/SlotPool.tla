------------------------------- MODULE SlotPool --------------------------------
(***************************************************************************)
(* What the instance pool promises its users, whatever it is made of: at   *)
(* most Capacity of them hold a slot, a guest runs in a slot only, and the *)
(* slot is free for another, or handed to him, only when the guest in it   *)
(* is gone.                                                                *)
(***************************************************************************)
EXTENDS Naturals, FiniteSets

CONSTANTS Users, Capacity

VARIABLES
  holders,  \* who holds a slot
  running   \* whose guest is alive

slots == <<holders, running>>

Init == holders = {} /\ running = {}

Take(u) ==
  /\ u \notin holders
  /\ Cardinality(holders) < Capacity
  /\ holders' = holders \cup {u}
  /\ UNCHANGED running

StartGuest(u) ==
  /\ u \in holders \ running
  /\ running' = running \cup {u}
  /\ UNCHANGED holders

StopGuest(u) ==
  /\ u \in running
  /\ running' = running \ {u}
  /\ UNCHANGED holders

Release(u) ==
  /\ u \in holders \ running
  /\ holders' = holders \ {u}
  /\ UNCHANGED running

(* A slot goes from one user straight to the next in line.                 *)
HandOver(u, v) ==
  /\ u \in holders \ running
  /\ v \notin holders
  /\ holders' = (holders \ {u}) \cup {v}
  /\ UNCHANGED running

Next ==
  \/ \E u \in Users : Take(u) \/ StartGuest(u) \/ StopGuest(u) \/ Release(u)
  \/ \E u, v \in Users : HandOver(u, v)

Spec == Init /\ [][Next]_slots
================================================================================
