------------------------------ MODULE SlotPool ------------------------------
(***************************************************************************)
(* What a pool of slots shared by several threads promises.  allocate()    *)
(* takes one free slot at one instant of the call, or returns nullptr if   *)
(* no slot is free at that instant; deallocate() frees its slot at one     *)
(* instant of the call.  A slot is never handed out twice.  MemoryPool is  *)
(* shown to implement this specification.                                  *)
(***************************************************************************)
CONSTANTS Threads, Slots

VARIABLES free,       \* the slots an allocation can take
          held,       \* the slots handed out to callers and not given back
          phase,      \* what each thread is doing
          slot        \* the slot a thread has taken, or is giving back

vars == <<free, held, phase, slot>>

Init ==
  /\ free = Slots
  /\ held = {}
  /\ phase = [t \in Threads |-> "idle"]
  /\ slot \in [Threads -> Slots]

Allocate(t) ==
  /\ phase[t] = "idle"
  /\ phase' = [phase EXCEPT ![t] = "allocating"]
  /\ UNCHANGED <<free, held, slot>>

Take(t) ==
  /\ phase[t] = "allocating"
  /\ \E s \in free :
       /\ free' = free \ {s}
       /\ slot' = [slot EXCEPT ![t] = s]
  /\ phase' = [phase EXCEPT ![t] = "taken"]
  /\ UNCHANGED held

Exhausted(t) ==
  /\ phase[t] \in {"idle", "allocating"}
  /\ free = {}
  /\ phase' = [phase EXCEPT ![t] = "null"]
  /\ UNCHANGED <<free, held, slot>>

ReturnSlot(t) ==
  /\ phase[t] = "taken"
  /\ held' = held \cup {slot[t]}
  /\ phase' = [phase EXCEPT ![t] = "idle"]
  /\ UNCHANGED <<free, slot>>

ReturnNull(t) ==
  /\ phase[t] = "null"
  /\ phase' = [phase EXCEPT ![t] = "idle"]
  /\ UNCHANGED <<free, held, slot>>

Deallocate(t) ==
  /\ phase[t] = "idle"
  /\ \E s \in held :
       /\ held' = held \ {s}
       /\ slot' = [slot EXCEPT ![t] = s]
  /\ phase' = [phase EXCEPT ![t] = "freeing"]
  /\ UNCHANGED free

Release(t) ==
  /\ phase[t] = "freeing"
  /\ free' = free \cup {slot[t]}
  /\ phase' = [phase EXCEPT ![t] = "idle"]
  /\ UNCHANGED <<held, slot>>

Next ==
  \E t \in Threads :
     \/ Allocate(t) \/ Take(t) \/ Exhausted(t) \/ ReturnSlot(t) \/ ReturnNull(t)
     \/ Deallocate(t) \/ Release(t)

Spec == Init /\ [][Next]_vars
=============================================================================
