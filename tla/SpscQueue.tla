----------------------------- MODULE SpscQueue -----------------------------
(***************************************************************************)
(* SPSCQueue (include/rtes/spsc_queue.hpp): the ring buffer that carries   *)
(* requests from the gateway thread to the risk thread and from the risk   *)
(* thread to each matching engine.                                         *)
(*                                                                         *)
(* A step is one access to a variable the other thread can see, together   *)
(* with the thread-local work around it.  head_ and tail_ are unsigned     *)
(* integers that wrap at IndexMod (2^64 in the code); capacity_ is a power *)
(* of two, so it divides IndexMod and the bit mask is a remainder.         *)
(***************************************************************************)
EXTENDS Integers, Sequences

CONSTANTS Items,      \* the elements that can be pushed
          Capacity,   \* capacity_
          IndexMod    \* the number of values of a size_t

ASSUME CapacityAssumption == Capacity \in Nat \ {0}

ASSUME IndexModAssumption ==
  IndexMod \in Nat /\ \E k \in 2 .. IndexMod : IndexMod = k * Capacity

ASSUME ItemsAssumption == Items # {}

VARIABLES head,         \* head_, written by the producer only
          cachedTail,   \* cached_tail_, the producer's copy of tail_
          tail,         \* tail_, written by the consumer only
          cachedHead,   \* cached_head_, the consumer's copy of head_
          buffer,       \* buffer_
          ppc,          \* what the producer does next in push
          arg,          \* the argument of push
          pushRes,      \* "pending" during push, afterwards what it returned
          cpc,          \* what the consumer does next in pop
          item,         \* the element pop has copied out of its slot
          out,          \* the element the latest successful pop handed out
          popRes        \* "pending" during pop, afterwards what it returned

producerVars == <<head, cachedTail, ppc, arg, pushRes>>
consumerVars == <<tail, cachedHead, cpc, item, out, popRes>>
vars == <<head, cachedTail, tail, cachedHead, buffer, ppc, arg, pushRes,
          cpc, item, out, popRes>>

(* size_t arithmetic: i + 1 and i - j modulo IndexMod. *)
Succ(i) == IF i = IndexMod - 1 THEN 0 ELSE i + 1

Minus(i, j) == IF i >= j THEN i - j ELSE i - j + IndexMod

(* index & mask_ *)
Slot(i) == i % Capacity

(* Mutant of Full: off by one. *)
FullOneLate == Minus(head, cachedTail) > Capacity

Full == Minus(head, cachedTail) >= Capacity

Init ==
  /\ head = 0 /\ cachedTail = 0 /\ tail = 0 /\ cachedHead = 0
  /\ \E zero \in Items :          \* memset: every slot holds the same bytes
       /\ buffer = [s \in 0 .. Capacity - 1 |-> zero]
       /\ arg = zero /\ item = zero /\ out = zero
  /\ ppc = "idle" /\ pushRes = "ok"
  /\ cpc = "idle" /\ popRes = "ok"

(***************************************************************************)
(* push: the check against cached_tail_ is local; the reload of tail_, the *)
(* write of the slot and the release store of head_ are separate steps.    *)
(***************************************************************************)
Push(v) ==
  /\ ppc = "idle"
  /\ arg' = v
  /\ pushRes' = "pending"
  /\ ppc' = IF Full THEN "reload" ELSE "write"
  /\ UNCHANGED <<head, cachedTail, buffer, consumerVars>>

ReloadTail ==
  /\ ppc = "reload"
  /\ cachedTail' = tail
  /\ IF Minus(head, tail) >= Capacity
       THEN ppc' = "idle" /\ pushRes' = "full"
       ELSE ppc' = "write" /\ UNCHANGED pushRes
  /\ UNCHANGED <<head, arg, buffer, consumerVars>>

WriteSlot ==
  /\ ppc = "write"
  /\ buffer' = [buffer EXCEPT ![Slot(head)] = arg]
  /\ ppc' = "publish"
  /\ UNCHANGED <<head, cachedTail, arg, pushRes, consumerVars>>

PublishHead ==
  /\ ppc = "publish"
  /\ head' = Succ(head)
  /\ pushRes' = "ok"
  /\ ppc' = "idle"
  /\ UNCHANGED <<cachedTail, arg, buffer, consumerVars>>

(* Mutant of Pop: trust the cached copy of head_ and never reload it. *)
PopFromCacheOnly ==
  /\ cpc = "idle"
  /\ IF tail = cachedHead
       THEN popRes' = "empty" /\ UNCHANGED cpc
       ELSE popRes' = "pending" /\ cpc' = "read"
  /\ UNCHANGED <<tail, cachedHead, item, out, buffer, producerVars>>

(* pop: the same split, with the roles of head_ and tail_ exchanged. *)
Pop ==
  /\ cpc = "idle"
  /\ popRes' = "pending"
  /\ cpc' = IF tail = cachedHead THEN "reload" ELSE "read"
  /\ UNCHANGED <<tail, cachedHead, item, out, buffer, producerVars>>

(* Mutant of ReloadHead: no second comparison after the reload. *)
ReloadHeadUnchecked ==
  /\ cpc = "reload"
  /\ cachedHead' = head
  /\ cpc' = "read"
  /\ UNCHANGED <<tail, item, out, popRes, buffer, producerVars>>

ReloadHead ==
  /\ cpc = "reload"
  /\ cachedHead' = head
  /\ IF tail = head
       THEN cpc' = "idle" /\ popRes' = "empty"
       ELSE cpc' = "read" /\ UNCHANGED popRes
  /\ UNCHANGED <<tail, item, out, buffer, producerVars>>

ReadSlot ==
  /\ cpc = "read"
  /\ item' = buffer[Slot(tail)]
  /\ cpc' = "publish"
  /\ UNCHANGED <<tail, cachedHead, out, popRes, buffer, producerVars>>

PublishTail ==
  /\ cpc = "publish"
  /\ tail' = Succ(tail)
  /\ out' = item
  /\ popRes' = "ok"
  /\ cpc' = "idle"
  /\ UNCHANGED <<cachedHead, item, buffer, producerVars>>

(***************************************************************************)
(* consumer_empty: the consumer polls between two batches (spin_wait of    *)
(* the risk manager) and may refresh cached_head_ without popping.         *)
(***************************************************************************)
ConsumerEmpty ==
  /\ cpc = "idle"
  /\ tail = cachedHead
  /\ cachedHead' = head
  /\ UNCHANGED <<tail, cpc, item, out, popRes, buffer, producerVars>>

Producer == (\E v \in Items : Push(v)) \/ ReloadTail \/ WriteSlot \/ PublishHead

Consumer == Pop \/ ReloadHead \/ ReadSlot \/ PublishTail \/ ConsumerEmpty

Next == Producer \/ Consumer

Spec == Init /\ [][Next]_vars

(***************************************************************************)
(* The consumer thread pops in a loop and the producer finishes a push it  *)
(* has begun; nothing obliges the producer to call push.                   *)
(***************************************************************************)
Fairness ==
  /\ WF_vars(Pop) /\ WF_vars(ReloadHead) /\ WF_vars(ReadSlot) /\ WF_vars(PublishTail)
  /\ WF_vars(ReloadTail \/ WriteSlot \/ PublishHead)

FairSpec == Spec /\ Fairness

-----------------------------------------------------------------------------

Index == 0 .. IndexMod - 1

(* Every variable stays in its type: indices are size_t values. *)
TypeOK ==
  /\ head \in Index /\ cachedTail \in Index
  /\ tail \in Index /\ cachedHead \in Index
  /\ buffer \in [0 .. Capacity - 1 -> Items]
  /\ ppc \in {"idle", "reload", "write", "publish"}
  /\ cpc \in {"idle", "reload", "read", "publish"}
  /\ arg \in Items /\ item \in Items /\ out \in Items
  /\ pushRes \in {"pending", "ok", "full"}
  /\ popRes \in {"pending", "ok", "empty"}

(* The slot count the two true indices define. *)
Size == Minus(head, tail)

(***************************************************************************)
(* The comments on push and pop: the producer owns the slot at head_ and   *)
(* the consumer the slot at tail_ until the index advances.  Both stale    *)
(* copies must stay on the safe side for this to hold.                     *)
(***************************************************************************)
NoSlotRace ==
  (ppc \in {"write", "publish"} /\ cpc \in {"read", "publish"}) => Slot(head) # Slot(tail)

(***************************************************************************)
(* The producer's copy never runs ahead of tail_ and the consumer's never  *)
(* runs ahead of head_: measured from the true tail, going backwards for   *)
(* the one and forwards for the other, across the wrap of the indices.     *)
(***************************************************************************)
CachesAreStale ==
  /\ Size <= Capacity
  /\ Minus(tail, cachedTail) + Size = Minus(head, cachedTail)
  /\ Minus(cachedHead, tail) <= Size
  /\ Minus(head, cachedTail) <= Capacity

(***************************************************************************)
(* Why the two threads may touch the buffer without a lock: past its check *)
(* a push knows a free slot and a pop a filled one, and what they wrote or *)
(* copied stays what it was until the index is published.                  *)
(***************************************************************************)
Ownership ==
  /\ CachesAreStale
  /\ pushRes = "pending" <=> ppc # "idle"
  /\ popRes = "pending" <=> cpc # "idle"
  /\ ppc \in {"write", "publish"} => ~Full
  /\ ppc = "publish" => buffer[Slot(head)] = arg
  /\ cpc \in {"read", "publish"} => tail # cachedHead
  /\ cpc = "publish" => item = buffer[Slot(tail)]

(***************************************************************************)
(* push() and pop() never meet: the indices stay size_t values, each side  *)
(* keeps to the slots it owns, and the two are never in the same slot.     *)
(***************************************************************************)
QueueSafe == TypeOK /\ Ownership /\ NoSlotRace

(* What the queue holds, oldest first. *)
Contents == [k \in 1 .. Size |-> buffer[Slot(tail + (k - 1))]]

Fifo == INSTANCE BoundedFifo WITH q <- Contents

(***************************************************************************)
(* The ring buffer implements the bounded FIFO: no element is lost,        *)
(* duplicated or reordered, push fails only on a full queue and pop only   *)
(* on an empty one.                                                        *)
(***************************************************************************)
ImplementsFifo == Fifo!Spec

(* Whatever was published is handed out: a non-empty queue is popped. *)
EventuallyConsumed ==
  \A i \in Index : (tail = i /\ Size > 0) ~> (tail # i)
=============================================================================
