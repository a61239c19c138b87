----------------------------- MODULE MpmcQueue ------------------------------
(***************************************************************************)
(* MPMCQueue (include/rtes/mpmc_queue.hpp): the bounded queue that carries *)
(* market data from all engines to the UDP publisher.                      *)
(*                                                                         *)
(* A step is one access to enqueue_pos_, dequeue_pos_ or a cell.  Producer *)
(* p pushes the items <<p, 1>>, <<p, 2>>, ...  Positions are not wrapped:  *)
(* 2^64 of them are not used up.                                           *)
(***************************************************************************)
EXTENDS Integers, Sequences, FiniteSets

CONSTANTS Producers, Consumers,
          Capacity,    \* capacity_
          MaxPushes    \* bound on the calls of push of each producer

ASSUME MpmcAssumption ==
  /\ Producers \cap Consumers = {}
  /\ Capacity \in Nat \ {0, 1}   \* one cell: readable and writable look alike
  /\ MaxPushes \in Nat

VARIABLES enqueuePos,   \* enqueue_pos_
          dequeuePos,   \* dequeue_pos_
          sequence,     \* Cell::sequence
          data,         \* Cell::data
          pc,           \* what each thread does next
          pos,          \* pos of each thread
          calls,        \* how many times each producer has called push
          item,         \* the element a consumer has copied out
          claimed,      \* history: the items in the order their cells were claimed
          returned,     \* history: items whose push has returned true
          received      \* history: the item that left the queue from each position

vars == <<enqueuePos, dequeuePos, sequence, data, pc, pos, calls, item, claimed, returned, received>>

Threads == Producers \cup Consumers
Item(p) == <<p, calls[p]>>
Items == Producers \X (1 .. MaxPushes)
NoItem == <<>>

(* pos & mask_ *)
Cell(i) == i % Capacity

Init ==
  /\ enqueuePos = 0 /\ dequeuePos = 0
  /\ sequence = [i \in 0 .. Capacity - 1 |-> i]
  /\ data = [i \in 0 .. Capacity - 1 |-> NoItem]
  /\ pc = [t \in Threads |-> "idle"]
  /\ pos = [t \in Threads |-> 0]
  /\ calls = [p \in Producers |-> 0]
  /\ item = [c \in Consumers |-> NoItem]
  /\ claimed = <<>> /\ returned = {} /\ received = <<>>

-----------------------------------------------------------------------------

Push(p) ==
  /\ pc[p] = "idle"
  /\ calls[p] < MaxPushes
  /\ calls' = [calls EXCEPT ![p] = @ + 1]
  /\ pos' = [pos EXCEPT ![p] = enqueuePos]
  /\ pc' = [pc EXCEPT ![p] = "check"]
  /\ UNCHANGED <<enqueuePos, dequeuePos, sequence, data, item, claimed, returned, received>>

(* The sequence is compared: writable, full, or claimed by another thread. *)
Compare(t, expected) ==
  LET seq == sequence[Cell(pos[t])]
  IN  \/ seq = expected /\ pc' = [pc EXCEPT ![t] = "claim"]
      \/ seq < expected /\ pc' = [pc EXCEPT ![t] = "idle"]
      \/ seq > expected /\ pc' = [pc EXCEPT ![t] = "reload"]

CheckPush(p) ==
  /\ pc[p] = "check"
  /\ Compare(p, pos[p])
  /\ UNCHANGED <<enqueuePos, dequeuePos, sequence, data, pos, calls, item, claimed, returned, received>>

(* Mutant of ClaimPush: a load and a store instead of the CAS. *)
ClaimPushStores(p) ==
  /\ pc[p] = "claim"
  /\ enqueuePos' = pos[p] + 1
  /\ claimed' = Append(claimed, Item(p))
  /\ pc' = [pc EXCEPT ![p] = "write"]
  /\ UNCHANGED <<dequeuePos, sequence, data, pos, calls, item, returned, received>>

ClaimPush(p) ==
  /\ pc[p] = "claim"
  /\ enqueuePos = pos[p]
  /\ enqueuePos' = enqueuePos + 1
  /\ claimed' = Append(claimed, Item(p))
  /\ pc' = [pc EXCEPT ![p] = "write"]
  /\ UNCHANGED <<dequeuePos, sequence, data, pos, calls, item, returned, received>>

(* The CAS fails, possibly spuriously, or the position was stale: reload it. *)
RetryPush(p) ==
  /\ pc[p] \in {"claim", "reload"}
  /\ pos' = [pos EXCEPT ![p] = enqueuePos]
  /\ pc' = [pc EXCEPT ![p] = "check"]
  /\ UNCHANGED <<enqueuePos, dequeuePos, sequence, data, calls, item, claimed, returned, received>>

WriteData(p) ==
  /\ pc[p] = "write"
  /\ data' = [data EXCEPT ![Cell(pos[p])] = Item(p)]
  /\ pc' = [pc EXCEPT ![p] = "publish"]
  /\ UNCHANGED <<enqueuePos, dequeuePos, sequence, pos, calls, item, claimed, returned, received>>

(* Mutant of Publish: the sequence is not advanced. *)
PublishNothing(p) ==
  /\ pc[p] = "publish"
  /\ returned' = returned \cup {Item(p)}
  /\ pc' = [pc EXCEPT ![p] = "idle"]
  /\ UNCHANGED <<enqueuePos, dequeuePos, sequence, data, pos, calls, item, claimed, received>>

Publish(p) ==
  /\ pc[p] = "publish"
  /\ sequence' = [sequence EXCEPT ![Cell(pos[p])] = pos[p] + 1]
  /\ returned' = returned \cup {Item(p)}
  /\ pc' = [pc EXCEPT ![p] = "idle"]
  /\ UNCHANGED <<enqueuePos, dequeuePos, data, pos, calls, item, claimed, received>>

-----------------------------------------------------------------------------

Pop(c) ==
  /\ pc[c] = "idle"
  /\ pos' = [pos EXCEPT ![c] = dequeuePos]
  /\ pc' = [pc EXCEPT ![c] = "check"]
  /\ UNCHANGED <<enqueuePos, dequeuePos, sequence, data, calls, item, claimed, returned, received>>

CheckPop(c) ==
  /\ pc[c] = "check"
  /\ Compare(c, pos[c] + 1)
  /\ UNCHANGED <<enqueuePos, dequeuePos, sequence, data, pos, calls, item, claimed, returned, received>>

ClaimPop(c) ==
  /\ pc[c] = "claim"
  /\ dequeuePos = pos[c]
  /\ dequeuePos' = dequeuePos + 1
  /\ received' = Append(received, NoItem)
  /\ pc' = [pc EXCEPT ![c] = "read"]
  /\ UNCHANGED <<enqueuePos, sequence, data, pos, calls, item, claimed, returned>>

RetryPop(c) ==
  /\ pc[c] \in {"claim", "reload"}
  /\ pos' = [pos EXCEPT ![c] = dequeuePos]
  /\ pc' = [pc EXCEPT ![c] = "check"]
  /\ UNCHANGED <<enqueuePos, dequeuePos, sequence, data, calls, item, claimed, returned, received>>

ReadData(c) ==
  /\ pc[c] = "read"
  /\ item' = [item EXCEPT ![c] = data[Cell(pos[c])]]
  /\ pc' = [pc EXCEPT ![c] = "recycle"]
  /\ UNCHANGED <<enqueuePos, dequeuePos, sequence, data, pos, calls, claimed, returned, received>>

Recycle(c) ==
  /\ pc[c] = "recycle"
  /\ sequence' = [sequence EXCEPT ![Cell(pos[c])] = pos[c] + Capacity]
  /\ received' = [received EXCEPT ![pos[c] + 1] = item[c]]
  /\ pc' = [pc EXCEPT ![c] = "idle"]
  /\ UNCHANGED <<enqueuePos, dequeuePos, data, pos, calls, item, claimed, returned>>

Producer(p) ==
  Push(p) \/ CheckPush(p) \/ ClaimPush(p) \/ RetryPush(p) \/ WriteData(p) \/ Publish(p)
Consumer(c) ==
  Pop(c) \/ CheckPop(c) \/ ClaimPop(c) \/ RetryPop(c) \/ ReadData(c) \/ Recycle(c)

Next == (\E p \in Producers : Producer(p)) \/ (\E c \in Consumers : Consumer(c))

RingSpec == Init /\ [][Next]_vars

-----------------------------------------------------------------------------

RingTypes ==
  /\ enqueuePos \in Nat /\ dequeuePos \in Nat
  /\ sequence \in [0 .. Capacity - 1 -> Nat] /\ data \in [0 .. Capacity - 1 -> Items \cup {NoItem}]
  /\ pc \in [Threads -> {"idle", "check", "claim", "reload", "write", "publish", "read", "recycle"}]
  /\ \A p \in Producers : pc[p] \notin {"read", "recycle"}
  /\ \A c \in Consumers : pc[c] \notin {"write", "publish"}
  /\ pos \in [Threads -> Nat] /\ calls \in [Producers -> 0 .. MaxPushes]
  /\ \A p \in Producers : pc[p] # "idle" => calls[p] > 0
  /\ item \in [Consumers -> Items \cup {NoItem}]
  /\ claimed \in Seq(Items) /\ returned \subseteq Items /\ received \in Seq(Items \cup {NoItem})

InCell(t) == pc[t] \in {"write", "publish", "read", "recycle"}

(***************************************************************************)
(* The sequence numbers keep the threads apart: no two of them are between *)
(* the CAS and the release store on the same cell.                         *)
(***************************************************************************)
ExclusiveCell ==
  \A t, u \in Threads : t # u /\ InCell(t) /\ InCell(u) => Cell(pos[t]) # Cell(pos[u])

(***************************************************************************)
(* Nothing is lost, duplicated or overtaken: what a pop takes from a       *)
(* position is what the push that claimed this position brought, and the   *)
(* ring never holds more than Capacity items.                              *)
(***************************************************************************)
DeliveredInOrder ==
  /\ Len(claimed) = enqueuePos
  /\ Len(received) = dequeuePos
  /\ enqueuePos - dequeuePos \in 0 .. Capacity
  /\ \A k \in DOMAIN received : received[k] \in {NoItem, claimed[k]}

(***************************************************************************)
(* A push that gives up had reason to, however stale the position it held: *)
(* at that moment the cell of the next position to claim is still occupied *)
(* by the item of a round ago, so engines drop market data only when the   *)
(* ring is in use up to its oldest reader.                                 *)
(***************************************************************************)
RefusedOnlyWhenFull ==
  [][\A p \in Producers :
       pc[p] = "check" /\ pc'[p] = "idle" =>
         LET k == enqueuePos - Capacity + 1
         IN  k > 0 /\ (k \in DOMAIN received => received[k] = NoItem)]_vars

Undelivered == returned \ {received[k] : k \in DOMAIN received}

(* Items whose push returned true are popped, also past slow producers. *)
EventuallyReceived == Undelivered # {} ~> Undelivered = {}

(***************************************************************************)
(* The ring is safe for any interleaving of push() and pop(): threads are  *)
(* never in one cell together, and items leave from the positions they     *)
(* entered.                                                                *)
(***************************************************************************)
RingSafe == ExclusiveCell /\ DeliveredInOrder

(***************************************************************************)
(* Why it is safe.  The sequence of a cell tells its round: it waits for   *)
(* the push of position s, or has had the push of position s - 1 and waits *)
(* for its pop.                                                            *)
(***************************************************************************)
CellRound(i) ==
  LET s == sequence[i]
  IN  \/ Cell(s) = i /\ dequeuePos <= s /\ s < dequeuePos + Capacity
      \/ /\ s > 0 /\ Cell(s - 1) = i /\ s - 1 < enqueuePos /\ enqueuePos < s + Capacity
         /\ data[i] = claimed[s]

(* A producer that may still win its position knows the cell; one that won it has the cell. *)
ProducerKnows(p) ==
  /\ pos[p] <= enqueuePos
  /\ pc[p] = "claim" /\ pos[p] = enqueuePos => sequence[Cell(pos[p])] = pos[p]
  /\ pc[p] \in {"write", "publish"} =>
       /\ pos[p] < enqueuePos /\ sequence[Cell(pos[p])] = pos[p] /\ claimed[pos[p] + 1] = Item(p)
       /\ \A q \in Producers \ {p} : pc[q] \in {"write", "publish"} => pos[q] # pos[p]
  /\ pc[p] = "publish" => data[Cell(pos[p])] = Item(p)

ConsumerKnows(c) ==
  /\ pos[c] <= dequeuePos
  /\ pc[c] = "claim" /\ pos[c] = dequeuePos => sequence[Cell(pos[c])] = pos[c] + 1
  /\ pc[c] \in {"read", "recycle"} =>
       /\ pos[c] < dequeuePos /\ sequence[Cell(pos[c])] = pos[c] + 1
       /\ \A d \in Consumers \ {c} : pc[d] \in {"read", "recycle"} => pos[d] # pos[c]
  /\ pc[c] = "recycle" => item[c] = claimed[pos[c] + 1]

(* The inductive invariant of the ring. *)
RingInv ==
  /\ RingTypes /\ DeliveredInOrder
  /\ \A i \in 0 .. Capacity - 1 : CellRound(i)
  /\ \A p \in Producers : ProducerKnows(p)
  /\ \A c \in Consumers : ConsumerKnows(c)

(***************************************************************************)
(* The ring serves: a push is refused only by a full ring, and an item     *)
(* that went in comes out.                                                 *)
(***************************************************************************)
RingServes == RefusedOnlyWhenFull /\ EventuallyReceived
=============================================================================
