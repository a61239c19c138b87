-------------------------- MODULE MpmcQueueProofs ---------------------------
(***************************************************************************)
(* Proofs about MpmcQueue, for any producers and consumers, any number of  *)
(* pushes and any capacity from two on: threads are never in one cell      *)
(* together, and items leave from the positions they entered.              *)
(***************************************************************************)
EXTENDS MpmcQueue, ModuloLemmas, SequenceTheorems, TLAPS

(* Neighbours lie in different cells, and a round leads back to the same. *)
LEMMA CellFacts ==
  ASSUME NEW i \in Nat
  PROVE  /\ Cell(i) \in 0 .. Capacity - 1
         /\ Cell(i + 1) # Cell(i)
         /\ Cell(i + Capacity) = Cell(i)
<1>0. Capacity \in Nat \ {0} /\ i \in Int /\ i + 1 \in Int /\ i + 1 > i /\ (i + 1) - i < Capacity
  BY MpmcAssumption
<1>1. i % Capacity \in 0 .. Capacity - 1
  BY <1>0, DivMod
<1>2. (i + 1) % Capacity # i % Capacity
  BY <1>0, SlotsDiffer
<1>3. (i + Capacity) % Capacity = i % Capacity
  <2>1. i + Capacity = i + 1 * Capacity /\ i + Capacity \in Int /\ 1 \in Int
    BY <1>0
  <2> QED
    BY <1>0, <2>1, SlotPeriodic
<1> QED
  BY <1>1, <1>2, <1>3 DEF Cell

LEMMA InitRing == Init => RingInv
<1> SUFFICES ASSUME Init PROVE RingInv
  OBVIOUS
<1>1. RingTypes
  BY MpmcAssumption DEF Init, RingTypes, Threads
<1>2. DeliveredInOrder
  BY MpmcAssumption DEF Init, DeliveredInOrder
<1>3. ASSUME NEW i \in 0 .. Capacity - 1 PROVE CellRound(i)
  <2>1. Cell(i) = i
    BY SlotOfSmall, MpmcAssumption DEF Cell
  <2> QED
    BY <2>1, MpmcAssumption DEF Init, CellRound
<1>4. \A p \in Producers : ProducerKnows(p)
  BY DEF Init, ProducerKnows, Threads
<1>5. \A c \in Consumers : ConsumerKnows(c)
  BY DEF Init, ConsumerKnows, Threads
<1> QED
  BY <1>1, <1>2, <1>3, <1>4, <1>5 DEF RingInv

-----------------------------------------------------------------------------
(* What the invariant says about the cell of a position. *)

(* The positions are never further apart than the ring is large. *)
LEMMA RingCounts ==
  ASSUME RingInv
  PROVE  /\ enqueuePos \in Nat /\ dequeuePos \in Nat /\ Capacity \in Nat
         /\ dequeuePos <= enqueuePos /\ enqueuePos <= dequeuePos + Capacity
<1>1. enqueuePos \in Nat /\ dequeuePos \in Nat
  BY DEF RingInv, RingTypes
<1>2. enqueuePos - dequeuePos \in 0 .. Capacity
  BY DEF RingInv, DeliveredInOrder
<1>3. Capacity \in Nat
  BY MpmcAssumption
<1> QED
  BY ONLY <1>1, <1>2, <1>3

(* A cell whose sequence is the position itself waits for its push. *)
LEMMA WaitsForPush ==
  ASSUME RingInv, NEW k \in Nat, sequence[Cell(k)] = k
  PROVE  dequeuePos <= k /\ k < dequeuePos + Capacity
<1>1. CellRound(Cell(k))
  BY CellFacts DEF RingInv
<1>2. k > 0 => Cell(k - 1) # Cell(k)
  <2>1. k > 0 => k - 1 \in Nat /\ (k - 1) + 1 = k
    OBVIOUS
  <2> QED
    BY <2>1, CellFacts
<1> QED
  BY <1>1, <1>2 DEF CellRound

(* One further: it has the item pushed there. *)
LEMMA WaitsForPop ==
  ASSUME RingInv, NEW k \in Nat, sequence[Cell(k)] = k + 1
  PROVE  k < enqueuePos /\ enqueuePos < k + 1 + Capacity /\ data[Cell(k)] = claimed[k + 1]
<1>1. CellRound(Cell(k)) /\ Cell(k + 1) # Cell(k)
  BY CellFacts DEF RingInv
<1> QED
  BY <1>1 DEF CellRound

(* A thread between its CAS and its release store knows its cell's sequence. *)
LEMMA RingExclusive == RingInv => ExclusiveCell
<1> SUFFICES ASSUME RingInv, NEW t \in Threads, NEW u \in Threads, t # u, InCell(t), InCell(u),
                    Cell(pos[t]) = Cell(pos[u])
             PROVE  FALSE
  BY DEF ExclusiveCell
<1>1. pos[t] \in Nat /\ pos[u] \in Nat
  BY DEF RingInv, RingTypes
<1>2. \A v \in Threads : InCell(v) =>
        \/ v \in Producers /\ pc[v] \in {"write", "publish"} /\ sequence[Cell(pos[v])] = pos[v]
        \/ v \in Consumers /\ pc[v] \in {"read", "recycle"} /\ sequence[Cell(pos[v])] = pos[v] + 1
  BY DEF RingInv, RingTypes, InCell, Threads, ProducerKnows, ConsumerKnows
<1>3. CASE t \in Producers /\ u \in Producers
  <2>1. pos[t] = pos[u] /\ pc[t] \in {"write", "publish"} /\ pc[u] \in {"write", "publish"}
    BY <1>2, <1>3, MpmcAssumption
  <2> QED
    BY <1>3, <2>1 DEF RingInv, ProducerKnows
<1>4. CASE t \in Consumers /\ u \in Consumers
  <2>1. pos[t] + 1 = pos[u] + 1 /\ pc[t] \in {"read", "recycle"} /\ pc[u] \in {"read", "recycle"}
    BY <1>2, <1>4, MpmcAssumption
  <2>2. pos[t] = pos[u]
    BY <1>1, <2>1
  <2> QED
    BY <1>4, <2>1, <2>2 DEF RingInv, ConsumerKnows
<1>5. CASE t \in Producers /\ u \in Consumers
  <2>1. pos[t] = pos[u] + 1
    BY <1>2, <1>5, MpmcAssumption
  <2> QED
    BY <1>1, <2>1, CellFacts
<1>6. CASE t \in Consumers /\ u \in Producers
  <2>1. pos[u] = pos[t] + 1
    BY <1>2, <1>6, MpmcAssumption
  <2> QED
    BY <1>1, <2>1, CellFacts
<1> QED
  BY <1>3, <1>4, <1>5, <1>6 DEF Threads

-----------------------------------------------------------------------------
(* A step of the ring keeps the types. *)
LEMMA TypesStep ==
  ASSUME RingInv, Next
  PROVE  RingTypes'
<1> USE MpmcAssumption DEF RingInv, RingTypes, Threads
<1>0. /\ \A t \in Threads : Cell(pos[t]) \in 0 .. Capacity - 1
      /\ \A p \in Producers : pc[p] # "idle" => Item(p) \in Items
      /\ Len(received) = dequeuePos
  <2>1. \A t \in Threads : Cell(pos[t]) \in 0 .. Capacity - 1
    BY CellFacts
  <2>2. ASSUME NEW p \in Producers, pc[p] # "idle" PROVE Item(p) \in Items
    <3>1. calls[p] \in 1 .. MaxPushes
      BY <2>2
    <3> QED
      BY <3>1 DEF Item, Items
  <2> QED
    BY <2>1, <2>2 DEF DeliveredInOrder
<1>1. ASSUME NEW p \in Producers, Push(p) PROVE RingTypes'
  BY <1>1 DEF Push
<1>2. ASSUME NEW p \in Producers, CheckPush(p) PROVE RingTypes'
  <2>1. PICK l \in {"claim", "idle", "reload"} : pc' = [pc EXCEPT ![p] = l]
    BY <1>0, <1>2 DEF CheckPush, Compare
  <2> QED
    BY <1>2, <2>1 DEF CheckPush
<1>3. ASSUME NEW p \in Producers, ClaimPush(p) PROVE RingTypes'
  <2>1. claimed' \in Seq(Items)
    BY <1>0, <1>3 DEF ClaimPush
  <2> QED
    BY <1>3, <2>1 DEF ClaimPush
<1>4. ASSUME NEW p \in Producers, RetryPush(p) PROVE RingTypes'
  BY <1>4 DEF RetryPush
<1>5. ASSUME NEW p \in Producers, WriteData(p) PROVE RingTypes'
  BY <1>0, <1>5 DEF WriteData
<1>6. ASSUME NEW p \in Producers, Publish(p) PROVE RingTypes'
  BY <1>0, <1>6, SMTT(30) DEF Publish
<1>7. ASSUME NEW c \in Consumers, Pop(c) PROVE RingTypes'
  BY <1>7 DEF Pop
<1>8. ASSUME NEW c \in Consumers, CheckPop(c) PROVE RingTypes'
  <2>1. PICK l \in {"claim", "idle", "reload"} : pc' = [pc EXCEPT ![c] = l]
    BY <1>0, <1>8 DEF CheckPop, Compare
  <2> QED
    BY <1>8, <2>1 DEF CheckPop
<1>9. ASSUME NEW c \in Consumers, ClaimPop(c) PROVE RingTypes'
  <2>1. received' \in Seq(Items \cup {NoItem})
    BY <1>9 DEF ClaimPop
  <2> QED
    BY <1>9, <2>1 DEF ClaimPop
<1>10. ASSUME NEW c \in Consumers, RetryPop(c) PROVE RingTypes'
  BY <1>10 DEF RetryPop
<1>11. ASSUME NEW c \in Consumers, ReadData(c) PROVE RingTypes'
  BY <1>0, <1>11 DEF ReadData
<1>12. ASSUME NEW c \in Consumers, Recycle(c) PROVE RingTypes'
  <2>1. pos[c] + 1 \in 1 .. Len(received)
    BY <1>0, <1>12 DEF Recycle, ConsumerKnows
  <2>2. received' \in Seq(Items \cup {NoItem})
    BY <1>12, <2>1 DEF Recycle
  <2>3. pos[c] + Capacity \in Nat /\ sequence' \in [0 .. Capacity - 1 -> Nat]
    BY <1>0, <1>12 DEF Recycle
  <2> QED
    BY <1>12, <2>2, <2>3 DEF Recycle
<1> QED
  BY <1>1, <1>2, <1>3, <1>4, <1>5, <1>6, <1>7, <1>8, <1>9, <1>10, <1>11, <1>12 DEF Next, Producer, Consumer

(***************************************************************************)
(* A thread that only looks: it takes a position, or compares the sequence *)
(* of the cell and goes on to the CAS only when the cell is in the right   *)
(* round.                                                                  *)
(***************************************************************************)
LEMMA LookingStep ==
  ASSUME RingInv, RingTypes', NEW t \in Threads,
         UNCHANGED <<enqueuePos, dequeuePos, sequence, data, item, claimed, received>>,
         \A u \in Threads \ {t} : pc'[u] = pc[u] /\ pos'[u] = pos[u],
         \A p \in Producers \ {t} : calls'[p] = calls[p],
         pc'[t] \in {"idle", "check", "claim", "reload"},
         t \in Producers => pos'[t] <= enqueuePos /\ (pc'[t] = "claim" => sequence[Cell(pos'[t])] = pos'[t]),
         t \in Consumers => pos'[t] <= dequeuePos /\ (pc'[t] = "claim" => sequence[Cell(pos'[t])] = pos'[t] + 1)
  PROVE  RingInv'
<1>1. DeliveredInOrder'
  BY DEF RingInv, DeliveredInOrder
<1>2. \A i \in 0 .. Capacity - 1 : CellRound(i)'
  BY DEF RingInv, CellRound
<1>3. ASSUME NEW p \in Producers PROVE ProducerKnows(p)'
  <2>1. CASE p = t
    BY <2>1 DEF ProducerKnows, Threads
  <2>2. CASE p # t
    BY <2>2 DEF RingInv, ProducerKnows, Item, Threads
  <2> QED
    BY <2>1, <2>2
<1>4. ASSUME NEW c \in Consumers PROVE ConsumerKnows(c)'
  <2>1. CASE c = t
    BY <2>1 DEF ConsumerKnows, Threads
  <2>2. CASE c # t
    BY <2>2 DEF RingInv, ConsumerKnows, Threads
  <2> QED
    BY <2>1, <2>2
<1> QED
  BY <1>1, <1>2, <1>3, <1>4 DEF RingInv

(* Threads in their cells are there alone. *)
LEMMA OtherCell ==
  ASSUME RingInv, NEW t \in Threads, NEW u \in Threads, t # u, InCell(t), InCell(u)
  PROVE  Cell(pos[u]) # Cell(pos[t])
BY RingExclusive DEF ExclusiveCell

(* The CAS of push(): the position was in its round, so a cell becomes the producer's. *)
LEMMA ClaimPushStep ==
  ASSUME RingInv, RingTypes', NEW p \in Producers, ClaimPush(p)
  PROVE  RingInv'
<1> DEFINE k == enqueuePos
<1>0. /\ k \in Nat /\ dequeuePos \in Nat /\ Capacity \in Nat \ {0, 1}
      /\ pos \in [Threads -> Nat] /\ pc[p] = "claim" /\ pos[p] = k /\ p \in Threads
      /\ sequence \in [0 .. Capacity - 1 -> Nat] /\ sequence[Cell(k)] = k
      /\ Len(claimed) = k /\ Len(received) = dequeuePos /\ claimed \in Seq(Items)
      /\ received \in Seq(Items \cup {NoItem})
  BY MpmcAssumption DEF RingInv, RingTypes, ClaimPush, ProducerKnows, DeliveredInOrder, Threads
<1>1. dequeuePos <= k /\ k < dequeuePos + Capacity
  BY <1>0, WaitsForPush
<1>2. /\ Len(claimed') = k + 1 /\ claimed'[k + 1] = Item(p)
      /\ \A n \in 1 .. k : claimed'[n] = claimed[n]
  BY <1>0 DEF ClaimPush, RingTypes
<1>3. /\ enqueuePos' = k + 1 /\ pc' = [pc EXCEPT ![p] = "write"]
      /\ UNCHANGED <<dequeuePos, sequence, data, pos, calls, item, returned, received>>
  BY DEF ClaimPush
<1>4. DeliveredInOrder'
  <2>1. \A n \in DOMAIN received : n \in 1 .. k /\ received[n] \in {NoItem, claimed[n]}
    BY <1>0, <1>1 DEF RingInv, DeliveredInOrder
  <2> QED
    BY <1>0, <1>1, <1>2, <1>3, <2>1 DEF DeliveredInOrder
<1>5. ASSUME NEW i \in 0 .. Capacity - 1 PROVE CellRound(i)'
  <2> DEFINE s == sequence[i]
  <2>1. CellRound(i) /\ s \in Nat
    BY <1>0 DEF RingInv
  <2>2. CASE Cell(s) = i /\ dequeuePos <= s /\ s < dequeuePos + Capacity
    BY <1>3, <2>2 DEF CellRound
  <2>3. CASE /\ s > 0 /\ Cell(s - 1) = i /\ s - 1 < enqueuePos /\ enqueuePos < s + Capacity
             /\ data[i] = claimed[s]
    <3>1. s - 1 \in Nat /\ s \in 1 .. k
      BY <1>0, <2>1, <2>3
    <3>2. k # (s - 1) + Capacity
      <4> SUFFICES ASSUME k = (s - 1) + Capacity PROVE FALSE
        OBVIOUS
      <4>1. Cell(k) = i
        BY <2>3, <3>1, CellFacts
      <4>2. s = k
        BY <1>0, <4>1
      <4> QED
        BY <1>0, <4>2
    <3>3. k + 1 < s + Capacity
      <4>1. \A a, b, c \in Nat : a < b + c /\ a # (b - 1) + c => a + 1 < b + c
        OBVIOUS
      <4>2. k \in Nat /\ s \in Nat /\ Capacity \in Nat /\ k < s + Capacity
        BY <1>0, <2>1, <2>3
      <4> QED
        BY <3>2, <4>1, <4>2
    <3>4. claimed'[s] = claimed[s]
      BY <1>2, <3>1
    <3>5. s - 1 < k + 1
      BY <1>0, <2>1, <2>3
    <3> QED
      BY <1>3, <2>3, <3>3, <3>4, <3>5 DEF CellRound
  <2> QED
    BY <2>1, <2>2, <2>3 DEF CellRound
<1>6. ASSUME NEW q \in Producers PROVE ProducerKnows(q)'
  <2>0. ProducerKnows(q) /\ pos[q] \in Nat /\ q \in Threads
    BY <1>0 DEF RingInv, Threads
  <2>1. \A r \in Producers : pc[r] \in {"write", "publish"} => pos[r] < k
    BY DEF RingInv, ProducerKnows
  <2>2. CASE q = p
    <3>1. pc'[p] = "write" /\ \A r \in Producers \ {p} : pc'[r] = pc[r]
      BY <1>0, <1>3 DEF RingInv, RingTypes, Threads
    <3>2. \A r \in Producers \ {p} : pc'[r] \in {"write", "publish"} => pos'[r] # pos'[p]
      BY <1>0, <1>3, <2>1, <3>1
    <3>3. Item(p)' = Item(p)
      BY <1>3 DEF Item
    <3> QED
      BY <1>0, <1>2, <1>3, <2>2, <3>1, <3>2, <3>3 DEF ProducerKnows
  <2>3. CASE q # p
    <3>1. pc'[q] = pc[q] /\ pos'[q] = pos[q] /\ pos[q] <= k /\ Item(q)' = Item(q)
      BY <1>0, <1>3, <2>0, <2>3 DEF ProducerKnows, RingInv, RingTypes, Item
    <3>2. pc[q] \in {"write", "publish"} => claimed'[pos[q] + 1] = claimed[pos[q] + 1] /\ pos[q] # pos[p]
      BY <1>0, <1>2, <2>0, <2>1
    <3>3. \A r \in Producers \ {q} : pc[q] \in {"write", "publish"} /\ pc'[r] \in {"write", "publish"} =>
             pos'[r] # pos'[q]
      <4> SUFFICES ASSUME NEW r \in Producers \ {q}, pc[q] \in {"write", "publish"},
                          pc'[r] \in {"write", "publish"}
                   PROVE  pos[r] # pos[q]
        BY <1>3
      <4>1. CASE r = p
        BY <3>2, <4>1
      <4>2. CASE r # p
        <5>1. pc[r] \in {"write", "publish"}
          BY <1>0, <1>3, <4>2 DEF RingInv, RingTypes, Threads
        <5> QED
          BY <2>0, <5>1 DEF ProducerKnows
      <4> QED
        BY <4>1, <4>2
    <3>4. pos[q] <= k + 1 /\ pos[q] < k + 1 /\ pos[q] # k + 1
      BY <1>0, <2>0, <3>1
    <3>5. /\ pos'[q] <= enqueuePos' /\ pos'[q] < enqueuePos' /\ pos'[q] # enqueuePos'
          /\ Cell(pos'[q]) = Cell(pos[q])
      BY <1>3, <3>1, <3>4
    <3>6. pc[q] \in {"write", "publish"} =>
            sequence'[Cell(pos'[q])] = pos'[q] /\ claimed'[pos'[q] + 1] = Item(q)'
      BY <1>3, <2>0, <3>1, <3>2 DEF ProducerKnows
    <3>7. pc[q] = "publish" => data'[Cell(pos'[q])] = Item(q)'
      BY <1>3, <2>0, <3>1 DEF ProducerKnows
    <3> QED
      BY <3>1, <3>3, <3>5, <3>6, <3>7 DEF ProducerKnows
  <2> QED
    BY <2>2, <2>3
<1>7. ASSUME NEW c \in Consumers PROVE ConsumerKnows(c)'
  <2>1. ConsumerKnows(c) /\ pos[c] \in Nat
    BY <1>0 DEF RingInv, Threads
  <2>2. \A d \in Consumers : pc'[d] = pc[d]
    BY <1>0, <1>3, MpmcAssumption DEF RingInv, RingTypes, Threads
  <2>3. pc[c] = "recycle" => claimed'[pos[c] + 1] = claimed[pos[c] + 1]
    BY <1>0, <1>1, <1>2, <2>1 DEF ConsumerKnows
  <2> QED
    BY <1>3, <2>1, <2>2, <2>3 DEF ConsumerKnows
<1> QED
  BY <1>4, <1>5, <1>6, <1>7 DEF RingInv

(* The item goes into the cell: no other thread looks at it yet. *)
LEMMA WriteDataStep ==
  ASSUME RingInv, RingTypes', NEW p \in Producers, WriteData(p)
  PROVE  RingInv'
<1> DEFINE k == pos[p]
<1>0. /\ k \in Nat /\ p \in Threads /\ pc[p] = "write" /\ InCell(p) /\ sequence[Cell(k)] = k
      /\ Cell(k) \in 0 .. Capacity - 1 /\ data \in [0 .. Capacity - 1 -> Items \cup {NoItem}]
      /\ pc \in [Threads -> {"idle", "check", "claim", "reload", "write", "publish", "read", "recycle"}]
      /\ pos \in [Threads -> Nat]
  BY CellFacts DEF RingInv, RingTypes, WriteData, ProducerKnows, Threads, InCell
<1>1. /\ data' = [data EXCEPT ![Cell(k)] = Item(p)] /\ pc' = [pc EXCEPT ![p] = "publish"]
      /\ UNCHANGED <<enqueuePos, dequeuePos, sequence, pos, calls, item, claimed, returned, received>>
  BY DEF WriteData
<1>2. DeliveredInOrder'
  BY <1>1 DEF RingInv, DeliveredInOrder
<1>3. ASSUME NEW i \in 0 .. Capacity - 1 PROVE CellRound(i)'
  <2>1. CASE i = Cell(k)
    <3>1. dequeuePos <= k /\ k < dequeuePos + Capacity
      BY <1>0, WaitsForPush
    <3> QED
      BY <1>0, <1>1, <2>1, <3>1 DEF CellRound
  <2>2. CASE i # Cell(k)
    <3>1. CellRound(i) /\ data'[i] = data[i]
      BY <1>0, <1>1, <2>2 DEF RingInv
    <3> QED
      BY <1>1, <3>1 DEF CellRound
  <2> QED
    BY <2>1, <2>2
<1>4. ASSUME NEW q \in Producers PROVE ProducerKnows(q)'
  <2>0. ProducerKnows(q) /\ q \in Threads /\ Item(q)' = Item(q) /\ Cell(pos[q]) \in 0 .. Capacity - 1
    BY <1>0, <1>1, CellFacts DEF RingInv, Threads, Item
  <2>1. \A r \in Producers : pc'[r] \in {"write", "publish"} <=> pc[r] \in {"write", "publish"}
    BY <1>0, <1>1 DEF Threads
  <2>2. pc'[q] = "claim" => pc[q] = "claim"
    BY <1>0, <1>1, <2>0
  <2>3. pc'[q] = "publish" => data'[Cell(pos[q])] = Item(q)
    <3>1. CASE q = p
      BY <1>0, <1>1, <3>1
    <3>2. CASE q # p /\ pc'[q] = "publish"
      <4>1. pc[q] = "publish" /\ InCell(q)
        BY <1>0, <1>1, <2>0, <3>2 DEF InCell
      <4>2. Cell(pos[q]) # Cell(k)
        BY <1>0, <2>0, <3>2, <4>1, OtherCell
      <4> QED
        BY <1>0, <1>1, <2>0, <4>1, <4>2 DEF ProducerKnows
    <3> QED
      BY <3>1, <3>2
  <2> QED
    BY <1>1, <2>0, <2>1, <2>2, <2>3 DEF ProducerKnows
<1>5. ASSUME NEW c \in Consumers PROVE ConsumerKnows(c)'
  <2>1. ConsumerKnows(c) /\ \A d \in Consumers : pc'[d] = pc[d]
    BY <1>0, <1>1, MpmcAssumption DEF RingInv, Threads
  <2> QED
    BY <1>1, <2>1 DEF ConsumerKnows
<1> QED
  BY <1>2, <1>3, <1>4, <1>5 DEF RingInv

(* The release store of push(): the cell now waits for the pop of its position. *)
LEMMA PublishStep ==
  ASSUME RingInv, RingTypes', NEW p \in Producers, Publish(p)
  PROVE  RingInv'
<1> DEFINE k == pos[p]
<1>0. /\ k \in Nat /\ p \in Threads /\ pc[p] = "publish" /\ InCell(p) /\ sequence[Cell(k)] = k
      /\ Cell(k) \in 0 .. Capacity - 1 /\ sequence \in [0 .. Capacity - 1 -> Nat]
      /\ pc \in [Threads -> {"idle", "check", "claim", "reload", "write", "publish", "read", "recycle"}]
      /\ pos \in [Threads -> Nat] /\ enqueuePos \in Nat /\ dequeuePos \in Nat /\ k < enqueuePos
      /\ data[Cell(k)] = claimed[k + 1] /\ enqueuePos <= dequeuePos + Capacity /\ Capacity \in Nat
  <2>1. /\ k \in Nat /\ p \in Threads /\ pc[p] = "publish" /\ InCell(p) /\ sequence[Cell(k)] = k
        /\ k < enqueuePos /\ claimed[k + 1] = Item(p) /\ data[Cell(k)] = Item(p)
    BY DEF RingInv, RingTypes, Publish, ProducerKnows, Threads, InCell
  <2>2. /\ enqueuePos \in Nat /\ dequeuePos \in Nat /\ Capacity \in Nat
        /\ enqueuePos <= dequeuePos + Capacity
    BY RingCounts
  <2> QED
    BY <2>1, <2>2, CellFacts DEF RingInv, RingTypes
<1>1. /\ sequence' = [sequence EXCEPT ![Cell(k)] = k + 1] /\ pc' = [pc EXCEPT ![p] = "idle"]
      /\ UNCHANGED <<enqueuePos, dequeuePos, data, pos, calls, item, claimed, received>>
  BY DEF Publish
<1>2. DeliveredInOrder'
  BY <1>1 DEF RingInv, DeliveredInOrder
<1>3. ASSUME NEW i \in 0 .. Capacity - 1 PROVE CellRound(i)'
  <2>1. CASE i = Cell(k)
    <3>1. dequeuePos <= k
      BY <1>0, WaitsForPush
    <3>2. k + 1 > 0 /\ (k + 1) - 1 = k /\ enqueuePos < k + 1 + Capacity
      BY <1>0, <3>1
    <3>3. sequence'[i] = k + 1
      BY <1>0, <1>1, <2>1
    <3> QED
      BY <1>0, <1>1, <2>1, <3>2, <3>3 DEF CellRound
  <2>2. CASE i # Cell(k)
    <3>1. CellRound(i) /\ sequence'[i] = sequence[i]
      BY <1>0, <1>1, <2>2 DEF RingInv
    <3> QED
      BY <1>1, <3>1 DEF CellRound
  <2> QED
    BY <2>1, <2>2
<1>4. ASSUME NEW t \in Threads \ {p}, InCell(t)
      PROVE  sequence'[Cell(pos[t])] = sequence[Cell(pos[t])]
  <2>1. Cell(pos[t]) # Cell(k) /\ Cell(pos[t]) \in 0 .. Capacity - 1
    BY <1>0, <1>4, OtherCell, CellFacts
  <2> QED
    BY <1>0, <1>1, <2>1
<1>5. ASSUME NEW q \in Producers PROVE ProducerKnows(q)'
  <2>0. /\ ProducerKnows(q) /\ q \in Threads /\ Item(q)' = Item(q)
        /\ Cell(enqueuePos) \in 0 .. Capacity - 1
    BY <1>0, <1>1, CellFacts DEF RingInv, Threads, Item
  <2>1. CASE q = p
    BY <1>0, <1>1, <2>0, <2>1 DEF ProducerKnows
  <2>2. CASE q # p
    <3>1. pc'[q] = pc[q] /\ \A r \in Producers : pc'[r] \in {"write", "publish"} => pc[r] \in {"write", "publish"}
      BY <1>0, <1>1, <2>0, <2>2 DEF Threads
    <3>2. pc[q] = "claim" /\ pos[q] = enqueuePos => sequence'[Cell(pos[q])] = pos[q]
      <4> SUFFICES ASSUME pc[q] = "claim", pos[q] = enqueuePos PROVE sequence'[Cell(enqueuePos)] = enqueuePos
        OBVIOUS
      <4>1. sequence[Cell(enqueuePos)] = enqueuePos
        BY <2>0 DEF ProducerKnows
      <4>2. Cell(enqueuePos) # Cell(k)
        BY <1>0, <4>1
      <4> QED
        BY <1>0, <1>1, <2>0, <4>1, <4>2
    <3>3. pc[q] \in {"write", "publish"} => sequence'[Cell(pos[q])] = pos[q]
      BY <1>4, <2>0, <2>2 DEF ProducerKnows, InCell
    <3> QED
      BY <1>1, <2>0, <3>1, <3>2, <3>3 DEF ProducerKnows
  <2> QED
    BY <2>1, <2>2
<1>6. ASSUME NEW c \in Consumers PROVE ConsumerKnows(c)'
  <2>0. /\ ConsumerKnows(c) /\ c \in Threads \ {p} /\ \A d \in Consumers : pc'[d] = pc[d]
        /\ Cell(dequeuePos) \in 0 .. Capacity - 1 /\ Cell(dequeuePos + 1) # Cell(dequeuePos)
    BY <1>0, <1>1, CellFacts, MpmcAssumption DEF RingInv, Threads
  <2>1. pc[c] = "claim" /\ pos[c] = dequeuePos => sequence'[Cell(pos[c])] = pos[c] + 1
    <3> SUFFICES ASSUME pc[c] = "claim", pos[c] = dequeuePos
                 PROVE  sequence'[Cell(dequeuePos)] = dequeuePos + 1
      OBVIOUS
    <3>1. sequence[Cell(dequeuePos)] = dequeuePos + 1
      BY <2>0 DEF ConsumerKnows
    <3>2. Cell(dequeuePos) # Cell(k)
      BY <1>0, <2>0, <3>1
    <3> QED
      BY <1>0, <1>1, <2>0, <3>1, <3>2
  <2>2. pc[c] \in {"read", "recycle"} => sequence'[Cell(pos[c])] = pos[c] + 1
    BY <1>4, <2>0 DEF ConsumerKnows, InCell
  <2> QED
    BY <1>1, <2>0, <2>1, <2>2 DEF ConsumerKnows
<1> QED
  BY <1>2, <1>3, <1>5, <1>6 DEF RingInv

(* The CAS of pop(): the cell holds the item of the position, which becomes the consumer's. *)
LEMMA ClaimPopStep ==
  ASSUME RingInv, RingTypes', NEW c \in Consumers, ClaimPop(c)
  PROVE  RingInv'
<1> DEFINE k == dequeuePos
<1>0. /\ k \in Nat /\ enqueuePos \in Nat /\ Capacity \in Nat \ {0, 1}
      /\ pos \in [Threads -> Nat] /\ pc[c] = "claim" /\ pos[c] = k /\ c \in Threads
      /\ pc \in [Threads -> {"idle", "check", "claim", "reload", "write", "publish", "read", "recycle"}]
      /\ sequence \in [0 .. Capacity - 1 -> Nat] /\ sequence[Cell(k)] = k + 1
      /\ Len(received) = k /\ received \in Seq(Items \cup {NoItem})
  BY MpmcAssumption DEF RingInv, RingTypes, ClaimPop, ConsumerKnows, DeliveredInOrder, Threads
<1>1. k < enqueuePos
  BY <1>0, WaitsForPop
<1>2. /\ dequeuePos' = k + 1 /\ pc' = [pc EXCEPT ![c] = "read"] /\ received' = Append(received, NoItem)
      /\ UNCHANGED <<enqueuePos, sequence, data, pos, calls, item, claimed, returned>>
  BY DEF ClaimPop
<1>3. DeliveredInOrder'
  <2>1. /\ Len(received') = k + 1 /\ DOMAIN received' = 1 .. k + 1 /\ received'[k + 1] = NoItem
        /\ \A n \in 1 .. k : received'[n] = received[n]
    <3> DEFINE T == Items \cup {NoItem}
    <3>1. NoItem \in T /\ received \in Seq(T)
      BY <1>0
    <3> HIDE DEF T
    <3>2. /\ received' \in Seq(T) /\ Len(received') = Len(received) + 1
          /\ \A n \in 1 .. Len(received) : received'[n] = received[n]
          /\ received'[Len(received) + 1] = NoItem
      BY <1>2, <3>1, AppendProperties
    <3>3. DOMAIN received' = 1 .. Len(received')
      BY <3>2
    <3> QED
      BY <1>0, <3>2, <3>3
  <2>2. \A n \in 1 .. k : received[n] \in {NoItem, claimed[n]}
    BY <1>0 DEF RingInv, DeliveredInOrder
  <2>3. \A n \in 1 .. k + 1 : n \in 1 .. k \/ n = k + 1
    BY <1>0
  <2>4. \A n \in DOMAIN received' : received'[n] \in {NoItem, claimed[n]}
    BY <2>1, <2>2, <2>3
  <2>5. Len(claimed) = enqueuePos /\ enqueuePos - (k + 1) \in 0 .. Capacity
    BY <1>0, <1>1 DEF RingInv, DeliveredInOrder
  <2> QED
    BY <1>2, <2>1, <2>4, <2>5 DEF DeliveredInOrder
<1>4. ASSUME NEW i \in 0 .. Capacity - 1 PROVE CellRound(i)'
  <2>1. CellRound(i) /\ sequence[i] \in Nat
    BY <1>0 DEF RingInv
  <2>2. CASE Cell(sequence[i]) = i /\ k <= sequence[i] /\ sequence[i] < k + Capacity
    <3>1. sequence[i] # k
      BY <1>0, <2>2
    <3>2. k + 1 <= sequence[i] /\ sequence[i] < (k + 1) + Capacity
      BY <1>0, <2>1, <2>2, <3>1
    <3> QED
      BY <1>2, <2>2, <3>2 DEF CellRound
  <2>3. CASE ~(Cell(sequence[i]) = i /\ k <= sequence[i] /\ sequence[i] < k + Capacity)
    BY <1>2, <2>1, <2>3 DEF CellRound
  <2> QED
    BY <2>2, <2>3
<1>5. ASSUME NEW p \in Producers PROVE ProducerKnows(p)'
  <2>1. ProducerKnows(p) /\ Item(p)' = Item(p) /\ \A q \in Producers : pc'[q] = pc[q]
    BY <1>0, <1>2, MpmcAssumption DEF RingInv, Threads, Item
  <2> QED
    BY <1>2, <2>1 DEF ProducerKnows
<1>6. ASSUME NEW d \in Consumers PROVE ConsumerKnows(d)'
  <2>0. ConsumerKnows(d) /\ pos[d] \in Nat /\ d \in Threads
    BY <1>0 DEF RingInv, Threads
  <2>1. \A e \in Consumers : pc[e] \in {"read", "recycle"} => pos[e] < k
    BY DEF RingInv, ConsumerKnows
  <2>2. \A e \in Consumers \ {c} : pc'[e] = pc[e]
    BY <1>0, <1>2 DEF Threads
  <2>3. CASE d = c
    <3>1. pc'[c] = "read" /\ \A e \in Consumers \ {c} : pc'[e] \in {"read", "recycle"} => pos'[e] # pos'[c]
      BY <1>0, <1>2, <2>1, <2>2
    <3>2. pos'[c] = k /\ k < k + 1 /\ k <= k + 1
      BY <1>0, <1>2
    <3> QED
      BY <1>0, <1>2, <2>3, <3>1, <3>2 DEF ConsumerKnows
  <2>4. CASE d # c
    <3>1. pos[d] <= k /\ pos[d] <= k + 1 /\ pos[d] # k + 1 /\ pc'[d] = pc[d]
      BY <1>0, <2>0, <2>2, <2>4 DEF ConsumerKnows
    <3>2. pc[d] \in {"read", "recycle"} => pos[d] < k + 1 /\ pos[d] # pos[c]
      BY <1>0, <2>0, <2>1
    <3>3. \A e \in Consumers \ {d} : pc[d] \in {"read", "recycle"} /\ pc'[e] \in {"read", "recycle"} =>
             pos[e] # pos[d]
      <4> SUFFICES ASSUME NEW e \in Consumers \ {d}, pc[d] \in {"read", "recycle"},
                          pc'[e] \in {"read", "recycle"}
                   PROVE  pos[e] # pos[d]
        OBVIOUS
      <4>1. CASE e = c
        BY <3>2, <4>1
      <4>2. CASE e # c
        BY <2>0, <2>2, <4>2 DEF ConsumerKnows
      <4> QED
        BY <4>1, <4>2
    <3>4. pc[d] \in {"read", "recycle"} => sequence[Cell(pos[d])] = pos[d] + 1
      BY <2>0 DEF ConsumerKnows
    <3>5. pc[d] = "recycle" => item[d] = claimed[pos[d] + 1]
      BY <2>0 DEF ConsumerKnows
    <3> QED
      BY <1>2, <3>1, <3>2, <3>3, <3>4, <3>5 DEF ConsumerKnows
  <2> QED
    BY <2>3, <2>4
<1> QED
  BY <1>3, <1>4, <1>5, <1>6 DEF RingInv

(* What a consumer copies out is the item that was pushed to its position. *)
LEMMA ReadDataStep ==
  ASSUME RingInv, RingTypes', NEW c \in Consumers, ReadData(c)
  PROVE  RingInv'
<1> DEFINE k == pos[c]
<1>0. /\ k \in Nat /\ c \in Threads /\ pc[c] = "read" /\ sequence[Cell(k)] = k + 1
      /\ pc \in [Threads -> {"idle", "check", "claim", "reload", "write", "publish", "read", "recycle"}]
      /\ item \in [Consumers -> Items \cup {NoItem}]
  BY DEF RingInv, RingTypes, ReadData, ConsumerKnows, Threads
<1>1. /\ item' = [item EXCEPT ![c] = data[Cell(k)]] /\ pc' = [pc EXCEPT ![c] = "recycle"]
      /\ UNCHANGED <<enqueuePos, dequeuePos, sequence, data, pos, calls, claimed, returned, received>>
  BY DEF ReadData
<1>2. DeliveredInOrder' /\ \A i \in 0 .. Capacity - 1 : CellRound(i)'
  BY <1>1 DEF RingInv, DeliveredInOrder, CellRound
<1>3. ASSUME NEW p \in Producers PROVE ProducerKnows(p)'
  <2>1. ProducerKnows(p) /\ Item(p)' = Item(p) /\ \A q \in Producers : pc'[q] = pc[q]
    BY <1>0, <1>1, MpmcAssumption DEF RingInv, Threads, Item
  <2> QED
    BY <1>1, <2>1 DEF ProducerKnows
<1>4. ASSUME NEW d \in Consumers PROVE ConsumerKnows(d)'
  <2>1. /\ ConsumerKnows(d) /\ (pc'[d] = "claim" => pc[d] = "claim")
        /\ \A e \in Consumers : pc'[e] \in {"read", "recycle"} <=> pc[e] \in {"read", "recycle"}
    BY <1>0, <1>1 DEF RingInv, Threads
  <2>2. pc'[d] = "recycle" => item'[d] = claimed[pos[d] + 1]
    <3>1. CASE d = c
      BY <1>0, <1>1, <3>1, WaitsForPop
    <3>2. CASE d # c
      BY <1>0, <1>1, <2>1, <3>2 DEF ConsumerKnows, Threads
    <3> QED
      BY <3>1, <3>2
  <2> QED
    BY <1>1, <2>1, <2>2 DEF ConsumerKnows
<1> QED
  BY <1>2, <1>3, <1>4 DEF RingInv

(* The release store of pop(): the cell waits for the push of the next round. *)
LEMMA RecycleStep ==
  ASSUME RingInv, RingTypes', NEW c \in Consumers, Recycle(c)
  PROVE  RingInv'
<1> DEFINE k == pos[c]
<1>0. /\ k \in Nat /\ c \in Threads /\ pc[c] = "recycle" /\ InCell(c) /\ sequence[Cell(k)] = k + 1
      /\ Cell(k) \in 0 .. Capacity - 1 /\ sequence \in [0 .. Capacity - 1 -> Nat]
      /\ pc \in [Threads -> {"idle", "check", "claim", "reload", "write", "publish", "read", "recycle"}]
      /\ pos \in [Threads -> Nat] /\ enqueuePos \in Nat /\ dequeuePos \in Nat /\ k < dequeuePos
      /\ item[c] = claimed[k + 1] /\ dequeuePos <= enqueuePos /\ Capacity \in Nat
      /\ enqueuePos < k + 1 + Capacity
  <2>1. /\ k \in Nat /\ c \in Threads /\ pc[c] = "recycle" /\ InCell(c) /\ sequence[Cell(k)] = k + 1
        /\ k < dequeuePos /\ item[c] = claimed[k + 1]
    BY DEF RingInv, RingTypes, Recycle, ConsumerKnows, Threads, InCell
  <2>2. enqueuePos \in Nat /\ dequeuePos \in Nat /\ Capacity \in Nat /\ dequeuePos <= enqueuePos
    BY RingCounts
  <2> QED
    BY <2>1, <2>2, CellFacts, WaitsForPop DEF RingInv, RingTypes
<1>1. /\ sequence' = [sequence EXCEPT ![Cell(k)] = k + Capacity] /\ pc' = [pc EXCEPT ![c] = "idle"]
      /\ received' = [received EXCEPT ![k + 1] = item[c]]
      /\ UNCHANGED <<enqueuePos, dequeuePos, data, pos, calls, item, claimed, returned>>
  BY DEF Recycle
<1>2. DeliveredInOrder'
  <2>1. /\ received \in Seq(Items \cup {NoItem}) /\ received' \in Seq(Items \cup {NoItem})
        /\ DeliveredInOrder
    BY DEF RingInv, RingTypes
  <2>2. DOMAIN received' = DOMAIN received /\ Len(received') = Len(received)
    BY <1>1, <2>1
  <2>3. \A n \in DOMAIN received : received'[n] = IF n = k + 1 THEN claimed[n] ELSE received[n]
    BY <1>0, <1>1
  <2> QED
    BY <1>1, <2>1, <2>2, <2>3 DEF DeliveredInOrder
<1>3. ASSUME NEW i \in 0 .. Capacity - 1 PROVE CellRound(i)'
  <2>1. CASE i = Cell(k)
    <3>1. Cell(k + Capacity) = i /\ sequence'[i] = k + Capacity
      BY <1>0, <1>1, <2>1, CellFacts
    <3>2. dequeuePos <= k + Capacity /\ k + Capacity < dequeuePos + Capacity
      BY <1>0
    <3> QED
      BY <1>1, <3>1, <3>2 DEF CellRound
  <2>2. CASE i # Cell(k)
    <3>1. CellRound(i) /\ sequence'[i] = sequence[i]
      BY <1>0, <1>1, <2>2 DEF RingInv
    <3> QED
      BY <1>1, <3>1 DEF CellRound
  <2> QED
    BY <2>1, <2>2
<1>4. ASSUME NEW t \in Threads \ {c}, InCell(t)
      PROVE  sequence'[Cell(pos[t])] = sequence[Cell(pos[t])]
  <2>1. Cell(pos[t]) # Cell(k) /\ Cell(pos[t]) \in 0 .. Capacity - 1
    BY <1>0, <1>4, OtherCell, CellFacts
  <2> QED
    BY <1>0, <1>1, <2>1
<1>5. ASSUME NEW p \in Producers PROVE ProducerKnows(p)'
  <2>0. /\ ProducerKnows(p) /\ p \in Threads \ {c} /\ Item(p)' = Item(p)
        /\ \A q \in Producers : pc'[q] = pc[q]
        /\ Cell(enqueuePos) \in 0 .. Capacity - 1 /\ Cell(k + 1) # Cell(k)
    BY <1>0, <1>1, CellFacts, MpmcAssumption DEF RingInv, Threads, Item
  <2>1. pc[p] = "claim" /\ pos[p] = enqueuePos => sequence'[Cell(pos[p])] = pos[p]
    <3> SUFFICES ASSUME pc[p] = "claim", pos[p] = enqueuePos PROVE sequence'[Cell(enqueuePos)] = enqueuePos
      OBVIOUS
    <3>1. sequence[Cell(enqueuePos)] = enqueuePos
      BY <2>0 DEF ProducerKnows
    <3>2. Cell(enqueuePos) # Cell(k)
      BY <1>0, <2>0, <3>1
    <3> QED
      BY <1>0, <1>1, <2>0, <3>1, <3>2
  <2>2. pc[p] \in {"write", "publish"} => sequence'[Cell(pos[p])] = pos[p]
    BY <1>4, <2>0 DEF ProducerKnows, InCell
  <2> QED
    BY <1>1, <2>0, <2>1, <2>2 DEF ProducerKnows
<1>6. ASSUME NEW d \in Consumers PROVE ConsumerKnows(d)'
  <2>0. ConsumerKnows(d) /\ d \in Threads /\ Cell(dequeuePos) \in 0 .. Capacity - 1
    BY <1>0, CellFacts DEF RingInv, Threads
  <2>1. CASE d = c
    BY <1>0, <1>1, <2>0, <2>1 DEF ConsumerKnows
  <2>2. CASE d # c
    <3>1. pc'[d] = pc[d] /\ \A e \in Consumers : pc'[e] \in {"read", "recycle"} => pc[e] \in {"read", "recycle"}
      BY <1>0, <1>1, <2>0, <2>2 DEF Threads
    <3>2. pc[d] = "claim" /\ pos[d] = dequeuePos => sequence'[Cell(pos[d])] = pos[d] + 1
      <4> SUFFICES ASSUME pc[d] = "claim", pos[d] = dequeuePos
                   PROVE  sequence'[Cell(dequeuePos)] = dequeuePos + 1
        OBVIOUS
      <4>1. sequence[Cell(dequeuePos)] = dequeuePos + 1
        BY <2>0 DEF ConsumerKnows
      <4>2. Cell(dequeuePos) # Cell(k)
        BY <1>0, <4>1
      <4> QED
        BY <1>0, <1>1, <2>0, <4>1, <4>2
    <3>3. pc[d] \in {"read", "recycle"} => sequence'[Cell(pos[d])] = pos[d] + 1
      BY <1>4, <2>0, <2>2 DEF ConsumerKnows, InCell
    <3> QED
      BY <1>1, <2>0, <3>1, <3>2, <3>3 DEF ConsumerKnows
  <2> QED
    BY <2>1, <2>2
<1> QED
  BY <1>2, <1>3, <1>5, <1>6 DEF RingInv

-----------------------------------------------------------------------------
(* Every step of a thread keeps the invariant. *)
LEMMA RingStep == RingInv /\ [Next]_vars => RingInv'
<1> SUFFICES ASSUME RingInv, [Next]_vars PROVE RingInv'
  OBVIOUS
<1>1. CASE UNCHANGED vars
  BY <1>1 DEF vars, RingInv, RingTypes, DeliveredInOrder, CellRound, ProducerKnows, ConsumerKnows, Item
<1>2. CASE Next
  <2>0. RingTypes'
    BY <1>2, TypesStep
  <2>1. /\ pc \in [Threads -> {"idle", "check", "claim", "reload", "write", "publish", "read", "recycle"}]
        /\ pos \in [Threads -> Nat] /\ calls \in [Producers -> 0 .. MaxPushes]
        /\ enqueuePos \in Nat /\ dequeuePos \in Nat
        /\ Producers \subseteq Threads /\ Consumers \subseteq Threads /\ Producers \cap Consumers = {}
        /\ \A p \in Producers : pos[p] <= enqueuePos
        /\ \A c \in Consumers : pos[c] <= dequeuePos
    BY MpmcAssumption DEF RingInv, RingTypes, Threads, ProducerKnows, ConsumerKnows
  <2>2. ASSUME NEW p \in Producers, Push(p) \/ RetryPush(p) PROVE RingInv'
    <3>1. p \in Threads /\ p \notin Consumers /\ pc'[p] = "check" /\ pos'[p] <= enqueuePos
      BY <2>1, <2>2 DEF Push, RetryPush
    <3> QED
      BY <2>0, <2>1, <2>2, <3>1, LookingStep DEF Push, RetryPush
  <2>3. ASSUME NEW p \in Producers, CheckPush(p) PROVE RingInv'
    <3>1. /\ p \in Threads /\ p \notin Consumers /\ pc'[p] \in {"idle", "claim", "reload"}
          /\ pos'[p] <= enqueuePos /\ (pc'[p] = "claim" => sequence[Cell(pos'[p])] = pos'[p])
      BY <2>1, <2>3 DEF CheckPush, Compare
    <3> QED
      BY <2>0, <2>1, <2>3, <3>1, LookingStep DEF CheckPush, Compare
  <2>4. ASSUME NEW c \in Consumers, Pop(c) \/ RetryPop(c) PROVE RingInv'
    <3>1. c \in Threads /\ c \notin Producers /\ pc'[c] = "check" /\ pos'[c] <= dequeuePos
      BY <2>1, <2>4 DEF Pop, RetryPop
    <3> QED
      BY <2>0, <2>1, <2>4, <3>1, LookingStep DEF Pop, RetryPop
  <2>5. ASSUME NEW c \in Consumers, CheckPop(c) PROVE RingInv'
    <3>1. /\ c \in Threads /\ c \notin Producers /\ pc'[c] \in {"idle", "claim", "reload"}
          /\ pos'[c] <= dequeuePos /\ (pc'[c] = "claim" => sequence[Cell(pos'[c])] = pos'[c] + 1)
      BY <2>1, <2>5 DEF CheckPop, Compare
    <3> QED
      BY <2>0, <2>1, <2>5, <3>1, LookingStep DEF CheckPop, Compare
  <2> QED
    BY <1>2, <2>0, <2>2, <2>3, <2>4, <2>5, ClaimPushStep, WriteDataStep, PublishStep, ClaimPopStep,
       ReadDataStep, RecycleStep DEF Next, Producer, Consumer
<1> QED
  BY <1>1, <1>2

(***************************************************************************)
(* However the calls of push() and pop() interleave, no two threads are in *)
(* one cell together, no more than capacity_ items are in the ring, and    *)
(* what leaves from a position is what was pushed there.                   *)
(***************************************************************************)
THEOREM RingSafeHolds == RingSpec => []RingSafe
<1>1. RingInv => RingSafe
  BY RingExclusive DEF RingInv, RingSafe
<1> QED
  BY <1>1, InitRing, RingStep, PTL DEF RingSpec
=============================================================================
