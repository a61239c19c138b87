-------------------------- MODULE SpscQueueProofs --------------------------
(***************************************************************************)
(* Proofs about SpscQueue, for every capacity and every index width: the   *)
(* producer and the consumer never touch the same slot, and the ring       *)
(* buffer implements the bounded FIFO of BoundedFifo.                      *)
(***************************************************************************)
EXTENDS SpscQueue, ModuloLemmas, SequenceTheorems, TLAPS

(* The index space holds at least two capacities. *)
LEMMA IndexModLarge ==
  IndexMod \in Nat /\ IndexMod >= 2 * Capacity /\ Capacity \in Nat \ {0}
<1>1. PICK k \in 2 .. IndexMod : IndexMod = k * Capacity
  BY IndexModAssumption
<1>2. k * Capacity >= 2 * Capacity
  BY CapacityAssumption, IndexModAssumption, SMT
<1> QED
  BY <1>1, <1>2, CapacityAssumption, IndexModAssumption

(* The wrap of the indices is invisible to the slots. *)
LEMMA SlotWraps ==
  ASSUME NEW i \in Int
  PROVE  Slot(i + IndexMod) = Slot(i) /\ Slot(i) \in 0 .. Capacity - 1
<1>1. PICK k \in 2 .. IndexMod : IndexMod = k * Capacity
  BY IndexModAssumption
<1>2. (i + IndexMod) % Capacity = i % Capacity
  <2>1. i + IndexMod = i + k * Capacity /\ i + IndexMod \in Int /\ k \in Int
    BY <1>1, IndexModLarge
  <2> QED
    BY <2>1, SlotPeriodic, CapacityAssumption
<1>3. i % Capacity \in 0 .. Capacity - 1
  BY DivMod, CapacityAssumption
<1> QED
  BY <1>2, <1>3 DEF Slot

(* The producer's index, counted from the consumer's. *)
LEMMA HeadSlot ==
  ASSUME TypeOK
  PROVE  Size \in Nat /\ tail + Size \in Int /\ Slot(tail + Size) = Slot(head)
<1>1. Size \in Nat /\ (tail + Size = head \/ tail + Size = head + IndexMod)
  BY IndexModLarge DEF TypeOK, Index, Size, Minus
<1>2. head \in Int /\ tail + Size \in Int
  BY <1>1, IndexModLarge DEF TypeOK, Index
<1>3. Slot(head + IndexMod) = Slot(head)
  BY <1>2, SlotWraps
<1> QED
  BY <1>1, <1>2, <1>3

-----------------------------------------------------------------------------

LEMMA InitOwnership == Init => TypeOK /\ Ownership
  BY IndexModLarge DEF Init, TypeOK, Ownership, CachesAreStale, Size, Minus, Index, Full

LEMMA TypeStep == TypeOK /\ [Next]_vars => TypeOK'
<1> SUFFICES ASSUME TypeOK, [Next]_vars PROVE TypeOK'
  OBVIOUS
<1> USE IndexModLarge DEF TypeOK, Index, Succ, producerVars, consumerVars
<1>1. ASSUME NEW v \in Items, Push(v) PROVE TypeOK'
  BY <1>1 DEF Push
<1>2. CASE ReloadTail
  BY <1>2 DEF ReloadTail
<1>3. CASE WriteSlot
  BY <1>3 DEF WriteSlot
<1>4. CASE PublishHead
  BY <1>4 DEF PublishHead
<1>5. CASE Pop
  BY <1>5 DEF Pop
<1>6. CASE ReloadHead
  BY <1>6 DEF ReloadHead
<1>7. CASE ReadSlot
  <2>1. tail \in Int
    OBVIOUS
  <2>2. Slot(tail) \in 0 .. Capacity - 1
    BY <2>1, SlotWraps
  <2> QED
    BY <1>7, <2>2 DEF ReadSlot
<1>8. CASE PublishTail
  BY <1>8 DEF PublishTail
<1>9. CASE ConsumerEmpty
  BY <1>9 DEF ConsumerEmpty
<1>10. CASE UNCHANGED vars
  BY <1>10 DEF vars
<1> QED
  BY <1>1, <1>2, <1>3, <1>4, <1>5, <1>6, <1>7, <1>8, <1>9, <1>10
     DEF Next, Producer, Consumer

-----------------------------------------------------------------------------

(***************************************************************************)
(* What a step does to the distances between the indices.  Each action     *)
(* that moves an index or a cached copy has a lemma of its own.            *)
(***************************************************************************)
LEMMA CachesStep ==
  TypeOK /\ Ownership /\ [Next]_vars =>
    /\ CachesAreStale'
    /\ ppc' \in {"write", "publish"} => ~Full'
    /\ cpc' \in {"read", "publish"} => tail' # cachedHead'
<1> SUFFICES ASSUME TypeOK, Ownership, [Next]_vars
             PROVE  /\ CachesAreStale'
                    /\ ppc' \in {"write", "publish"} => ~Full'
                    /\ cpc' \in {"read", "publish"} => tail' # cachedHead'
  OBVIOUS
<1> USE IndexModLarge DEF TypeOK, Index, Ownership, CachesAreStale, Size, Minus, Full,
        producerVars, consumerVars
<1>1. ASSUME NEW v \in Items, Push(v)
      PROVE  /\ CachesAreStale'
             /\ ppc' \in {"write", "publish"} => ~Full'
             /\ cpc' \in {"read", "publish"} => tail' # cachedHead'
  BY <1>1 DEF Push
<1>2. CASE ReloadTail
  BY <1>2 DEF ReloadTail
<1>3. CASE WriteSlot
  BY <1>3 DEF WriteSlot
<1>4. CASE PublishHead
  BY <1>4 DEF PublishHead, Succ
<1>5. CASE Pop
  BY <1>5 DEF Pop
<1>6. CASE ReloadHead
  BY <1>6 DEF ReloadHead
<1>7. CASE ReadSlot
  BY <1>7 DEF ReadSlot
<1>8. CASE PublishTail
  BY <1>8 DEF PublishTail, Succ
<1>9. CASE ConsumerEmpty
  BY <1>9 DEF ConsumerEmpty
<1>10. CASE UNCHANGED vars
  BY <1>10 DEF vars
<1> QED
  BY <1>1, <1>2, <1>3, <1>4, <1>5, <1>6, <1>7, <1>8, <1>9, <1>10
     DEF Next, Producer, Consumer

(* A slot the queue holds is never the one at head_ while a push owns it. *)
LEMMA HeldSlotsDiffer ==
  ASSUME TypeOK, Ownership, ppc \in {"write", "publish"},
         NEW d \in Nat, d < Size
  PROVE  Slot(tail + d) # Slot(head)
<1>1. Size < Capacity /\ tail \in Int /\ Size \in Nat
  BY IndexModLarge DEF TypeOK, Index, Ownership, CachesAreStale, Size, Minus, Full
<1>2. /\ tail + Size \in Int
      /\ tail + d \in Int
      /\ tail + Size > tail + d
      /\ (tail + Size) - (tail + d) < Capacity
  BY <1>1, CapacityAssumption
<1>3. Slot(tail + Size) # Slot(tail + d)
  BY <1>2, SlotsDiffer, CapacityAssumption DEF Slot
<1> QED
  BY <1>3, HeadSlot

LEMMA NoRace == TypeOK /\ Ownership => NoSlotRace
<1> SUFFICES ASSUME TypeOK, Ownership,
                    ppc \in {"write", "publish"}, cpc \in {"read", "publish"}
             PROVE  Slot(head) # Slot(tail)
  BY DEF NoSlotRace
<1>1. 0 < Size /\ tail + 0 = tail
  BY IndexModLarge DEF TypeOK, Index, Ownership, CachesAreStale, Size, Minus, Full
<1>2. Slot(tail + 0) # Slot(head)
  BY <1>1, HeldSlotsDiffer
<1> QED
  BY <1>1, <1>2

LEMMA OwnershipStep == TypeOK /\ Ownership /\ [Next]_vars => Ownership'
<1> SUFFICES ASSUME TypeOK, Ownership, [Next]_vars PROVE Ownership'
  OBVIOUS
<1> DEFINE Held == /\ pushRes' = "pending" <=> ppc' # "idle"
                   /\ popRes' = "pending" <=> cpc' # "idle"
                   /\ ppc' = "publish" => buffer'[Slot(head')] = arg'
                   /\ cpc' = "publish" => item' = buffer'[Slot(tail')]
<1> SUFFICES Held
  BY CachesStep DEF Ownership
<1>0. /\ head \in Int /\ tail \in Int
      /\ Slot(head) \in 0 .. Capacity - 1
  <2>1. head \in Int /\ tail \in Int
    BY DEF TypeOK, Index
  <2> QED
    BY <2>1, SlotWraps
<1> USE DEF TypeOK, Ownership, producerVars, consumerVars
<1>1. ASSUME NEW v \in Items, Push(v) PROVE Held
  BY <1>1 DEF Push
<1>2. CASE ReloadTail
  BY <1>2 DEF ReloadTail
<1>3. CASE WriteSlot
  <2>1. cpc = "publish" => Slot(head) # Slot(tail)
    BY <1>3, NoRace DEF NoSlotRace, WriteSlot
  <2> QED
    BY <1>0, <1>3, <2>1 DEF WriteSlot
<1>4. CASE PublishHead
  BY <1>4 DEF PublishHead
<1>5. CASE Pop
  BY <1>5 DEF Pop
<1>6. CASE ReloadHead
  BY <1>6 DEF ReloadHead
<1>7. CASE ReadSlot
  BY <1>7 DEF ReadSlot
<1>8. CASE PublishTail
  BY <1>8 DEF PublishTail
<1>9. CASE ConsumerEmpty
  BY <1>9 DEF ConsumerEmpty
<1>10. CASE UNCHANGED vars
  BY <1>10 DEF vars
<1> QED
  BY <1>1, <1>2, <1>3, <1>4, <1>5, <1>6, <1>7, <1>8, <1>9, <1>10
     DEF Next, Producer, Consumer

(***************************************************************************)
(* The queue's variables keep their types: an index never leaves size_t.   *)
(***************************************************************************)
THEOREM TypeCorrect == Spec => []TypeOK
<1>1. Init => TypeOK
  BY InitOwnership
<1> QED
  BY <1>1, TypeStep, PTL DEF Spec

(***************************************************************************)
(* A push past its check owns a free slot and a pop past its check a       *)
(* filled one, whatever the other thread does meanwhile.                   *)
(***************************************************************************)
THEOREM OwnershipHolds == Spec => [](TypeOK /\ Ownership)
<1>1. Init => TypeOK /\ Ownership
  BY InitOwnership
<1>2. TypeOK /\ Ownership /\ [Next]_vars => (TypeOK /\ Ownership)'
  BY TypeStep, OwnershipStep
<1> QED
  BY <1>1, <1>2, PTL DEF Spec

(***************************************************************************)
(* push and pop never access the same slot of buffer_ at the same time,    *)
(* for every capacity and every width of the indices.                      *)
(***************************************************************************)
THEOREM NoSlotRaceHolds == Spec => []NoSlotRace
  BY OwnershipHolds, NoRace, PTL

(***************************************************************************)
(* push() and pop() never meet: types, the ownership of the slots and the  *)
(* absence of races together, for every capacity and index width.          *)
(***************************************************************************)
THEOREM QueueSafeHolds == Spec => []QueueSafe
<1>1. TypeOK /\ Ownership => QueueSafe
  BY NoRace DEF QueueSafe
<1> QED
  BY <1>1, OwnershipHolds, PTL

-----------------------------------------------------------------------------

(* The refinement mapping yields a sequence of elements, of length Size. *)
LEMMA ContentsSeq ==
  ASSUME TypeOK
  PROVE  Contents \in Seq(Items) /\ Len(Contents) = Size /\ Size \in Nat
<1>1. Size \in Nat /\ tail \in Int
  BY HeadSlot DEF TypeOK, Index
<1>2. ASSUME NEW k \in 1 .. Size PROVE buffer[Slot(tail + (k - 1))] \in Items
  <2>1. tail + (k - 1) \in Int
    BY <1>1
  <2>2. Slot(tail + (k - 1)) \in 0 .. Capacity - 1
    BY <2>1, SlotWraps
  <2> QED
    BY <2>2 DEF TypeOK
<1> QED
  BY <1>1, <1>2 DEF Contents

(* Storing the element in the slot at head_ does not show yet. *)
LEMMA WriteInvisible ==
  ASSUME TypeOK, Ownership, WriteSlot
  PROVE  Contents' = Contents
<1>1. Size' = Size /\ tail' = tail /\ Size \in Nat /\ tail \in Int
  BY HeadSlot DEF WriteSlot, consumerVars, Size, TypeOK, Index
<1>2. ASSUME NEW k \in 1 .. Size
      PROVE  buffer'[Slot(tail + (k - 1))] = buffer[Slot(tail + (k - 1))]
  <2>1. k - 1 \in Nat /\ k - 1 < Size /\ tail + (k - 1) \in Int
    BY <1>1
  <2>2. Slot(tail + (k - 1)) # Slot(head)
    BY <2>1, HeldSlotsDiffer DEF WriteSlot
  <2>3. Slot(tail + (k - 1)) \in 0 .. Capacity - 1
    BY <2>1, SlotWraps
  <2> QED
    BY <2>2, <2>3 DEF WriteSlot, TypeOK
<1> QED
  BY <1>1, <1>2 DEF Contents

(* The store of head_ appends the element. *)
LEMMA PublishAppends ==
  ASSUME TypeOK, Ownership, PublishHead
  PROVE  Contents' = Append(Contents, arg) /\ Len(Contents) < Capacity
<1>1. /\ Size' = Size + 1 /\ tail' = tail /\ buffer' = buffer
      /\ Size \in Nat /\ tail \in Int /\ Size < Capacity
  BY IndexModLarge DEF PublishHead, consumerVars, Size, TypeOK, Index, Succ, Minus,
                       Ownership, CachesAreStale, Full
<1>2. buffer[Slot(tail + Size)] = arg
  BY HeadSlot DEF Ownership, PublishHead
<1>3. Contents' = [k \in 1 .. Size + 1 |-> buffer[Slot(tail + (k - 1))]]
  BY <1>1 DEF Contents
<1>4. tail + ((Size + 1) - 1) = tail + Size
  BY <1>1
<1>5. Contents \in Seq(Items) /\ Len(Contents) = Size /\ arg \in Items
  BY ContentsSeq DEF TypeOK
<1>6. ASSUME NEW k \in 1 .. Size + 1
      PROVE  buffer[Slot(tail + (k - 1))] = Append(Contents, arg)[k]
  <2>1. CASE k = Size + 1
    BY <2>1, <1>2, <1>4, <1>5, AppendProperties
  <2>2. CASE k # Size + 1
    <3>1. k \in 1 .. Size
      BY <2>2, <1>1
    <3>2. Contents[k] = buffer[Slot(tail + (k - 1))]
      BY <3>1 DEF Contents
    <3> QED
      BY <3>1, <3>2, <1>5, AppendProperties
  <2> QED
    BY <2>1, <2>2
<1>7. Append(Contents, arg) \in Seq(Items) /\ Len(Append(Contents, arg)) = Size + 1
  BY <1>5, AppendProperties
<1>8. Contents' \in Seq(Items) /\ Len(Contents') = Size + 1
  <2>1. \A k \in 1 .. Size + 1 : buffer[Slot(tail + (k - 1))] \in Items
    BY <1>1, <1>6, <1>7, ElementOfSeq
  <2> QED
    BY <1>1, <1>3, <2>1
<1>9. \A k \in 1 .. Len(Contents') : Contents'[k] = Append(Contents, arg)[k]
  BY <1>3, <1>6, <1>8
<1> QED
  BY <1>1, <1>5, <1>7, <1>8, <1>9, SeqEqual

(* The store of tail_ removes the oldest element, the one pop copied. *)
LEMMA PublishRemoves ==
  ASSUME TypeOK, Ownership, PublishTail
  PROVE  Contents # <<>> /\ item = Head(Contents) /\ Contents' = Tail(Contents)
<1>1. /\ Size' = Size - 1 /\ buffer' = buffer
      /\ Size \in Nat /\ Size > 0 /\ tail \in Int
      /\ (tail' = tail + 1 \/ (tail' = 0 /\ tail + 1 = IndexMod))
  BY IndexModLarge DEF PublishTail, producerVars, Size, TypeOK, Index, Succ, Minus,
                       Ownership, CachesAreStale, Full
<1>2. Contents \in Seq(Items) /\ Len(Contents) = Size
  BY ContentsSeq
<1>3. Contents # <<>> /\ Head(Contents) = Contents[1]
  BY <1>1, <1>2
<1>4. tail + (1 - 1) = tail /\ 1 \in 1 .. Size
  BY <1>1
<1>5. Contents[1] = buffer[Slot(tail)]
  BY <1>4 DEF Contents
<1>6. Tail(Contents) \in Seq(Items) /\ Len(Tail(Contents)) = Size - 1
  BY <1>1, <1>2, <1>3, HeadTailProperties
<1>7. ASSUME NEW k \in 1 .. Size - 1
      PROVE  buffer[Slot(tail' + (k - 1))] = Tail(Contents)[k]
  <2>1. k + 1 \in 1 .. Size /\ (k + 1) - 1 = k
    BY <1>1
  <2>2. Tail(Contents)[k] = Contents[k + 1]
    BY <1>2, <1>3, <1>6, HeadTailProperties
  <2>3. Contents[k + 1] = buffer[Slot(tail + k)]
    BY <2>1 DEF Contents
  <2>4. CASE tail' = tail + 1
    <3>1. tail' + (k - 1) = tail + k
      BY <2>4, <1>1
    <3> QED
      BY <3>1, <2>2, <2>3
  <2>5. CASE tail' = 0 /\ tail + 1 = IndexMod
    <3>1. tail' + (k - 1) \in Int /\ tail + k = (tail' + (k - 1)) + IndexMod
      BY <2>5, <1>1, IndexModLarge
    <3> QED
      BY <3>1, <2>2, <2>3, SlotWraps
  <2> QED
    BY <1>1, <2>4, <2>5
<1>8. Contents' = [k \in 1 .. Size - 1 |-> buffer[Slot(tail' + (k - 1))]]
  BY <1>1 DEF Contents, Slot
<1>9. Contents' \in Seq(Items) /\ Len(Contents') = Size - 1
  <2>1. \A k \in 1 .. Size - 1 : buffer[Slot(tail' + (k - 1))] \in Items
    BY <1>1, <1>6, <1>7, ElementOfSeq
  <2> QED
    BY <1>1, <1>8, <2>1
<1>10. \A k \in 1 .. Len(Contents') : Contents'[k] = Tail(Contents)[k]
  BY <1>7, <1>8, <1>9
<1>11. Contents' = Tail(Contents)
  BY <1>6, <1>9, <1>10, SeqEqual
<1> QED
  BY <1>3, <1>5, <1>11 DEF Ownership, PublishTail

(* Every step is a step of the FIFO or leaves what it shows unchanged. *)
LEMMA StepImplements ==
  TypeOK /\ Ownership /\ [Next]_vars => [Fifo!Next]_(Fifo!vars)
<1> SUFFICES ASSUME TypeOK, Ownership, [Next]_vars PROVE [Fifo!Next]_(Fifo!vars)
  OBVIOUS
<1>0. Contents \in Seq(Items) /\ Len(Contents) = Size /\ Size \in Nat
  BY ContentsSeq
<1>a. ASSUME UNCHANGED <<head, tail, buffer>> PROVE Contents' = Contents
  BY <1>a DEF Contents, Size
<1> USE DEF producerVars, consumerVars, Fifo!Next, Fifo!vars
<1>1. ASSUME NEW v \in Items, Push(v) PROVE Fifo!Next
  <2>1. Contents' = Contents
    BY <1>1, <1>a DEF Push
  <2> QED
    BY <1>1, <2>1 DEF Push, Fifo!CallPush, Ownership
<1>2. CASE ReloadTail
  <2>1. Contents' = Contents
    BY <1>2, <1>a DEF ReloadTail
  <2>2. CASE Size >= Capacity
    <3>1. Len(Contents) = Capacity
      BY <1>0, <2>2, CapacityAssumption DEF Ownership, CachesAreStale
    <3> QED
      BY <1>2, <2>1, <2>2, <3>1 DEF ReloadTail, Fifo!PushFull, Ownership, Size
  <2>3. CASE ~(Size >= Capacity)
    BY <1>2, <2>1, <2>3 DEF ReloadTail, Size
  <2> QED
    BY <2>2, <2>3
<1>3. CASE WriteSlot
  BY <1>3, WriteInvisible DEF WriteSlot
<1>4. CASE PublishHead
  BY <1>4, PublishAppends DEF PublishHead, Fifo!PushOk, Ownership
<1>5. CASE Pop
  <2>1. Contents' = Contents
    BY <1>5, <1>a DEF Pop
  <2> QED
    BY <1>5, <2>1 DEF Pop, Fifo!CallPop, Ownership
<1>6. CASE ReloadHead
  <2>1. Contents' = Contents
    BY <1>6, <1>a DEF ReloadHead
  <2>2. CASE tail = head
    <3>1. Contents = <<>>
      BY <1>0, <2>2, EmptySeq DEF Size, Minus, TypeOK, Index
    <3> QED
      BY <1>6, <2>1, <2>2, <3>1 DEF ReloadHead, Fifo!PopEmpty, Ownership
  <2>3. CASE tail # head
    BY <1>6, <2>1, <2>3 DEF ReloadHead
  <2> QED
    BY <2>2, <2>3
<1>7. CASE ReadSlot
  BY <1>7, <1>a DEF ReadSlot
<1>8. CASE PublishTail
  BY <1>8, PublishRemoves DEF PublishTail, Fifo!PopOk, Ownership
<1>9. CASE ConsumerEmpty
  BY <1>9, <1>a DEF ConsumerEmpty
<1>10. CASE UNCHANGED vars
  BY <1>10, <1>a DEF vars
<1> QED
  BY <1>1, <1>2, <1>3, <1>4, <1>5, <1>6, <1>7, <1>8, <1>9, <1>10
     DEF Next, Producer, Consumer

(***************************************************************************)
(* SPSCQueue implements the bounded FIFO: for every capacity and index     *)
(* width no element is lost, duplicated or reordered, and push and pop     *)
(* fail only on a full and on an empty queue.                              *)
(***************************************************************************)
THEOREM SpscImplementsFifo == Spec => ImplementsFifo
<1>1. Init => Fifo!Init
  <2> SUFFICES ASSUME Init PROVE Fifo!Init
    OBVIOUS
  <2>1. Size = 0
    BY DEF Init, Size, Minus
  <2>2. Contents = <<>>
    BY <2>1, InitOwnership, ContentsSeq, EmptySeq
  <2> QED
    BY <2>2, InitOwnership DEF Init, Fifo!Init, TypeOK
<1> QED
  BY <1>1, StepImplements, OwnershipHolds, PTL DEF Spec, ImplementsFifo, Fifo!Spec
=============================================================================
