-------------------------- MODULE MemoryPoolProofs --------------------------
(***************************************************************************)
(* Proofs about MemoryPool, for any number of threads and slots and any    *)
(* bound on the generation: allocate() never hands out a slot twice.       *)
(***************************************************************************)
EXTENDS MemoryPool, SequenceTheorems, TLAPS

LEMMA InitInv == Init => PoolInv
<1> SUFFICES ASSUME Init PROVE PoolInv
  OBVIOUS
<1>1. stack \in Seq(Slots) /\ Len(stack) = Capacity
  <2>1. \A i \in 1 .. Capacity : i - 1 \in Slots
    BY CapacityAssumption DEF Slots
  <2> QED
    BY <2>1, CapacityAssumption DEF Init
<1>2. stack # <<>> /\ \A i \in 1 .. Capacity : stack[i] = i - 1
  BY <1>1, CapacityAssumption, EmptySeq DEF Init
<1>3. TypeOK
  BY <1>1, CapacityAssumption, MaxGenAssumption
     DEF Init, TypeOK, Heads, Links, Slots, PCs
<1>4. ExclusiveSlots
  BY <1>1, <1>2, CapacityAssumption DEF Init, ExclusiveSlots, Owns, Free
<1>5. Linked
  <2>1. head.index = stack[1]
    BY <1>2, CapacityAssumption DEF Init
  <2>2. ASSUME NEW i \in 1 .. Len(stack)
        PROVE  next[stack[i]] = IF i = Len(stack) THEN Empty ELSE stack[i + 1]
    <3>1. stack[i] = i - 1 /\ i - 1 \in Slots
      BY <1>1, <1>2, CapacityAssumption DEF Slots
    <3>2. next[i - 1] = i
      BY <3>1, CapacityAssumption DEF Init, Slots
    <3>3. i # Capacity => stack[i + 1] = i
      <4>1. i # Capacity => i + 1 \in 1 .. Capacity /\ (i + 1) - 1 = i
        BY <1>1, CapacityAssumption
      <4> QED
        BY <4>1, <1>2
    <3> QED
      BY <3>1, <3>2, <3>3, <1>1 DEF Empty
  <2> QED
    BY <1>2, <2>1, <2>2 DEF Linked
<1>6. TagsProtect
  BY CapacityAssumption DEF Init, TagsProtect, Empty
<1> QED
  BY <1>3, <1>4, <1>5, <1>6 DEF PoolInv

(* Popping the stack, index by index. *)
LEMMA PopStack ==
  ASSUME stack \in Seq(Slots), stack # <<>>
  PROVE  /\ Tail(stack) \in Seq(Slots)
         /\ Len(stack) \in Nat /\ Len(stack) > 0
         /\ Len(Tail(stack)) = Len(stack) - 1
         /\ \A i \in 1 .. Len(stack) - 1 : Tail(stack)[i] = stack[i + 1]
  BY HeadTailProperties, EmptySeq

(* Pushing onto the stack, index by index. *)
LEMMA PushStack ==
  ASSUME stack \in Seq(Slots), NEW s \in Slots
  PROVE  /\ <<s>> \o stack \in Seq(Slots)
         /\ Len(stack) \in Nat
         /\ Len(<<s>> \o stack) = Len(stack) + 1
         /\ (<<s>> \o stack)[1] = s
         /\ \A i \in 2 .. Len(stack) + 1 : (<<s>> \o stack)[i] = stack[i - 1]
<1>1. <<s>> \in Seq(Slots) /\ Len(<<s>>) = 1 /\ <<s>>[1] = s
  OBVIOUS
<1> QED
  BY <1>1, ConcatProperties

LEMMA TypeStep == PoolInv /\ [Next]_vars => TypeOK'
<1> SUFFICES ASSUME PoolInv, [Next]_vars PROVE TypeOK'
  OBVIOUS
<1> USE CapacityAssumption, MaxGenAssumption
    DEF PoolInv, TypeOK, Heads, Links, PCs, Goto, locals
<1>1. ASSUME NEW t \in Threads, Allocate(t) PROVE TypeOK'
  BY <1>1 DEF Allocate, LoadForAllocate
<1>2. ASSUME NEW t \in Threads, ReturnNull(t) PROVE TypeOK'
  BY <1>2 DEF ReturnNull
<1>3. ASSUME NEW t \in Threads, ReadNext(t) PROVE TypeOK'
  <2>1. old[t].index \in Slots
    BY <1>3 DEF ReadNext, TagsProtect, Slots, Empty
  <2>2. next[old[t].index] \in 0 .. Capacity
    BY <2>1
  <2> QED
    BY <1>3, <2>2 DEF ReadNext
<1>4. ASSUME NEW t \in Threads, PopCas(t) PROVE TypeOK'
  <2>1. stack # <<>> /\ old[t].index \in Slots
    BY <1>4 DEF PopCas, TagsProtect, CasMatches, Linked, Slots, Empty
  <2>2. Tail(stack) \in Seq(Slots)
    BY <2>1, PopStack
  <2>3. head' \in Heads
    BY <1>4 DEF PopCas, Install
  <2> QED
    BY <1>4, <2>1, <2>2, <2>3 DEF PopCas
<1>5. ASSUME NEW t \in Threads, PopCasFails(t) PROVE TypeOK'
  BY <1>5 DEF PopCasFails, LoadForAllocate
<1>6. ASSUME NEW t \in Threads, CountAlloc(t) PROVE TypeOK'
  BY <1>6, SMTT(30) DEF CountAlloc
<1>7. ASSUME NEW t \in Threads, LoadHw(t) PROVE TypeOK'
  <2>1. CASE current[t] > highWater
    <3>1. pc' \in [Threads -> PCs] /\ UNCHANGED held
      BY <1>7, <2>1 DEF LoadHw
    <3>2. hw' \in [Threads -> Int]
      BY <1>7 DEF LoadHw
    <3> QED
      BY <1>7, <3>1, <3>2 DEF LoadHw
  <2>2. CASE ~(current[t] > highWater)
    <3>a. HandOut(t) /\ slot[t] \in Slots
      BY <1>7, <2>2 DEF LoadHw
    <3>1. pc' \in [Threads -> PCs] /\ held' \subseteq Slots
      BY <3>a DEF HandOut
    <3>2. hw' \in [Threads -> Int]
      BY <1>7 DEF LoadHw
    <3> QED
      BY <1>7, <3>1, <3>2 DEF LoadHw
  <2> QED
    BY <2>1, <2>2
<1>8. ASSUME NEW t \in Threads, HwCas(t) PROVE TypeOK'
  BY <1>8 DEF HwCas, HandOut
<1>9. ASSUME NEW t \in Threads, NEW s \in Slots, Deallocate(t, s) PROVE TypeOK'
  BY <1>9 DEF Deallocate
<1>10. ASSUME NEW t \in Threads, Link(t) PROVE TypeOK'
  BY <1>10 DEF Link
<1>11. ASSUME NEW t \in Threads, PushCas(t) PROVE TypeOK'
  <2>1. slot[t] \in Slots
    OBVIOUS
  <2>2. <<slot[t]>> \o stack \in Seq(Slots)
    BY <2>1, PushStack
  <2>3. head' \in Heads
    BY <1>11, <2>1, SMTT(30) DEF PushCas, Install, Slots
  <2> QED
    BY <1>11, <2>1, <2>2, <2>3 DEF PushCas
<1>12. ASSUME NEW t \in Threads, PushCasFails(t) PROVE TypeOK'
  BY <1>12 DEF PushCasFails
<1>13. ASSUME NEW t \in Threads, CountFree(t) PROVE TypeOK'
  BY <1>13, SMTT(30) DEF CountFree
<1>14. CASE UNCHANGED vars
  BY <1>14 DEF vars
<1> QED
  BY <1>1, <1>2, <1>3, <1>4, <1>5, <1>6, <1>7, <1>8, <1>9, <1>10, <1>11, <1>12,
     <1>13, <1>14 DEF Next

-----------------------------------------------------------------------------

(***************************************************************************)
(* Steps that touch neither head_ nor next_ nor the slots: the snapshots   *)
(* of the other threads stay what they were.                               *)
(***************************************************************************)
LEMMA QuietStep ==
  ASSUME PoolInv, UNCHANGED <<head, next, stack>>,
         \A t \in Threads :
            \/ old'[t] = old[t] /\ nextIndex'[t] = nextIndex[t] /\ slot'[t] = slot[t] /\ pc'[t] = pc[t]
            \/ pc'[t] \notin {"readNext", "popCas", "pushCas"} /\ (old'[t] = old[t] \/ old'[t] = head)
            \/ pc'[t] = "readNext" /\ old'[t] = head /\ head.index # Empty
  PROVE  Linked' /\ TagsProtect'
<1>1. Linked'
  BY DEF PoolInv, Linked
<1>2. TagsProtect'
  <2> SUFFICES ASSUME NEW t \in Threads
               PROVE  /\ old'[t].gen <= head'.gen
                      /\ old'[t].gen = head'.gen => old'[t] = head'
                      /\ pc'[t] \in {"readNext", "popCas"} => old'[t].index # Empty
                      /\ pc'[t] = "popCas" /\ old'[t] = head' => nextIndex'[t] = next'[head'.index]
                      /\ pc'[t] = "pushCas" => next'[slot'[t]] = old'[t].index
    BY DEF TagsProtect
  <2>1. head.gen \in Nat /\ head.gen <= head.gen
    BY DEF PoolInv, TypeOK, Heads
  <2> QED
    BY <2>1 DEF PoolInv, TagsProtect
<1> QED
  BY <1>1, <1>2

(* Steps that change neither the free list nor who owns which slot. *)
LEMMA SameOwners ==
  ASSUME PoolInv, UNCHANGED <<stack, held>>,
         \A t \in Threads : Owns(t)' => Owns(t) /\ slot'[t] = slot[t]
  PROVE  ExclusiveSlots'
  BY DEF PoolInv, ExclusiveSlots, Free

(* A slot handed to a caller leaves its thread. *)
LEMMA HandOutStep ==
  ASSUME PoolInv, NEW t \in Threads, Owns(t), HandOut(t), UNCHANGED <<stack, slot>>
  PROVE  ExclusiveSlots'
<1>1. Free' = Free /\ held' = held \cup {slot[t]} /\ slot' = slot
  BY DEF HandOut, Free
<1>2. ~Owns(t)' /\ \A u \in Threads \ {t} : Owns(u)' <=> Owns(u)
  BY DEF HandOut, Goto, Owns, PoolInv, TypeOK
<1> QED
  BY <1>1, <1>2 DEF PoolInv, ExclusiveSlots

(***************************************************************************)
(* The successful pop: the tag certifies that the link read earlier is     *)
(* still the one below the top.                                            *)
(***************************************************************************)
LEMMA PopStep ==
  ASSUME PoolInv, NEW t \in Threads, PopCas(t)
  PROVE  ExclusiveSlots' /\ Linked' /\ TagsProtect'
<1> USE DEF PoolInv
<1>1. TypeOK /\ stack \in Seq(Slots) /\ head.gen \in Nat
  BY MaxGenAssumption DEF TypeOK, Heads
<1>2. stack # <<>> /\ old[t] = head /\ head.index = stack[1] /\ nextIndex[t] = next[stack[1]]
  BY DEF PopCas, CasMatches, TagsProtect, Linked
<1>3. /\ stack' = Tail(stack) /\ Len(stack) \in Nat \ {0} /\ Len(stack') = Len(stack) - 1
      /\ \A i \in 1 .. Len(stack) - 1 : stack'[i] = stack[i + 1]
  BY <1>1, <1>2, PopStack DEF PopCas
<1>4. head' = [index |-> nextIndex[t], gen |-> head.gen + 1] /\ next' = next /\ held' = held
  BY DEF PopCas, Install
<1>5. slot'[t] = stack[1] /\ \A u \in Threads \ {t} : slot'[u] = slot[u] /\ pc'[u] = pc[u]
  BY <1>1, <1>2 DEF PopCas, Goto, TypeOK
<1>6. Linked'
  <2>1. stack' = <<>> <=> Len(stack) = 1
    <3>1. stack' \in Seq(Slots)
      BY <1>1, <1>2, <1>3, PopStack
    <3>2. stack' = <<>> <=> Len(stack') = 0
      BY <3>1, EmptySeq
    <3> QED
      BY <1>3, <3>2
  <2>2. next[stack[1]] = IF Len(stack) = 1 THEN Empty ELSE stack[2]
    <3>1. 1 \in 1 .. Len(stack) /\ 1 + 1 = 2
      BY <1>3
    <3>2. next[stack[1]] = IF 1 = Len(stack) THEN Empty ELSE stack[1 + 1]
      BY <3>1 DEF Linked
    <3> QED
      BY <3>1, <3>2
  <2>3. head'.index = IF stack' = <<>> THEN Empty ELSE stack'[1]
    BY <1>2, <1>3, <1>4, <2>1, <2>2
  <2>4. \A i \in 1 .. Len(stack') : next'[stack'[i]] = IF i = Len(stack') THEN Empty ELSE stack'[i + 1]
    <3> SUFFICES ASSUME NEW i \in 1 .. Len(stack')
                 PROVE  next'[stack'[i]] = IF i = Len(stack') THEN Empty ELSE stack'[i + 1]
      OBVIOUS
    <3>1. i \in 1 .. Len(stack) - 1 /\ i + 1 \in 1 .. Len(stack)
      BY <1>3
    <3>2. next[stack[i + 1]] = IF i + 1 = Len(stack) THEN Empty ELSE stack[(i + 1) + 1]
      BY <3>1 DEF Linked
    <3>a. \A j \in 1 .. Len(stack) - 1 : stack'[j] = stack[j + 1]
      BY <1>3
    <3>b. Len(stack) \in Nat /\ Len(stack') = Len(stack) - 1 /\ i \in Nat
      BY <1>3
    <3>3. stack'[i] = stack[i + 1]
      BY <3>a, <3>1
    <3>4. CASE i + 1 = Len(stack)
      <4>1. i = Len(stack')
        BY <3>b, <3>4
      <4> QED
        BY <1>4, <3>2, <3>3, <3>4, <4>1
    <3>5. CASE i + 1 # Len(stack)
      <4>1. i # Len(stack') /\ i + 1 \in 1 .. Len(stack) - 1
        BY <3>b, <3>1, <3>5
      <4>2. stack'[i + 1] = stack[(i + 1) + 1]
        BY <3>a, <4>1
      <4> QED
        BY <1>4, <3>2, <3>3, <3>5, <4>1, <4>2
    <3> QED
      BY <3>4, <3>5
  <2> QED
    BY <2>3, <2>4 DEF Linked
<1>7. TagsProtect'
  <2>1. old' = old /\ pc'[t] = "countAlloc"
    BY <1>1 DEF PopCas, Goto, TypeOK
  <2>2. \A u \in Threads : old[u].gen \in Int /\ old[u].gen <= head.gen
    BY MaxGenAssumption DEF TypeOK, Heads, TagsProtect
  <2>3. \A u \in Threads : old[u].gen <= head'.gen /\ old[u].gen # head'.gen
    BY <1>1, <1>4, <2>2
  <2>4. \A u \in Threads : old[u] # head'
    BY <2>3
  <2> QED
    BY <1>4, <1>5, <2>1, <2>3, <2>4 DEF TagsProtect
<1>8. ExclusiveSlots'
  <2>1. \A x : x \in Free' <=> x \in Free /\ x # stack[1]
    <3>1. ASSUME NEW x \in Free' PROVE x \in Free /\ x # stack[1]
      <4>1. PICK i \in 1 .. Len(stack) - 1 : x = stack[i + 1]
        BY <1>3, <3>1 DEF Free
      <4>2. i + 1 \in 1 .. Len(stack) /\ 1 \in 1 .. Len(stack) /\ i + 1 # 1
        BY <1>3
      <4> QED
        BY <4>1, <4>2 DEF Free, ExclusiveSlots
    <3>2. ASSUME NEW x \in Free, x # stack[1] PROVE x \in Free'
      <4>1. PICK i \in 1 .. Len(stack) : x = stack[i]
        BY DEF Free
      <4>2. i - 1 \in 1 .. Len(stack) - 1 /\ (i - 1) + 1 = i
        BY <1>3, <3>2, <4>1
      <4>3. x = stack'[i - 1] /\ i - 1 \in 1 .. Len(stack')
        BY <1>3, <4>1, <4>2
      <4> QED
        BY <4>3 DEF Free
    <3> QED
      BY <3>1, <3>2
  <2>2. stack[1] \in Free
    BY <1>3 DEF Free
  <2>3. \A u \in Threads \ {t} : (Owns(u)' <=> Owns(u)) /\ (Owns(u) => slot[u] # stack[1])
    BY <1>5, <2>2 DEF Owns, ExclusiveSlots
  <2>4. \A i, j \in 1 .. Len(stack') : stack'[i] = stack'[j] => i = j
    BY <1>3 DEF ExclusiveSlots
  <2>5. \A u \in Threads : Owns(u)' => slot'[u] \notin held' \cup Free'
    BY <1>4, <1>5, <2>1, <2>2, <2>3 DEF ExclusiveSlots
  <2>6. \A u, v \in Threads : u # v /\ Owns(u)' /\ Owns(v)' => slot'[u] # slot'[v]
    BY <1>5, <2>3 DEF ExclusiveSlots
  <2>7. held' \cap Free' = {}
    BY <1>4, <2>1 DEF ExclusiveSlots
  <2> QED
    BY <2>4, <2>5, <2>6, <2>7 DEF ExclusiveSlots
<1> QED
  BY <1>6, <1>7, <1>8

(* The successful push: the slot links to the head it replaces. *)
LEMMA PushStep ==
  ASSUME PoolInv, NEW t \in Threads, PushCas(t)
  PROVE  ExclusiveSlots' /\ Linked' /\ TagsProtect'
<1> USE DEF PoolInv
<1>1. TypeOK /\ stack \in Seq(Slots) /\ head.gen \in Nat /\ slot[t] \in Slots /\ Len(stack) \in Nat
  BY MaxGenAssumption DEF TypeOK, Heads
<1>2. Owns(t) /\ ~Owns(t)' /\ next[slot[t]] = head.index
  BY DEF PushCas, CasMatches, TagsProtect, Owns, Goto, TypeOK
<1>3. /\ Len(stack') = Len(stack) + 1 /\ stack'[1] = slot[t]
      /\ \A i \in 2 .. Len(stack) + 1 : stack'[i] = stack[i - 1]
  BY <1>1, PushStack DEF PushCas
<1>4. head' = [index |-> slot[t], gen |-> head.gen + 1] /\ next' = next /\ held' = held /\ slot' = slot
  BY DEF PushCas, Install, locals
<1>5. \A u \in Threads \ {t} : pc'[u] = pc[u]
  BY DEF PushCas, Goto, TypeOK
<1>6. Linked'
  <2>1. stack' # <<>>
    BY <1>1, <1>3
  <2>2. ASSUME NEW i \in 1 .. Len(stack')
        PROVE  next'[stack'[i]] = IF i = Len(stack') THEN Empty ELSE stack'[i + 1]
    <3>1. CASE i = 1
      <4>1. CASE stack = <<>>
        BY <1>2, <1>3, <1>4, <3>1, <4>1 DEF Linked
      <4>2. CASE stack # <<>>
        <5>1. Len(stack) > 0 /\ i # Len(stack') /\ stack'[i + 1] = stack[1]
          BY <1>1, <1>3, <3>1, <4>2
        <5> QED
          BY <1>2, <1>3, <1>4, <3>1, <4>2, <5>1 DEF Linked
      <4> QED
        BY <4>1, <4>2
    <3>2. CASE i # 1
      <4>1. i - 1 \in 1 .. Len(stack) /\ stack'[i] = stack[i - 1]
        BY <1>1, <1>3, <3>2
      <4>2. next[stack[i - 1]] = IF i - 1 = Len(stack) THEN Empty ELSE stack[(i - 1) + 1]
        BY <4>1 DEF Linked
      <4>3. i # Len(stack') => stack'[i + 1] = stack[i]
        BY <1>1, <1>3, <3>2
      <4> QED
        BY <1>1, <1>3, <1>4, <4>1, <4>2, <4>3
    <3> QED
      BY <3>1, <3>2
  <2> QED
    BY <1>3, <1>4, <2>1, <2>2 DEF Linked
<1>7. TagsProtect'
  <2>1. old' = old /\ nextIndex' = nextIndex /\ pc'[t] = "countFree"
    BY <1>1 DEF PushCas, Goto, TypeOK, locals
  <2>2. \A u \in Threads : old[u].gen \in Int /\ old[u].gen <= head.gen
    BY MaxGenAssumption DEF TypeOK, Heads, TagsProtect
  <2>3. \A u \in Threads : old[u].gen <= head'.gen /\ old[u].gen # head'.gen
    BY <1>1, <1>4, <2>2
  <2>4. \A u \in Threads : old[u] # head'
    BY <2>3
  <2> QED
    BY <1>4, <1>5, <2>1, <2>3, <2>4 DEF TagsProtect
<1>8. ExclusiveSlots'
  <2>1. \A x : x \in Free' <=> x \in Free \/ x = slot[t]
    <3>1. ASSUME NEW x \in Free' PROVE x \in Free \/ x = slot[t]
      <4>1. PICK i \in 1 .. Len(stack') : x = stack'[i]
        BY <3>1 DEF Free
      <4>2. i = 1 \/ (i - 1 \in 1 .. Len(stack) /\ x = stack[i - 1])
        BY <1>1, <1>3, <4>1
      <4> QED
        BY <1>3, <4>1, <4>2 DEF Free
    <3>2. ASSUME NEW x \in Free PROVE x \in Free'
      <4>1. PICK i \in 1 .. Len(stack) : x = stack[i]
        BY DEF Free
      <4>2. x = stack'[i + 1] /\ i + 1 \in 1 .. Len(stack')
        BY <1>1, <1>3, <4>1
      <4> QED
        BY <4>2 DEF Free
    <3>3. slot[t] \in Free'
      BY <1>1, <1>3 DEF Free
    <3> QED
      BY <3>1, <3>2, <3>3
  <2>2. slot[t] \notin Free /\ slot[t] \notin held
    BY <1>2 DEF ExclusiveSlots
  <2>3. \A u \in Threads \ {t} : (Owns(u)' <=> Owns(u)) /\ (Owns(u) => slot[u] # slot[t])
    BY <1>2, <1>5 DEF Owns, ExclusiveSlots
  <2>4. \A i, j \in 1 .. Len(stack') : stack'[i] = stack'[j] => i = j
    <3>1. \A i \in 2 .. Len(stack) + 1 : i - 1 \in 1 .. Len(stack) /\ stack'[i] \in Free
      BY <1>1, <1>3 DEF Free
    <3>2. \A i \in 1 .. Len(stack') : i = 1 \/ i \in 2 .. Len(stack) + 1
      BY <1>1, <1>3
    <3>3. \A i, j \in 2 .. Len(stack) + 1 : stack'[i] = stack'[j] => i = j
      BY <1>1, <1>3, <3>1 DEF ExclusiveSlots
    <3> QED
      BY <1>3, <2>2, <3>1, <3>2, <3>3
  <2>5. \A u \in Threads : Owns(u)' => slot'[u] \notin held' \cup Free'
    BY <1>2, <1>4, <2>1, <2>3 DEF ExclusiveSlots
  <2>6. \A u, v \in Threads : u # v /\ Owns(u)' /\ Owns(v)' => slot'[u] # slot'[v]
    BY <1>2, <1>4, <2>3 DEF ExclusiveSlots
  <2>7. held' \cap Free' = {}
    BY <1>4, <2>1, <2>2 DEF ExclusiveSlots
  <2> QED
    BY <2>4, <2>5, <2>6, <2>7 DEF ExclusiveSlots
<1> QED
  BY <1>6, <1>7, <1>8

LEMMA InvStep ==
  PoolInv /\ [Next]_vars => ExclusiveSlots' /\ Linked' /\ TagsProtect'
<1> SUFFICES ASSUME PoolInv, [Next]_vars
             PROVE  ExclusiveSlots' /\ Linked' /\ TagsProtect'
  OBVIOUS
<1> DEFINE Goal == ExclusiveSlots' /\ Linked' /\ TagsProtect'
<1>0. TypeOK /\ pc \in [Threads -> PCs] /\ old \in [Threads -> Heads]
      /\ slot \in [Threads -> Slots] /\ nextIndex \in [Threads -> Links]
  BY DEF PoolInv, TypeOK
<1> USE <1>0 DEF Goto, locals
<1>1. ASSUME NEW t \in Threads, Allocate(t) PROVE Goal
  <2>1. ExclusiveSlots'
    BY <1>1, SameOwners DEF Allocate, LoadForAllocate, Owns
  <2>2. Linked' /\ TagsProtect'
    BY <1>1, QuietStep DEF Allocate, LoadForAllocate
  <2> QED
    BY <2>1, <2>2
<1>2. ASSUME NEW t \in Threads, ReturnNull(t) PROVE Goal
  <2>1. ExclusiveSlots'
    BY <1>2, SameOwners DEF ReturnNull, Owns
  <2>2. Linked' /\ TagsProtect'
    BY <1>2, QuietStep DEF ReturnNull
  <2> QED
    BY <2>1, <2>2
<1>5. ASSUME NEW t \in Threads, PopCasFails(t) PROVE Goal
  <2>1. ExclusiveSlots'
    BY <1>5, SameOwners DEF PopCasFails, LoadForAllocate, Owns
  <2>2. Linked' /\ TagsProtect'
    BY <1>5, QuietStep DEF PopCasFails, LoadForAllocate
  <2> QED
    BY <2>1, <2>2
<1>6. ASSUME NEW t \in Threads, CountAlloc(t) PROVE Goal
  <2>1. ExclusiveSlots'
    BY <1>6, SameOwners DEF CountAlloc, Owns
  <2>2. Linked' /\ TagsProtect'
    BY <1>6, QuietStep DEF CountAlloc
  <2> QED
    BY <2>1, <2>2
<1>7. ASSUME NEW t \in Threads, LoadHw(t) PROVE Goal
  <2>1. ExclusiveSlots'
    <3>1. CASE current[t] > highWater
      BY <1>7, <3>1, SameOwners DEF LoadHw, Owns
    <3>2. CASE ~(current[t] > highWater)
      <4>1. Owns(t)
        BY <1>7 DEF LoadHw, Owns
      <4> QED
        BY <1>7, <3>2, <4>1, HandOutStep DEF LoadHw
    <3> QED
      BY <3>1, <3>2
  <2>2. Linked' /\ TagsProtect'
    BY <1>7, QuietStep DEF LoadHw, HandOut
  <2> QED
    BY <2>1, <2>2
<1>8. ASSUME NEW t \in Threads, HwCas(t) PROVE Goal
  <2>1. ExclusiveSlots'
    <3>1. Owns(t)
      BY <1>8 DEF HwCas, Owns
    <3> QED
      BY <1>8, <3>1, HandOutStep DEF HwCas
  <2>2. Linked' /\ TagsProtect'
    BY <1>8, QuietStep DEF HwCas, HandOut
  <2> QED
    BY <2>1, <2>2
<1>9. ASSUME NEW t \in Threads, NEW s \in Slots, Deallocate(t, s) PROVE Goal
  <2>1. ExclusiveSlots'
    <3>1. Free' = Free
      BY <1>9 DEF Deallocate, Free
    <3>2. s \in held /\ s \notin Free /\ held' = held \ {s} /\ slot'[t] = s
      BY <1>9 DEF Deallocate, PoolInv, ExclusiveSlots
    <3>3. \A u \in Threads \ {t} : slot'[u] = slot[u] /\ (Owns(u)' <=> Owns(u))
      BY <1>9 DEF Deallocate, Owns
    <3>4. \A u \in Threads \ {t} : Owns(u) => slot[u] # s
      BY <3>2 DEF PoolInv, ExclusiveSlots
    <3> QED
      BY <1>9, <3>1, <3>2, <3>3, <3>4 DEF Deallocate, PoolInv, ExclusiveSlots
  <2>2. Linked' /\ TagsProtect'
    BY <1>9, QuietStep DEF Deallocate
  <2> QED
    BY <2>1, <2>2
<1>12. ASSUME NEW t \in Threads, PushCasFails(t) PROVE Goal
  <2>1. ExclusiveSlots'
    BY <1>12, SameOwners DEF PushCasFails, Owns
  <2>2. Linked' /\ TagsProtect'
    BY <1>12, QuietStep DEF PushCasFails
  <2> QED
    BY <2>1, <2>2
<1>13. ASSUME NEW t \in Threads, CountFree(t) PROVE Goal
  <2>1. ExclusiveSlots'
    BY <1>13, SameOwners DEF CountFree, Owns
  <2>2. Linked' /\ TagsProtect'
    BY <1>13, QuietStep DEF CountFree
  <2> QED
    BY <2>1, <2>2
<1>14. ASSUME UNCHANGED vars PROVE Goal
  <2>1. ExclusiveSlots'
    BY <1>14, SameOwners DEF vars, Owns
  <2>2. Linked' /\ TagsProtect'
    BY <1>14, QuietStep DEF vars
  <2> QED
    BY <2>1, <2>2
<1>3. ASSUME NEW t \in Threads, ReadNext(t) PROVE Goal
  <2>1. ExclusiveSlots'
    BY <1>3, SameOwners DEF ReadNext, Owns
  <2>2. Linked'
    BY <1>3 DEF ReadNext, PoolInv, Linked
  <2>3. TagsProtect'
    BY <1>3 DEF ReadNext, PoolInv, TagsProtect
  <2> QED
    BY <2>1, <2>2, <2>3
<1>4. ASSUME NEW t \in Threads, PopCas(t) PROVE Goal
  BY <1>4, PopStep
<1>10. ASSUME NEW t \in Threads, Link(t) PROVE Goal
  <2>1. ExclusiveSlots'
    BY <1>10, SameOwners DEF Link, Owns
  <2>2. slot[t] \notin Free /\ \A u \in Threads \ {t} : pc[u] = "pushCas" => slot[u] # slot[t]
    BY <1>10 DEF Link, Owns, PoolInv, ExclusiveSlots
  <2>3. \A j \in Slots \ {slot[t]} : next'[j] = next[j]
    BY <1>10 DEF Link, TypeOK
  <2>4. next'[slot[t]] = old[t].index
    BY <1>10 DEF Link, TypeOK
  <2>5. Linked'
    <3>1. \A i \in 1 .. Len(stack) : stack[i] \in Slots \ {slot[t]}
      BY <2>2 DEF TypeOK, Free
    <3> QED
      BY <1>10, <2>3, <3>1 DEF Link, PoolInv, Linked
  <2>6. head.index # Empty => head.index \in Slots \ {slot[t]}
    <3>1. stack \in Seq(Slots) /\ (stack # <<>> => 1 \in 1 .. Len(stack))
      BY DEF TypeOK
    <3> QED
      BY <2>2, <3>1 DEF PoolInv, Linked, Free
  <2>7. TagsProtect'
    BY <1>10, <2>2, <2>3, <2>4, <2>6 DEF Link, PoolInv, TagsProtect
  <2> QED
    BY <2>1, <2>5, <2>7
<1>11. ASSUME NEW t \in Threads, PushCas(t) PROVE Goal
  BY <1>11, PushStep
<1> QED
  BY <1>1, <1>2, <1>3, <1>4, <1>5, <1>6, <1>7, <1>8, <1>9, <1>10, <1>11, <1>12,
     <1>13, <1>14 DEF Next

-----------------------------------------------------------------------------

(***************************************************************************)
(* The free list stays a list, and the tags protect it, for any number of  *)
(* threads and slots: allocate() and deallocate() keep PoolInv.            *)
(***************************************************************************)
THEOREM PoolInvHolds == Spec => []PoolInv
<1>1. Init => PoolInv
  BY InitInv
<1>2. PoolInv /\ [Next]_vars => PoolInv'
  BY TypeStep, InvStep DEF PoolInv
<1> QED
  BY <1>1, <1>2, PTL DEF Spec

(* Indices stay in the pool: no thread ever reads next_ or slots_ out of range. *)
THEOREM TypeCorrect == Spec => []TypeOK
<1>1. PoolInv => TypeOK
  BY DEF PoolInv
<1> QED
  BY <1>1, PoolInvHolds, PTL

(***************************************************************************)
(* For any number of threads and slots: allocate() never hands out a slot  *)
(* that is free, held, or in the hands of another thread.  The inductive   *)
(* invariant adds the shape of the free list (Linked) and what the         *)
(* generation tag guarantees about stale snapshots (TagsProtect).          *)
(***************************************************************************)
THEOREM SlotsExclusive == Spec => []ExclusiveSlots
<1>1. PoolInv => ExclusiveSlots
  BY DEF PoolInv
<1> QED
  BY <1>1, PoolInvHolds, PTL

-----------------------------------------------------------------------------
(* The refinement: each step of the stack is a step of the pool of slots, or none. *)

Phases == [t \in Threads |-> Phase(t)]

(* A step of one thread moves the phase of that thread. *)
LEMMA PhaseStep ==
  ASSUME TypeOK, NEW t \in Threads, NEW l \in PCs, Goto(t, l)
  PROVE  /\ pc'[t] = l
         /\ Phases' = [Phases EXCEPT ![t] = Phase(t)']
<1>1. pc'[t] = l /\ \A u \in Threads \ {t} : pc'[u] = pc[u]
  BY DEF Goto, TypeOK
<1>2. \A u \in Threads \ {t} : Phase(u)' = Phase(u)
  BY <1>1 DEF Phase
<1> QED
  BY <1>1, <1>2 DEF Phases

(* A step inside a phase leaves all the phases alone. *)
LEMMA SamePhase ==
  ASSUME TypeOK, NEW t \in Threads, NEW l \in PCs, Goto(t, l), Phase(t)' = Phase(t)
  PROVE  Phases' = Phases
<1>1. \A u \in Threads \ {t} : pc'[u] = pc[u]
  BY DEF Goto, TypeOK
<1>2. \A u \in Threads : Phase(u)' = Phase(u)
  BY <1>1 DEF Phase
<1> QED
  BY <1>2 DEF Phases

(* A head_ without an index means that nothing is free. *)
LEMMA EmptyIsExhausted ==
  ASSUME PoolInv, head.index = Empty
  PROVE  Free = {}
<1>1. stack # <<>> => stack[1] \in Slots
  BY EmptySeq DEF PoolInv, TypeOK
<1>2. Empty \notin Slots
  BY CapacityAssumption DEF Empty, Slots
<1>3. stack = <<>>
  BY <1>1, <1>2 DEF PoolInv, Linked
<1> QED
  BY <1>3 DEF Free

(* The successful pop takes the top slot from the free ones. *)
LEMMA PopTakes ==
  ASSUME PoolInv, NEW t \in Threads, PopCas(t)
  PROVE  \E s \in Free : Free' = Free \ {s} /\ slot' = [slot EXCEPT ![t] = s]
<1>1. TypeOK /\ stack \in Seq(Slots) /\ stack # <<>> /\ old[t].index = stack[1]
  BY DEF PopCas, CasMatches, PoolInv, TypeOK, TagsProtect, Linked
<1>2. /\ stack' = Tail(stack) /\ Len(stack) \in Nat /\ Len(stack) > 0 /\ Len(stack') = Len(stack) - 1
      /\ \A i \in 1 .. Len(stack) - 1 : stack'[i] = stack[i + 1]
  BY <1>1, PopStack DEF PopCas
<1>3. \A i, j \in 1 .. Len(stack) : stack[i] = stack[j] => i = j
  BY DEF PoolInv, ExclusiveSlots
<1>4. stack[1] \in Free /\ slot' = [slot EXCEPT ![t] = stack[1]]
  BY <1>1, <1>2 DEF Free, PopCas
<1>5. Free' = {stack'[i] : i \in 1 .. Len(stack) - 1}
  BY <1>2 DEF Free
<1>6. ASSUME NEW s \in Free' PROVE s \in Free \ {stack[1]}
  <2>1. PICK i \in 1 .. Len(stack) - 1 : s = stack'[i]
    BY <1>5, <1>6
  <2>2. i + 1 \in 1 .. Len(stack) /\ i + 1 # 1 /\ 1 \in 1 .. Len(stack) /\ s = stack[i + 1]
    BY <1>2, <2>1
  <2> QED
    BY <1>3, <2>2 DEF Free
<1>7. ASSUME NEW s \in Free \ {stack[1]} PROVE s \in Free'
  <2>1. PICK i \in 1 .. Len(stack) : s = stack[i]
    BY <1>7 DEF Free
  <2>2. i - 1 \in 1 .. Len(stack) - 1 /\ (i - 1) + 1 = i
    BY <1>2, <1>7, <2>1
  <2>3. stack'[i - 1] = s
    BY <1>2, <2>1, <2>2
  <2> QED
    BY <1>5, <2>2, <2>3
<1>8. Free' = Free \ {stack[1]}
  BY <1>6, <1>7
<1> QED
  BY <1>4, <1>8

(* The successful push adds the slot to the free ones. *)
LEMMA PushFrees ==
  ASSUME PoolInv, NEW t \in Threads, PushCas(t)
  PROVE  Free' = Free \cup {slot[t]}
<1>1. stack \in Seq(Slots) /\ slot[t] \in Slots
  BY DEF PoolInv, TypeOK
<1>2. /\ stack' = <<slot[t]>> \o stack /\ Len(stack) \in Nat /\ Len(stack') = Len(stack) + 1
      /\ stack'[1] = slot[t] /\ \A i \in 2 .. Len(stack) + 1 : stack'[i] = stack[i - 1]
  BY <1>1, PushStack DEF PushCas
<1>3. Free' = {stack'[i] : i \in 1 .. Len(stack) + 1}
  BY <1>2 DEF Free
<1>4. ASSUME NEW s \in Free' PROVE s \in Free \cup {slot[t]}
  <2>1. PICK i \in 1 .. Len(stack) + 1 : s = stack'[i]
    BY <1>3, <1>4
  <2>2. i = 1 \/ (i \in 2 .. Len(stack) + 1 /\ i - 1 \in 1 .. Len(stack))
    BY <1>2, <2>1
  <2> QED
    BY <1>2, <2>1, <2>2 DEF Free
<1>5. ASSUME NEW s \in Free PROVE s \in Free'
  <2>1. PICK i \in 1 .. Len(stack) : s = stack[i]
    BY <1>5 DEF Free
  <2>2. i + 1 \in 2 .. Len(stack) + 1 /\ i + 1 \in 1 .. Len(stack) + 1 /\ (i + 1) - 1 = i
    BY <1>2, <2>1
  <2>3. stack'[i + 1] = s
    BY <1>2, <2>1, <2>2
  <2> QED
    BY <1>3, <2>2, <2>3
<1>6. slot[t] \in Free'
  <2>1. 1 \in 1 .. Len(stack) + 1
    BY <1>2
  <2> QED
    BY <1>2, <1>3, <2>1
<1> QED
  BY <1>4, <1>5, <1>6

(* One step of the stack, action by action. *)
LEMMA StepImplements ==
  ASSUME PoolInv, [Next]_vars
  PROVE  [Pool!Next]_Pool!vars
<1> DEFINE Goal == [Pool!Next]_Pool!vars
<1> USE DEF Phases
<1>0. TypeOK /\ Phases \in [Threads -> {"idle", "null", "allocating", "taken", "freeing"}]
  BY DEF PoolInv, TypeOK, PCs, Phase
<1>a. UNCHANGED stack => Free' = Free
  BY DEF Free
<1>1. ASSUME NEW t \in Threads, Allocate(t) PROVE Goal
  <2>1. pc[t] = "idle" /\ UNCHANGED <<stack, held, slot>>
    BY <1>1 DEF Allocate
  <2>2. CASE head.index = Empty
    <3>1. Goto(t, "null") /\ Free = {}
      BY <1>1, <2>2, EmptyIsExhausted DEF Allocate, LoadForAllocate
    <3>2. Phases' = [Phases EXCEPT ![t] = "null"] /\ Phases[t] = "idle"
      BY <1>0, <2>1, <3>1, PhaseStep DEF Phase, PCs
    <3> QED
      BY <1>a, <2>1, <3>1, <3>2 DEF Pool!Next, Pool!Exhausted
  <2>3. CASE head.index # Empty
    <3>1. Goto(t, "readNext")
      BY <1>1, <2>3 DEF Allocate, LoadForAllocate
    <3>2. Phases' = [Phases EXCEPT ![t] = "allocating"] /\ Phases[t] = "idle"
      BY <1>0, <2>1, <3>1, PhaseStep DEF Phase, PCs
    <3> QED
      BY <1>a, <2>1, <3>2 DEF Pool!Next, Pool!Allocate
  <2> QED
    BY <2>2, <2>3
<1>2. ASSUME NEW t \in Threads, ReturnNull(t) PROVE Goal
  <2>1. Phases' = [Phases EXCEPT ![t] = "idle"] /\ Phases[t] = "null"
    BY <1>0, <1>2, PhaseStep DEF ReturnNull, Phase, PCs
  <2> QED
    BY <1>2, <1>a, <2>1 DEF ReturnNull, locals, Pool!Next, Pool!ReturnNull
<1>3. ASSUME NEW t \in Threads, ReadNext(t) PROVE Goal
  <2>0. Goto(t, "popCas") /\ Phase(t)' = Phase(t)
    BY <1>0, <1>3 DEF ReadNext, Goto, Phase, TypeOK
  <2>1. Phases' = Phases
    BY <1>0, <2>0, SamePhase DEF PCs
  <2> QED
    BY <1>3, <1>a, <2>1 DEF ReadNext, Pool!vars
<1>4. ASSUME NEW t \in Threads, PopCas(t) PROVE Goal
  <2>1. Phases' = [Phases EXCEPT ![t] = "taken"] /\ Phases[t] = "allocating"
    BY <1>0, <1>4, PhaseStep DEF PopCas, Phase, PCs
  <2>2. \E s \in Free : Free' = Free \ {s} /\ slot' = [slot EXCEPT ![t] = s]
    BY <1>4, PopTakes
  <2> QED
    BY <1>4, <2>1, <2>2 DEF PopCas, Pool!Next, Pool!Take
<1>5. ASSUME NEW t \in Threads, PopCasFails(t) PROVE Goal
  <2>1. pc[t] = "popCas" /\ UNCHANGED <<stack, held, slot>>
    BY <1>5 DEF PopCasFails
  <2>2. CASE head.index = Empty
    <3>1. Goto(t, "null") /\ Free = {}
      BY <1>5, <2>2, EmptyIsExhausted DEF PopCasFails, LoadForAllocate
    <3>2. Phases' = [Phases EXCEPT ![t] = "null"] /\ Phases[t] = "allocating"
      BY <1>0, <2>1, <3>1, PhaseStep DEF Phase, PCs
    <3> QED
      BY <1>a, <2>1, <3>1, <3>2 DEF Pool!Next, Pool!Exhausted
  <2>3. CASE head.index # Empty
    <3>1. Goto(t, "readNext")
      BY <1>5, <2>3 DEF PopCasFails, LoadForAllocate
    <3>2. Phase(t)' = Phase(t)
      BY <1>0, <2>1, <3>1 DEF Goto, Phase, TypeOK
    <3>3. Phases' = Phases
      BY <1>0, <3>1, <3>2, SamePhase DEF PCs
    <3> QED
      BY <1>a, <2>1, <3>3 DEF Pool!vars
  <2> QED
    BY <2>2, <2>3
<1>6. ASSUME NEW t \in Threads, CountAlloc(t) PROVE Goal
  <2>0. Goto(t, "loadHw") /\ Phase(t)' = Phase(t)
    BY <1>0, <1>6 DEF CountAlloc, Goto, Phase, TypeOK
  <2>1. Phases' = Phases
    BY <1>0, <2>0, SamePhase DEF PCs
  <2> QED
    BY <1>6, <1>a, <2>1 DEF CountAlloc, Pool!vars
<1>7. ASSUME NEW t \in Threads, LoadHw(t) PROVE Goal
  <2>1. pc[t] \in {"loadHw", "hwCas"} /\ UNCHANGED <<stack, slot>>
    BY <1>7 DEF LoadHw
  <2>2. CASE Goto(t, "hwCas") /\ UNCHANGED held
    <3>0. Phase(t)' = Phase(t)
      BY <1>0, <2>1, <2>2 DEF Goto, Phase, TypeOK
    <3>1. Phases' = Phases
      BY <1>0, <2>2, <3>0, SamePhase DEF PCs
    <3> QED
      BY <1>a, <2>1, <2>2, <3>1 DEF Pool!vars
  <2>3. CASE HandOut(t)
    <3>1. Phases' = [Phases EXCEPT ![t] = "idle"] /\ Phases[t] = "taken"
      BY <1>0, <2>1, <2>3, PhaseStep DEF HandOut, Phase, PCs
    <3> QED
      BY <1>a, <2>1, <2>3, <3>1 DEF HandOut, Pool!Next, Pool!ReturnSlot
  <2> QED
    BY <1>7, <2>2, <2>3 DEF LoadHw
<1>8. ASSUME NEW t \in Threads, HwCas(t) PROVE Goal
  <2>1. Phases' = [Phases EXCEPT ![t] = "idle"] /\ Phases[t] = "taken"
    BY <1>0, <1>8, PhaseStep DEF HwCas, HandOut, Phase, PCs
  <2> QED
    BY <1>8, <1>a, <2>1 DEF HwCas, HandOut, locals, Pool!Next, Pool!ReturnSlot
<1>9. ASSUME NEW t \in Threads, NEW s \in Slots, Deallocate(t, s) PROVE Goal
  <2>1. Phases' = [Phases EXCEPT ![t] = "freeing"] /\ Phases[t] = "idle"
    BY <1>0, <1>9, PhaseStep DEF Deallocate, Phase, PCs
  <2> QED
    BY <1>9, <1>a, <2>1 DEF Deallocate, Pool!Next, Pool!Deallocate
<1>10. ASSUME NEW t \in Threads, Link(t) PROVE Goal
  <2>0. Goto(t, "pushCas") /\ Phase(t)' = Phase(t)
    BY <1>0, <1>10 DEF Link, Goto, Phase, TypeOK
  <2>1. Phases' = Phases
    BY <1>0, <2>0, SamePhase DEF PCs
  <2> QED
    BY <1>10, <1>a, <2>1 DEF Link, locals, Pool!vars
<1>11. ASSUME NEW t \in Threads, PushCas(t) PROVE Goal
  <2>1. Phases' = [Phases EXCEPT ![t] = "idle"] /\ Phases[t] = "freeing"
    BY <1>0, <1>11, PhaseStep DEF PushCas, Phase, PCs
  <2> QED
    BY <1>11, <2>1, PushFrees DEF PushCas, locals, Pool!Next, Pool!Release
<1>12. ASSUME NEW t \in Threads, PushCasFails(t) PROVE Goal
  <2>0. Goto(t, "link") /\ Phase(t)' = Phase(t)
    BY <1>0, <1>12 DEF PushCasFails, Goto, Phase, TypeOK
  <2>1. Phases' = Phases
    BY <1>0, <2>0, SamePhase DEF PCs
  <2> QED
    BY <1>12, <1>a, <2>1 DEF PushCasFails, Pool!vars
<1>13. ASSUME NEW t \in Threads, CountFree(t) PROVE Goal
  <2>0. Goto(t, "idle") /\ Phase(t)' = Phase(t)
    BY <1>0, <1>13 DEF CountFree, Goto, Phase, TypeOK
  <2>1. Phases' = Phases
    BY <1>0, <2>0, SamePhase DEF PCs
  <2> QED
    BY <1>13, <1>a, <2>1 DEF CountFree, locals, Pool!vars
<1>14. CASE UNCHANGED vars
  <2>1. Phases' = Phases
    BY <1>14 DEF vars, Phase
  <2> QED
    BY <1>14, <1>a, <2>1 DEF vars, locals, Pool!vars
<1> QED
  BY <1>1, <1>2, <1>3, <1>4, <1>5, <1>6, <1>7, <1>8, <1>9, <1>10, <1>11, <1>12,
     <1>13, <1>14 DEF Next

(***************************************************************************)
(* The Treiber stack implements the pool of slots for any number of        *)
(* threads and slots: allocate() takes a free slot at one instant or finds *)
(* none free, deallocate() frees at one instant, whatever compare-         *)
(* exchanges fail in between.                                              *)
(***************************************************************************)
THEOREM PoolImplementsSlots == Spec => ImplementsPool
<1>1. Init => Pool!Init
  <2> SUFFICES ASSUME Init PROVE Pool!Init
    OBVIOUS
  <2>1. Free = Slots
    <3>1. Len(stack) = Capacity /\ \A i \in 1 .. Capacity : stack[i] = i - 1
      BY CapacityAssumption DEF Init
    <3>2. \A s \in Slots : s + 1 \in 1 .. Capacity /\ stack[s + 1] = s
      BY <3>1, CapacityAssumption DEF Slots
    <3>3. Slots \subseteq Free
      BY <3>1, <3>2 DEF Free
    <3>4. Free \subseteq Slots
      BY InitInv DEF PoolInv, TypeOK, Free
    <3> QED
      BY <3>3, <3>4
  <2>2. Phases = [t \in Threads |-> "idle"]
    BY DEF Init, Phases, Phase
  <2> QED
    BY <2>1, <2>2, InitInv DEF Init, Pool!Init, PoolInv, TypeOK, Phases
<1> QED
  BY <1>1, StepImplements, PoolInvHolds, PTL DEF Spec, ImplementsPool, Pool!Spec
=============================================================================
