----------------------------- MODULE MemoryPool -----------------------------
(***************************************************************************)
(* MemoryPool (include/rtes/memory_pool.hpp): the pool of Order slots, a   *)
(* Treiber stack of free indices with a generation tag against ABA.  The   *)
(* gateway allocates while several matching engines deallocate.            *)
(*                                                                         *)
(* A step is one access to shared memory: a load or compare-exchange of    *)
(* head_, a read or write of next_[i], an update of a counter.  The        *)
(* release build is modelled (no owned_ bookkeeping).  The generation has  *)
(* 32 bits in the code; MaxGen bounds the number of pushes and pops so     *)
(* that it does not wrap, as the header's ABA argument assumes.            *)
(***************************************************************************)
EXTENDS Integers, Sequences, FiniteSets

CONSTANTS Threads,    \* the threads that call the pool
          Capacity,   \* capacity_
          MaxGen      \* bound on the generation counter

ASSUME CapacityAssumption == Capacity \in Nat \ {0}

ASSUME MaxGenAssumption == MaxGen \in Nat

Slots == 0 .. Capacity - 1

(* POOL_EMPTY: an index no slot has. *)
Empty == Capacity

VARIABLES head,        \* head_: index and generation
          next,        \* next_
          allocated,   \* allocated_
          highWater,   \* high_water_
          held,        \* the slots callers own (external to the pool)
          pc,          \* what a thread does next
          old,         \* old_head of a thread
          nextIndex,   \* next_index of a thread in allocate
          slot,        \* the index a thread has claimed, or is giving back
          current,     \* current in update_stats_allocate
          hw,          \* hw in update_stats_allocate
          stack        \* history: the free indices, top first

locals == <<old, nextIndex, slot, current, hw>>
vars == <<head, next, allocated, highWater, held, pc, locals, stack>>

Init ==
  /\ head = [index |-> 0, gen |-> 0]
  /\ next = [i \in Slots |-> i + 1]          \* the last link is Empty
  /\ allocated = 0
  /\ highWater = 0
  /\ held = {}
  /\ pc = [t \in Threads |-> "idle"]
  /\ old = [t \in Threads |-> head]
  /\ nextIndex = [t \in Threads |-> 0]
  /\ slot = [t \in Threads |-> 0]
  /\ current = [t \in Threads |-> 0]
  /\ hw = [t \in Threads |-> 0]
  /\ stack = [i \in 1 .. Capacity |-> i - 1]

Goto(t, l) == pc' = [pc EXCEPT ![t] = l]

(***************************************************************************)
(* A load of head_, or the reload a failed compare-exchange performs: an   *)
(* exhausted pool ends allocate() with nullptr.                            *)
(***************************************************************************)
LoadForAllocate(t) ==
  /\ old' = [old EXCEPT ![t] = head]
  /\ Goto(t, IF head.index = Empty THEN "null" ELSE "readNext")

CasMatches(t) == head = old[t]

(* Mutant of Install: the tag stays the same. *)
InstallUntagged(i) == head' = [index |-> i, gen |-> head.gen]

(* The exchange installs the new index with the next generation. *)
Install(i) ==
  /\ head.gen < MaxGen
  /\ head' = [index |-> i, gen |-> head.gen + 1]

Allocate(t) ==
  /\ pc[t] = "idle"
  /\ LoadForAllocate(t)
  /\ UNCHANGED <<head, next, allocated, highWater, held, nextIndex, slot, current, hw, stack>>

ReturnNull(t) ==
  /\ pc[t] = "null"
  /\ Goto(t, "idle")
  /\ UNCHANGED <<head, next, allocated, highWater, held, locals, stack>>

ReadNext(t) ==
  /\ pc[t] = "readNext"
  /\ nextIndex' = [nextIndex EXCEPT ![t] = next[old[t].index]]
  /\ Goto(t, "popCas")
  /\ UNCHANGED <<head, next, allocated, highWater, held, old, slot, current, hw, stack>>

PopCas(t) ==
  /\ pc[t] = "popCas"
  /\ CasMatches(t)
  /\ Install(nextIndex[t])
  /\ slot' = [slot EXCEPT ![t] = old[t].index]
  /\ stack' = Tail(stack)
  /\ Goto(t, "countAlloc")
  /\ UNCHANGED <<next, allocated, highWater, held, old, nextIndex, current, hw>>

(* Mutant of PopCasFails: a failed exchange is taken for exhaustion. *)
PopCasFailsNull(t) ==
  /\ pc[t] = "popCas"
  /\ Goto(t, "null")
  /\ UNCHANGED <<head, next, allocated, highWater, held, locals, stack>>

(* compare_exchange_weak fails on a changed head_, and may fail spuriously. *)
PopCasFails(t) ==
  /\ pc[t] = "popCas"
  /\ LoadForAllocate(t)
  /\ UNCHANGED <<head, next, allocated, highWater, held, nextIndex, slot, current, hw, stack>>

(* update_stats_allocate: fetch_add, then a compare-exchange maximum. *)
CountAlloc(t) ==
  /\ pc[t] = "countAlloc"
  /\ allocated' = allocated + 1
  /\ current' = [current EXCEPT ![t] = allocated + 1]
  /\ Goto(t, "loadHw")
  /\ UNCHANGED <<head, next, highWater, held, old, nextIndex, slot, hw, stack>>

(* allocate() returns the slot to its caller. *)
HandOut(t) ==
  /\ held' = held \cup {slot[t]}
  /\ Goto(t, "idle")

LoadHw(t) ==
  /\ \/ pc[t] = "loadHw"
     \/ pc[t] = "hwCas" /\ highWater # hw[t]      \* the failed exchange reloads hw
  /\ hw' = [hw EXCEPT ![t] = highWater]
  /\ IF current[t] > highWater
       THEN Goto(t, "hwCas") /\ UNCHANGED held
       ELSE HandOut(t)
  /\ UNCHANGED <<head, next, allocated, highWater, old, nextIndex, slot, current, stack>>

HwCas(t) ==
  /\ pc[t] = "hwCas"
  /\ highWater = hw[t]
  /\ highWater' = current[t]
  /\ HandOut(t)
  /\ UNCHANGED <<head, next, allocated, locals, stack>>

(* deallocate(ptr): callers give back slots they own, each one once. *)
Deallocate(t, s) ==
  /\ pc[t] = "idle"
  /\ s \in held
  /\ held' = held \ {s}
  /\ slot' = [slot EXCEPT ![t] = s]
  /\ old' = [old EXCEPT ![t] = head]
  /\ Goto(t, "link")
  /\ UNCHANGED <<head, next, allocated, highWater, nextIndex, current, hw, stack>>

Link(t) ==
  /\ pc[t] = "link"
  /\ next' = [next EXCEPT ![slot[t]] = old[t].index]
  /\ Goto(t, "pushCas")
  /\ UNCHANGED <<head, allocated, highWater, held, locals, stack>>

PushCas(t) ==
  /\ pc[t] = "pushCas"
  /\ CasMatches(t)
  /\ Install(slot[t])
  /\ stack' = <<slot[t]>> \o stack
  /\ Goto(t, "countFree")
  /\ UNCHANGED <<next, allocated, highWater, held, locals>>

(* Mutant of PushCasFails: one attempt only. *)
PushCasGivesUp(t) ==
  /\ pc[t] = "pushCas"
  /\ Goto(t, "countFree")
  /\ UNCHANGED <<head, next, allocated, highWater, held, locals, stack>>

PushCasFails(t) ==
  /\ pc[t] = "pushCas"
  /\ old' = [old EXCEPT ![t] = head]
  /\ Goto(t, "link")
  /\ UNCHANGED <<head, next, allocated, highWater, held, nextIndex, slot, current, hw, stack>>

CountFree(t) ==
  /\ pc[t] = "countFree"
  /\ allocated' = allocated - 1
  /\ Goto(t, "idle")
  /\ UNCHANGED <<head, next, highWater, held, locals, stack>>

Next ==
  \E t \in Threads :
     \/ Allocate(t) \/ ReturnNull(t) \/ ReadNext(t) \/ PopCas(t) \/ PopCasFails(t)
     \/ CountAlloc(t) \/ LoadHw(t) \/ HwCas(t)
     \/ \E s \in Slots : Deallocate(t, s)
     \/ Link(t) \/ PushCas(t) \/ PushCasFails(t) \/ CountFree(t)

Spec == Init /\ [][Next]_vars

-----------------------------------------------------------------------------

PCs == {"idle", "null", "readNext", "popCas", "countAlloc", "loadHw", "hwCas",
        "link", "pushCas", "countFree"}

Links == 0 .. Capacity

Heads == [index : Links, gen : 0 .. MaxGen]

(* Every variable stays in its type: indices stay in the pool. *)
TypeOK ==
  /\ head \in Heads
  /\ next \in [Slots -> Links]
  /\ allocated \in Int /\ highWater \in Int
  /\ held \subseteq Slots
  /\ pc \in [Threads -> PCs]
  /\ old \in [Threads -> Heads]
  /\ nextIndex \in [Threads -> Links]
  /\ slot \in [Threads -> Slots]
  /\ current \in [Threads -> Int] /\ hw \in [Threads -> Int]
  /\ stack \in Seq(Slots)

(* A thread owns the slot it has popped, and the slot it has not yet pushed. *)
Owns(t) == pc[t] \in {"countAlloc", "loadHw", "hwCas", "link", "pushCas"}

Free == {stack[i] : i \in 1 .. Len(stack)}

(***************************************************************************)
(* allocate() never hands out a slot that a caller holds, that another     *)
(* thread is allocating or that is on the free list; a freed slot is on    *)
(* the free list once.                                                     *)
(***************************************************************************)
ExclusiveSlots ==
  /\ \A t \in Threads : Owns(t) => slot[t] \notin held \cup Free
  /\ \A t, u \in Threads : t # u /\ Owns(t) /\ Owns(u) => slot[t] # slot[u]
  /\ held \cap Free = {}
  /\ \A i, j \in 1 .. Len(stack) : stack[i] = stack[j] => i = j

(* The links of next_ from head_ spell the stack of free slots. *)
Linked ==
  /\ head.index = IF stack = <<>> THEN Empty ELSE stack[1]
  /\ \A i \in 1 .. Len(stack) :
       next[stack[i]] = IF i = Len(stack) THEN Empty ELSE stack[i + 1]

(***************************************************************************)
(* What the generation tag buys: a snapshot that still equals head_ was    *)
(* never overtaken, so the link read from it is still the right one.       *)
(***************************************************************************)
TagsProtect ==
  \A t \in Threads :
    /\ old[t].gen <= head.gen
    /\ old[t].gen = head.gen => old[t] = head
    /\ pc[t] \in {"readNext", "popCas"} => old[t].index # Empty
    /\ pc[t] = "popCas" /\ old[t] = head => nextIndex[t] = next[head.index]
    /\ pc[t] = "pushCas" => next[slot[t]] = old[t].index

(***************************************************************************)
(* No slot leaks inside the pool: each is free, held by a caller, or in    *)
(* the hands of exactly one thread.                                        *)
(***************************************************************************)
NoSlotLost ==
  Slots = Free \cup held \cup {slot[t] : t \in {u \in Threads : Owns(u)}}

(* The inductive invariant of the free list. *)
PoolInv == TypeOK /\ ExclusiveSlots /\ Linked /\ TagsProtect

(***************************************************************************)
(* The counter settles: it counts the held slots plus the calls whose      *)
(* update is outstanding, so get_stats() is exact once the pool is quiet.  *)
(***************************************************************************)
CounterSettles ==
  allocated = Cardinality(held)
              + Cardinality({t \in Threads : pc[t] \in {"loadHw", "hwCas", "link", "pushCas", "countFree"}})

(* high_water_ is at least the number of slots held, for a quiet pool. *)
HighWaterCovers ==
  (\A t \in Threads : pc[t] = "idle") => highWater >= Cardinality(held)

(***************************************************************************)
(* The accounts of the pool: no slot leaks between the free list, the      *)
(* callers and the threads, and the counters of get_stats() come right     *)
(* once the pool is quiet.                                                 *)
(***************************************************************************)
PoolAccounts == NoSlotLost /\ CounterSettles /\ HighWaterCovers

Phase(t) ==
  CASE pc[t] \in {"idle", "countFree"} -> "idle"
    [] pc[t] = "null" -> "null"
    [] pc[t] \in {"readNext", "popCas"} -> "allocating"
    [] pc[t] \in {"countAlloc", "loadHw", "hwCas"} -> "taken"
    [] pc[t] \in {"link", "pushCas"} -> "freeing"

Pool == INSTANCE SlotPool WITH free <- Free, phase <- [t \in Threads |-> Phase(t)]

(***************************************************************************)
(* The Treiber stack implements the pool of slots: nullptr is returned     *)
(* only when no slot is free, and no slot is handed out twice.             *)
(***************************************************************************)
ImplementsPool == Pool!Spec
=============================================================================
