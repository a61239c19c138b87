--------------------------- MODULE PerfOptimizer ---------------------------
(***************************************************************************)
(* PerformanceOptimizer (include/rtes/performance_optimizer.hpp): the      *)
(* lock-free LatencyTracker and MemoryMonitor, whose extremes are kept by  *)
(* compare-and-swap loops, and CompactAllocator, which hands out orders    *)
(* and takes none back until it is reset.                                  *)
(*                                                                         *)
(* The counters of a call are added in one step: each is a single atomic   *)
(* addition and none is read by the loops.  Sizes are in orders.           *)
(***************************************************************************)
EXTENDS Integers, Sequences, FiniteSets, FiniteSetsExt

CONSTANTS PerfThreads,
          Latencies,     \* the latencies that are recorded
          BlockOrders,   \* orders in one block of the allocator
          MaxPerfCalls   \* bound on the calls of a thread

NoMin == 1000            \* UINT64_MAX

VARIABLES latency,      \* count_, total_ns_, min_ns_, max_ns_
          memory,       \* current_allocated_, peak_allocated_
          perfCall,     \* per thread: [pc, value, seen, calls]
          recorded,     \* history: the latencies of the calls since the last reset, per thread
          allocator,    \* blocks, current_block_, current_offset_
          orders        \* history: the places allocated since the last reset

perfVars == <<latency, memory, perfCall, recorded, allocator, orders>>

NoLatency == [count |-> 0, total |-> 0, min |-> NoMin, max |-> 0]

PerfInit ==
  /\ latency = NoLatency
  /\ memory = [current |-> 0, peak |-> 0]
  /\ perfCall = [t \in PerfThreads |-> [pc |-> "idle", value |-> 0, seen |-> 0, calls |-> 0]]
  /\ recorded = [t \in PerfThreads |-> <<>>]
  /\ allocator = [blocks |-> 1, block |-> 1, offset |-> 0]
  /\ orders = <<>>

Enter(t, place, v, seen) ==
  /\ perfCall[t].pc = "idle" /\ perfCall[t].calls < MaxPerfCalls
  /\ perfCall' = [perfCall EXCEPT ![t] = [pc |-> place, value |-> v, seen |-> seen, calls |-> @.calls + 1]]

Continue(t, place, v, seen) ==
  perfCall' = [perfCall EXCEPT ![t] = [@ EXCEPT !.pc = place, !.value = v, !.seen = seen]]

(* record_latency(): the additions, and the first load of the minimum. *)
RecordLatency(t, v) ==
  /\ Enter(t, "min", v, latency.min)
  /\ latency' = [latency EXCEPT !.count = @ + 1, !.total = @ + v]
  /\ recorded' = [recorded EXCEPT ![t] = Append(@, v)]
  /\ UNCHANGED <<memory, allocator, orders>>


(* compare_exchange_weak() succeeds only if the cell still holds what was seen; it may *)
(* also fail for no reason, and then reports what the cell holds.                      *)
CompareExchange(cell, seen) == cell = seen

(* while (latency_ns < current_min && !min_ns_.compare_exchange_weak(...)) *)
UpdateMin(t) ==
  LET me == perfCall[t]
  IN  /\ me.pc = "min"
      /\ \/ /\ me.value < me.seen
            /\ Continue(t, "min", me.value, latency.min) /\ UNCHANGED latency
         \/ /\ me.value < me.seen /\ CompareExchange(latency.min, me.seen)
            /\ latency' = [latency EXCEPT !.min = me.value]
            /\ Continue(t, "max", me.value, latency.max)
         \/ ~(me.value < me.seen) /\ Continue(t, "max", me.value, latency.max) /\ UNCHANGED latency
      /\ UNCHANGED <<memory, recorded, allocator, orders>>

UpdateMax(t) ==
  LET me == perfCall[t]
  IN  /\ me.pc = "max"
      /\ \/ /\ me.value > me.seen
            /\ Continue(t, "max", me.value, latency.max) /\ UNCHANGED latency
         \/ /\ me.value > me.seen /\ CompareExchange(latency.max, me.seen)
            /\ latency' = [latency EXCEPT !.max = me.value]
            /\ Continue(t, "idle", 0, 0)
         \/ ~(me.value > me.seen) /\ Continue(t, "idle", 0, 0) /\ UNCHANGED latency
      /\ UNCHANGED <<memory, recorded, allocator, orders>>

(* allocate(): a new block when the current one has no room for an order. *)
Allocate ==
  IF allocator.offset + 1 > BlockOrders
  THEN [blocks |-> allocator.blocks + 1, block |-> allocator.blocks + 1, offset |-> 1]
  ELSE [allocator EXCEPT !.offset = @ + 1]

(* allocate_order(): the allocator is not synchronised, so only one thread calls it. *)
AllocateOrder(t) ==
  /\ t = CHOOSE u \in PerfThreads : TRUE
  /\ Enter(t, "load", 0, 0)
  /\ allocator' = Allocate
  /\ orders' = Append(orders, <<allocator'.block, allocator'.offset>>)
  /\ memory' = [memory EXCEPT !.current = @ + 1]
  /\ UNCHANGED <<latency, recorded>>

(* get_memory_monitor().record_allocation(): the monitor is open to every thread. *)
RecordAllocation(t) ==
  /\ Enter(t, "load", 0, 0)
  /\ memory' = [memory EXCEPT !.current = @ + 1]
  /\ UNCHANGED <<latency, recorded, allocator, orders>>

LoadCurrent(t) ==
  /\ perfCall[t].pc = "load"
  /\ Continue(t, "loaded", memory.current, 0)
  /\ UNCHANGED <<latency, memory, recorded, allocator, orders>>

LoadPeak(t) ==
  /\ perfCall[t].pc = "loaded"
  /\ Continue(t, "peak", perfCall[t].value, memory.peak)
  /\ UNCHANGED <<latency, memory, recorded, allocator, orders>>

(* while (current > peak && !peak_allocated_.compare_exchange_weak(peak, current)) *)
UpdatePeak(t) ==
  LET me == perfCall[t]
  IN  /\ me.pc = "peak"
      /\ \/ /\ me.value > me.seen
            /\ Continue(t, "peak", memory.current, memory.peak) /\ UNCHANGED memory
         \/ /\ me.value > me.seen /\ CompareExchange(memory.peak, me.seen)
            /\ memory' = [memory EXCEPT !.peak = me.value]
            /\ Continue(t, "idle", 0, 0)
         \/ ~(me.value > me.seen) /\ Continue(t, "idle", 0, 0) /\ UNCHANGED memory
      /\ UNCHANGED <<latency, recorded, allocator, orders>>

(* deallocate_order(), record_deallocation(): only the monitor hears of it.  A reset takes *)
(* all orders back, so what was handed out before it is not given back after it.           *)
RecordDeallocation(t) ==
  /\ memory.current > 0
  /\ Enter(t, "idle", 0, 0)
  /\ memory' = [memory EXCEPT !.current = @ - 1]
  /\ UNCHANGED <<latency, recorded, allocator, orders>>

(* reset_all_stats(), which needs a quiet program: it destroys the monitor.  The allocator *)
(* goes back to its first block and keeps the others.                                      *)
ResetAllStats ==
  /\ \A t \in PerfThreads : perfCall[t].pc = "idle"
  /\ \E t \in PerfThreads : perfCall[t].calls > 0
  /\ latency' = NoLatency
  /\ memory' = [current |-> 0, peak |-> 0]
  /\ recorded' = [t \in PerfThreads |-> <<>>]
  /\ allocator' = [allocator EXCEPT !.block = 1, !.offset = 0]
  /\ orders' = <<>>
  /\ UNCHANGED perfCall

PerfNext ==
  \/ \E t \in PerfThreads : \/ \E v \in Latencies : RecordLatency(t, v)
                            \/ UpdateMin(t) \/ UpdateMax(t)
                            \/ AllocateOrder(t) \/ RecordAllocation(t) \/ LoadCurrent(t) \/ LoadPeak(t)
                            \/ UpdatePeak(t)
                            \/ RecordDeallocation(t)
  \/ ResetAllStats

-----------------------------------------------------------------------------
(***************************************************************************)
(* LatencyTracker, MemoryMonitor and CompactAllocator: when no call is in  *)
(* flight the tracker holds the least and the greatest recorded latency,   *)
(* and the peak is no lower than what is allocated, however the loops of   *)
(* the threads interleaved; and no two orders handed out between resets    *)
(* are at the same place.                                                  *)
(***************************************************************************)
TrackersExact ==
  LET all == UNION {{recorded[t][i] : i \in DOMAIN recorded[t]} : t \in PerfThreads}
  IN  /\ (\A t \in PerfThreads : perfCall[t].pc = "idle") =>
           /\ all # {} => latency.min = Min(all) /\ latency.max = Max(all)
           /\ memory.peak >= memory.current
      /\ \A i, j \in DOMAIN orders : i # j => orders[i] # orders[j]
=============================================================================
