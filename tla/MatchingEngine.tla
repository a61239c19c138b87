--------------------------- MODULE MatchingEngine ---------------------------
(***************************************************************************)
(* MatchingEngine (src/matching_engine.cpp): the worker thread of one      *)
(* symbol.  It drains its input queue in batches, runs the order book,     *)
(* publishes trades and BBO changes to the market data queue, compacts the *)
(* book and flushes its counters.  The risk thread feeds it; the exchange  *)
(* stops the risk thread first and the engine after it.                    *)
(*                                                                         *)
(* The input queue is the bounded FIFO SpscQueue implements.  The market   *)
(* data queue (MpmcQueue) has this engine as its only producer here.       *)
(***************************************************************************)
EXTENDS Integers, Sequences, FiniteSets

CONSTANTS Slots, NoOrder, Ids, Prices, MaxQty, Incoming, MaxAdds, MaxInflight, CompactThreshold,
          BatchSize,         \* BATCH_SIZE
          CompactInterval,   \* COMPACT_INTERVAL
          FlushInterval,     \* STATS_FLUSH_INTERVAL
          QueueCapacity,     \* QUEUE_CAPACITY of input_queue_
          MdCapacity,        \* capacity of the market data queue
          MaxCancels         \* bound on cancel requests

VARIABLES order, free, inflight, book, lookup, nextTradeId, bbo, shutdown, agg, trade, adds, stamp

Book == INSTANCE OrderBook

VARIABLES inputQueue,   \* input_queue_
          mdQueue,      \* market_data_queue_
          running,      \* running_
          feeding,      \* the risk thread is still alive
          worker,       \* where the worker thread is in run()
          count,        \* count in drain_batch()
          total,        \* local_stats_.total_processed
          local,        \* local_stats_: accepted, trades, drops
          flushed,      \* the atomic counters
          oldTop,       \* old_bid, old_ask
          lastBbo,      \* history: the last BBO event offered to the queue
          cancels       \* history: cancel requests made

bookVars == <<order, free, inflight, book, lookup, nextTradeId, bbo, shutdown, agg, trade, adds, stamp>>
engineVars == <<inputQueue, mdQueue, running, feeding, worker, count, total, local, flushed,
                oldTop, lastBbo, cancels>>
vars == <<bookVars, engineVars>>

ASSUME EngineAssumption ==
  /\ {BatchSize, CompactInterval, FlushInterval, QueueCapacity, MdCapacity} \subseteq Nat \ {0}
  /\ MaxCancels \in Nat

NewOrder(s) == [type |-> "NEW_ORDER", order |-> s]
Cancel(i) == [type |-> "CANCEL_ORDER", id |-> i]

NoStats == [accepted |-> 0, rejected |-> 0, trades |-> 0, drops |-> 0]

Top == [bid |-> Book!BestPrice(book["BUY"]), ask |-> Book!BestPrice(book["SELL"])]

Init ==
  /\ Book!Init
  /\ inputQueue = <<>> /\ mdQueue = <<>>
  /\ running = FALSE /\ feeding = TRUE /\ worker = "none"
  /\ count = 0 /\ total = 0
  /\ local = NoStats /\ flushed = NoStats
  /\ oldTop = Top
  /\ lastBbo = bbo
  /\ cancels = 0

(* start(): the worker enters run(). *)
Start ==
  /\ worker = "none"
  /\ running' = TRUE
  /\ worker' = "check"
  /\ UNCHANGED <<bookVars, inputQueue, mdQueue, feeding, count, total, local, flushed, oldTop, lastBbo, cancels>>

(* The risk thread submits a new order; a full queue is the caller's problem. *)
SubmitOrder(s, o) ==
  /\ feeding
  /\ Len(inputQueue) < QueueCapacity
  /\ Book!Submit(s, o)
  /\ inputQueue' = Append(inputQueue, NewOrder(s))
  /\ UNCHANGED <<mdQueue, running, feeding, worker, count, total, local, flushed, oldTop, lastBbo, cancels>>

SubmitCancel(i) ==
  /\ feeding
  /\ Len(inputQueue) < QueueCapacity
  /\ cancels < MaxCancels
  /\ inputQueue' = Append(inputQueue, Cancel(i))
  /\ cancels' = cancels + 1
  /\ UNCHANGED <<bookVars, mdQueue, running, feeding, worker, count, total, local, flushed, oldTop, lastBbo>>

(* Exchange::stop() joins the risk thread before it stops the engines. *)
StopFeeding ==
  /\ feeding
  /\ running
  /\ feeding' = FALSE
  /\ UNCHANGED <<bookVars, inputQueue, mdQueue, running, worker, count, total, local, flushed, oldTop, lastBbo, cancels>>

Stop ==
  /\ ~feeding
  /\ running
  /\ running' = FALSE
  /\ UNCHANGED <<bookVars, inputQueue, mdQueue, feeding, worker, count, total, local, flushed, oldTop, lastBbo, cancels>>

-----------------------------------------------------------------------------

(* The loop condition of run(): drain in batches, or drain what is left. *)
CheckRunning ==
  /\ worker = "check"
  /\ worker' = IF running THEN "drain" ELSE "drainRest"
  /\ count' = 0
  /\ UNCHANGED <<bookVars, inputQueue, mdQueue, running, feeding, total, local, flushed, oldTop, lastBbo, cancels>>

Draining == worker \in {"drain", "drainRest"} /\ agg = NoOrder

(* Mutant of PopRequest: the newest request is taken first. *)
PopRequestNewest ==
  /\ Draining
  /\ count < BatchSize
  /\ inputQueue # <<>>
  /\ inputQueue' = SubSeq(inputQueue, 1, Len(inputQueue) - 1)
  /\ count' = count + 1
  /\ oldTop' = Top

(* drain_batch() pops a request and counts it; old_bid and old_ask are read. *)
PopRequest ==
  /\ Draining
  /\ count < BatchSize
  /\ inputQueue # <<>>
  /\ inputQueue' = Tail(inputQueue)
  /\ count' = count + 1
  /\ oldTop' = Top

(* Publish: events that do not fit are dropped and counted. *)
Publish(stats, events) ==
  LET room == MdCapacity - Len(mdQueue)
      kept == IF Len(events) <= room THEN events ELSE SubSeq(events, 1, room)
  IN  /\ mdQueue' = mdQueue \o kept
      /\ local' = [stats EXCEPT !.drops = @ + Len(events) - Len(kept)]

(* Mutant of PublishBbo: a change of the ask alone is not noticed. *)
PublishBboBidOnly(stats, before) ==
  IF Top'.bid # before.bid
    THEN /\ lastBbo' = Book!TopOfBook(book')
         /\ Publish(stats, <<[type |-> "BBO_UPDATE", bbo |-> Book!TopOfBook(book')]>>)
    ELSE /\ UNCHANGED <<lastBbo, mdQueue>>
         /\ local' = stats

(* publish_bbo_update() when a best price moved. *)
PublishBbo(stats, before) ==
  IF Top' # before
    THEN /\ lastBbo' = Book!TopOfBook(book')
         /\ Publish(stats, <<[type |-> "BBO_UPDATE", bbo |-> Book!TopOfBook(book')]>>)
    ELSE /\ UNCHANGED <<lastBbo, mdQueue>>
         /\ local' = stats

(* process_new_order(): add_order() begins, or refuses the order. *)
ProcessNew ==
  /\ PopRequest
  /\ Head(inputQueue).type = "NEW_ORDER"
  /\ \/ Book!Accept(Head(inputQueue).order) /\ UNCHANGED local
     \/ Book!Refuse(Head(inputQueue).order) /\ local' = [local EXCEPT !.rejected = @ + 1]
  /\ UNCHANGED <<mdQueue, running, feeding, worker, total, flushed, lastBbo, cancels>>

(* One step of the sweep; the trade callback publishes the trade. *)
ProcessMatch ==
  /\ Book!Match
  /\ IF nextTradeId' # nextTradeId
       THEN Publish([local EXCEPT !.trades = @ + 1], <<[type |-> "TRADE", id |-> trade'.id]>>)
       ELSE UNCHANGED <<mdQueue, local>>
  /\ UNCHANGED <<inputQueue, running, feeding, worker, count, total, flushed, oldTop, lastBbo, cancels>>

ProcessFinish ==
  /\ Book!FinishAdd
  /\ PublishBbo([local EXCEPT !.accepted = @ + 1], oldTop)
  /\ UNCHANGED <<inputQueue, running, feeding, worker, count, total, flushed, oldTop, cancels>>

(* process_cancel(): the client id of the request is not looked at. *)
ProcessCancel ==
  /\ PopRequest
  /\ Head(inputQueue).type = "CANCEL_ORDER"
  /\ LET i == Head(inputQueue).id
     IN  \/ Book!CancelOrder(i) /\ PublishBbo(local, Top)
         \/ /\ lookup[i] = NoOrder \/ shutdown
            /\ UNCHANGED <<bookVars, mdQueue, local, lastBbo>>
  /\ UNCHANGED <<running, feeding, worker, total, flushed, cancels>>

BatchOver == Draining /\ (count = BatchSize \/ inputQueue = <<>>)

(* After a batch in the main loop: maybe_compact() and maybe_flush_stats(). *)
EndBatch ==
  /\ worker = "drain"
  /\ BatchOver
  /\ total' = total + count
  /\ IF count > 0 /\ (total + count) % CompactInterval = 0
       THEN Book!Maintain
       ELSE UNCHANGED bookVars
  /\ flushed' = IF count > 0 /\ (total + count) % FlushInterval = 0 THEN local ELSE flushed
  /\ worker' = "check"
  /\ UNCHANGED <<inputQueue, mdQueue, running, feeding, count, local, oldTop, lastBbo, cancels>>

(* Mutant of EndDrain: the empty batch does not end the loop. *)
EndDrainForever ==
  /\ worker = "drainRest"
  /\ BatchOver
  /\ total' = total + count
  /\ count' = 0
  /\ UNCHANGED <<bookVars, inputQueue, mdQueue, running, feeding, worker, local, flushed, oldTop, lastBbo, cancels>>

(* After a batch in the shutdown loop: an empty one ends the thread. *)
EndDrain ==
  /\ worker = "drainRest"
  /\ BatchOver
  /\ total' = total + count
  /\ worker' = IF count = 0 THEN "exited" ELSE "drainRest"
  /\ flushed' = IF count = 0 THEN local ELSE flushed
  /\ count' = 0
  /\ UNCHANGED <<bookVars, inputQueue, mdQueue, running, feeding, local, oldTop, lastBbo, cancels>>

(* The UDP publisher consumes market data (external to the engine). *)
ConsumeMd ==
  /\ mdQueue # <<>>
  /\ mdQueue' = Tail(mdQueue)
  /\ UNCHANGED <<bookVars, inputQueue, running, feeding, worker, count, total, local, flushed, oldTop, lastBbo, cancels>>

Worker ==
  CheckRunning \/ ProcessNew \/ ProcessMatch \/ ProcessFinish \/ ProcessCancel \/ EndBatch \/ EndDrain

Terminated == worker = "exited" /\ mdQueue = <<>> /\ UNCHANGED vars

Next ==
  \/ Start \/ StopFeeding \/ Stop
  \/ \E s \in Slots, o \in Incoming : SubmitOrder(s, o)
  \/ \E i \in Ids : SubmitCancel(i)
  \/ Worker
  \/ ConsumeMd
  \/ Terminated

Spec == Init /\ [][Next]_vars

(* The worker thread is scheduled; start() is called once. *)
FairSpec == Spec /\ WF_vars(Worker) /\ WF_vars(Start)

-----------------------------------------------------------------------------

Queued == {inputQueue[i].order : i \in {j \in DOMAIN inputQueue : inputQueue[j].type = "NEW_ORDER"}}

(***************************************************************************)
(* Subscribers never see a stale best price: between requests, the last    *)
(* BBO event the engine offered to the queue has the book's best prices.   *)
(***************************************************************************)
BboFeedCurrent ==
  agg = NoOrder /\ ~shutdown => lastBbo.bid = Top.bid /\ lastBbo.ask = Top.ask

(***************************************************************************)
(* Trades reach the feed in the order the book made them, and a gap is     *)
(* never silent: as long as no drop is counted, the trades still queued    *)
(* are the latest ones, without a hole (publish_trade, md_drops).          *)
(***************************************************************************)
TradesInOrder ==
  LET t == SelectSeq(mdQueue, LAMBDA e : e.type = "TRADE")
  IN  /\ \A i, j \in DOMAIN t : i < j => t[i].id < t[j].id
      /\ local.trades = nextTradeId - 1
      /\ local.drops = 0 => \A i \in DOMAIN t : t[i].id = nextTradeId - (Len(t) + 1 - i)

(***************************************************************************)
(* "Stop worker thread. Drains remaining orders before exit."              *)
(* (matching_engine.hpp:199): once the worker has exited, no request is    *)
(* left, no call is open and the published counters are final.             *)
(***************************************************************************)
DrainedOnExit ==
  worker = "exited" => inputQueue = <<>> /\ agg = NoOrder /\ flushed = local

(***************************************************************************)
(* The worker, the book and the batches implement the engine's contract:   *)
(* requests in queue order, one live order per id, slots given back as     *)
(* promised.                                                               *)
(***************************************************************************)
Contract == INSTANCE EngineContract
  WITH Symbols <- {"X"},
       ticket <- [s \in Slots |-> [id |-> order[s].id]],
       status <- [s \in Slots |-> order[s].status],
       open <- {s \in Slots \ free : order[s].remaining > 0},
       queue <- [x \in {"X"} |-> inputQueue],
       lookup <- [x \in {"X"} |-> lookup],
       adding <- [x \in {"X"} |-> agg]

ImplementsContract == Contract!Spec

(***************************************************************************)
(* What the engine tells the outside: prices of the feed are current, its  *)
(* trades in order with every drop counted, and nothing is left behind     *)
(* when the worker has exited.                                             *)
(***************************************************************************)
FeedExact == BboFeedCurrent /\ TradesInOrder /\ DrainedOnExit

(* Requests wait, or stop() waits for the worker. *)
Unfinished == inputQueue # <<>> \/ (~running /\ worker \notin {"none", "exited"})

(***************************************************************************)
(* worker_loop(): the worker gets done.  Every request put in the queue is *)
(* processed, across stop() too, and stop() returns, even when the last    *)
(* requests come while it drains.                                          *)
(***************************************************************************)
EngineProgress == Unfinished ~> ~Unfinished
=============================================================================
