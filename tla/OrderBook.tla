----------------------------- MODULE OrderBook ------------------------------
(***************************************************************************)
(* OrderBook (src/order_book.cpp, include/rtes/order_book.hpp): the book   *)
(* of one symbol, its price levels, the id lookup and the matching sweep.  *)
(* The owning matching engine is the only caller.                          *)
(*                                                                         *)
(* An add_order() call is several steps: the acceptance, one step per      *)
(* iteration of the sweep, and the end of the call.  The order records are *)
(* pool slots shared with the rest of the exchange.  The environment       *)
(* allocates and fills slots; inflight are those not yet given to the      *)
(* book.                                                                   *)
(***************************************************************************)
EXTENDS Integers, Sequences, FiniteSets, SequencesExt, FiniteSetsExt

CONSTANTS Slots,             \* the Order* addresses of the pool
          NoOrder,           \* nullptr
          Ids,               \* order ids
          Prices,            \* prices, 0 included: it also means "empty side"
          MaxQty,            \* bound on order quantities
          Incoming,          \* the orders clients send
          MaxAdds,           \* bound on the calls of add_order()
          MaxInflight,       \* bound on orders in flight
          CompactThreshold   \* COMPACT_THRESHOLD

ASSUME BookAssumption ==
  /\ NoOrder \notin Slots
  /\ Prices \subseteq Nat /\ 0 \in Prices
  /\ MaxQty \in Nat \ {0} /\ MaxAdds \in Nat /\ MaxInflight \in Nat
  /\ CompactThreshold \in Nat

VARIABLES order,         \* the pool's Order records
          free,          \* slots the pool may hand out
          inflight,      \* slots filled by the gateway, not yet in the book
          book,          \* bids_ ("BUY") and asks_ ("SELL")
          lookup,        \* order_lookup_
          nextTradeId,   \* next_trade_id_
          bbo,           \* bbo_snapshot_
          shutdown,      \* shutdown_requested_
          agg,           \* the order of the add_order() call in progress
          trade,         \* the trade just given to the callback
          adds,          \* history: how many add_order() calls were made
          stamp          \* history: when a live order was accepted

vars == <<order, free, inflight, book, lookup, nextTradeId, bbo, shutdown, agg, trade, adds, stamp>>

Sides == {"BUY", "SELL"}
Opposite(side) == IF side = "BUY" THEN "SELL" ELSE "BUY"

Orders == [id : Ids, side : Sides, type : {"LIMIT", "MARKET"}, price : Prices,
           remaining : 0 .. MaxQty,
           status : {"PENDING", "ACCEPTED", "REJECTED", "FILLED", "PARTIALLY_FILLED", "CANCELLED"}]

ASSUME IncomingAssumption ==
  Incoming \subseteq {o \in Orders : o.remaining > 0 /\ o.status = "PENDING"}

-----------------------------------------------------------------------------

(* FlatLevel: orders[head_..end) are live. *)
NewLevel(p) == [price |-> p, total |-> 0, head |-> 0, orders |-> <<>>]

LevelEmpty(l) == l.head >= Len(l.orders)

FrontOrder(l) == l.orders[l.head + 1]

(* Mutant of PushBack: a new order goes to the front of its level. *)
PushFront(l, s) == [l EXCEPT !.orders = <<s>> \o @, !.total = @ + order[s].remaining]

PushBack(l, s) == [l EXCEPT !.orders = Append(@, s), !.total = @ + order[s].remaining]

PopFront(l, qty) == [l EXCEPT !.total = @ - qty, !.head = @ + 1]

ReduceQuantity(l, qty) == [l EXCEPT !.total = @ - qty]

CompactLevel(l) ==
  IF l.head > CompactThreshold
    THEN [l EXCEPT !.orders = SubSeq(@, l.head + 1, Len(@)), !.head = 0]
    ELSE l

(***************************************************************************)
(* FlatPriceBook: levels sorted best first, found by binary search.        *)
(***************************************************************************)
Better(side, p, q) == IF side = "BUY" THEN p > q ELSE p < q

LowerBound(side, levels, p) ==
  CHOOSE k \in 1 .. Len(levels) + 1 :
    /\ \A i \in 1 .. k - 1 : Better(side, levels[i].price, p)
    /\ k <= Len(levels) => ~Better(side, levels[k].price, p)

HasLevel(side, levels, p) ==
  LET k == LowerBound(side, levels, p)
  IN  k <= Len(levels) /\ levels[k].price = p

FindOrInsert(side, levels, p) ==
  IF HasLevel(side, levels, p)
    THEN levels
    ELSE InsertAt(levels, LowerBound(side, levels, p), NewLevel(p))

RemoveLevel(side, levels, p) ==
  IF HasLevel(side, levels, p)
    THEN RemoveAt(levels, LowerBound(side, levels, p))
    ELSE levels

(* A level whose last live order is gone is removed. *)
RemoveIfEmpty(side, levels, k) ==
  IF LevelEmpty(levels[k]) THEN RemoveLevel(side, levels, levels[k].price) ELSE levels

BestPrice(levels) == IF levels = <<>> THEN 0 ELSE levels[1].price
BestQuantity(levels) == IF levels = <<>> THEN 0 ELSE levels[1].total

TopOfBook(b) ==
  [bid |-> BestPrice(b["BUY"]), bidQty |-> BestQuantity(b["BUY"]),
   ask |-> BestPrice(b["SELL"]), askQty |-> BestQuantity(b["SELL"])]

UpdateBbo == bbo' = TopOfBook(book')

(* get_depth(): at most maxLevels levels of a side, best first, without the empty ones. *)
GetDepth(side, maxLevels) ==
  LET shown == SelectSeq(book[side], LAMBDA l : ~LevelEmpty(l))
  IN  [i \in 1 .. Min({maxLevels, Len(shown)}) |->
         [price |-> shown[i].price, qty |-> shown[i].total, count |-> Len(shown[i].orders) - shown[i].head]]

Deallocate(S) ==
  /\ free' = free \cup S
  /\ stamp' = [s \in Slots |-> IF s \in S THEN 0 ELSE stamp[s]]

NoTrade == [id |-> 0, aggressor |-> NoOrder, passive |-> NoOrder, qty |-> 0, price |-> 0]

Init ==
  /\ order \in [Slots -> {[id |-> CHOOSE i \in Ids : TRUE, side |-> "BUY", type |-> "LIMIT",
                           price |-> 0, remaining |-> 0, status |-> "PENDING"]}]
  /\ free = Slots
  /\ inflight = {}
  /\ book = [side \in Sides |-> <<>>]
  /\ lookup = [i \in Ids |-> NoOrder]
  /\ nextTradeId = 1
  /\ bbo = TopOfBook(book)
  /\ shutdown = FALSE
  /\ agg = NoOrder
  /\ trade = NoTrade
  /\ adds = 0
  /\ stamp = [s \in Slots |-> 0]

(* Environment: the gateway allocates a slot and fills it. *)
Submit(s, o) ==
  /\ s \in free
  /\ Cardinality(inflight) < MaxInflight
  /\ adds + Cardinality(inflight) < MaxAdds
  /\ free' = free \ {s}
  /\ inflight' = inflight \cup {s}
  /\ order' = [order EXCEPT ![s] = o]
  /\ UNCHANGED <<book, lookup, nextTradeId, bbo, shutdown, agg, trade, adds, stamp>>

Refusable(s) == shutdown \/ order[s].remaining = 0 \/ lookup[order[s].id] # NoOrder

(* add_order() up to the sweep. *)
Accept(s) ==
  /\ agg = NoOrder
  /\ s \in inflight
  /\ ~Refusable(s)
  /\ lookup' = [lookup EXCEPT ![order[s].id] = s]
  /\ agg' = s
  /\ inflight' = inflight \ {s}
  /\ adds' = adds + 1
  /\ stamp' = [stamp EXCEPT ![s] = adds + 1]
  /\ UNCHANGED <<order, free, book, nextTradeId, bbo, shutdown, trade>>

(* add_order() returns an error: the engine rejects and frees the order. *)
Refuse(s) ==
  /\ agg = NoOrder
  /\ s \in inflight
  /\ Refusable(s)
  /\ order' = [order EXCEPT ![s].status = "REJECTED"]
  /\ Deallocate({s})
  /\ inflight' = inflight \ {s}
  /\ adds' = adds + 1
  /\ UNCHANGED <<book, lookup, nextTradeId, bbo, shutdown, agg, trade>>

Crosses(o, p) ==
  \/ o.type = "MARKET"
  \/ IF o.side = "BUY" THEN o.price >= p ELSE o.price <= p

(* The condition of the sweep loop. *)
Matching ==
  LET levels == book[Opposite(order[agg].side)]
  IN  /\ order[agg].remaining > 0
      /\ levels # <<>>
      /\ Crosses(order[agg], levels[1].price)

StatusAfter(remaining) == IF remaining = 0 THEN "FILLED" ELSE "PARTIALLY_FILLED"

(* execute_trade() on the two order records. *)
ExecuteTrade(a, p, qty) ==
  LET ra == order[a].remaining - qty
      rp == order[p].remaining - qty
  IN  order' = [order EXCEPT ![a].remaining = ra, ![a].status = StatusAfter(ra),
                             ![p].remaining = rp, ![p].status = StatusAfter(rp)]

(* The sweep drops an empty level and looks at the next one. *)
DropLevel(side) ==
  /\ book' = [book EXCEPT ![side] = RemoveLevel(side, @, @[1].price)]
  /\ UNCHANGED <<order, free, stamp, lookup, nextTradeId, trade>>

(* The sweep trades with the front order of the best level. *)
TradeWithFront(side) ==
  /\ LET level == book[side][1]
         p == FrontOrder(level)
         qty == Min({order[agg].remaining, order[p].remaining})
         filled == qty = order[p].remaining
         after == [book[side] EXCEPT ![1] = IF filled THEN PopFront(level, qty)
                                                      ELSE ReduceQuantity(level, qty)]
     IN  /\ ExecuteTrade(agg, p, qty)
         /\ book' = [book EXCEPT ![side] = RemoveIfEmpty(side, after, 1)]
         /\ trade' = [id |-> nextTradeId, aggressor |-> agg, passive |-> p,
                      qty |-> qty, price |-> level.price]
         /\ IF filled
              THEN Deallocate({p}) /\ lookup' = [lookup EXCEPT ![order[p].id] = NoOrder]
              ELSE UNCHANGED <<free, stamp, lookup>>
  /\ nextTradeId' = nextTradeId + 1

(* One iteration of the sweep over the opposite side. *)
Match ==
  /\ agg # NoOrder
  /\ Matching
  /\ LET side == Opposite(order[agg].side)
     IN  IF LevelEmpty(book[side][1]) THEN DropLevel(side) ELSE TradeWithFront(side)
  /\ UNCHANGED <<inflight, bbo, shutdown, agg, adds>>

(* add_to_book(): the remainder rests, whatever the type of the order. *)
Rest(s) ==
  LET side == order[s].side
      p == order[s].price
      levels == FindOrInsert(side, book[side], p)
  IN  /\ book' = [book EXCEPT ![side] = [levels EXCEPT ![LowerBound(side, levels, p)] = PushBack(@, s)]]
      /\ order' = [order EXCEPT ![s].status = "ACCEPTED"]

(* The end of add_order(): the sweep is over. *)
FinishAdd ==
  /\ agg # NoOrder
  /\ ~Matching
  /\ IF order[agg].remaining > 0
       THEN Rest(agg) /\ UNCHANGED lookup
       ELSE lookup' = [lookup EXCEPT ![order[agg].id] = NoOrder] /\ UNCHANGED <<book, order>>
  /\ UpdateBbo
  /\ agg' = NoOrder
  /\ trade' = NoTrade
  /\ UNCHANGED <<free, inflight, nextTradeId, shutdown, adds, stamp>>

(* remove_from_book(): the linear scan starts at the head cursor. *)
RemoveFromBook(s) ==
  LET side == order[s].side
      levels == book[side]
      k == LowerBound(side, levels, order[s].price)
      live == {i \in levels[k].head + 1 .. Len(levels[k].orders) : levels[k].orders[i] = s}
      after == [levels EXCEPT ![k].orders = RemoveAt(@, Min(live)),
                              ![k].total = @ - order[s].remaining]
  IN  IF HasLevel(side, levels, order[s].price) /\ live # {}
        THEN book' = [book EXCEPT ![side] = RemoveIfEmpty(side, after, k)]
        ELSE UNCHANGED book

(* Mutant of CancelOrder: the BBO snapshot is not refreshed. *)
CancelKeepsBbo(i) ==
  /\ agg = NoOrder
  /\ ~shutdown
  /\ lookup[i] # NoOrder
  /\ RemoveFromBook(lookup[i])
  /\ lookup' = [lookup EXCEPT ![i] = NoOrder]
  /\ order' = [order EXCEPT ![lookup[i]].status = "CANCELLED"]
  /\ Deallocate({lookup[i]})
  /\ UNCHANGED <<bbo, inflight, nextTradeId, shutdown, agg, trade, adds>>

(* cancel_order() of a known id; an unknown one changes nothing. *)
CancelOrder(i) ==
  /\ agg = NoOrder
  /\ ~shutdown
  /\ lookup[i] # NoOrder
  /\ RemoveFromBook(lookup[i])
  /\ lookup' = [lookup EXCEPT ![i] = NoOrder]
  /\ order' = [order EXCEPT ![lookup[i]].status = "CANCELLED"]
  /\ Deallocate({lookup[i]})
  /\ UpdateBbo
  /\ UNCHANGED <<inflight, nextTradeId, shutdown, agg, trade, adds>>

(* compact() and prune(), between calls. *)
Maintain ==
  /\ agg = NoOrder
  /\ book' = [side \in Sides |->
               LET compacted == [i \in DOMAIN book[side] |-> CompactLevel(book[side][i])]
               IN  SelectSeq(compacted, LAMBDA l : ~LevelEmpty(l))]
  /\ UNCHANGED <<order, free, inflight, lookup, nextTradeId, bbo, shutdown, agg, trade, adds, stamp>>

(* shutdown(): every known order is cancelled; the BBO snapshot stays. *)
Shutdown ==
  LET known == {lookup[i] : i \in Ids} \ {NoOrder}
  IN  /\ agg = NoOrder
      /\ shutdown' = TRUE
      /\ order' = [s \in Slots |-> IF s \in known THEN [order[s] EXCEPT !.status = "CANCELLED"]
                                                  ELSE order[s]]
      /\ Deallocate(known)
      /\ lookup' = [i \in Ids |-> NoOrder]
      /\ book' = [side \in Sides |-> <<>>]
      /\ UNCHANGED <<inflight, nextTradeId, bbo, agg, trade, adds>>

Next ==
  \/ \E s \in Slots, o \in Incoming : Submit(s, o)
  \/ \E s \in Slots : Accept(s) \/ Refuse(s)
  \/ Match
  \/ FinishAdd
  \/ \E i \in Ids : CancelOrder(i)
  \/ Maintain
  \/ Shutdown

Spec == Init /\ [][Next]_vars

-----------------------------------------------------------------------------

(* The live orders of a level, in time order. *)
Live(l) == SubSeq(l.orders, l.head + 1, Len(l.orders))

(* The resting orders of one side, by level and time. *)
Queue(side) == FlattenSeq([i \in DOMAIN book[side] |-> Live(book[side][i])])

Resting == ToSet(Queue("BUY")) \cup ToSet(Queue("SELL"))

(***************************************************************************)
(* The three views of the book agree.  A resting order is in exactly one   *)
(* place, on its own side, in the level of its price, with something left  *)
(* to trade, and order_lookup_ finds it; order_lookup_ finds nothing else  *)
(* but the order being added.                                              *)
(***************************************************************************)
ViewsAgree ==
  /\ \A side \in Sides : \A l \in ToSet(book[side]) : \A s \in ToSet(Live(l)) :
       order[s].side = side /\ order[s].price = l.price /\ order[s].remaining > 0
  /\ IsInjective(Queue("BUY") \o Queue("SELL"))
  /\ {lookup[i] : i \in Ids} \ {NoOrder} = Resting \cup ({agg} \ {NoOrder})
  /\ \A i \in Ids : lookup[i] # NoOrder => order[lookup[i]].id = i

(***************************************************************************)
(* Levels are strictly sorted, best first, none is empty, and the cached   *)
(* total of each is the sum of what its live orders have left.             *)
(***************************************************************************)
LevelsExact ==
  \A side \in Sides :
    /\ \A i, j \in DOMAIN book[side] : i < j => Better(side, book[side][i].price, book[side][j].price)
    /\ \A l \in ToSet(book[side]) :
         /\ ~LevelEmpty(l)
         /\ l.total = FoldSeq(LAMBDA s, sum : order[s].remaining + sum, 0, Live(l))

(* The book is never crossed: every bid is below every ask. *)
NotCrossed ==
  \A b \in ToSet(book["BUY"]), a \in ToSet(book["SELL"]) : b.price < a.price

(***************************************************************************)
(* No dangling order: a slot given back to the pool is not in the book,    *)
(* not in order_lookup_, and is not the order being matched.               *)
(***************************************************************************)
NoDanglingOrder ==
  free \cap (Resting \cup inflight \cup {lookup[i] : i \in Ids} \cup {agg}) = {}

(***************************************************************************)
(* Price-time priority: the passive order of a trade is the best of its    *)
(* side; at the same price it was accepted first.                          *)
(***************************************************************************)
PriceTimePriority ==
  [][nextTradeId' # nextTradeId =>
       LET side == Opposite(order[agg].side)
           p == trade'.passive
       IN  /\ trade'.price = order[p].price
           /\ \A s \in ToSet(Queue(side)) \ {p} :
                \/ Better(side, order[p].price, order[s].price)
                \/ order[p].price = order[s].price /\ stamp[p] < stamp[s]]_vars

RestingAt(side, p) == {s \in ToSet(Queue(side)) : order[s].price = p}

Quantity(S) == MapThenSumSet(LAMBDA s : order[s].remaining, S)

(***************************************************************************)
(* Between calls the BBO snapshot shows the best price of each side and    *)
(* the quantity resting there (until shutdown(), which leaves it alone).   *)
(***************************************************************************)
BboExact ==
  agg = NoOrder /\ ~shutdown =>
    /\ Queue("BUY") # <<>> => bbo.bid = Max({order[s].price : s \in ToSet(Queue("BUY"))})
    /\ Queue("SELL") # <<>> => bbo.ask = Min({order[s].price : s \in ToSet(Queue("SELL"))})
    /\ bbo.bidQty = Quantity(RestingAt("BUY", bbo.bid))
    /\ bbo.askQty = Quantity(RestingAt("SELL", bbo.ask))

(***************************************************************************)
(* get_depth(), at any moment: its entries are the best prices at which    *)
(* orders rest, best first and as many as asked for, each with the         *)
(* quantity and the number of the orders that still rest there; entries    *)
(* popped but not yet compacted are not counted.                           *)
(***************************************************************************)
DepthExact ==
  \A side \in Sides, n \in 0 .. Cardinality(Prices) :
    LET depth == GetDepth(side, n)
        prices == {order[s].price : s \in ToSet(Queue(side))}
    IN  /\ Len(depth) = Min({n, Cardinality(prices)})
        /\ \A i \in DOMAIN depth :
             /\ Cardinality({p \in prices : Better(side, p, depth[i].price)}) = i - 1
             /\ depth[i].qty = Quantity(RestingAt(side, depth[i].price))
             /\ depth[i].count = Cardinality(RestingAt(side, depth[i].price))

(***************************************************************************)
(* After any mix of orders, partial fills, cancels, compactions and        *)
(* shutdown(): the levels, order_lookup_, the cached totals, the snapshot  *)
(* and the depth agree, the book is not crossed, and a freed order is      *)
(* unreachable.                                                            *)
(***************************************************************************)
BookConsistent == ViewsAgree /\ LevelsExact /\ NotCrossed /\ NoDanglingOrder /\ BboExact /\ DepthExact

-----------------------------------------------------------------------------

(***************************************************************************)
(* "Pool returns on fill/cancel" (docs/ARCHITECTURE.md:38): between calls  *)
(* an order that is neither in flight nor resting is back in the pool.     *)
(* Violated: a fully filled aggressor is never given back.                 *)
(***************************************************************************)
PoolReturnsOnFill == agg = NoOrder => Slots = free \cup inflight \cup Resting

(***************************************************************************)
(* "Market orders: sweep until filled or book empty" and only for limit    *)
(* orders "remainder rests in book" (order_book.hpp:351-352).  Violated:   *)
(* add_order() rests the remainder of a market order too.                  *)
(***************************************************************************)
MarketNeverRests == \A s \in Resting : order[s].type # "MARKET"
=============================================================================
