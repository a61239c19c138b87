---------------------------- MODULE MCOrderBook -----------------------------
(***************************************************************************)
(* Order books small enough for TLC: limit orders at two prices, market    *)
(* orders at price 0 (docs/INPUT_VALIDATION.md: zero for market orders).   *)
(***************************************************************************)
EXTENDS OrderBook

MCOrder(i, side, type, p, qty) ==
  [id |-> i, side |-> side, type |-> type, price |-> p, remaining |-> qty, status |-> "PENDING"]

LimitOrders ==
  {MCOrder(i, side, "LIMIT", p, q) : i \in Ids, side \in Sides, p \in Prices \ {0}, q \in 1 .. MaxQty}

MarketOrders ==
  {MCOrder(i, side, "MARKET", 0, q) : i \in Ids, side \in Sides, q \in 1 .. MaxQty}

AllOrders == LimitOrders \cup MarketOrders

Renamings == Permutations(Slots) \cup Permutations(Ids)
=============================================================================
