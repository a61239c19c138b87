-------------------------- MODULE MCMatchingEngine --------------------------
(* Engines small enough for TLC: limit orders at the given prices. *)
EXTENDS MatchingEngine

MCOrder(i, side, p, qty) ==
  [id |-> i, side |-> side, type |-> "LIMIT", price |-> p, remaining |-> qty, status |-> "PENDING"]

(* Sells of every quantity, and buys of the largest: either side may be filled in part. *)
LimitOrders ==
  {MCOrder(i, "SELL", p, q) : i \in Ids, p \in Prices \ {0}, q \in 1 .. MaxQty} \cup
  {MCOrder(i, "BUY", p, MaxQty) : i \in Ids, p \in Prices \ {0}}
=============================================================================
