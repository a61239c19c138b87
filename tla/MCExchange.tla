----------------------------- MODULE MCExchange -----------------------------
(* The exchange with the clients and orders of MCRiskManager. *)
EXTENDS Exchange, MCRiskManager

(* Each client has an id of its own, for either symbol. *)
TradeTickets == {Order(i, Owner[i], x, 1, 10) : i \in Ids, x \in Symbols}
=============================================================================
