--------------------------- MODULE MCRiskManager ---------------------------
(* Clients, orders and limits small enough for TLC. *)
EXTENDS RiskManager, TLC

Order(i, c, x, q, p) == [id |-> i, client |-> c, symbol |-> x, quantity |-> q, price |-> p]

SomeReference == [x \in Symbols |-> 10]

(* Ids unique across clients: client 1 has ids 1 and 2, client 2 has id 3. *)
Owner == <<1, 1, 2>>

OwnTickets ==
  {Order(i, Owner[i], x, 1, 10) : i \in Ids, x \in Symbols}
    \cup {Order(1, 1, "unlisted", 1, 10), Order(2, 1, "X", 1, 20)}

OwnCancels == {[id |-> i, client |-> c] : i \in Ids, c \in Clients}

(* A cancel of an own order, and one of somebody else's. *)
SomeCancels == {[id |-> 1, client |-> 1], [id |-> 3, client |-> 1], [id |-> 3, client |-> 2]}

(* Ids that are unique per client only. *)
SharedTickets == {Order(1, c, x, 1, 10) : c \in Clients, x \in Symbols}

Renamings == Permutations(Slots)
=============================================================================
