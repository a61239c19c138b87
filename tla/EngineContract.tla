--------------------------- MODULE EngineContract ---------------------------
(***************************************************************************)
(* What the matching engines promise to the rest of the exchange, without  *)
(* prices, quantities and batches: requests are served in queue order, an  *)
(* order id is live at most once per symbol, a passive order that fills    *)
(* and an order that is cancelled or refused go back to the pool.          *)
(* MatchingEngine implements it for one symbol; Exchange composes it with  *)
(* the gateway and the risk manager.                                       *)
(***************************************************************************)
EXTENDS Sequences, SequencesExt

CONSTANTS Slots,    \* the Order* addresses of the pool
          NoOrder,  \* nullptr
          Ids,      \* order ids
          Symbols   \* symbols that have an engine

VARIABLES ticket,   \* the fields of an Order that never change: id among them
          status,   \* Order::status
          open,     \* orders with remaining_quantity > 0
          free,     \* slots the pool may hand out
          queue,    \* input_queue_ of each engine
          lookup,   \* order_lookup_ of each book
          adding    \* the order of the add_order() call in progress

contractVars == <<ticket, status, open, free, queue, lookup, adding>>

Init ==
  /\ open = {}
  /\ free = Slots
  /\ queue = [x \in Symbols |-> <<>>]
  /\ lookup = [x \in Symbols |-> [i \in Ids |-> NoOrder]]
  /\ adding = [x \in Symbols |-> NoOrder]

Resting(x) == {lookup[x][i] : i \in Ids} \ {NoOrder, adding[x]}

(* The engine is between two requests and takes the next one. *)
Take(x, type) ==
  /\ adding[x] = NoOrder
  /\ queue[x] # <<>>
  /\ Head(queue[x]).type = type
  /\ queue' = [queue EXCEPT ![x] = Tail(@)]

(* add_order() of a new order begins. *)
AcceptNew(x) ==
  /\ Take(x, "NEW_ORDER")
  /\ LET s == Head(queue[x]).order
     IN  /\ s \in open
         /\ lookup[x][ticket[s].id] = NoOrder
         /\ lookup' = [lookup EXCEPT ![x][ticket[s].id] = s]
         /\ adding' = [adding EXCEPT ![x] = s]
  /\ UNCHANGED <<ticket, status, open, free>>

(* An order whose id is live, or with nothing to trade, is refused and freed. *)
RefuseNew(x) ==
  /\ Take(x, "NEW_ORDER")
  /\ LET s == Head(queue[x]).order
     IN  /\ s \notin open \/ lookup[x][ticket[s].id] # NoOrder
         /\ status' = [status EXCEPT ![s] = "REJECTED"]
         /\ free' = free \cup {s}
         /\ open' = open \ {s}
  /\ UNCHANGED <<ticket, lookup, adding>>

(* The order being added trades with a resting one; one of them is filled. *)
Trade(x, p) ==
  LET a == adding[x]
  IN  /\ a \in open
      /\ p \in Resting(x)
      /\ \E filled \in (SUBSET {a, p}) \ {{}} :
           /\ status' = [status EXCEPT ![a] = IF a \in filled THEN "FILLED" ELSE "PARTIALLY_FILLED",
                                       ![p] = IF p \in filled THEN "FILLED" ELSE "PARTIALLY_FILLED"]
           /\ open' = open \ filled
           /\ free' = IF p \in filled THEN free \cup {p} ELSE free
           /\ lookup' = IF p \in filled THEN [lookup EXCEPT ![x][ticket[p].id] = NoOrder] ELSE lookup
      /\ UNCHANGED <<ticket, queue, adding>>

(* add_order() ends: what is left rests; a filled order is forgotten, not freed. *)
FinishNew(x) ==
  LET a == adding[x]
  IN  /\ a # NoOrder
      /\ adding' = [adding EXCEPT ![x] = NoOrder]
      /\ IF a \in open
           THEN status' = [status EXCEPT ![a] = "ACCEPTED"] /\ UNCHANGED lookup
           ELSE lookup' = [lookup EXCEPT ![x][ticket[a].id] = NoOrder] /\ UNCHANGED status
      /\ UNCHANGED <<ticket, open, free, queue>>

(* Mutant of CancelLive: the freed order stays in order_lookup_. *)
CancelLiveKeepsLookup(x) ==
  /\ Take(x, "CANCEL_ORDER")
  /\ LET s == lookup[x][Head(queue[x]).id]
     IN  /\ s # NoOrder
         /\ status' = [status EXCEPT ![s] = "CANCELLED"]
         /\ free' = free \cup {s}
         /\ open' = open \ {s}
  /\ UNCHANGED <<ticket, lookup, adding>>

(* A cancel by id: whose request it is does not matter. *)
CancelLive(x) ==
  /\ Take(x, "CANCEL_ORDER")
  /\ LET i == Head(queue[x]).id
         s == lookup[x][i]
     IN  /\ s # NoOrder
         /\ status' = [status EXCEPT ![s] = "CANCELLED"]
         /\ free' = free \cup {s}
         /\ open' = open \ {s}
         /\ lookup' = [lookup EXCEPT ![x][i] = NoOrder]
  /\ UNCHANGED <<ticket, adding>>

CancelUnknown(x) ==
  /\ Take(x, "CANCEL_ORDER")
  /\ lookup[x][Head(queue[x]).id] = NoOrder
  /\ UNCHANGED <<ticket, status, open, free, lookup, adding>>

Engine(x) ==
  \/ AcceptNew(x) \/ RefuseNew(x) \/ FinishNew(x) \/ CancelLive(x) \/ CancelUnknown(x)
  \/ \E p \in Slots : Trade(x, p)

(* What the others may do: fill free slots and append requests. *)
Others ==
  /\ UNCHANGED <<lookup, adding>>
  /\ \A x \in Symbols : IsPrefix(queue[x], queue'[x])
  /\ free' \subseteq free
  /\ \A s \in Slots \ free :
       ticket'[s] = ticket[s] /\ status'[s] = status[s] /\ (s \in open' <=> s \in open)

Spec == Init /\ [][Others \/ \E x \in Symbols : Engine(x)]_contractVars
=============================================================================
