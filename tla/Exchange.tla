------------------------------ MODULE Exchange ------------------------------
(***************************************************************************)
(* Exchange (src/exchange.cpp) as main() runs it: the gateway feeds the    *)
(* risk manager, the risk manager feeds one engine per symbol, all of them *)
(* share the order pool.  At shutdown the gateway stops first, then the    *)
(* risk manager drains, and only then do the engines drain.                *)
(*                                                                         *)
(* The engines are their contract, which MatchingEngine implements.        *)
(***************************************************************************)
EXTENDS RiskManager

VARIABLES lookup,   \* order_lookup_ of each book
          adding,   \* the order of the add_order() call in progress
          phase,    \* how far the shutdown has come
          exited    \* engines whose worker has exited

Engines == INSTANCE EngineContract

exchangeVars == <<riskVars, lookup, adding, phase, exited>>

(* What the engines never touch. *)
riskOnly == <<riskQueue, client, index, current, now, requests, admitted, routed>>

Init ==
  /\ RiskInit
  /\ lookup = [x \in Symbols |-> [i \in Ids |-> NoOrder]]
  /\ adding = [x \in Symbols |-> NoOrder]
  /\ phase = "RUNNING"
  /\ exited = {}

(* The gateway's thread, until it is stopped. *)
Gateway ==
  /\ phase = "RUNNING"
  /\ \/ \E s \in Slots, t \in Tickets : SubmitOrder(s, t)
     \/ \E r \in Cancels : SubmitCancel(r)
  /\ UNCHANGED <<lookup, adding, phase, exited>>

Risk ==
  /\ phase \in {"RUNNING", "STOPPING"}
  /\ RiskThread
  /\ UNCHANGED <<lookup, adding, phase, exited>>

Engine(x) ==
  /\ x \notin exited
  /\ Engines!Engine(x)
  /\ UNCHANGED <<riskOnly, phase, exited>>

(* main() has stopped the gateway and calls stop(). *)
Stop ==
  /\ phase = "RUNNING"
  /\ phase' = "STOPPING"
  /\ UNCHANGED <<riskVars, lookup, adding, exited>>

(* Mutant of RiskExit: the thread leaves with requests in its queue. *)
RiskExitEarly ==
  /\ phase = "STOPPING"
  /\ current = NoOrder
  /\ phase' = "RISK_STOPPED"
  /\ UNCHANGED <<riskVars, lookup, adding, exited>>

(* The risk thread has found its queue empty, and is joined. *)
RiskExit ==
  /\ phase = "STOPPING"
  /\ riskQueue = <<>> /\ current = NoOrder
  /\ phase' = "RISK_STOPPED"
  /\ UNCHANGED <<riskVars, lookup, adding, exited>>

(* An engine told to stop has found its queue empty, and is joined. *)
EngineExit(x) ==
  /\ phase = "RISK_STOPPED"
  /\ x \notin exited
  /\ queue[x] = <<>> /\ adding[x] = NoOrder
  /\ exited' = exited \cup {x}
  /\ UNCHANGED <<riskVars, lookup, adding, phase>>

Stopped ==
  /\ phase = "RISK_STOPPED" /\ exited = Symbols
  /\ phase' = "STOPPED"
  /\ UNCHANGED <<riskVars, lookup, adding, exited>>

Done == phase = "STOPPED" /\ UNCHANGED exchangeVars

Next ==
  \/ Gateway \/ Risk
  \/ \E x \in Symbols : Engine(x) \/ EngineExit(x)
  \/ Stop \/ RiskExit \/ Stopped \/ Done

Spec == Init /\ [][Next]_exchangeVars

(* Every worker thread is scheduled, and stop() goes on once it is called. *)
FairSpec ==
  /\ Spec
  /\ WF_exchangeVars(Risk)
  /\ \A x \in Symbols : WF_exchangeVars(Engine(x)) /\ WF_exchangeVars(EngineExit(x))
  /\ WF_exchangeVars(RiskExit) /\ WF_exchangeVars(Stopped)

-----------------------------------------------------------------------------

TypeOK ==
  /\ RiskTypeOK
  /\ lookup \in [Symbols -> [Ids -> Slots \cup {NoOrder}]]
  /\ adding \in [Symbols -> Slots \cup {NoOrder}]
  /\ phase \in {"RUNNING", "STOPPING", "RISK_STOPPED", "STOPPED"}
  /\ exited \subseteq Symbols

OrdersIn(q) == {k \in DOMAIN q : q[k].type = "NEW_ORDER"}

(* How many times a slot is in each of the places an order can be. *)
Places(s) ==
  Cardinality({k \in OrdersIn(riskQueue) : riskQueue[k].order = s})
    + Cardinality({<<x, k>> \in Symbols \X (1 .. EngineCapacity) :
                     k \in OrdersIn(queue[x]) /\ queue[x][k].order = s})
    + Cardinality({<<x, i>> \in Symbols \X Ids : lookup[x][i] = s})
    + (IF s \in free THEN 1 ELSE 0)

(***************************************************************************)
(* The pool is shared by the gateway, the risk thread and all engines, yet *)
(* an order is never in two hands: a slot is free, or in one queue, or in  *)
(* one book (or leaked).                                                   *)
(***************************************************************************)
OneHolder == \A s \in Slots : Places(s) <= 1

(***************************************************************************)
(* With ids unique in the exchange, an order is found in the book of its   *)
(* own symbol, and only a cancel of its own client takes it out: the       *)
(* ownership check of the risk thread still holds when the engine gets to  *)
(* the request, which it serves without looking at the client.             *)
(***************************************************************************)
CancelByOwner ==
  [][\A x \in Symbols, i \in Ids :
       LET s == lookup[x][i]
       IN  s # NoOrder /\ status[s] # "CANCELLED" /\ status'[s] = "CANCELLED"
             => /\ ticket[s].symbol = x
                /\ Head(queue[x]) = Cancel(i, ticket[s].client)]_exchangeVars

(***************************************************************************)
(* stop() loses nothing: when the exchange is STOPPED, all requests the    *)
(* gateway acknowledged have been through the risk checks and the engines. *)
(***************************************************************************)
DrainedOnStop ==
  phase = "STOPPED" => /\ riskQueue = <<>> /\ current = NoOrder
                       /\ \A x \in Symbols : queue[x] = <<>> /\ adding[x] = NoOrder

(***************************************************************************)
(* Every acknowledged order gets its answer: it leaves the queues for a    *)
(* book, a fill or a rejection, also when it was sent just before stop().  *)
(***************************************************************************)
EveryOrderDecided ==
  \A s \in Slots :
    (\E k \in OrdersIn(riskQueue) : riskQueue[k].order = s)
      ~> (\/ status[s] \in {"REJECTED", "FILLED", "PARTIALLY_FILLED", "CANCELLED"}
          \/ \E x \in Symbols, i \in Ids : lookup[x][i] = s)

(* stop() returns: the joins of the risk thread and of the engines end. *)
StopCompletes == phase = "STOPPING" ~> phase = "STOPPED"

(***************************************************************************)
(* The exchange as a whole: queues within their bounds, each order in one  *)
(* hand, and nothing left in flight when stop() is done.                   *)
(***************************************************************************)
OrdersAccounted == TypeOK /\ OneHolder /\ DrainedOnStop

(***************************************************************************)
(* The exchange gets on: every acknowledged order is decided, and stop()   *)
(* completes.                                                              *)
(***************************************************************************)
ExchangeProgress == EveryOrderDecided /\ StopCompletes

-----------------------------------------------------------------------------

(***************************************************************************)
(* "Client must own the order" (API_SPECIFICATION.md:125).  Violated when  *)
(* ids are unique per client only, as API_SPECIFICATION.md:78 has it: the  *)
(* index of the risk manager and the books are keyed by the id alone.      *)
(***************************************************************************)
OwnerCancels ==
  [][\A x \in Symbols, i \in Ids :
       LET s == lookup[x][i]
       IN  s # NoOrder /\ status[s] # "CANCELLED" /\ status'[s] = "CANCELLED"
             => Head(queue[x]).client = ticket[s].client]_exchangeVars
=============================================================================
