---------------------------- MODULE RiskManager -----------------------------
(***************************************************************************)
(* RiskManager (src/risk_manager.cpp): one thread that takes requests from *)
(* the gateway's queue, checks new orders against the limits of their      *)
(* client, and routes orders and cancels to the engine of the symbol.      *)
(*                                                                         *)
(* An approved order is two steps, because the engine may run in between:  *)
(* the push to the engine's queue, and the status written after it.        *)
(***************************************************************************)
EXTENDS Integers, Sequences, FiniteSets, SequencesExt

CONSTANTS Slots, NoOrder, Ids, Clients,
          Symbols,         \* symbol_configs_; each has an engine
          NoSymbol,        \* absence from order_symbol_index_
          Tickets,         \* the orders clients send
          Cancels,         \* the cancels clients send: [id, client]
          MaxOrderSize,    \* max_order_size
          MaxPerWindow,    \* max_orders_per_second
          Window,          \* RATE_LIMIT_WINDOW_NS, in ticks
          MaxNotional,     \* max_notional_scaled_
          Word,            \* 2^64, the range of the notional arithmetic
          Reference,       \* reference_prices_; 0 when there is none
          CollarPct,       \* price_collar_pct
          QueueCapacity,   \* RISK_QUEUE_CAPACITY
          EngineCapacity,  \* QUEUE_CAPACITY of the engines
          MaxTime,         \* bound on the clock
          MaxRequests      \* bound on the requests of the gateway

ASSUME RiskAssumption ==
  /\ NoOrder \notin Slots /\ NoSymbol \notin Symbols
  /\ {MaxOrderSize, MaxPerWindow, Window, MaxNotional, MaxTime, MaxRequests} \subseteq Nat
  /\ {Word, QueueCapacity, EngineCapacity} \subseteq Nat \ {0}
  /\ MaxNotional < Word
  /\ CollarPct \in 0 .. 100

VARIABLES ticket,     \* the constant fields of the Order records
          status,     \* Order::status
          open,       \* orders with remaining_quantity > 0
          free,       \* slots the pool may hand out
          queue,      \* input_queue_ of each engine
          riskQueue,  \* input_queue_
          client,     \* client_states_
          index,      \* order_symbol_index_
          current,    \* the order whose status is still to be written
          now,        \* now_timestamp()
          requests,   \* history: how many requests the gateway made
          admitted,   \* history: when each client passed the rate limit
          routed      \* history: the notional routed for each client, unbounded

riskVars == <<ticket, status, open, free, queue, riskQueue, client, index, current, now,
              requests, admitted, routed>>

NewOrder(s) == [type |-> "NEW_ORDER", order |-> s]
Cancel(i, c) == [type |-> "CANCEL_ORDER", id |-> i, client |-> c]

RiskInit ==
  /\ ticket \in [Slots -> {CHOOSE t \in Tickets : TRUE}]
  /\ status = [s \in Slots |-> "PENDING"]
  /\ open = {} /\ free = Slots
  /\ queue = [x \in Symbols |-> <<>>]
  /\ riskQueue = <<>>
  /\ client = [c \in Clients |-> [known |-> FALSE, active |-> {}, exposure |-> 0,
                                  inWindow |-> 0, windowStart |-> 0]]
  /\ index = [i \in Ids |-> NoSymbol]
  /\ current = NoOrder
  /\ now = 0 /\ requests = 0
  /\ admitted = [c \in Clients |-> <<>>]
  /\ routed = [c \in Clients |-> 0]

-----------------------------------------------------------------------------

CanSubmit == Len(riskQueue) < QueueCapacity /\ requests < MaxRequests

(* The gateway's handle_new_order(): allocate, fill, submit_order(). *)
SubmitOrder(s, t) ==
  /\ CanSubmit
  /\ s \in free
  /\ free' = free \ {s}
  /\ ticket' = [ticket EXCEPT ![s] = t]
  /\ status' = [status EXCEPT ![s] = "PENDING"]
  /\ open' = IF t.quantity > 0 THEN open \cup {s} ELSE open
  /\ riskQueue' = Append(riskQueue, NewOrder(s))
  /\ requests' = requests + 1
  /\ UNCHANGED <<queue, client, index, current, now, admitted, routed>>

(* The gateway's handle_cancel_order(): submit_cancel(). *)
SubmitCancel(r) ==
  /\ CanSubmit
  /\ riskQueue' = Append(riskQueue, Cancel(r.id, r.client))
  /\ requests' = requests + 1
  /\ UNCHANGED <<ticket, status, open, free, queue, client, index, current, now, admitted, routed>>

Tick ==
  /\ now < MaxTime
  /\ now' = now + 1
  /\ UNCHANGED <<ticket, status, open, free, queue, riskQueue, client, index, current, requests,
                 admitted, routed>>

-----------------------------------------------------------------------------

(* get_or_create_client() *)
ClientOf(t) ==
  LET c == client[t.client]
  IN  IF c.known THEN c ELSE [c EXCEPT !.known = TRUE, !.windowStart = now]

(* Mutant of RollWindow: the window is not moved, so it is always expired. *)
RollWindowInPlace(c) == IF now - c.windowStart >= Window THEN [c EXCEPT !.inWindow = 0] ELSE c

(* check_rate_limit() resets a window that has expired. *)
RollWindow(c) ==
  IF now - c.windowStart >= Window
    THEN [c EXCEPT !.inWindow = 0, !.windowStart = now]
    ELSE c

(* calculate_notional_int() *)
Notional(t) == (t.price * t.quantity) % Word

(* check_price_collar_int() *)
WithinCollar(t) ==
  LET ref == Reference[t.symbol]
  IN  ref = 0 \/ (ref * (100 - CollarPct) <= t.price * 100 /\ t.price * 100 <= ref * (100 + CollarPct))

Listed(t) == t.symbol \in Symbols /\ t.quantity \in 1 .. MaxOrderSize

RateOk(t) == RollWindow(ClientOf(t)).inWindow < MaxPerWindow

CreditOk(t) == (client[t.client].exposure + Notional(t)) % Word <= MaxNotional

ChecksPass(t) == t.id \notin client[t.client].active /\ WithinCollar(t) /\ CreditOk(t)

RoomFor(t) == Len(queue[t.symbol]) < EngineCapacity

(* The client's state after an order has passed the rate limit. *)
Counted(t) == [RollWindow(ClientOf(t)) EXCEPT !.inWindow = @ + 1]

(* The risk thread pops its next request; the order before it is done. *)
Take(type) ==
  /\ current = NoOrder
  /\ riskQueue # <<>>
  /\ Head(riskQueue).type = type
  /\ riskQueue' = Tail(riskQueue)

(* reject_order(): the slot is not given back. *)
Reject(s) ==
  /\ status' = [status EXCEPT ![s] = "REJECTED"]
  /\ UNCHANGED <<ticket, open, free, queue, current, now, requests, routed>>

Admit(c) == admitted' = [admitted EXCEPT ![c] = Append(@, now)]

(* Unknown symbol or bad size: the client's state is not touched. *)
RejectUnlisted ==
  /\ Take("NEW_ORDER")
  /\ LET s == Head(riskQueue).order
     IN  ~Listed(ticket[s]) /\ Reject(s)
  /\ UNCHANGED <<client, index, admitted>>

RejectRate ==
  /\ Take("NEW_ORDER")
  /\ LET s == Head(riskQueue).order
         t == ticket[s]
     IN  /\ Listed(t) /\ ~RateOk(t)
         /\ client' = [client EXCEPT ![t.client] = RollWindow(ClientOf(t))]
         /\ Reject(s)
  /\ UNCHANGED <<index, admitted>>

(* Duplicate, outside the collar, or over the credit limit. *)
RejectChecks ==
  /\ Take("NEW_ORDER")
  /\ LET s == Head(riskQueue).order
         t == ticket[s]
     IN  /\ Listed(t) /\ RateOk(t) /\ ~ChecksPass(t)
         /\ client' = [client EXCEPT ![t.client] = Counted(t)]
         /\ Admit(t.client)
         /\ Reject(s)
  /\ UNCHANGED index


(* The engine's queue is full: everything but the rate is rolled back. *)
RejectFull ==
  /\ Take("NEW_ORDER")
  /\ LET s == Head(riskQueue).order
         t == ticket[s]
     IN  /\ Listed(t) /\ RateOk(t) /\ ChecksPass(t) /\ ~RoomFor(t)
         /\ client' = [client EXCEPT ![t.client] = Counted(t)]
         /\ index' = [index EXCEPT ![t.id] = NoSymbol]
         /\ Admit(t.client)
         /\ Reject(s)

Approve ==
  /\ Take("NEW_ORDER")
  /\ LET s == Head(riskQueue).order
         t == ticket[s]
     IN  /\ Listed(t) /\ RateOk(t) /\ ChecksPass(t) /\ RoomFor(t)
         /\ client' = [client EXCEPT ![t.client] =
                         [Counted(t) EXCEPT !.active = @ \cup {t.id},
                                            !.exposure = (@ + Notional(t)) % Word]]
         /\ index' = [index EXCEPT ![t.id] = t.symbol]
         /\ queue' = [queue EXCEPT ![t.symbol] = Append(@, NewOrder(s))]
         /\ Admit(t.client)
         /\ routed' = [routed EXCEPT ![t.client] = @ + t.price * t.quantity]
         /\ current' = s
  /\ UNCHANGED <<ticket, status, open, free, now, requests>>

(* The end of process_new_order(): status = ACCEPTED, after the hand-over. *)
WriteAccepted ==
  /\ current # NoOrder
  /\ status' = [status EXCEPT ![current] = "ACCEPTED"]
  /\ current' = NoOrder
  /\ UNCHANGED <<ticket, open, free, queue, riskQueue, client, index, now, requests, admitted, routed>>

(* Mutant of OwnsOrder: any client's active order will do. *)
OwnsOrderOfAnyone(c, i) == \E d \in Clients : i \in client[d].active

(* The ownership check of process_cancel(). *)
OwnsOrder(c, i) == i \in client[c].active

RejectCancel ==
  /\ Take("CANCEL_ORDER")
  /\ ~OwnsOrder(Head(riskQueue).client, Head(riskQueue).id)
  /\ UNCHANGED <<ticket, status, open, free, queue, client, index, current, now, requests,
                 admitted, routed>>

(***************************************************************************)
(* process_cancel() of an owned order.  The result of the engine's         *)
(* cancel_order() is ignored: with a full queue the cancel is lost.        *)
(***************************************************************************)
RouteCancel ==
  /\ Take("CANCEL_ORDER")
  /\ LET r == Head(riskQueue)
         x == index[r.id]
     IN  /\ OwnsOrder(r.client, r.id)
         /\ queue' = IF x # NoSymbol /\ Len(queue[x]) < EngineCapacity
                       THEN [queue EXCEPT ![x] = Append(@, Cancel(r.id, r.client))]
                       ELSE queue
         /\ index' = [index EXCEPT ![r.id] = NoSymbol]
         /\ client' = [client EXCEPT ![r.client].active = @ \ {r.id}]
  /\ UNCHANGED <<ticket, status, open, free, current, now, requests, admitted, routed>>

RiskThread ==
  \/ RejectUnlisted \/ RejectRate \/ RejectChecks \/ RejectFull
  \/ Approve \/ WriteAccepted
  \/ RejectCancel \/ RouteCancel

(* The engine, seen from here: it takes requests and may free the order. *)
EngineTakes(x) ==
  /\ queue[x] # <<>>
  /\ queue' = [queue EXCEPT ![x] = Tail(@)]
  /\ \/ UNCHANGED <<free, open>>
     \/ /\ Head(queue[x]).type = "NEW_ORDER"
        /\ free' = free \cup {Head(queue[x]).order}
        /\ open' = open \ {Head(queue[x]).order}
  /\ UNCHANGED <<ticket, status, riskQueue, client, index, current, now, requests, admitted, routed>>

RiskNext ==
  \/ \E s \in Slots, t \in Tickets : SubmitOrder(s, t)
  \/ \E r \in Cancels : SubmitCancel(r)
  \/ Tick
  \/ RiskThread
  \/ \E x \in Symbols : EngineTakes(x)

RiskSpec == RiskInit /\ [][RiskNext]_riskVars

-----------------------------------------------------------------------------

Statuses == {"PENDING", "ACCEPTED", "REJECTED", "FILLED", "PARTIALLY_FILLED", "CANCELLED"}

RiskTypeOK ==
  /\ ticket \in [Slots -> Tickets]
  /\ status \in [Slots -> Statuses]
  /\ free \subseteq Slots /\ open \subseteq Slots \ free
  /\ Len(riskQueue) <= QueueCapacity
  /\ \A x \in Symbols : Len(queue[x]) <= EngineCapacity
  /\ client \in [Clients -> [known : BOOLEAN, active : SUBSET Ids, exposure : 0 .. MaxNotional,
                             inWindow : 0 .. MaxPerWindow, windowStart : 0 .. MaxTime]]
  /\ index \in [Ids -> Symbols \cup {NoSymbol}]
  /\ current \in Slots \cup {NoOrder}

(* How many orders of c passed the rate limit in the window that begins at t. *)
Burst(c, t) == Cardinality({k \in DOMAIN admitted[c] : admitted[c][k] \in t .. t + Window - 1})

(***************************************************************************)
(* What the fixed windows of check_rate_limit() do guarantee: a period as  *)
(* long as a window, wherever it begins, lets less than two quotas         *)
(* through.  It meets at most two windows, and it misses the order that    *)
(* opened the earlier one.                                                 *)
(***************************************************************************)
BurstBounded == \A c \in Clients : \A t \in 0 .. MaxTime : Burst(c, t) < 2 * MaxPerWindow

(***************************************************************************)
(* The credit limit: what process_new_order() has routed for a client,     *)
(* added up without overflow, is within max_notional_per_client.           *)
(***************************************************************************)
CreditHolds == \A c \in Clients : routed[c] <= MaxNotional

(***************************************************************************)
(* notional_exposure_scaled is exactly what was routed, also after the     *)
(* rollbacks for a full engine queue.                                      *)
(***************************************************************************)
ExposureExact == \A c \in Clients : client[c].exposure = routed[c] % Word

(***************************************************************************)
(* A client's cancel of an active order can be routed: the index knows the *)
(* symbol of every order in active_orders, whatever else was rejected,     *)
(* rolled back or cancelled.                                               *)
(***************************************************************************)
CancelRoutable == \A c \in Clients : \A i \in client[c].active : index[i] # NoSymbol


-----------------------------------------------------------------------------

(***************************************************************************)
(* "look up the order's symbol and route the cancel to the specific        *)
(* matching engine" (risk_manager.cpp:325).  Violated: when the engine's   *)
(* queue is full, the cancel of an owned order is dropped, and the order   *)
(* forgotten so that it cannot be cancelled again.                         *)
(***************************************************************************)
CancelNotLost ==
  [][\A c \in Clients : \A i \in client[c].active \ client'[c].active :
       \E x \in Symbols : queue'[x] # queue[x] /\ Last(queue'[x]) = Cancel(i, c)]_riskVars
=============================================================================
