------------------------------ MODULE Clients ------------------------------
(***************************************************************************)
(* ClientBase (src/client_base.cpp) and MarketMakerStrategy                *)
(* (src/strategies.cpp): the main thread of run() quotes on its ticks, the *)
(* receiver thread reads the exchange's messages and quotes again after a  *)
(* trade.  Nothing protects the ids the two share: next_order_id_ and the  *)
(* quotes are plain variables, and every access to them is a step.         *)
(*                                                                         *)
(* A message arrives in Parts units, half of them its header; recv() may   *)
(* return any number of those asked for.  A send succeeds or fails whole.  *)
(***************************************************************************)
EXTENDS Integers, Sequences, SequencesExt, FiniteSets

CONSTANTS MaxQuoteIds,     \* bound on the order ids drawn
          MaxTrades        \* bound on the trades

Main == "main"
Receiver == "receiver"
QuoteThreads == {Main, Receiver}
MessageParts == 4
HeaderParts == 2
MakerSides == <<"BUY", "SELL">>

VARIABLES running,         \* running_
          runPc,           \* run(): "new", "ticking", "join", "done"
          step,            \* thread -> where it is in update_quotes(), and for which side
          drawn,           \* thread -> the id it has read
          nextOrderId,     \* next_order_id_
          quote,           \* side -> bid_order_id_ or ask_order_id_
          book,            \* the client's orders resting at the exchange
          hits,            \* trades so far
          stream,          \* units on their way to the client
          window,          \* units of the header or body being received
          phase,           \* receiver_loop(): "header", "body", "callback", "ended"
          inRecv,          \* the receiver is inside recv()
          counted          \* orders_acked_ + orders_rejected_, and trades_received_

clientVars == <<running, runPc, step, drawn, nextOrderId, quote, book, hits, stream, window, phase, inRecv, counted>>

Resting == [at |-> "idle", side |-> 1]
Units(type) == [i \in 1..MessageParts |-> [type |-> type, part |-> i]]

ClientInit ==
  /\ running = FALSE /\ runPc = "new"
  /\ step = [t \in QuoteThreads |-> Resting] /\ drawn = [t \in QuoteThreads |-> 0]
  /\ nextOrderId = 1 /\ quote = <<0, 0>> /\ book = {} /\ hits = 0
  /\ stream = <<>> /\ window = <<>> /\ phase = "header" /\ inRecv = FALSE /\ counted = [acks |-> 0, trades |-> 0]

-----------------------------------------------------------------------------
(* update_quotes(): cancel both quotes, then send both *)
Goto(t, at, side) == step' = [step EXCEPT ![t] = [at |-> at, side |-> side]]
At(t, at) == step[t].at = at
Side(t) == step[t].side

CancelTargets == <<1, 2>>

(* The cancel is sent if there is a quote; "hit" is the round that on_trade() makes first. *)
SendCancel(t) ==
  LET target == CancelTargets[Side(t)]
  IN /\ At(t, "hit") \/ At(t, "cancel")
     /\ book' = {o \in book : o.id # quote[target]}
     /\ Goto(t, IF At(t, "hit") THEN "forgetHit" ELSE "forget", Side(t))
     /\ UNCHANGED <<running, runPc, drawn, nextOrderId, quote, hits, stream, window, phase, inRecv, counted>>

AfterForget(t) ==
  CASE Side(t) = 1 -> <<IF At(t, "forgetHit") THEN "hit" ELSE "cancel", 2>>
    [] At(t, "forgetHit") -> <<"cancel", 1>>
    [] OTHER -> <<"draw", 1>>

ForgetQuote(t) ==
  /\ At(t, "forgetHit") \/ At(t, "forget")
  /\ quote' = [quote EXCEPT ![CancelTargets[Side(t)]] = 0]
  /\ Goto(t, AfterForget(t)[1], AfterForget(t)[2])
  /\ UNCHANGED <<running, runPc, drawn, nextOrderId, book, hits, stream, window, phase, inRecv, counted>>

(* generate_order_id(): a read and a write. *)
DrawId(t) ==
  /\ At(t, "draw") /\ nextOrderId <= MaxQuoteIds
  /\ drawn' = [drawn EXCEPT ![t] = nextOrderId]
  /\ Goto(t, "bump", Side(t))
  /\ UNCHANGED <<running, runPc, nextOrderId, quote, book, hits, stream, window, phase, inRecv, counted>>

BumpId(t) ==
  /\ At(t, "bump")
  /\ nextOrderId' = drawn[t] + 1
  /\ Goto(t, "send", Side(t))
  /\ UNCHANGED <<running, runPc, drawn, quote, book, hits, stream, window, phase, inRecv, counted>>

Done(t) == IF Side(t) = 1 THEN <<"draw", 2>> ELSE <<"idle", 1>>

(* The exchange takes the order or rejects it and acknowledges it; or the send fails. *)
SendQuote(t) ==
  /\ At(t, "send")
  /\ \/ /\ \E rests \in BOOLEAN : book' = IF rests THEN book \cup {[id |-> drawn[t], side |-> Side(t)]} ELSE book
        /\ stream' = stream \o Units("ORDER_ACK")
        /\ Goto(t, "store", Side(t))
     \/ Goto(t, Done(t)[1], Done(t)[2]) /\ UNCHANGED <<book, stream>>
  /\ UNCHANGED <<running, runPc, drawn, nextOrderId, quote, hits, window, phase, inRecv, counted>>

(* bid_order_id_ = next_order_id_ - 1 *)
StoreQuote(t) ==
  /\ At(t, "store")
  /\ quote' = [quote EXCEPT ![Side(t)] = nextOrderId - 1]
  /\ Goto(t, Done(t)[1], Done(t)[2])
  /\ UNCHANGED <<running, runPc, drawn, nextOrderId, book, hits, stream, window, phase, inRecv, counted>>

UpdateQuotes(t) == SendCancel(t) \/ ForgetQuote(t) \/ DrawId(t) \/ BumpId(t) \/ SendQuote(t) \/ StoreQuote(t)

-----------------------------------------------------------------------------
(* The exchange executes a resting quote. *)
QuoteHit(order) ==
  /\ order \in book /\ hits < MaxTrades
  /\ book' = book \ {order} /\ hits' = hits + 1 /\ stream' = stream \o Units("TRADE_REPORT")
  /\ UNCHANGED <<running, runPc, step, drawn, nextOrderId, quote, window, phase, inRecv, counted>>

(* run(): the receiver starts and on_start() quotes. *)
StartRun ==
  /\ runPc = "new" /\ runPc' = "ticking" /\ running' = TRUE
  /\ Goto(Main, "cancel", 1)
  /\ UNCHANGED <<drawn, nextOrderId, quote, book, hits, stream, window, phase, inRecv, counted>>

OnTick ==
  /\ runPc = "ticking" /\ At(Main, "idle")
  /\ Goto(Main, "cancel", 1)
  /\ UNCHANGED <<running, runPc, drawn, nextOrderId, quote, book, hits, stream, window, phase, inRecv, counted>>

StopRun ==
  /\ runPc = "ticking" /\ At(Main, "idle")
  /\ runPc' = "join" /\ running' = FALSE
  /\ UNCHANGED <<step, drawn, nextOrderId, quote, book, hits, stream, window, phase, inRecv, counted>>

JoinReceiver ==
  /\ runPc = "join" /\ phase = "ended"
  /\ runPc' = "done"
  /\ UNCHANGED <<running, step, drawn, nextOrderId, quote, book, hits, stream, window, phase, inRecv, counted>>

-----------------------------------------------------------------------------
Wanted == IF phase = "header" THEN HeaderParts ELSE MessageParts - HeaderParts


(* receive_message() goes on until it has all it wants. *)
Received(units) == Len(units) = Wanted

Handle(units) ==
  IF phase = "header" THEN
    /\ phase' = IF units[1].type \in {"ORDER_ACK", "TRADE_REPORT"} THEN "body" ELSE "header"
    /\ window' = <<>>
    /\ UNCHANGED <<step, counted>>
  ELSE
    /\ window' = <<>>
    /\ IF units[1].type = "TRADE_REPORT"
       THEN counted' = [counted EXCEPT !.trades = @ + 1] /\ phase' = "callback" /\ Goto(Receiver, "hit", 1)
       ELSE counted' = [counted EXCEPT !.acks = @ + 1] /\ phase' = "header" /\ UNCHANGED step

(* The flag is looked at before each recv(). *)
EnterRecv ==
  /\ running /\ phase \in {"header", "body"} /\ ~inRecv
  /\ inRecv' = TRUE
  /\ UNCHANGED <<running, runPc, step, drawn, nextOrderId, quote, book, hits, stream, window, phase, counted>>

(* recv() blocks until something is there, also while run() waits for the thread. *)
Recv(n) ==
  /\ inRecv /\ inRecv' = FALSE
  /\ n <= Len(stream) /\ n + Len(window) <= Wanted
  /\ LET units == window \o SubSeq(stream, 1, n)
     IN IF Received(units) THEN Handle(units) ELSE window' = units /\ UNCHANGED <<step, phase, counted>>
  /\ stream' = SubSeq(stream, n + 1, Len(stream))
  /\ UNCHANGED <<running, runPc, drawn, nextOrderId, quote, book, hits>>

(* on_trade() returns. *)
CallbackReturns ==
  /\ phase = "callback" /\ At(Receiver, "idle")
  /\ phase' = "header"
  /\ UNCHANGED <<running, runPc, step, drawn, nextOrderId, quote, book, hits, stream, window, inRecv, counted>>

ReceiverEnds ==
  /\ runPc # "new" /\ ~running /\ ~inRecv /\ phase \in {"header", "body"}
  /\ phase' = "ended"
  /\ UNCHANGED <<running, runPc, step, drawn, nextOrderId, quote, book, hits, stream, window, inRecv, counted>>

ClientNext ==
  \/ StartRun \/ OnTick \/ StopRun \/ JoinReceiver \/ CallbackReturns \/ EnterRecv \/ ReceiverEnds
  \/ \E t \in QuoteThreads : UpdateQuotes(t)
  \/ \E o \in book : QuoteHit(o)
  \/ \E n \in 1..HeaderParts : Recv(n)

-----------------------------------------------------------------------------
(***************************************************************************)
(* receiver_loop() and receive_message(): however recv() cuts the stream   *)
(* up, the client stays in step with it: what it is collecting are the     *)
(* first units of a header, or of the body that goes with the header it    *)
(* has read, and the counters count whole messages.                        *)
(***************************************************************************)
ClientInStep ==
  /\ window # <<>> /\ phase # "ended" => window[1].part = IF phase = "body" THEN HeaderParts + 1 ELSE 1
  /\ \A i \in 1..(Len(window) - 1) : window[i + 1].type = window[i].type /\ window[i + 1].part = window[i].part + 1
  /\ stream # <<>> /\ window = <<>> /\ phase \in {"header", "body"} =>
       stream[1].part = IF phase = "body" THEN HeaderParts + 1 ELSE 1

(***************************************************************************)
(* MarketMakerStrategy: until the first trade, when only the main thread   *)
(* quotes, every order it has resting is the quote it remembers for that   *)
(* side, or the one it has just sent, so no quote is ever out of reach of  *)
(* cancel_existing_orders().                                               *)
(***************************************************************************)
QuotesTracked ==
  hits = 0 => \A o \in book : quote[o.side] = o.id \/ (At(Main, "store") /\ Side(Main) = o.side /\ drawn[Main] = o.id)

=============================================================================
