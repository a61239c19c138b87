---------------------------- MODULE UdpPublisher ----------------------------
(***************************************************************************)
(* UdpPublisher (src/udp_publisher.cpp) and a subscriber                   *)
(* (tools/udp_receiver.cpp, tools/md_recv.py): the publisher's thread      *)
(* drains market data events from the engines' queue, numbers them, and    *)
(* sends them in one sendmmsg(); the subscriber counts gaps in the numbers.*)
(*                                                                         *)
(* An event is its place in the order in which the engines offered events; *)
(* trades and quotes are numbered and sent alike.  The network loses,      *)
(* duplicates and reorders datagrams.                                      *)
(***************************************************************************)
EXTENDS Integers, Sequences

CONSTANTS MaxEvents,      \* bound on the events the engines offer
          MdQueueSize,    \* capacity of the market data queue
          MdBatchSize,    \* MD_BATCH_SIZE
          SendmmsgBatch,  \* SENDMMSG_BATCH
          MaxReceived     \* bound on the datagrams the subscriber receives

VARIABLES offered,       \* events the engines have offered so far
          mdQueue,       \* the market data queue
          pubRunning,    \* running_
          pubPc,         \* the worker thread: "off", "loop", "drain", "send", "exited"
          batch,         \* events of the current turn
          buffers,       \* send_buffers: datagrams [seq, event]
          nextSequence,  \* local_stats_.next_sequence
          wire,          \* datagrams the network has
          refused,       \* history: events the full queue dropped
          truncated,     \* history: events drained and never numbered
          subscriber     \* expected_sequence, gaps_detected and the datagrams taken

pubVars == <<offered, mdQueue, pubRunning, pubPc, batch, buffers, nextSequence, wire, refused, truncated, subscriber>>

PubInit ==
  /\ offered = 0 /\ mdQueue = <<>>
  /\ pubRunning = FALSE /\ pubPc = "off"
  /\ batch = <<>> /\ buffers = <<>> /\ nextSequence = 1
  /\ wire = {} /\ refused = {} /\ truncated = {}
  /\ subscriber = [expected |-> 1, gaps |-> 0, log |-> <<>>]

(* An engine's push, dropped when the queue is full (modules MpmcQueue, MatchingEngine). *)
OfferEvent ==
  /\ offered < MaxEvents
  /\ offered' = offered + 1
  /\ IF Len(mdQueue) < MdQueueSize
     THEN mdQueue' = Append(mdQueue, offered + 1) /\ UNCHANGED refused
     ELSE refused' = refused \cup {offered + 1} /\ UNCHANGED mdQueue
  /\ UNCHANGED <<pubRunning, pubPc, batch, buffers, nextSequence, wire, truncated, subscriber>>

(* start(): nothing tells the caller that setup_socket() failed. *)
PubStart ==
  /\ pubPc = "off" /\ ~pubRunning
  /\ \E socketReady \in BOOLEAN :
       /\ pubRunning' = socketReady
       /\ pubPc' = IF socketReady THEN "loop" ELSE "exited"
  /\ UNCHANGED <<offered, mdQueue, batch, buffers, nextSequence, wire, refused, truncated, subscriber>>

(* stop(): the flag; the worker ends its turn and is joined. *)
PubStop ==
  /\ pubRunning
  /\ pubRunning' = FALSE
  /\ UNCHANGED <<offered, mdQueue, pubPc, batch, buffers, nextSequence, wire, refused, truncated, subscriber>>

(* while (running_) *)
WorkerLoop ==
  /\ pubPc = "loop"
  /\ pubPc' = IF pubRunning THEN "drain" ELSE "exited"
  /\ UNCHANGED <<offered, mdQueue, pubRunning, batch, buffers, nextSequence, wire, refused, truncated, subscriber>>

(* drain_events(): one pop. *)
DrainEvent ==
  /\ pubPc = "drain" /\ Len(batch) < MdBatchSize /\ mdQueue # <<>>
  /\ batch' = Append(batch, Head(mdQueue))
  /\ mdQueue' = Tail(mdQueue)
  /\ UNCHANGED <<offered, pubRunning, pubPc, buffers, nextSequence, wire, refused, truncated, subscriber>>

(* build_datagrams(): the events that fit the send buffers are numbered; the rest are gone. *)
BuildDatagrams ==
  LET n == IF Len(batch) < SendmmsgBatch THEN Len(batch) ELSE SendmmsgBatch
  IN  /\ pubPc = "drain"
      /\ Len(batch) = MdBatchSize \/ mdQueue = <<>>
      /\ buffers' = [i \in 1 .. n |-> [seq |-> nextSequence + i - 1, event |-> batch[i]]]
      /\ nextSequence' = nextSequence + n
      /\ truncated' = truncated \cup {batch[i] : i \in n + 1 .. Len(batch)}
      /\ batch' = <<>>
      /\ pubPc' = IF n > 0 THEN "send" ELSE "loop"
      /\ UNCHANGED <<offered, mdQueue, pubRunning, wire, refused, subscriber>>

(* Mutant of BatchSend: the numbers of what sendmmsg() refused are used again. *)
BatchSendReuse ==
  /\ pubPc = "send"
  /\ \E sent \in 0 .. Len(buffers) :
       /\ wire' = wire \cup {buffers[i] : i \in 1 .. sent}
       /\ nextSequence' = nextSequence - (Len(buffers) - sent)
  /\ buffers' = <<>>
  /\ pubPc' = "loop"
  /\ UNCHANGED <<offered, mdQueue, pubRunning, batch, refused, truncated, subscriber>>

(* batch_send(): sendmmsg() takes any prefix; what it refuses is not tried again. *)
BatchSend ==
  /\ pubPc = "send"
  /\ \E sent \in 0 .. Len(buffers) : wire' = wire \cup {buffers[i] : i \in 1 .. sent}
  /\ buffers' = <<>>
  /\ pubPc' = "loop"
  /\ UNCHANGED <<offered, mdQueue, pubRunning, batch, nextSequence, refused, truncated, subscriber>>

(* run() of the subscriber: a number other than the expected one is a gap, except at first. *)
Receive(d) ==
  /\ d \in wire /\ Len(subscriber.log) < MaxReceived
  /\ subscriber' = [expected |-> d.seq + 1,
                    gaps |-> IF d.seq # subscriber.expected /\ subscriber.log # <<>>
                             THEN subscriber.gaps + 1 ELSE subscriber.gaps,
                    log |-> Append(subscriber.log, d)]
  /\ UNCHANGED <<offered, mdQueue, pubRunning, pubPc, batch, buffers, nextSequence, wire, refused, truncated>>

PubWorker == WorkerLoop \/ DrainEvent \/ BuildDatagrams \/ BatchSend

PubNext == OfferEvent \/ PubStart \/ PubStop \/ PubWorker \/ \E d \in wire : Receive(d)

-----------------------------------------------------------------------------
(* The events between the first and the last that the subscriber got. *)
Spanned ==
  {e \in 1 .. offered : \E i, j \in DOMAIN subscriber.log :
      subscriber.log[i].event <= e /\ e <= subscriber.log[j].event}

Got == {subscriber.log[i].event : i \in DOMAIN subscriber.log}

(***************************************************************************)
(* batch_send() and the subscriber: when no gap was counted, nothing the   *)
(* publisher numbered between the first and the last datagram is missing,  *)
(* arrived twice or out of order, whatever sendmmsg() refused and the      *)
(* network lost, repeated or reordered.  Events that never got a number    *)
(* (dropped at the queue, or truncated) are not covered.                   *)
(***************************************************************************)
GapFreeIsComplete ==
  subscriber.gaps = 0 =>
    /\ \A i, j \in DOMAIN subscriber.log : i < j => subscriber.log[i].event < subscriber.log[j].event
    /\ Spanned \ Got \subseteq truncated \cup refused
=============================================================================
