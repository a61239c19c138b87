------------------------------- MODULE MCEdge -------------------------------
(***************************************************************************)
(* The edges of the exchange, small enough for TLC: orders coming in       *)
(* (TcpGateway) and market data going out (MpmcQueue, UdpPublisher,        *)
(* BboSeqlock, the trackers of PerfOptimizer and its RingBuffer).  They    *)
(* share no state; "edge" says which of them a behaviour is about.         *)
(***************************************************************************)
EXTENDS TcpGateway, MpmcQueue, UdpPublisher, BboSeqlock, PerfOptimizer, RingBuffer

VARIABLE edge

edgeVars == <<edge, gwVars, vars, pubVars, bboVars, perfVars, rbVars>>

(* Message n of a stream, of the given type and length field, in size units. *)
Message(n, type, length, size) ==
  [k \in 1..size |-> [msg |-> n, type |-> type, length |-> length, last |-> k = size]]

(* Two messages that TCP may cut anywhere, or one whose length is too large. *)
TwoClients ==
  [c \in Conns |-> IF c = "a"
                   THEN {Message(1, "HEARTBEAT", 1, 1) \o Message(2, "NEW_ORDER", 2, 2), Message(1, "CANCEL_ORDER", 3, 1)}
                   ELSE {Message(1, "HEARTBEAT", 1, 1)}]

EdgeInit ==
  /\ edge \in 1..6 /\ GatewayInit /\ Init /\ PubInit /\ BboInit /\ PerfInit /\ RbInit
  /\ edge # 1 => fdBase = 0 /\ \A c \in Conns : script[c][1].type = "HEARTBEAT"
  /\ edge # 4 => bboOrdered

EdgeNext ==
  /\ UNCHANGED edge
  /\ IF edge = 1 THEN GatewayNext ELSE UNCHANGED gwVars
  /\ IF edge = 2 THEN Next ELSE UNCHANGED vars
  /\ IF edge = 3 THEN PubNext ELSE UNCHANGED pubVars
  /\ IF edge = 4 THEN BboNext ELSE UNCHANGED bboVars
  /\ IF edge = 5 THEN PerfNext ELSE UNCHANGED perfVars
  /\ IF edge = 6 THEN RbStep ELSE UNCHANGED rbVars

(***************************************************************************)
(* The gateway's two threads run, and nothing is asked of the clients or   *)
(* of the operator.  Threads on the ring are scheduled, its consumers      *)
(* poll, and a CAS does not fail for ever.                                 *)
(***************************************************************************)
EdgeFairness ==
  /\ WF_gwVars(edge = 1 /\ GatewayAcceptor) /\ WF_gwVars(edge = 1 /\ GatewayWorker)
  /\ \A p \in Producers : WF_vars(edge = 2 /\ Producer(p)) /\ SF_vars(edge = 2 /\ ClaimPush(p))
  /\ \A c \in Consumers : WF_vars(edge = 2 /\ Consumer(c)) /\ SF_vars(edge = 2 /\ ClaimPop(c))

EdgeSpec == EdgeInit /\ [][EdgeNext]_edgeVars /\ EdgeFairness

-----------------------------------------------------------------------------
=============================================================================
