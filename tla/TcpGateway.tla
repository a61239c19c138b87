----------------------------- MODULE TcpGateway -----------------------------
(***************************************************************************)
(* TcpGateway (src/tcp_gateway.cpp): the acceptor thread takes connections *)
(* and the worker thread reads, frames and answers them through an         *)
(* edge-triggered epoll set and a table indexed by descriptor, which the   *)
(* two threads share without a lock.                                       *)
(*                                                                         *)
(* A byte stream is a sequence of units; a message is as many units as its *)
(* length, and each unit tells the message's number, type and length.  The *)
(* kernel (descriptors, epoll, socket buffers) is modelled from the calls  *)
(* the gateway makes.                                                      *)
(* Counters are left out, and so is what becomes of an order once the risk *)
(* manager has it: that is the module Exchange.                            *)
(***************************************************************************)
EXTENDS Integers, Sequences, SequencesExt, FiniteSets, FiniteSetsExt

CONSTANTS Conns,            \* the clients that may connect, once each
          Scripts,          \* the streams each client may send, as sequences of units
          MaxConnections,   \* MAX_CONNECTIONS
          MaxMessageSize,   \* MAX_MESSAGE_SIZE
          BufferCapacity    \* ReadBuffer::CAPACITY

HeaderSize == 1             \* sizeof(MessageHeader)
OrderSize == 2              \* sizeof(NewOrderMessage), sizeof(CancelOrderMessage)

ASSUME GatewayAssumption == HeaderSize <= MaxMessageSize /\ MaxMessageSize <= BufferCapacity

VARIABLES script,     \* what each client will send
          arrived,    \* how many units of it are in the socket, read or not
          taken,      \* how many units recv() has returned
          peer,       \* the client's end: "out", "connecting", "refused", "up", "fin", "reset"
          descriptor, \* the kernel's table: the connection behind each descriptor
          watched,    \* descriptors in the epoll set
          edges,      \* descriptors with an event not yet reported
          table,      \* connections_
          readBuf,    \* read_buf of each ConnectionState
          openFd,     \* connections whose FileDescriptor is not closed
          accepting,  \* the acceptor: <<>> or <<fd, conn, next call>>
          events,     \* what epoll_wait() has returned and is not handled
          worker,     \* the worker: [pc, fd, conn]
          handled,    \* history: the messages processed for each connection
          raced,      \* history: connections whose descriptor the worker used for another
          fdBase,     \* descriptors the rest of the process holds
          gwRunning   \* running_

gwVars == <<script, arrived, taken, peer, descriptor, watched, edges, table, readBuf,
            openFd, accepting, events, worker, handled, raced, fdBase, gwRunning>>

Fds == 1 .. Cardinality(Conns)   \* counted from fdBase
None == "none"
Idle == [pc |-> "wait", fd |-> 0, conn |-> None]

(* A unit is known by its connection and its place in the stream. *)
Unread(c) == [i \in 1 .. arrived[c] - taken[c] |-> <<c, taken[c] + i>>]

GatewayInit ==
  /\ script \in {s \in [Conns -> UNION {Scripts[c] : c \in Conns}] : \A c \in Conns : s[c] \in Scripts[c]}
  /\ arrived = [c \in Conns |-> 0] /\ taken = [c \in Conns |-> 0]
  /\ peer = [c \in Conns |-> "out"]
  /\ descriptor = [f \in Fds |-> None] /\ watched = {} /\ edges = {}
  /\ table = [f \in Fds |-> None] /\ readBuf = [c \in Conns |-> <<>>] /\ openFd = {}
  /\ accepting = <<>> /\ events = {} /\ worker = Idle
  /\ handled = [c \in Conns |-> <<>>] /\ raced = {}
  /\ fdBase \in 0 .. 1
  /\ gwRunning = TRUE

-----------------------------------------------------------------------------
(* The client and the network. *)

clientOnly == <<script, taken, descriptor, watched, table, readBuf, openFd, accepting, events, worker,
                handled, raced, fdBase, gwRunning>>

(* Something happens on the socket: an edge, where it is watched. *)
Edge(c) == edges' = edges \cup {f \in watched : descriptor[f] = c}

Connect(c) ==
  /\ peer[c] = "out"
  /\ peer' = [peer EXCEPT ![c] = "connecting"]
  /\ UNCHANGED <<clientOnly, arrived, edges>>

(* TCP delivers any number of further units. *)
Arrive(c) ==
  /\ peer[c] = "connecting" \/ (peer[c] = "up" /\ c \in openFd)
  /\ \E n \in arrived[c] + 1 .. Len(script[c]) : arrived' = [arrived EXCEPT ![c] = n]
  /\ Edge(c)
  /\ UNCHANGED <<clientOnly, peer>>

(* The client closes its end, after what it sent or with a reset. *)
Hangup(c) ==
  /\ peer[c] = "up" /\ c \in openFd
  /\ \E how \in {"fin", "reset"} : peer' = [peer EXCEPT ![c] = how]
  /\ Edge(c)
  /\ UNCHANGED <<clientOnly, arrived>>

-----------------------------------------------------------------------------
(* acceptor_loop() *)

acceptorOnly == <<script, arrived, taken, readBuf, events, worker, handled, fdBase, gwRunning>>

(* ::close(client_fd) of a descriptor beyond the table. *)
CloseRefused(c, fd) == UNCHANGED descriptor

(* accept() returns the lowest free descriptor; one too high is closed at once. *)
Accept(c) ==
  LET fd == Min({f \in Fds : descriptor[f] = None})
  IN  /\ gwRunning /\ accepting = <<>>
      /\ peer[c] = "connecting"
      /\ IF fdBase + fd >= MaxConnections
         THEN /\ peer' = [peer EXCEPT ![c] = "refused"]
              /\ CloseRefused(c, fd)
              /\ UNCHANGED <<accepting, openFd>>
         ELSE /\ peer' = [peer EXCEPT ![c] = "up"]
              /\ descriptor' = [descriptor EXCEPT ![fd] = c]
              /\ openFd' = openFd \cup {c}
              /\ accepting' = <<fd, c, "register">>
      /\ UNCHANGED <<acceptorOnly, raced, watched, edges, table>>

(* epoll_ctl(ADD), which reports what is there already. *)
Register ==
  /\ accepting # <<>> /\ accepting[3] = "register"
  /\ LET fd == accepting[1] c == accepting[2]
     IN  /\ watched' = watched \cup {fd}
         /\ edges' = IF Unread(c) # <<>> \/ peer[c] # "up" THEN edges \cup {fd} ELSE edges
         /\ accepting' = <<fd, c, "install">>
  /\ UNCHANGED <<acceptorOnly, raced, peer, descriptor, table, openFd>>

(* connections_[client_fd] = std::move(conn), which destroys what was there. *)
Install ==
  /\ accepting # <<>> /\ accepting[3] = "install"
  /\ LET fd == accepting[1] c == accepting[2]
     IN  /\ raced' = IF worker.fd = fd THEN raced \cup {c, worker.conn} ELSE raced
         /\ table' = [table EXCEPT ![fd] = c]
  /\ accepting' = <<>>
  /\ UNCHANGED <<acceptorOnly, peer, descriptor, watched, edges, openFd>>

-----------------------------------------------------------------------------
(* worker_loop() *)

workerOnly == <<script, arrived, peer, accepting, fdBase, gwRunning>>

(* close(): the kernel forgets the descriptor and its place in the epoll set. *)
CloseFd(c, fd) ==
  /\ openFd' = openFd \ {c}
  /\ IF c \in openFd
     THEN /\ descriptor' = [descriptor EXCEPT ![fd] = None]
          /\ watched' = watched \ {fd} /\ edges' = edges \ {fd}
     ELSE UNCHANGED <<descriptor, watched, edges>>

EpollWait ==
  /\ gwRunning /\ worker = Idle /\ events = {}
  /\ edges # {}
  /\ events' = {[fd |-> f, hup |-> peer[descriptor[f]] = "reset"] : f \in edges}
  /\ edges' = {}
  /\ UNCHANGED <<workerOnly, taken, descriptor, watched, table, readBuf, openFd, worker, handled, raced>>

(* remove_connection(): out of the epoll set, out of the table, destroyed. *)
RemoveConnection(fd) ==
  /\ table' = [table EXCEPT ![fd] = None]
  /\ IF table[fd] = descriptor[fd]
     THEN CloseFd(table[fd], fd) /\ UNCHANGED raced
     ELSE /\ watched' = watched \ {fd} /\ edges' = edges \ {fd}
          /\ raced' = raced \cup ({descriptor[fd]} \ {None})
          /\ UNCHANGED <<descriptor, openFd>>
  /\ worker' = Idle

(* One event of the batch, up to the first recv() of handle_client_data(). *)
HandleEvent ==
  /\ worker = Idle
  /\ \E e \in events :
       /\ events' = events \ {e}
       /\ \/ e.hup /\ RemoveConnection(e.fd)
          \/ /\ ~e.hup /\ table[e.fd] = None
             /\ raced' = raced \cup ({descriptor[e.fd]} \ {None})
             /\ UNCHANGED <<descriptor, watched, edges, table, openFd, worker>>
          \/ /\ ~e.hup /\ table[e.fd] # None
             /\ worker' = [pc |-> "recv", fd |-> e.fd, conn |-> table[e.fd]]
             /\ UNCHANGED <<descriptor, watched, edges, table, openFd, raced>>
  /\ UNCHANGED <<workerOnly, taken, readBuf, handled>>

Remaining(c) == BufferCapacity - Len(readBuf[c])

(* recv() returns 0 or an error other than EAGAIN. *)
EndOfStream(c) ==
  IF c = None THEN TRUE
  ELSE peer[c] = "reset" \/ Remaining(worker.conn) = 0 \/ (peer[c] = "fin" /\ Unread(c) = <<>>)

(* recv() into the connection's buffer; end of file and errors remove it. *)
Recv ==
  LET c == descriptor[worker.fd]
  IN  /\ worker.pc = "recv"
      /\ \/ /\ EndOfStream(c)
            /\ RemoveConnection(worker.fd)
            /\ UNCHANGED <<taken, readBuf>>
         \/ /\ ~EndOfStream(c) /\ Unread(c) # <<>>
            /\ LET n == Min({Len(Unread(c)), Remaining(worker.conn)})
               IN  /\ readBuf' = [readBuf EXCEPT ![worker.conn] = @ \o SubSeq(Unread(c), 1, n)]
                   /\ taken' = [taken EXCEPT ![c] = @ + n]
            /\ raced' = IF c = worker.conn THEN raced ELSE raced \cup {c, worker.conn}
            /\ worker' = [worker EXCEPT !.pc = "parse"]
            /\ UNCHANGED <<descriptor, watched, edges, table, openFd>>
         \/ /\ ~EndOfStream(c) /\ Unread(c) = <<>>
            /\ worker' = Idle
            /\ UNCHANGED <<taken, readBuf, descriptor, watched, edges, table, openFd, raced>>
      /\ UNCHANGED <<workerOnly, events, handled>>


(* consume(): what follows the message moves to the front. *)
Consume(buf, n) == SubSeq(buf, n + 1, Len(buf))

(* process_message(): an order or a cancel of full size is answered, with an  *)
(* acceptance or a rejection; everything else is silent.                      *)
ProcessMessage(m) == m.type \in {"NEW_ORDER", "CANCEL_ORDER"} /\ m.length >= OrderSize

(* Mutant of ReadOn: one recv() per edge. *)
ReadOnce == Idle

(* for (;;): back to recv(), until it says EAGAIN. *)
ReadOn == [worker EXCEPT !.pc = "recv"]

(* One turn of the loop around try_process_message(). *)
TryProcessMessage ==
  LET c == worker.conn
      buf == readBuf[c]
      m == script[Head(buf)[1]][Head(buf)[2]]
  IN  /\ worker.pc = "parse"
      /\ \/ /\ Len(buf) < HeaderSize
            /\ worker' = ReadOn
            /\ UNCHANGED <<descriptor, watched, edges, openFd, readBuf, handled>>
         \/ /\ Len(buf) >= HeaderSize /\ m.length \notin HeaderSize .. MaxMessageSize
            /\ CloseFd(c, worker.fd)
            /\ worker' = ReadOn
            /\ UNCHANGED <<readBuf, handled>>
         \/ /\ Len(buf) >= HeaderSize /\ m.length \in HeaderSize .. MaxMessageSize
            /\ IF Len(buf) < m.length
               THEN worker' = ReadOn /\ UNCHANGED <<readBuf, handled>>
               ELSE /\ handled' = [handled EXCEPT ![c] =
                         Append(@, [units |-> SubSeq(buf, 1, m.length), answered |-> ProcessMessage(m)])]
                    /\ readBuf' = [readBuf EXCEPT ![c] = Consume(buf, m.length)]
                    /\ UNCHANGED worker
            /\ UNCHANGED <<descriptor, watched, edges, openFd>>
      /\ UNCHANGED <<workerOnly, events, taken, table, raced>>

-----------------------------------------------------------------------------
(* stop(): the flag, then both threads are joined and everything is closed. *)

RequestStop ==
  /\ gwRunning
  /\ gwRunning' = FALSE
  /\ UNCHANGED <<script, arrived, taken, peer, descriptor, watched, edges, table, readBuf, openFd, accepting,
                 events, worker, handled, raced, fdBase>>

CloseAll ==
  /\ ~gwRunning /\ accepting = <<>> /\ worker = Idle /\ events = {}
  /\ \E f \in Fds : table[f] # None
  /\ LET closed == {f \in Fds : table[f] \in openFd}
     IN  /\ openFd' = openFd \ {table[f] : f \in closed}
         /\ descriptor' = [f \in Fds |-> IF f \in closed THEN None ELSE descriptor[f]]
  /\ table' = [f \in Fds |-> None]
  /\ watched' = {} /\ edges' = {}
  /\ UNCHANGED <<script, arrived, taken, peer, readBuf, accepting, events, worker, handled, raced, fdBase, gwRunning>>

GatewayAcceptor == (\E c \in Conns : Accept(c)) \/ Register \/ Install
GatewayWorker == EpollWait \/ HandleEvent \/ Recv \/ TryProcessMessage

GatewayNext ==
  \/ \E c \in Conns : Connect(c) \/ Arrive(c) \/ Hangup(c)
  \/ GatewayAcceptor \/ GatewayWorker \/ RequestStop \/ CloseAll

-----------------------------------------------------------------------------
(***************************************************************************)
(* try_process_message() and ReadBuffer: however TCP cuts the stream, a    *)
(* connection's handled messages are its own messages, whole, in order,    *)
(* none twice, up to the first with a bad length; and recv() never finds   *)
(* the buffer full, which it would take for the end of the stream.         *)
(* Connections the worker met through a reused or unregistered descriptor  *)
(* are left out: what happens to those is in the README.                   *)
(***************************************************************************)
FramingExact ==
  /\ \A c \in Conns \ raced :
       FlattenSeq([k \in DOMAIN handled[c] |-> handled[c][k].units]) \o readBuf[c] = [i \in 1 .. taken[c] |-> <<c, i>>]
  /\ worker.pc = "recv" /\ worker.conn \notin raced => Remaining(worker.conn) > 0

(***************************************************************************)
(* acceptor_loop(), remove_connection() and stop(): an open descriptor is  *)
(* in the hands of the acceptor or in the table, where stop() finds it, so *)
(* none is left open when stop() has closed everything.                    *)
(***************************************************************************)
NoDescriptorLeak ==
  \A f \in Fds : descriptor[f] # None =>
     table[f] = descriptor[f] \/ (accepting # <<>> /\ accepting[1] = f /\ accepting[2] = descriptor[f])

(* Messages that have arrived whole and are not handled, all so far of good length. *)
Backlog(c) ==
  /\ \A u \in 1 .. arrived[c] : script[c][u].length \in HeaderSize .. MaxMessageSize
  /\ \E u \in 1 .. arrived[c] : script[c][u].last /\ script[c][u].msg > Len(handled[c])

(***************************************************************************)
(* worker_loop() with EPOLLET: a message that has arrived whole, after     *)
(* messages of good length, is handled, though only one edge may announce  *)
(* it; unless the client resets the connection, the gateway stops, or the  *)
(* worker met the descriptor before the table had it.                      *)
(***************************************************************************)
EveryMessageHandled ==
  \A c \in Conns : Backlog(c) ~> (~Backlog(c) \/ c \in raced \/ ~gwRunning \/ peer[c] \in {"reset", "refused"})

=============================================================================
