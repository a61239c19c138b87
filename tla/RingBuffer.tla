----------------------------- MODULE RingBuffer -----------------------------
(***************************************************************************)
(* RingBuffer (include/rtes/performance_optimizer.hpp): the single         *)
(* producer, single consumer ring of the performance helpers.  Unlike      *)
(* SPSCQueue it keeps its indices inside the ring, caches none of them,    *)
(* and tells full from empty by leaving one slot unused.  Elements are     *)
(* numbered in the order in which they are offered.                        *)
(***************************************************************************)
EXTENDS Integers, Sequences

CONSTANTS RbSize,      \* SIZE
          MaxOffers    \* bound on the calls of push()

VARIABLES rbHead, rbTail, rbBuffer,   \* head_, tail_, buffer_
          rbProducer,   \* push(): "idle", "write", "publish"
          rbConsumer,   \* pop(): "idle", "read", "publish"
          rbItem,       \* pop(): the element read
          rbOffers, rbPushed, rbPopped   \* history: calls of push(), what entered, what left

rbVars == <<rbHead, rbTail, rbBuffer, rbProducer, rbConsumer, rbItem, rbOffers, rbPushed, rbPopped>>

(* (index + 1) & (SIZE - 1) *)
RbNext(i) == (i + 1) % RbSize

RbInit ==
  /\ rbHead = 0 /\ rbTail = 0 /\ rbBuffer = [i \in 0 .. RbSize - 1 |-> 0]
  /\ rbProducer = "idle" /\ rbConsumer = "idle" /\ rbItem = 0
  /\ rbOffers = 0 /\ rbPushed = <<>> /\ rbPopped = <<>>

(* push(): the test against head_; a full ring refuses. *)
RbPush ==
  /\ rbProducer = "idle" /\ rbOffers < MaxOffers
  /\ rbOffers' = rbOffers + 1
  /\ rbProducer' = IF RbNext(rbTail) = rbHead THEN "idle" ELSE "write"
  /\ UNCHANGED <<rbHead, rbTail, rbBuffer, rbConsumer, rbItem, rbPushed, rbPopped>>

RbWrite ==
  /\ rbProducer = "write"
  /\ rbBuffer' = [rbBuffer EXCEPT ![rbTail] = rbOffers]
  /\ rbProducer' = "publish"
  /\ UNCHANGED <<rbHead, rbTail, rbConsumer, rbItem, rbOffers, rbPushed, rbPopped>>

RbPublishTail ==
  /\ rbProducer = "publish"
  /\ rbTail' = RbNext(rbTail)
  /\ rbPushed' = Append(rbPushed, rbOffers)
  /\ rbProducer' = "idle"
  /\ UNCHANGED <<rbHead, rbBuffer, rbConsumer, rbItem, rbOffers, rbPopped>>

(* pop(): the test against tail_. *)
RbPop ==
  /\ rbConsumer = "idle"
  /\ rbConsumer' = IF rbHead = rbTail THEN "idle" ELSE "read"
  /\ UNCHANGED <<rbHead, rbTail, rbBuffer, rbProducer, rbItem, rbOffers, rbPushed, rbPopped>>

RbRead ==
  /\ rbConsumer = "read"
  /\ rbItem' = rbBuffer[rbHead] /\ rbConsumer' = "publish"
  /\ UNCHANGED <<rbHead, rbTail, rbBuffer, rbProducer, rbOffers, rbPushed, rbPopped>>

RbPublishHead ==
  /\ rbConsumer = "publish"
  /\ rbHead' = RbNext(rbHead)
  /\ rbPopped' = Append(rbPopped, rbItem)
  /\ rbConsumer' = "idle" /\ rbItem' = 0
  /\ UNCHANGED <<rbTail, rbBuffer, rbProducer, rbOffers, rbPushed>>

RbStep == RbPush \/ RbWrite \/ RbPublishTail \/ RbPop \/ RbRead \/ RbPublishHead

-----------------------------------------------------------------------------
(***************************************************************************)
(* RingBuffer is a queue of SIZE - 1 places: what left is the beginning of *)
(* what entered, the indices account for the rest, which a full ring and   *)
(* an empty one do not confuse, and the producer never writes the slot the *)
(* consumer reads.                                                         *)
(***************************************************************************)
BufferInOrder ==
  /\ rbPopped = SubSeq(rbPushed, 1, Len(rbPopped))
  /\ Len(rbPushed) - Len(rbPopped) = (rbTail - rbHead) % RbSize
  /\ ~(rbProducer = "write" /\ rbConsumer = "read" /\ rbHead = rbTail)
=============================================================================
