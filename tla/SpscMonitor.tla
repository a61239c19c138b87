---------------------------- MODULE SpscMonitor ----------------------------
(***************************************************************************)
(* A third thread watching an SPSCQueue through empty() and size()         *)
(* (include/rtes/spsc_queue.hpp, behind MatchingEngine::queue_depth).      *)
(* Each call makes two loads, and both the producer and the consumer may   *)
(* run between them.  The indices do not wrap a whole turn within one      *)
(* call: at most MaxMoves publications fall between the two loads.         *)
(***************************************************************************)
EXTENDS SpscQueue

CONSTANT MaxMoves     \* bound on index publications during one call

ASSUME MaxMovesAssumption == MaxMoves \in Nat /\ MaxMoves + Capacity < IndexMod

VARIABLES mpc,        \* "idle", or which second load is outstanding
          first,      \* the value of the first load
          sizeThen,   \* the true size at the first load
          moves,      \* publications since the first load
          result      \* what the call that just ended returned: <<>>, <<"empty", b>> or <<"size", n>>

monitorVars == <<mpc, first, sizeThen, moves, result>>
allVars == <<vars, monitorVars>>

MonitorInit ==
  /\ Init
  /\ mpc = "idle" /\ first = 0 /\ sizeThen = 0 /\ moves = 0 /\ result = <<>>

(* Mutant of TailFirst: empty() loads head_ first. *)
TailFirstNever == {}

(* empty() loads tail_ before head_; size() loads head_ before tail_. *)
TailFirst == {"empty"}

FirstLoad(call) ==
  /\ mpc = "idle"
  /\ mpc' = call
  /\ first' = IF call \in TailFirst THEN tail ELSE head
  /\ sizeThen' = Size
  /\ moves' = 0
  /\ result' = <<>>
  /\ UNCHANGED vars

SecondLoad ==
  LET t == IF mpc \in TailFirst THEN first ELSE tail
      h == IF mpc \in TailFirst THEN head ELSE first
  IN /\ mpc # "idle"
     /\ result' = IF mpc = "empty" THEN <<"empty", h = t>> ELSE <<"size", Minus(h, t)>>
     /\ mpc' = "idle"
     /\ first' = 0 /\ moves' = 0
     /\ UNCHANGED <<vars, sizeThen>>

(* A step of the owners; the result of a call is gone once they go on. *)
QueueStep ==
  /\ Next
  /\ moves' = IF mpc = "idle" \/ UNCHANGED <<head, tail>> THEN moves ELSE moves + 1
  /\ moves' <= MaxMoves
  /\ sizeThen' = IF mpc = "idle" THEN 0 ELSE sizeThen
  /\ result' = <<>>
  /\ UNCHANGED <<mpc, first>>

MonitorNext == (\E call \in {"empty", "size"} : FirstLoad(call)) \/ SecondLoad \/ QueueStep

MonitorSpec == MonitorInit /\ [][MonitorNext]_allVars /\ Fairness

-----------------------------------------------------------------------------

(***************************************************************************)
(* The monitor is not told of elements that are not there, or of their     *)
(* absence when they are.  If empty() says true, the queue was empty when  *)
(* the call began: tail_ is loaded first, as the comment in empty() asks.  *)
(* And size(), which loads head_ first, either wraps to an absurdly large  *)
(* number, when the consumer has overtaken the head it loaded, or does not *)
(* exceed the depth at the first load.                                     *)
(***************************************************************************)
MonitorHonest ==
  /\ result = <<"empty", TRUE>> => sizeThen = 0
  /\ (result # <<>> /\ result[1] = "size") => (result[2] > Capacity \/ result[2] <= sizeThen)
=============================================================================
