---------------------------- MODULE BoundedFifo ----------------------------
(***************************************************************************)
(* What a bounded queue between one producer and one consumer promises:    *)
(* calls of push and pop overlap in time, and each takes effect at one     *)
(* instant between its call and its return.  A push that returns false     *)
(* found the queue full at that instant and a pop that returns false found *)
(* it empty.  SpscQueue is shown to implement this specification.          *)
(***************************************************************************)
EXTENDS Naturals, Sequences

CONSTANTS Items,      \* the elements that can be pushed
          Capacity    \* the number of slots

VARIABLES q,          \* the elements pushed and not yet popped, oldest first
          arg,        \* the argument of the latest call of push
          pushRes,    \* "pending" during a push, afterwards what it returned
          out,        \* the element the latest successful pop handed out
          popRes      \* "pending" during a pop, afterwards what it returned

vars == <<q, arg, pushRes, out, popRes>>

Init ==
  /\ q = <<>>
  /\ arg \in Items
  /\ pushRes = "ok"
  /\ out \in Items
  /\ popRes = "ok"

CallPush(v) ==
  /\ pushRes # "pending"
  /\ arg' = v
  /\ pushRes' = "pending"
  /\ UNCHANGED <<q, out, popRes>>

PushOk ==
  /\ pushRes = "pending"
  /\ Len(q) < Capacity
  /\ q' = Append(q, arg)
  /\ pushRes' = "ok"
  /\ UNCHANGED <<arg, out, popRes>>

PushFull ==
  /\ pushRes = "pending"
  /\ Len(q) = Capacity
  /\ pushRes' = "full"
  /\ UNCHANGED <<q, arg, out, popRes>>

CallPop ==
  /\ popRes # "pending"
  /\ popRes' = "pending"
  /\ UNCHANGED <<q, arg, pushRes, out>>

PopOk ==
  /\ popRes = "pending"
  /\ q # <<>>
  /\ out' = Head(q)
  /\ q' = Tail(q)
  /\ popRes' = "ok"
  /\ UNCHANGED <<arg, pushRes>>

PopEmpty ==
  /\ popRes = "pending"
  /\ q = <<>>
  /\ popRes' = "empty"
  /\ UNCHANGED <<q, arg, pushRes, out>>

Next ==
  \/ \E v \in Items : CallPush(v)
  \/ PushOk
  \/ PushFull
  \/ CallPop
  \/ PopOk
  \/ PopEmpty

Spec == Init /\ [][Next]_vars
=============================================================================
