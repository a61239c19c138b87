----------------------------- MODULE BboSeqlock -----------------------------
(***************************************************************************)
(* The best-bid/offer snapshot of OrderBook (update_bbo_snapshot() and     *)
(* read_bbo() in src/order_book.cpp): the engine's thread writes the       *)
(* fields between two increments of a sequence number, other threads copy  *)
(* them between two reads of it.  All accesses are plain: a data race, so  *)
(* the compiler and the processor may reorder them.  bboOrdered says       *)
(* whether this build keeps the order the program wrote.                   *)
(*                                                                         *)
(* One access is one step.  The n-th snapshot writes n into every field.   *)
(***************************************************************************)
EXTENDS Integers, Sequences, FiniteSets

CONSTANTS BboFields,    \* the fields of BBOSnapshot but the sequence; two can be mixed up like four
          Readers,      \* threads that call read_bbo()
          MaxSnapshots  \* bound on the updates

VARIABLES bboOrdered,   \* the build keeps program order
          bboSequence,  \* bbo_snapshot_.sequence
          bboFields,    \* the other fields of bbo_snapshot_
          bboWriter,    \* [n: snapshot being written, todo: accesses left]
          bboReader,    \* per reader: [todo, seq1, out, seq2]
          bboReturned   \* per reader: the last copy read_bbo() called consistent

bboVars == <<bboOrdered, bboSequence, bboFields, bboWriter, bboReader, bboReturned>>

(* Groups of accesses in program order; the fields are stored in any order. *)
WriteOrder == <<{"open"}, BboFields, {"close"}>>
ReadOrder == <<{"seq1"}, BboFields, {"seq2"}>>
NoRead == [todo |-> {}, seq1 |-> 0, out |-> [f \in BboFields |-> 0], seq2 |-> 0]

(* The accesses that may come next: those of the first group with any left, or any of them. *)
May(order, todo) ==
  IF ~bboOrdered THEN todo
  ELSE LET g == CHOOSE i \in DOMAIN order : order[i] \cap todo # {} /\ \A j \in 1 .. i - 1 : order[j] \cap todo = {}
       IN  IF todo = {} THEN {} ELSE order[g] \cap todo

BboInit ==
  /\ bboOrdered \in BOOLEAN
  /\ bboSequence = 0 /\ bboFields = [f \in BboFields |-> 0]
  /\ bboWriter = [n |-> 0, todo |-> {}]
  /\ bboReader = [r \in Readers |-> NoRead]
  /\ bboReturned = [r \in Readers |-> [f \in BboFields |-> 0]]

UpdateBbo ==
  /\ bboWriter.todo = {} /\ bboWriter.n < MaxSnapshots
  /\ bboWriter' = [n |-> bboWriter.n + 1, todo |-> UNION {WriteOrder[i] : i \in DOMAIN WriteOrder}]
  /\ UNCHANGED <<bboOrdered, bboSequence, bboFields, bboReader, bboReturned>>


WriteAccess(a) ==
  /\ a \in May(WriteOrder, bboWriter.todo)
  /\ bboWriter' = [bboWriter EXCEPT !.todo = @ \ {a}]
  /\ bboSequence' = IF a \in {"open", "close"} THEN bboSequence + 1 ELSE bboSequence
  /\ bboFields' = IF a \in BboFields THEN [bboFields EXCEPT ![a] = bboWriter.n] ELSE bboFields
  /\ UNCHANGED <<bboOrdered, bboReader, bboReturned>>

ReadBbo(r) ==
  /\ bboReader[r].todo = {}
  /\ bboReader' = [bboReader EXCEPT ![r] = [NoRead EXCEPT !.todo = UNION {ReadOrder[i] : i \in DOMAIN ReadOrder}]]
  /\ UNCHANGED <<bboOrdered, bboSequence, bboFields, bboWriter, bboReturned>>

(* One load; the last one decides: even and unchanged, or false. *)
ReadAccess(r, a) ==
  LET me == bboReader[r]
      now == [todo |-> me.todo \ {a},
              seq1 |-> IF a = "seq1" THEN bboSequence ELSE me.seq1,
              out  |-> IF a \in BboFields THEN [me.out EXCEPT ![a] = bboFields[a]] ELSE me.out,
              seq2 |-> IF a = "seq2" THEN bboSequence ELSE me.seq2]
      refused == now.seq1 % 2 = 1 /\ "seq1" \notin now.todo
  IN  /\ a \in May(ReadOrder, me.todo)
      /\ bboReader' = [bboReader EXCEPT ![r] = IF refused \/ now.todo = {} THEN NoRead ELSE now]
      /\ bboReturned' = IF ~refused /\ now.todo = {} /\ now.seq1 = now.seq2
                        THEN [bboReturned EXCEPT ![r] = now.out] ELSE bboReturned
      /\ UNCHANGED <<bboOrdered, bboSequence, bboFields, bboWriter>>

BboNext ==
  \/ UpdateBbo
  \/ \E a \in bboWriter.todo : WriteAccess(a)
  \/ \E r \in Readers : ReadBbo(r) \/ \E a \in bboReader[r].todo : ReadAccess(r, a)

-----------------------------------------------------------------------------
=============================================================================
