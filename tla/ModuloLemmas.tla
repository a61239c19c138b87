---------------------------- MODULE ModuloLemmas ----------------------------
(***************************************************************************)
(* What the proofs about the two rings need to know of indices taken       *)
(* modulo a capacity.                                                      *)
(***************************************************************************)
EXTENDS Integers, TLAPS

(* Division with remainder by a positive divisor. *)
LEMMA DivMod ==
  ASSUME NEW c \in Nat \ {0}, NEW i \in Int
  PROVE  \E a \in Int, r \in 0 .. c - 1 : i = c * a + r /\ i % c = r
<1>1. i = c * (i \div c) + (i % c) /\ i % c \in 0 .. c - 1 /\ i \div c \in Int
  BY SMT
<1> QED
  BY <1>1

(* A multiple of c strictly between -c and c is zero. *)
LEMMA SmallMultiple ==
  ASSUME NEW c \in Nat \ {0}, NEW t \in Int, c * t < c, -c < c * t
  PROVE  t = 0
<1>1. CASE t >= 1
  <2>1. c * t >= c * 1
    BY <1>1, SMT
  <2> QED
    BY <2>1, SMT
<1>2. CASE t <= -1
  <2>1. c * t <= c * (-1)
    BY <1>2, SMT
  <2> QED
    BY <2>1, SMT
<1> QED
  BY <1>1, <1>2, SMT

(* Two indices less than a capacity apart fall into different slots. *)
LEMMA SlotsDiffer ==
  ASSUME NEW c \in Nat \ {0}, NEW i \in Int, NEW j \in Int, i > j, i - j < c
  PROVE  i % c # j % c
<1> SUFFICES ASSUME i % c = j % c PROVE FALSE
  OBVIOUS
<1>1. PICK a \in Int, r \in 0 .. c - 1 : i = c * a + r /\ i % c = r
  BY DivMod
<1>2. PICK b \in Int, s \in 0 .. c - 1 : j = c * b + s /\ j % c = s
  BY DivMod
<1>3. i - j = c * (a - b)
  <2>1. i = c * a + r /\ j = c * b + s /\ r = s
    BY <1>1, <1>2
  <2> QED
    BY <2>1
<1>4. a - b \in Int /\ a - b = 0
  BY <1>3, SmallMultiple
<1>5. c * (a - b) = 0
  BY <1>4
<1> QED
  BY <1>3, <1>5

(* Moving an index by a multiple of the capacity keeps its slot. *)
LEMMA SlotPeriodic ==
  ASSUME NEW c \in Nat \ {0}, NEW i \in Int, NEW j \in Int, NEW k \in Int,
         j = i + k * c
  PROVE  j % c = i % c
<1>1. PICK a \in Int, r \in 0 .. c - 1 : i = c * a + r /\ i % c = r
  BY DivMod
<1>2. PICK b \in Int, s \in 0 .. c - 1 : j = c * b + s /\ j % c = s
  BY DivMod
<1>3. s - r = c * (a + k - b)
  <2>1. i = c * a + r /\ j = c * b + s
    BY <1>1, <1>2
  <2> QED
    BY <2>1
<1>4. a + k - b \in Int
  OBVIOUS
<1>5. a + k - b = 0
  BY <1>3, <1>4, SmallMultiple
<1>6. c * (a + k - b) = 0
  BY <1>5
<1> QED
  BY <1>1, <1>2, <1>3, <1>6

(* An index of the first round is its own slot. *)
LEMMA SlotOfSmall ==
  ASSUME NEW c \in Nat \ {0}, NEW i \in 0 .. c - 1
  PROVE  i % c = i
<1>1. PICK a \in Int, r \in 0 .. c - 1 : i = c * a + r /\ i % c = r
  BY DivMod
<1>2. c * a = i - r
  BY <1>1
<1>3. c * a < c /\ -c < c * a
  BY <1>2
<1>4. a = 0
  BY <1>3, SmallMultiple
<1>5. c * a = 0
  BY <1>4
<1> QED
  BY <1>1, <1>2, <1>5
=============================================================================
