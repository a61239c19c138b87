--------------------------- MODULE ErrorRecovery ---------------------------
(***************************************************************************)
(* The recovery strategies of src/error_handling.cpp: NetworkErrorRecovery *)
(* with its retries and circuit breaker, FileErrorRecovery with fallback   *)
(* directories, MemoryErrorRecovery with its one emergency mode.  Each is  *)
(* used by one thread.  Time passes between any two steps.                 *)
(***************************************************************************)
EXTENDS Integers, Sequences, FiniteSets

CONSTANTS MaxRetries,        \* max_retries_
          FailureThreshold,  \* FAILURE_THRESHOLD
          CircuitTimeout,    \* CIRCUIT_TIMEOUT
          MaxTime,           \* bound on the clock
          FallbackPaths      \* how many fallback directories

VARIABLES clock,
          circuit,      \* circuit_state_, failure_count_, last_failure_time_
          retrying,     \* the call in progress: [attempt, now], attempt 0 for none
          gaveUp,       \* history: when the last failed recovery began; -1 for none since a success
          dialled,      \* history: the time of the last call of connection_factory_()
          fallback,     \* [index, exists, result] of FileErrorRecovery
          emergencyMode \* emergency_allocation_mode_

recoveryVars == <<clock, circuit, retrying, gaveUp, dialled, fallback, emergencyMode>>
networkVars == <<circuit, retrying, gaveUp, dialled>>

RecoveryInit ==
  /\ clock = CircuitTimeout
  /\ circuit = [state |-> "CLOSED", failures |-> 0, lastFailure |-> 0]
  /\ retrying = [attempt |-> 0, now |-> 0] /\ gaveUp = -1 /\ dialled = 0
  /\ fallback = [index |-> 1, exists |-> {}, result |-> 0]
  /\ emergencyMode = FALSE

Tick ==
  /\ clock < MaxTime
  /\ clock' = clock + 1
  /\ UNCHANGED <<networkVars, fallback, emergencyMode>>

(* attempt_recovery(): an open circuit refuses until its timeout, then lets one call try. *)
AttemptRecovery ==
  /\ retrying.attempt = 0
  /\ ~(circuit.state = "OPEN" /\ clock - circuit.lastFailure < CircuitTimeout)
  /\ circuit' = IF circuit.state = "OPEN" THEN [circuit EXCEPT !.state = "HALF_OPEN"] ELSE circuit
  /\ retrying' = [attempt |-> 1, now |-> clock]
  /\ UNCHANGED <<clock, gaveUp, dialled, fallback, emergencyMode>>

(* Mutant of CountFailure: the counter starts again while the circuit is half open. *)
CountFailureAfresh(c, at) ==
  LET n == IF c.state = "HALF_OPEN" THEN 1 ELSE c.failures + 1
  IN  [state |-> IF n >= FailureThreshold THEN "OPEN" ELSE c.state, failures |-> n, lastFailure |-> at]

(* All retries failed; the failure is dated when the call began. *)
CountFailure(c, at) ==
  LET n == c.failures + 1
  IN  [state |-> IF n >= FailureThreshold THEN "OPEN" ELSE c.state, failures |-> n, lastFailure |-> at]

(* One call of connection_factory_(). *)
DialSucceeds ==
  /\ retrying.attempt > 0
  /\ dialled' = clock
  /\ circuit' = [circuit EXCEPT !.state = "CLOSED", !.failures = 0]
  /\ gaveUp' = -1
  /\ retrying' = [retrying EXCEPT !.attempt = 0]
  /\ UNCHANGED <<clock, fallback, emergencyMode>>

DialFails ==
  /\ retrying.attempt > 0
  /\ dialled' = clock
  /\ IF retrying.attempt < MaxRetries
     THEN retrying' = [retrying EXCEPT !.attempt = @ + 1] /\ UNCHANGED <<circuit, gaveUp>>
     ELSE /\ circuit' = CountFailure(circuit, retrying.now)
          /\ gaveUp' = IF circuit.failures + 1 >= FailureThreshold THEN retrying.now ELSE gaveUp
          /\ retrying' = [retrying EXCEPT !.attempt = 0]
  /\ UNCHANGED <<clock, fallback, emergencyMode>>

-----------------------------------------------------------------------------
(* A fallback directory appears or goes away. *)
DirectoryChanges(p) ==
  /\ fallback' = [fallback EXCEPT !.result = 0,
                    !.exists = IF p \in @ THEN @ \ {p} ELSE @ \cup {p}]
  /\ UNCHANGED <<clock, networkVars, emergencyMode>>

(* The first directory there is from the current index on; else the first that can be made, *)
(* which does not move the index.                                                           *)
RecoverFile ==
  LET there == {p \in fallback.index .. FallbackPaths : p \in fallback.exists}
      first == CHOOSE p \in there : \A q \in there : p <= q
  IN  /\ IF there # {}
         THEN fallback' = [fallback EXCEPT !.index = first, !.result = first]
         ELSE \E dir \in 0 .. FallbackPaths :
                fallback' = [fallback EXCEPT !.result = dir, !.exists = IF dir = 0 THEN @ ELSE @ \cup {dir}]
      /\ UNCHANGED <<clock, networkVars, emergencyMode>>

(* MemoryErrorRecovery: it succeeds once. *)
RecoverMemory ==
  /\ ~emergencyMode
  /\ emergencyMode' = TRUE
  /\ UNCHANGED <<clock, networkVars, fallback>>

RecoveryNext ==
  \/ Tick \/ AttemptRecovery \/ DialSucceeds \/ DialFails \/ RecoverMemory \/ RecoverFile
  \/ \E p \in 1 .. FallbackPaths : DirectoryChanges(p)

-----------------------------------------------------------------------------
(***************************************************************************)
(* NetworkErrorRecovery: once recoveries have failed often enough, no      *)
(* connection is tried for the circuit's timeout, counted from when the    *)
(* last failed recovery began; a half-open circuit that fails is shut      *)
(* again at once, and only a success starts the count anew.                *)
(***************************************************************************)
BreakerHolds ==
  [][ gaveUp >= 0 /\ retrying.attempt = 0 /\ retrying'.attempt = 1 => clock - gaveUp >= CircuitTimeout ]_recoveryVars
=============================================================================
