------------------------- MODULE EmergencyShutdown -------------------------
(***************************************************************************)
(* EmergencyShutdown (src/secure_config.cpp): a monitor thread that polls  *)
(* the registered triggers under shutdown_mutex_, operators that call      *)
(* initiate_emergency_shutdown() themselves, and stop_monitoring(), which  *)
(* joins the monitor.  shutdown_mutex_ is not recursive: a thread that     *)
(* locks it twice blocks for good.                                         *)
(***************************************************************************)
EXTENDS Integers, FiniteSets

CONSTANTS Operators,    \* threads that call initiate_emergency_shutdown()
          Triggers,     \* triggers_
          Handlers      \* handlers_; any of them may throw

VARIABLES emergencyActive,  \* emergency_active_
          monitoring,       \* monitoring_active_
          shutdownMutex,    \* who holds shutdown_mutex_
          monitorPc,        \* "off", "sleep", "entering", "polling", "fired", "locking", "ended"
          operatorPc,       \* per operator: "idle", "locking", "running", "done"
          stopPc,           \* stop_monitoring(): "idle", "joining", "done"
          holding,          \* triggers whose condition holds
          fired,            \* history: a trigger fired
          ran               \* history: how often each handler has run

esVars == <<emergencyActive, monitoring, shutdownMutex, monitorPc, operatorPc, stopPc, holding, fired, ran>>

Free == "free"
Monitor == "monitor"

EmergencyInit ==
  /\ emergencyActive = FALSE /\ monitoring = FALSE /\ shutdownMutex = Free
  /\ monitorPc = "off" /\ operatorPc = [o \in Operators |-> "idle"] /\ stopPc = "idle"
  /\ holding = {} /\ fired = FALSE /\ ran = [h \in Handlers |-> 0]

StartMonitoring ==
  /\ ~monitoring /\ monitorPc = "off"
  /\ monitoring' = TRUE /\ monitorPc' = "sleep"
  /\ UNCHANGED <<emergencyActive, shutdownMutex, operatorPc, stopPc, holding, fired, ran>>

(* What a trigger watches goes bad. *)
ConditionArises(t) ==
  /\ t \notin holding
  /\ holding' = holding \cup {t}
  /\ UNCHANGED <<emergencyActive, monitoring, shutdownMutex, monitorPc, operatorPc, stopPc, fired, ran>>

(* monitor_loop(): the flag, then the lock. *)
MonitorWake ==
  /\ monitorPc = "sleep"
  /\ monitorPc' = IF monitoring THEN "entering" ELSE "ended"
  /\ UNCHANGED <<emergencyActive, monitoring, shutdownMutex, operatorPc, stopPc, holding, fired, ran>>

MonitorLock ==
  /\ monitorPc = "entering" /\ shutdownMutex = Free
  /\ shutdownMutex' = Monitor /\ monitorPc' = "polling"
  /\ UNCHANGED <<emergencyActive, monitoring, operatorPc, stopPc, holding, fired, ran>>

(* One turn over the triggers; the first that holds calls initiate_emergency_shutdown(). *)
MonitorPoll ==
  /\ monitorPc = "polling"
  /\ IF holding = {}
     THEN shutdownMutex' = Free /\ monitorPc' = "sleep" /\ UNCHANGED fired
     ELSE fired' = TRUE /\ monitorPc' = "fired" /\ UNCHANGED shutdownMutex
  /\ UNCHANGED <<emergencyActive, monitoring, operatorPc, stopPc, holding, ran>>

(* Mutant of ClaimEmergency: a load and a store in place of the exchange. *)
ClaimAlways == TRUE

(* emergency_active_.exchange(true): only the first caller goes on. *)
ClaimEmergency == ~emergencyActive

(***************************************************************************)
(* initiate_emergency_shutdown() in the monitor.  It still holds the lock  *)
(* of monitor_loop(), so that the one who claims the shutdown never gets   *)
(* it a second time and stays "locking".                                   *)
(***************************************************************************)
MonitorInitiate ==
  /\ monitorPc = "fired"
  /\ emergencyActive' = TRUE
  /\ IF ClaimEmergency
     THEN monitorPc' = "locking" /\ UNCHANGED shutdownMutex
     ELSE monitorPc' = "ended" /\ shutdownMutex' = Free
  /\ UNCHANGED <<monitoring, operatorPc, stopPc, holding, fired, ran>>

(* Every handler is called, whatever an earlier one throws. *)
RunHandlers == ran' = [h \in Handlers |-> ran[h] + 1]

OperatorInitiate(o) ==
  /\ operatorPc[o] = "idle"
  /\ emergencyActive' = TRUE
  /\ operatorPc' = [operatorPc EXCEPT ![o] = IF ClaimEmergency THEN "locking" ELSE "done"]
  /\ UNCHANGED <<monitoring, shutdownMutex, monitorPc, stopPc, holding, fired, ran>>

OperatorLock(o) ==
  /\ operatorPc[o] = "locking" /\ shutdownMutex = Free
  /\ shutdownMutex' = o
  /\ operatorPc' = [operatorPc EXCEPT ![o] = "running"]
  /\ UNCHANGED <<emergencyActive, monitoring, monitorPc, stopPc, holding, fired, ran>>

OperatorRun(o) ==
  /\ operatorPc[o] = "running"
  /\ RunHandlers
  /\ shutdownMutex' = Free
  /\ operatorPc' = [operatorPc EXCEPT ![o] = "done"]
  /\ UNCHANGED <<emergencyActive, monitoring, monitorPc, stopPc, holding, fired>>

StopMonitoring ==
  /\ stopPc = "idle" /\ monitorPc # "off"
  /\ monitoring' = FALSE /\ stopPc' = "joining"
  /\ UNCHANGED <<emergencyActive, shutdownMutex, monitorPc, operatorPc, holding, fired, ran>>

JoinMonitor ==
  /\ stopPc = "joining" /\ monitorPc = "ended"
  /\ stopPc' = "done"
  /\ UNCHANGED <<emergencyActive, monitoring, shutdownMutex, monitorPc, operatorPc, holding, fired, ran>>

MonitorStep == MonitorWake \/ MonitorLock \/ MonitorPoll \/ MonitorInitiate
OperatorStep(o) == OperatorLock(o) \/ OperatorRun(o)

EmergencyNext ==
  \/ StartMonitoring \/ StopMonitoring \/ JoinMonitor \/ MonitorStep
  \/ \E t \in Triggers : ConditionArises(t)
  \/ \E o \in Operators : OperatorInitiate(o) \/ OperatorStep(o)

-----------------------------------------------------------------------------
(***************************************************************************)
(* initiate_emergency_shutdown(): whoever calls it, and however often, a   *)
(* handler runs at most once.                                              *)
(***************************************************************************)
HandlersRunOnce == \A h \in Handlers : ran[h] <= 1

(***************************************************************************)
(* initiate_emergency_shutdown(): an emergency declared by an operator     *)
(* runs every handler, however the monitor's polls interleave with it,     *)
(* unless a trigger fires: a monitor that then claims the shutdown blocks  *)
(* on the lock it holds.                                                   *)
(***************************************************************************)
EmergencyHandled == emergencyActive ~> (fired \/ \A h \in Handlers : ran[h] = 1)
=============================================================================
