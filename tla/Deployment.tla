----------------------------- MODULE Deployment -----------------------------
(***************************************************************************)
(* RollingUpdateManager, the probes and DeploymentHealthEndpoints          *)
(* (src/deployment_manager.cpp): a deployment thread that checks health,   *)
(* ramps traffic up and cuts over; operators that start and abort          *)
(* deployments; and the thread that answers health requests meanwhile.     *)
(*                                                                         *)
(* A health check passes or fails at any time.  Traffic is counted in ramp *)
(* steps.  std::thread ends the process when a joinable thread is assigned *)
(* over and when an exception leaves the thread; a thread that joins       *)
(* itself gets an exception.                                               *)
(***************************************************************************)
EXTENDS Integers, FiniteSets

CONSTANTS FullTraffic,     \* 1.0, in ramp steps
          MaxDeployments,  \* bound on the calls of start_deployment()
          MaxRequests      \* bound on the health requests

VARIABLES dpUp,          \* the process runs; std::terminate() ends it
          dpActive,      \* deployment_active_
          dpPhase,       \* current_phase_
          dpTraffic,     \* traffic_percentage_, as the traffic controller has it too
          dpRamp,        \* current_traffic, the ramp's own count
          dpThread,      \* the deployment thread's next step, or "none", "ended"
          dpJoinable,    \* deployment_thread_.joinable()
          dpAborter,     \* an operator in abort_deployment(): next step, or "idle"
          dpStarts,      \* calls of start_deployment() that went ahead
          dpCause,       \* history: what ended the process
          dpServer,      \* health server: "off", "accept", "details", "ended"
          dpServing,     \* server_running_
          dpStopping,    \* stop_server() is joining
          dpAnswer       \* [ready, failed, served]: the readiness answer being put together

dpVars == <<dpUp, dpActive, dpPhase, dpTraffic, dpRamp, dpThread, dpJoinable, dpAborter, dpStarts, dpCause,
            dpServer, dpServing, dpStopping, dpAnswer>>
serverVars == <<dpServer, dpServing, dpStopping, dpAnswer>>
managerVars == <<dpActive, dpPhase, dpTraffic, dpRamp, dpThread, dpJoinable, dpAborter, dpStarts, dpCause>>

DeploymentInit ==
  /\ dpUp = TRUE /\ dpActive = FALSE /\ dpPhase = "INITIALIZING" /\ dpTraffic = 0 /\ dpRamp = 0
  /\ dpThread = "none" /\ dpJoinable = FALSE /\ dpAborter = "idle" /\ dpStarts = 0 /\ dpCause = "none"
  /\ dpServer = "off" /\ dpServing = FALSE /\ dpStopping = FALSE
  /\ dpAnswer = [ready |-> TRUE, failed |-> FALSE, served |-> 0]

-----------------------------------------------------------------------------
(* start_deployment(): refused while active; the old thread object is overwritten unjoined. *)
StartDeployment ==
  /\ dpUp /\ ~dpActive /\ dpStarts < MaxDeployments
  /\ dpStarts' = dpStarts + 1
  /\ dpActive' = TRUE /\ dpPhase' = "INITIALIZING" /\ dpTraffic' = 0 /\ dpRamp' = 0
  /\ IF dpJoinable
     THEN dpUp' = FALSE /\ dpCause' = "overwritten" /\ UNCHANGED <<dpThread, dpJoinable>>
     ELSE dpThread' = "health" /\ dpJoinable' = TRUE /\ UNCHANGED <<dpUp, dpCause>>
  /\ UNCHANGED <<dpAborter, serverVars>>

DeployAt(pc) == dpThread' = pc

(* deployment_loop(): the health phase, which the timeout ends one way or the other. *)
HealthPhase ==
  /\ dpUp /\ dpThread = "health"
  /\ \/ dpPhase' = "HEALTH_CHECK" /\ \E canary \in BOOLEAN : DeployAt(IF canary THEN "ramp" ELSE "cutover")
     \/ dpPhase' = "FAILED" /\ DeployAt("rollback1")
  /\ UNCHANGED <<dpUp, dpActive, dpTraffic, dpRamp, dpJoinable, dpAborter, dpStarts, dpCause, serverVars>>

(* ramp_traffic(): one step more, a check after each; the duration may end it early. *)
RampTraffic ==
  /\ dpUp /\ dpThread = "ramp"
  /\ dpPhase' = IF dpRamp = 0 THEN "TRAFFIC_RAMP" ELSE dpPhase
  /\ \/ /\ dpRamp < FullTraffic
        /\ dpRamp' = dpRamp + 1 /\ dpTraffic' = dpRamp + 1
        /\ \E next \in {"ramp", "rollback1"} : DeployAt(next)
     \/ DeployAt("cutover") /\ UNCHANGED <<dpTraffic, dpRamp>>
  /\ UNCHANGED <<dpUp, dpActive, dpJoinable, dpAborter, dpStarts, dpCause, serverVars>>

Cutover ==
  /\ dpUp /\ dpThread = "cutover"
  /\ dpPhase' = "FULL_DEPLOYMENT" /\ dpTraffic' = FullTraffic
  /\ DeployAt("final")
  /\ UNCHANGED <<dpUp, dpActive, dpRamp, dpJoinable, dpAborter, dpStarts, dpCause, serverVars>>

(* The check after the cutover; success ends the thread and leaves it unjoined. *)
FinalCheck ==
  /\ dpUp /\ dpThread = "final"
  /\ \/ dpActive' = FALSE /\ DeployAt("ended")
     \/ DeployAt("rollback1") /\ UNCHANGED dpActive
  /\ UNCHANGED <<dpUp, dpPhase, dpTraffic, dpRamp, dpJoinable, dpAborter, dpStarts, dpCause, serverVars>>


(* execute_rollback(): the handler, then all traffic away from the new version. *)
ExecuteRollback == dpTraffic' = 0

(* abort_deployment() on the deployment thread, from the loop and again from its catch. *)
SelfRollback(round) ==
  /\ dpUp /\ dpThread = (IF round = 1 THEN "rollback1" ELSE "rollback2")
  /\ dpPhase' = "ROLLBACK" /\ ExecuteRollback
  /\ DeployAt(IF round = 1 THEN "join1" ELSE "join2")
  /\ UNCHANGED <<dpUp, dpActive, dpRamp, dpJoinable, dpAborter, dpStarts, dpCause, serverVars>>

(* It then joins itself: the exception is caught once, and the second ends the process. *)
SelfJoin ==
  /\ dpUp
  /\ dpActive' = FALSE
  /\ \/ dpThread = "join1" /\ DeployAt("rollback2") /\ UNCHANGED <<dpUp, dpCause>>
     \/ dpThread = "join2" /\ DeployAt("ended") /\ dpUp' = FALSE /\ dpCause' = "joined itself"
  /\ UNCHANGED <<dpPhase, dpTraffic, dpRamp, dpJoinable, dpAborter, dpStarts, serverVars>>

(* abort_deployment() called by an operator: nothing tells the deployment thread. *)
AbortDeployment ==
  /\ dpUp /\ dpAborter = "idle" /\ dpStarts > 0
  /\ dpPhase' = "ROLLBACK" /\ ExecuteRollback
  /\ dpAborter' = "deactivate"
  /\ UNCHANGED <<dpUp, dpActive, dpRamp, dpThread, dpJoinable, dpStarts, dpCause, serverVars>>

AbortDeactivate ==
  /\ dpUp /\ dpAborter = "deactivate"
  /\ dpActive' = FALSE /\ dpAborter' = "join"
  /\ UNCHANGED <<dpUp, dpPhase, dpTraffic, dpRamp, dpThread, dpJoinable, dpStarts, dpCause, serverVars>>

AbortJoin ==
  /\ dpUp /\ dpAborter = "join" /\ (dpJoinable => dpThread = "ended")
  /\ dpJoinable' = FALSE /\ dpAborter' = "idle"
  /\ UNCHANGED <<dpUp, dpActive, dpPhase, dpTraffic, dpRamp, dpThread, dpStarts, dpCause, serverVars>>

-----------------------------------------------------------------------------
(* The health server: a blocking accept(), then the answer. *)

StartServer ==
  /\ dpUp /\ ~dpServing /\ dpServer = "off"
  /\ dpServing' = TRUE
  /\ \E bound \in BOOLEAN : dpServer' = IF bound THEN "accept" ELSE "ended"
  /\ UNCHANGED <<dpUp, managerVars, dpStopping, dpAnswer>>

(* A request arrives; is_ready() or is_alive() runs the checks. *)
AcceptRequest ==
  /\ dpUp /\ dpServer = "accept" /\ dpAnswer.served < MaxRequests
  /\ \E ready \in BOOLEAN : dpAnswer' = [dpAnswer EXCEPT !.ready = ready]
  /\ dpServer' = "details"
  /\ UNCHANGED <<dpUp, managerVars, dpServing, dpStopping>>

(* get_failed_checks() runs them once more; then the answer is written and the flag tested. *)
AnswerRequest ==
  /\ dpUp /\ dpServer = "details"
  /\ \E failed \in BOOLEAN : dpAnswer' = [dpAnswer EXCEPT !.failed = failed, !.served = @ + 1]
  /\ dpServer' = IF dpServing THEN "accept" ELSE "ended"
  /\ UNCHANGED <<dpUp, managerVars, dpServing, dpStopping>>

StopServer ==
  /\ dpUp /\ dpServing /\ ~dpStopping
  /\ dpServing' = FALSE /\ dpStopping' = TRUE
  /\ UNCHANGED <<dpUp, managerVars, dpServer, dpAnswer>>

JoinServer ==
  /\ dpUp /\ dpStopping /\ dpServer = "ended"
  /\ dpStopping' = FALSE
  /\ UNCHANGED <<dpUp, managerVars, dpServer, dpServing, dpAnswer>>

DeploymentThread == HealthPhase \/ RampTraffic \/ Cutover \/ FinalCheck \/ (\E round \in 1 .. 2 : SelfRollback(round)) \/ SelfJoin
OperatorAbort == AbortDeactivate \/ AbortJoin

DeploymentNext ==
  \/ StartDeployment \/ AbortDeployment \/ DeploymentThread \/ OperatorAbort
  \/ StartServer \/ AcceptRequest \/ AnswerRequest \/ StopServer \/ JoinServer

-----------------------------------------------------------------------------

(***************************************************************************)
(* abort_deployment(): an operator's abort returns, or the process ends;   *)
(* it waits for a thread that nothing tells to stop and that may itself    *)
(* be aborting.                                                            *)
(***************************************************************************)
AbortReturns == dpAborter # "idle" ~> (dpAborter = "idle" \/ ~dpUp)
=============================================================================
