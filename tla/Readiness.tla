----------------------------- MODULE Readiness -----------------------------
(***************************************************************************)
(* src/production_readiness.cpp: ProductionReadinessValidator,             *)
(* BlueGreenDeployment, LoadTester and ChaosEngineer.                      *)
(*                                                                         *)
(* Several operators may move the traffic between the two slots at once:   *)
(* switch_traffic() checks, stores, sleeps, checks again and stores again, *)
(* and holds no lock.  The load test runs one thread per simulated client  *)
(* and one for the chaos it injects; time and throughput are left out, so  *)
(* that a client may place any number of orders up to MaxOrders.           *)
(***************************************************************************)
EXTENDS Integers, Sequences, SequencesExt, FiniteSets, FiniteSetsExt

CONSTANTS Switchers,      \* threads that drive the blue/green deployment
          Versions,       \* versions to deploy
          MaxSwitches,    \* bound on the calls made
          CustomChecks,   \* checks that are registered besides the defaults
          LoadClients,    \* config.concurrent_clients
          LoadRates,      \* config.orders_per_second, one of these
          MaxOrders,      \* bound on the orders of a simulated client
          LoadLatencies,  \* latencies an order may have, in microseconds
          SlaAverage,     \* 10.0
          SlaP99          \* 100.0

VARIABLES activeSlot,     \* active_slot_
          versions,       \* blue_version_, green_version_
          slotHealthy,    \* health_manager.is_ready() && is_live()
          switcher,       \* per operator: pc, target, version, before, alone
          switches,       \* calls made so far
          checks,         \* checks_
          checkOk,        \* what each check would answer now
          verdict,        \* the last is_production_ready(): "none", "ready", "not_ready"
          loadRate,       \* config.orders_per_second
          loader,         \* per simulated client: pc, orders
          total, succeeded, failures, \* total_orders, successful_orders, failed_orders
          latencies,      \* latencies
          loadResult,     \* result, or NoResult while the test runs
          chaosThread,    \* inject_chaos_during_test(): "off", "stabilise", "latency", "memory", "ended"
          chaosActive,    \* chaos_active_
          experiment      \* run_experiment() of the operator: "idle", "running"

slotVars == <<activeSlot, versions, slotHealthy, switcher, switches>>
checkVars == <<checks, checkOk, verdict>>
loadVars == <<loadRate, loader, total, succeeded, failures, latencies, loadResult, chaosThread, chaosActive, experiment>>
readyVars == <<slotVars, checkVars, loadVars>>

NoVersion == "none"
Slots == {"BLUE", "GREEN"}
OtherSlot(slot) == IF slot = "BLUE" THEN "GREEN" ELSE "BLUE"

SlotInit ==
  /\ activeSlot = "BLUE" /\ versions = [s \in Slots |-> NoVersion] /\ slotHealthy = TRUE /\ switches = 0
  /\ switcher = [o \in Switchers |-> [pc |-> "idle", target |-> "BLUE", version |-> NoVersion,
                                      before |-> "BLUE", alone |-> TRUE]]

(* The health of the process changes. *)
HealthTurns ==
  /\ slotHealthy' = ~slotHealthy
  /\ UNCHANGED <<activeSlot, versions, switcher, switches>>

(* A call begins; it is alone if no other call is in progress. *)
BeginCall(o, pc, target, version) ==
  /\ switcher[o].pc = "idle" /\ switches < MaxSwitches
  /\ switches' = switches + 1
  /\ switcher' = [p \in Switchers |->
       IF p = o
       THEN [pc |-> pc, target |-> target, version |-> version, before |-> activeSlot,
             alone |-> \A q \in Switchers \ {o} : switcher[q].pc = "idle"]
       ELSE [switcher[p] EXCEPT !.alone = FALSE]]

SwitchAt(o, pc) == switcher' = [switcher EXCEPT ![o].pc = pc]

(* prepare_deployment(): starts the instance, sleeps, and keeps the version if all is well. *)
PrepareDeployment(o, slot, version) ==
  BeginCall(o, "preparing", slot, version) /\ UNCHANGED <<activeSlot, versions, slotHealthy>>

FinishPrepare(o) ==
  /\ switcher[o].pc = "preparing"
  /\ versions' = IF slotHealthy
                 THEN [versions EXCEPT ![switcher[o].target] = switcher[o].version]
                 ELSE versions
  /\ SwitchAt(o, "idle")
  /\ UNCHANGED <<activeSlot, slotHealthy, switches>>

SwitchTraffic(o, slot) ==
  BeginCall(o, "checking", slot, NoVersion) /\ UNCHANGED <<activeSlot, versions, slotHealthy>>

(* rollback_deployment(): a switch to the slot that is not active when it is called. *)
RollbackDeployment(o) == SwitchTraffic(o, OtherSlot(activeSlot))

CheckSlot(o) ==
  /\ switcher[o].pc = "checking"
  /\ SwitchAt(o, IF slotHealthy THEN "storing" ELSE "idle")
  /\ UNCHANGED <<activeSlot, versions, slotHealthy, switches>>

StoreActive(o) ==
  /\ switcher[o].pc = "storing"
  /\ activeSlot' = switcher[o].target
  /\ SwitchAt(o, "verifying")
  /\ UNCHANGED <<versions, slotHealthy, switches>>


(* A failed verification stores the slot opposite to the target. *)
SlotAfterFailure(target) == OtherSlot(target)

VerifySwitch(o) ==
  /\ switcher[o].pc = "verifying"
  /\ activeSlot' = IF slotHealthy THEN activeSlot ELSE SlotAfterFailure(switcher[o].target)
  /\ SwitchAt(o, "idle")
  /\ UNCHANGED <<versions, slotHealthy, switches>>

SlotStep(o) == FinishPrepare(o) \/ CheckSlot(o) \/ StoreActive(o) \/ VerifySwitch(o)

SlotNext ==
  \/ HealthTurns
  \/ \E o \in Switchers :
       \/ SlotStep(o) \/ RollbackDeployment(o)
       \/ \E slot \in Slots : SwitchTraffic(o, slot) \/ \E v \in Versions : PrepareDeployment(o, slot, v)

-----------------------------------------------------------------------------
DefaultChecks == {"performance_sla", "memory_usage", "security_config", "backup_recovery"}

CheckInit == checks = {} /\ checkOk = [c \in DefaultChecks \cup CustomChecks |-> TRUE] /\ verdict = "none"

RegisterCheck(c) == checks' = checks \cup {c} /\ UNCHANGED <<checkOk, verdict>>

CheckTurns(c) == checkOk' = [checkOk EXCEPT ![c] = ~@] /\ UNCHANGED <<checks, verdict>>

(* setup_default_checks(): only when nothing has been registered. *)
SetupDefaultChecks == IF checks = {} THEN DefaultChecks ELSE checks

(* memory_usage answers WARN, never FAIL. *)
CheckFails(c) == ~checkOk[c] /\ c # "memory_usage"

(* is_production_ready(), through run_all_checks(). *)
IsProductionReady ==
  /\ checks' = SetupDefaultChecks
  /\ verdict' = IF \E c \in SetupDefaultChecks : CheckFails(c) THEN "not_ready" ELSE "ready"
  /\ UNCHANGED checkOk

CheckNext ==
  \/ IsProductionReady
  \/ \E c \in CustomChecks : RegisterCheck(c)
  \/ \E c \in DefaultChecks \cup CustomChecks : CheckTurns(c)

-----------------------------------------------------------------------------
NoResult == [total |-> -1]

LoadInit ==
  /\ loadRate \in LoadRates
  /\ loader = [c \in LoadClients |-> [pc |-> "idle", orders |-> 0]]
  /\ total = 0 /\ succeeded = 0 /\ failures = 0 /\ latencies = <<>> /\ loadResult = NoResult
  /\ chaosThread \in {"off", "stabilise"} /\ chaosActive = FALSE /\ experiment = "idle"

ClientAt(c, pc) == loader' = [loader EXCEPT ![c].pc = pc]

OrdersPerClient == loadRate \div Cardinality(LoadClients)

(* The order is timed and counted. *)
CountOrder(c) ==
  /\ loader[c].pc = "idle" /\ loader[c].orders < MaxOrders
  /\ total' = total + 1
  /\ loader' = [loader EXCEPT ![c] = [pc |-> "counted", orders |-> @.orders + 1]]
  /\ UNCHANGED <<loadRate, succeeded, failures, latencies, loadResult, chaosThread, chaosActive, experiment>>

CountSuccess(c) ==
  /\ loader[c].pc = "counted"
  /\ succeeded' = succeeded + 1
  /\ ClientAt(c, "recording")
  /\ UNCHANGED <<loadRate, total, failures, latencies, loadResult, chaosThread, chaosActive, experiment>>

RecordSample(c, latency) ==
  /\ loader[c].pc = "recording"
  /\ latencies' = Append(latencies, latency)
  /\ ClientAt(c, "pacing")
  /\ UNCHANGED <<loadRate, total, succeeded, failures, loadResult, chaosThread, chaosActive, experiment>>

CountFailed(c) ==
  /\ loader[c].pc = "counted"
  /\ failures' = failures + 1
  /\ ClientAt(c, "pacing")
  /\ UNCHANGED <<loadRate, total, succeeded, latencies, loadResult, chaosThread, chaosActive, experiment>>

(* 1000000 / orders_per_client: fewer orders than clients divide by zero, and the process dies. *)
Pace(c) ==
  /\ loader[c].pc = "pacing"
  /\ loader' = IF OrdersPerClient = 0
               THEN [d \in LoadClients |-> [loader[d] EXCEPT !.pc = "dead"]]
               ELSE [loader EXCEPT ![c].pc = "idle"]
  /\ UNCHANGED <<loadRate, total, succeeded, failures, latencies, loadResult, chaosThread, chaosActive, experiment>>

Alive == \A c \in LoadClients : loader[c].pc # "dead"

(* config.duration is over. *)
EndClient(c) ==
  /\ loader[c].pc = "idle"
  /\ ClientAt(c, "ended")
  /\ UNCHANGED <<loadRate, total, succeeded, failures, latencies, loadResult, chaosThread, chaosActive, experiment>>

(* Mutant of Joined: the counters are read as soon as one client has ended. *)
JoinedOne == \E c \in LoadClients : loader[c].pc = "ended"

(* Every client thread is joined before the counters are read. *)
Joined == \A c \in LoadClients : loader[c].pc = "ended"

(* latencies[size * 0.99] of the sorted latencies. *)
P99 == SortSeq(latencies, <)[((Len(latencies) * 99) \div 100) + 1]

LatencySum == FoldSeq(+, 0, latencies)

(* simulate_client_load() gathers; run_load_test() then judges the result. *)
CollectResult(fastEnough) ==
  /\ Joined /\ loadResult = NoResult
  /\ LET none == latencies = <<>>
     IN  loadResult' = [total |-> total, ok |-> succeeded, failed |-> failures,
                        p99 |-> IF none THEN 0 ELSE P99,
                        sla |-> /\ none \/ LatencySum < SlaAverage * Len(latencies)
                                /\ none \/ P99 < SlaP99
                                /\ fastEnough]
  /\ UNCHANGED <<loadRate, loader, total, succeeded, failures, latencies, chaosThread, chaosActive, experiment>>

NextChaos == [stabilise |-> "latency", latency |-> "memory", memory |-> "ended"]

(* inject_chaos_during_test(); its last step is stop_all_chaos(). *)
InjectChaos ==
  /\ Alive /\ chaosThread \in DOMAIN NextChaos
  /\ chaosThread' = NextChaos[chaosThread]
  /\ chaosActive' = IF chaosThread' = "ended" THEN FALSE ELSE chaosActive
  /\ UNCHANGED <<loadRate, loader, total, succeeded, failures, latencies, loadResult, experiment>>

(* run_experiment() sets the flag, sleeps, and clears it. *)
RunExperiment ==
  /\ Alive
  /\ experiment' = IF experiment = "idle" THEN "running" ELSE "idle"
  /\ chaosActive' = (experiment = "idle")
  /\ UNCHANGED <<loadRate, loader, total, succeeded, failures, latencies, loadResult, chaosThread>>

LoadNext ==
  \/ \E c \in LoadClients :
       \/ CountOrder(c) \/ CountSuccess(c) \/ CountFailed(c) \/ Pace(c) \/ EndClient(c)
       \/ \E l \in LoadLatencies : RecordSample(c, l)
  \/ \E fast \in BOOLEAN : CollectResult(fast)
  \/ InjectChaos \/ RunExperiment

-----------------------------------------------------------------------------
Returns(o) == switcher[o].pc # "idle" /\ switcher'[o].pc = "idle"


(***************************************************************************)
(* run_load_test(): however the client threads interleave, the report      *)
(* accounts for every order as either successful or failed, has one        *)
(* latency per successful order, and its p99 is a recorded latency that at *)
(* least 99 in 100 of them do not exceed.                                  *)
(***************************************************************************)
LoadTotalsExact ==
  loadResult # NoResult =>
    /\ loadResult.total = loadResult.ok + loadResult.failed
    /\ loadResult.ok = Len(latencies)
    /\ latencies # <<>> =>
         100 * Quantify(DOMAIN latencies, LAMBDA i : latencies[i] <= loadResult.p99) >= 99 * Len(latencies)
=============================================================================
