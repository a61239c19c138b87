----------------------------- MODULE MCServices -----------------------------
(***************************************************************************)
(* The services around the trading path, small enough for TLC.  They share *)
(* no state (four parts of the network layer share a clock); "service"     *)
(* says which of them a behaviour is about.                                *)
(***************************************************************************)
EXTENDS NetworkSecurity, SecureConfig, Validation, MemorySafety, Clients, ThreadSafety, EmergencyShutdown,
        Deployment, Readiness, Transaction, ErrorRecovery, Observability, Startup

VARIABLE service

Timed == {"limiter", "middleware", "session", "traffic"}

Services ==
  Timed \cup {"channel", "config", "flags", "health", "text", "buffer", "string", "fd", "client", "lock", "drain",
              "race", "shutdown", "emergency", "deployment", "slots", "checks", "load", "transaction", "recovery",
              "observability", "startup"}

serviceVars ==
  <<service, limiterVars, middlewareVars, sessionVars, channelVars, trafficVars, configVars, flagVars, healthVars,
    textVars, bufferVars, stringVars, fdVars, clientVars, lockVars, drainVars, raceVars, shutdownVars, esVars, dpVars,
    readyVars, txVars, recoveryVars, obsVars, startupVars>>

(* Users in different places of the range of the hash. *)
HashOf == [u \in FlagUsers |-> IF u = "u1" THEN 0 ELSE 5000]

ServicesInit ==
  /\ service \in Services
  /\ LimiterInit /\ MiddlewareInit /\ SessionInit /\ ChannelInit /\ TrafficInit
  /\ ConfigInit /\ FlagInit /\ HealthInit /\ TextInit /\ BufferInit /\ StringInit /\ FdInit /\ ClientInit
  /\ LockInit /\ DrainInit /\ RaceInit /\ ShutdownInit /\ EmergencyInit /\ DeploymentInit /\ SlotInit /\ CheckInit /\ LoadInit
  /\ TxInit /\ RecoveryInit /\ ObsInit /\ StartupInit
  /\ service # "load" => loadRate = CHOOSE r \in LoadRates : TRUE
  /\ service # "load" => chaosThread = "off"

ServicesNext ==
  /\ UNCHANGED service
  /\ IF service \in Timed THEN TRUE ELSE UNCHANGED netNow
  /\ IF service = "limiter" THEN LimiterNext ELSE UNCHANGED <<buckets, granted, made>>
  /\ IF service = "middleware" THEN MiddlewareNext ELSE UNCHANGED <<lastAdmitted, answered>>
  /\ IF service = "session" THEN SessionNext ELSE UNCHANGED <<sessions, sessionCalls>>
  /\ IF service = "traffic" THEN TrafficNext ELSE UNCHANGED <<connections, authFailures, traffic>>
  /\ IF service = "channel" THEN ChannelNext ELSE UNCHANGED channelVars
  /\ IF service = "config" THEN ConfigNext ELSE UNCHANGED configVars
  /\ IF service = "flags" THEN FlagNext ELSE UNCHANGED flagVars
  /\ IF service = "health" THEN HealthNext ELSE UNCHANGED healthVars
  /\ IF service = "text" THEN TextNext ELSE UNCHANGED textVars
  /\ IF service = "buffer" THEN BufferNext ELSE UNCHANGED bufferVars
  /\ IF service = "string" THEN StringNext ELSE UNCHANGED stringVars
  /\ IF service = "fd" THEN FdNext ELSE UNCHANGED fdVars
  /\ IF service = "client" THEN ClientNext ELSE UNCHANGED clientVars
  /\ IF service = "lock" THEN LockNext ELSE UNCHANGED lockVars
  /\ IF service = "drain" THEN DrainNext ELSE UNCHANGED drainVars
  /\ IF service = "race" THEN RaceNext ELSE UNCHANGED raceVars
  /\ IF service = "shutdown" THEN ShutdownNext ELSE UNCHANGED shutdownVars
  /\ IF service = "emergency" THEN EmergencyNext ELSE UNCHANGED esVars
  /\ IF service = "deployment" THEN DeploymentNext ELSE UNCHANGED dpVars
  /\ IF service = "slots" THEN SlotNext ELSE UNCHANGED slotVars
  /\ IF service = "checks" THEN CheckNext ELSE UNCHANGED checkVars
  /\ IF service = "load" THEN LoadNext ELSE UNCHANGED loadVars
  /\ IF service = "transaction" THEN TxNext ELSE UNCHANGED txVars
  /\ IF service = "recovery" THEN RecoveryNext ELSE UNCHANGED recoveryVars
  /\ IF service = "observability" THEN ObsNext ELSE UNCHANGED obsVars
  /\ IF service = "startup" THEN StartupNext ELSE UNCHANGED startupVars

(***************************************************************************)
(* The deployment's thread and an abort run on.  The process and its HTTP  *)
(* server run, and an HTTP client that connects sends something or leaves. *)
(* The emergency monitor runs, and sleeps between its polls, so that an    *)
(* operator gets the lock it can take again and again.  Threads in the     *)
(* calls of the ShutdownManager run on.                                      *)
(***************************************************************************)
ServicesFairness ==
  /\ WF_dpVars(service = "deployment" /\ DeploymentThread) /\ WF_dpVars(service = "deployment" /\ OperatorAbort)
  /\ WF_startupVars(service = "startup" /\ MainStep) /\ WF_startupVars(service = "startup" /\ ServerStep)
  /\ WF_startupVars(service = "startup" /\ BrowserStep)
  /\ \A i \in Initiators : WF_shutdownVars(service = "shutdown" /\ initiator[i].pc # "out" /\ Initiate(i))
  /\ \A w \in Waiters : WF_shutdownVars(service = "shutdown" /\ waiter[w] # "out" /\ AwaitShutdown(w))
  /\ WF_esVars(service = "emergency" /\ MonitorStep)
  /\ SF_esVars(service = "emergency" /\ \E o \in Operators : OperatorStep(o))

ServicesSpec == ServicesInit /\ [][ServicesNext]_serviceVars /\ ServicesFairness

-----------------------------------------------------------------------------
=============================================================================
