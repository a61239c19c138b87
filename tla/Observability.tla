--------------------------- MODULE Observability ---------------------------
(***************************************************************************)
(* src/observability.cpp: MetricsCollector, PerformanceCounters,           *)
(* AnomalyDetector, AlertManager, SecurityAuditTrail and the monitoring    *)
(* thread of ObservabilityStack, for one gauge, one timed operation and    *)
(* one user.                                                               *)
(*                                                                         *)
(* Log lines, labels and the export text are left out.  A z-score is       *)
(* compared in integers: for n samples of sum S and sum of squares Q,      *)
(* |v - mean| / std_dev > z exactly when (v n - S)^2 > z^2 (n Q - S^2),    *)
(* which also gives the code's answers when the deviation is 0.            *)
(***************************************************************************)
EXTENDS Integers, Sequences, SequencesExt, FiniteSets, FiniteSetsExt

CONSTANTS Values,         \* values of the gauge and of the latencies
          WindowLimit,    \* 1000 gauge values, 10000 of a histogram, 10000 latencies
          WindowDrop,     \* 500, 5000 and 5000: what is dropped from a full window
          BaselineWindow, \* window_size of the anomaly detector
          MinSamples,     \* 10: samples needed before the baseline moves
          ZScore,         \* z_score_threshold
          ConfiguredMean, \* mean given by configure_metric(), with a deviation of 1
          Threshold,      \* threshold of the registered alert
          AuditLimit,     \* 100000 events before a cleanup
          Retention,      \* 30 days, in ticks
          Hour,           \* one hour, in ticks
          FailedLogins,   \* 5: failures in the last hour that raise an alert
          MaxRecords,     \* bound on the values and events recorded
          MaxLoops,       \* bound on the turns of the monitoring loop
          MaxNow          \* bound on the clock

VARIABLES gauge,          \* gauges_[name], oldest first
          samples,        \* latencies_[operation] and its histogram, which are cut alike
          gaugeLog, sampleLog, \* history: every value recorded
          baseline,       \* history_[name]
          statistics,     \* thresholds_[name]: n, sum and squares it was computed from
          alerts,         \* active_alerts_: name and whether it is resolved
          trail,          \* events_
          trailLog,       \* history: every event logged
          now,            \* the clock
          monitorAt,      \* monitoring thread: "off", "check", "detect", "sleep", "ended"
          monitorOn,      \* monitoring_active_
          loops           \* turns made

obsVars == <<gauge, samples, gaugeLog, sampleLog, baseline, statistics, alerts, trail, trailLog,
             now, monitorAt, monitorOn, loops>>

(* configure_metric(): mean and a deviation of 1, as one sample pair would give. *)
Configured == [n |-> 2, sum |-> 2 * ConfiguredMean, squares |-> 2 * ConfiguredMean * ConfiguredMean + 2]

ObsInit ==
  /\ gauge = <<>> /\ samples = <<>> /\ gaugeLog = <<>> /\ sampleLog = <<>>
  /\ baseline = <<>> /\ statistics = Configured
  /\ alerts = <<>> /\ trail = <<>> /\ trailLog = <<>>
  /\ now = 0 /\ monitorAt = "off" /\ monitorOn = FALSE /\ loops = 0

(* erase(begin, begin + WindowDrop) once the window is too long. *)
Window(values) ==
  IF Len(values) > WindowLimit THEN SubSeq(values, WindowDrop + 1, Len(values)) ELSE values

Room == Len(gaugeLog) + Len(sampleLog) + Len(baseline) + Len(trailLog) < MaxRecords

SetGauge(v) ==
  /\ Room
  /\ gauge' = Window(Append(gauge, v)) /\ gaugeLog' = Append(gaugeLog, v)
  /\ UNCHANGED <<samples, sampleLog, baseline, statistics, alerts, trail, trailLog, now, monitorAt, monitorOn, loops>>

(* PerformanceCounters::record_latency(), which also records the histogram. *)
RecordLatencySample(v) ==
  /\ Room
  /\ samples' = Window(Append(samples, v)) /\ sampleLog' = Append(sampleLog, v)
  /\ UNCHANGED <<gauge, gaugeLog, baseline, statistics, alerts, trail, trailLog, now, monitorAt, monitorOn, loops>>

Square(x) == x * x

(* calculate_statistics(): nothing before MinSamples values. *)
CalculateStatistics(values) ==
  IF Len(values) < MinSamples THEN statistics
  ELSE [n |-> Len(values), sum |-> FoldSeq(+, 0, values),
        squares |-> FoldSeq(LAMBDA x, acc : x * x + acc, 0, values)]

UpdateBaseline(v) ==
  /\ Room
  /\ LET longer == Append(baseline, v)
     IN  baseline' = IF Len(longer) > BaselineWindow THEN Tail(longer) ELSE longer
  /\ statistics' = CalculateStatistics(baseline')
  /\ UNCHANGED <<gauge, samples, gaugeLog, sampleLog, alerts, trail, trailLog, now, monitorAt, monitorOn, loops>>

IsAnomaly(v) ==
  LET s == statistics
  IN  Square(v * s.n - s.sum) > Square(ZScore) * (s.n * s.squares - Square(s.sum))

Conditions == {"gauge", "gauge_anomaly"}

(* The registered conditions read the last value of the gauge. *)
ConditionHolds(name) ==
  gauge # <<>> /\ (IF name = "gauge" THEN Last(gauge) > Threshold ELSE IsAnomaly(Last(gauge)))


AlreadyActive(name) == \E i \in DOMAIN alerts : alerts[i].name = name /\ ~alerts[i].resolved

Fired(names) == SetToSeq({[name |-> n, resolved |-> FALSE] : n \in names})

(* check_alerts(), one turn under alerts_mutex_. *)
CheckAlerts ==
  /\ monitorAt = "check"
  /\ alerts' = alerts \o Fired({n \in Conditions : ConditionHolds(n) /\ ~AlreadyActive(n)})
  /\ monitorAt' = "detect"
  /\ UNCHANGED <<gauge, samples, gaugeLog, sampleLog, baseline, statistics, trail, trailLog, now, monitorOn, loops>>

RecentFailures == Quantify(DOMAIN trail, LAMBDA i : trail[i].at >= now - Hour /\ trail[i].failed)

(* detect_suspicious_activity(): fires on every turn, without looking for an open alert. *)
DetectSuspicious ==
  /\ monitorAt = "detect"
  /\ alerts' = IF RecentFailures >= FailedLogins THEN alerts \o Fired({"suspicious_login"}) ELSE alerts
  /\ monitorAt' = "sleep"
  /\ UNCHANGED <<gauge, samples, gaugeLog, sampleLog, baseline, statistics, trail, trailLog, now, monitorOn, loops>>

(* resolve_alert(): the first open alert of that name. *)
ResolveAlert(name) ==
  /\ AlreadyActive(name)
  /\ LET first == CHOOSE i \in DOMAIN alerts :
                    /\ alerts[i].name = name /\ ~alerts[i].resolved
                    /\ \A j \in 1 .. i - 1 : alerts[j].name # name \/ alerts[j].resolved
     IN  alerts' = [alerts EXCEPT ![first].resolved = TRUE]
  /\ UNCHANGED <<gauge, samples, gaugeLog, sampleLog, baseline, statistics, trail, trailLog, now, monitorAt, monitorOn, loops>>

(* cleanup_old_events(): a full trail forgets what is past its retention. *)
Cleanup(events) ==
  IF Len(events) > AuditLimit THEN SelectSeq(events, LAMBDA e : e.at >= now - Retention) ELSE events

LogSecurityEvent(failed) ==
  /\ Room
  /\ LET event == [at |-> now, failed |-> failed]
     IN  trail' = Cleanup(Append(trail, event)) /\ trailLog' = Append(trailLog, event)
  /\ UNCHANGED <<gauge, samples, gaugeLog, sampleLog, baseline, statistics, alerts, now, monitorAt, monitorOn, loops>>

ClockAdvances ==
  /\ now < MaxNow /\ now' = now + 1
  /\ UNCHANGED <<gauge, samples, gaugeLog, sampleLog, baseline, statistics, alerts, trail, trailLog, monitorAt, monitorOn, loops>>

StartObserving ==
  /\ ~monitorOn /\ monitorAt = "off"
  /\ monitorOn' = TRUE /\ monitorAt' = "sleep"
  /\ UNCHANGED <<gauge, samples, gaugeLog, sampleLog, baseline, statistics, alerts, trail, trailLog, now, loops>>

(* monitoring_loop(): the flag is read once a turn. *)
MonitoringTurn ==
  /\ monitorAt = "sleep" /\ loops < MaxLoops
  /\ monitorAt' = IF monitorOn THEN "check" ELSE "ended"
  /\ loops' = loops + 1
  /\ UNCHANGED <<gauge, samples, gaugeLog, sampleLog, baseline, statistics, alerts, trail, trailLog, now, monitorOn>>

(* stop_monitoring(), which then joins the thread. *)
StopObserving ==
  /\ monitorOn /\ monitorOn' = FALSE
  /\ UNCHANGED <<gauge, samples, gaugeLog, sampleLog, baseline, statistics, alerts, trail, trailLog, now, monitorAt, loops>>

ObsNext ==
  \/ \E v \in Values : SetGauge(v) \/ RecordLatencySample(v) \/ UpdateBaseline(v)
  \/ CheckAlerts \/ DetectSuspicious \/ MonitoringTurn \/ StartObserving \/ StopObserving \/ ClockAdvances
  \/ \E name \in Conditions \cup {"suspicious_login"} : ResolveAlert(name)
  \/ \E failed \in BOOLEAN : LogSecurityEvent(failed)

-----------------------------------------------------------------------------
(***************************************************************************)
(* check_alerts() and resolve_alert(): a condition that stays true over    *)
(* many turns, goes away, comes back, or is resolved in between has at     *)
(* most one unresolved alert.                                              *)
(***************************************************************************)
OneOpenAlert ==
  \A n \in Conditions : Quantify(DOMAIN alerts, LAMBDA i : alerts[i].name = n /\ ~alerts[i].resolved) <= 1

KeepsRecent(kept, log) ==
  /\ Len(kept) <= WindowLimit
  /\ Len(kept) >= Min({Len(log), WindowLimit - WindowDrop})
  /\ IsSuffix(kept, log)

(***************************************************************************)
(* set_gauge(), record_latency() and log_security_event(): a bounded       *)
(* window always holds the newest values, in order and not fewer than half *)
(* its limit; the audit trail loses no event that is within its retention. *)
(***************************************************************************)
RecentKept ==
  /\ KeepsRecent(gauge, gaugeLog) /\ KeepsRecent(samples, sampleLog)
  /\ \A i \in DOMAIN trailLog : trailLog[i].at >= now - Retention => Contains(trail, trailLog[i])

=============================================================================
