--------------------------- MODULE ErrorMonitoring ---------------------------
(***************************************************************************)
(* The error monitor of the server (server/monitoring/errorMonitoring.ts): *)
(* a history of errors, the rates over its two windows, the alerts they    *)
(* trigger, and the cleanup of both; with the errors that the server and   *)
(* the browsers report to it and the health reports that are read from it. *)
(*                                                                         *)
(* Every operation runs to its end: an alert is in the history before its  *)
(* notifications are sent, and these change nothing.  Time is counted in   *)
(* ticks of five minutes, the short window and the distance of alerts.     *)
(***************************************************************************)
EXTENDS Naturals, Sequences, FiniteSets

CONSTANTS
  RateLimit,       \* errors a short window may have: errorRateThreshold times its minutes
  CriticalLimit,   \* criticalErrorThreshold, per long window
  LongWindow,      \* longTermWindowMs
  History,         \* how long errors and alerts are kept
  CleanupEvery,    \* the interval of cleanup
  Shown,           \* alerts a health report looks at
  MaxErrors, MaxTime

ASSUME MonitorAssumption ==
  {RateLimit, CriticalLimit, LongWindow, History, CleanupEvery, Shown} \subseteq Nat

VARIABLES
  now,
  errors,          \* errorHistory: records [at, type]
  alerts,          \* alertHistory: records [at, type]
  cleaned,         \* lastCleanup
  tracked          \* errors tracked, for the bound
monitor == <<now, errors, alerts, cleaned, tracked>>

\* The classes of errors as far as the monitor's alerts tell them apart, and those
\* whose message matches an ignored pattern.
Classes == {"DatabaseError", "Error", "ignored"}

MonitorInit ==
  now = 1 /\ errors = <<>> /\ alerts = <<>> /\ cleaned = 1 /\ tracked = 0

MonitorTypeOK ==
  /\ now \in 1..MaxTime /\ cleaned \in 1..now
  /\ \A i \in DOMAIN errors : errors[i] \in [at : 1..now, type : Classes]
  /\ \A i \in DOMAIN alerts : alerts[i] \in [at : 1..now, type : {"error_rate", "critical_error"}]

-----------------------------------------------------------------------------

\* getErrorSeverity and criticalErrorTypes name the same three classes: errors of
\* the database, of authentication, of a service that is away.
IsCritical(class) == class = "DatabaseError"

\* getErrorStats: the places of the errors of a history that are in its windows at the
\* time t.  A window includes the moment it begins.
RecentErrors(history, t) == {i \in DOMAIN history : history[i].at + 1 >= t}
CriticalErrors(history, t) ==
  {i \in DOMAIN history : history[i].at + LongWindow >= t /\ IsCritical(history[i].type)}

HighRate(history) == Cardinality(RecentErrors(history, now)) > RateLimit
ManyCritical(history) == Cardinality(CriticalErrors(history, now)) > CriticalLimit

\* Alerts of the last five minutes, of which the end is open.
Fresh(list, type) == {i \in DOMAIN list : list[i].type = type /\ list[i].at + 1 > now}

\* Bug: an alert of another type counts as a duplicate.
BugTriggered(list, type) ==
  IF \E i \in DOMAIN list : list[i].at + 1 > now THEN list
  ELSE Append(list, [at |-> now, type |-> type])

Triggered(list, type) ==
  IF Fresh(list, type) # {} THEN list ELSE Append(list, [at |-> now, type |-> type])

\* checkAlertConditions
Checked(history) ==
  LET first == IF HighRate(history) THEN Triggered(alerts, "error_rate") ELSE alerts
  IN IF ManyCritical(history) THEN Triggered(first, "critical_error") ELSE first

\* trackError, called by logError of the server's handlers and for the errors that
\* browsers report, which arrive as plain errors whatever their name.
TrackError(class) ==
  LET history == Append(errors, [at |-> now, type |-> class]) IN
  /\ tracked < MaxErrors /\ tracked' = tracked + 1
  /\ IF class = "ignored" THEN UNCHANGED <<errors, alerts>>
     ELSE errors' = history /\ alerts' = Checked(history)
  /\ UNCHANGED <<now, cleaned>>

\* The elements of a list at the places S, in their order.
PlaceOf(i, S) == CHOOSE j \in S : Cardinality({k \in S : k <= j}) = i
Picked(list, S) == [i \in 1..Cardinality(S) |-> list[PlaceOf(i, S)]]

Lasting(list) == {i \in DOMAIN list : list[i].at + History >= now}

Cleanup ==
  /\ now >= cleaned + CleanupEvery
  /\ errors' = Picked(errors, Lasting(errors))
  /\ alerts' = Picked(alerts, Lasting(alerts))
  /\ cleaned' = now
  /\ UNCHANGED <<now, tracked>>

\* The interval of cleanup is kept.
TimePasses ==
  /\ now < MaxTime /\ now < cleaned + CleanupEvery
  /\ now' = now + 1
  /\ UNCHANGED <<errors, alerts, cleaned, tracked>>

MonitorNext ==
  \/ \E class \in Classes : TrackError(class)
  \/ Cleanup \/ TimePasses

MonitorSpec == MonitorInit /\ [][MonitorNext]_monitor

-----------------------------------------------------------------------------
(* What health reports say.                                                *)

LastOf(list, n) == SubSeq(list, IF Len(list) > n THEN Len(list) + 1 - n ELSE 1, Len(list))

\* getMonitoringHealth: the hour is looked for among the last alerts only.
Healthy ==
  /\ ~HighRate(errors)
  /\ \A i \in DOMAIN LastOf(alerts, Shown) : LET a == LastOf(alerts, Shown)[i] IN
       a.type = "critical_error" => a.at + LongWindow <= now

-----------------------------------------------------------------------------
(* Properties.                                                             *)

\* Whether the i-th error was beyond the threshold of the type when it was tracked, by
\* the errors that there were then.
Beyond(i, type) ==
  IF type = "error_rate"
  THEN Cardinality({j \in RecentErrors(errors, errors[i].at) : j <= i}) > RateLimit
  ELSE Cardinality({j \in CriticalErrors(errors, errors[i].at) : j <= i}) > CriticalLimit

\* An error tracked beyond a threshold found or left exactly one alert of that
\* type within its five minutes, neither swallowed by an alert of the other type
\* nor repeated nor lost by a cleanup that keeps the error; and for an hour no
\* health report calls the server healthy after a critical one, until as many
\* alerts came after it as a report looks at.
AlertedOnce ==
  \A i \in DOMAIN errors, type \in {"error_rate", "critical_error"} :
    Beyond(i, type) =>
      \E k \in DOMAIN alerts :
        /\ \A j \in DOMAIN alerts :
             (alerts[j].type = type /\ alerts[j].at = errors[i].at) <=> j = k
        /\ (type = "critical_error" /\ alerts[k].at + LongWindow > now /\ Healthy)
             => Len(alerts) >= k + Shown

=============================================================================
