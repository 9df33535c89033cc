--------------------------- MODULE FailureAlerts ---------------------------
(***************************************************************************)
(* Alerts about a host whose operations keep failing                       *)
(* (ops-worker/worker.py).                                                 *)
(*                                                                         *)
(* A thread of the ops-worker that records a failed operation afterwards   *)
(* counts the recent failures of the host and looks for a recent alert.    *)
(* It then posts the alert, with retries, and records it at last.  Nothing *)
(* keeps two threads from being between the check and the record at once.  *)
(* One host stands for all; a table is the created_at of its rows, in the  *)
(* order of their ids.                                                     *)
(***************************************************************************)
EXTENDS Integers, FiniteSets, Sequences

CONSTANTS
    Recorders,      \* threads that record operations
    Threshold,      \* OPS_ALERT_FAILURE_THRESHOLD
    Window,         \* OPS_ALERT_WINDOW_SECONDS
    Cooldown,       \* OPS_ALERT_COOLDOWN_SECONDS
    RetryAttempts,  \* NOTIFICATION_SERVICE_RETRY_ATTEMPTS
    MaxAlertTime,   \* bound of the clock
    MaxFailures     \* bound: failures recorded at one moment

ASSUME AlertAssumption ==
    /\ IsFiniteSet(Recorders)
    /\ Threshold \in Nat \ {0} /\ Window \in Nat /\ Cooldown \in Nat
    /\ RetryAttempts \in Nat /\ MaxAlertTime \in Nat /\ MaxFailures \in Nat

VARIABLES
    failures,   \* the failed operations
    alerts,     \* the "alert" operations, completed or failed
    recorder,   \* recorder[t]: where t is, and its failed posts
    moment,     \* _now_utc()
    cut         \* whether an alert was under way when the process or the table failed

alertVars == <<failures, alerts, recorder, moment, cut>>

Working == [at |-> "working", posts |-> 0]

AlertsInit ==
    /\ failures = <<>> /\ alerts = <<>>
    /\ recorder = [t \in Recorders |-> Working]
    /\ moment = 0
    /\ cut = FALSE

\* SELECT ... WHERE created_at >= now - past
Since(rows, past) == {n \in DOMAIN rows : rows[n] >= moment - past}
Failing == Cardinality(Since(failures, Window))

\* record_reservation_operation of a failure: the row is committed, then the
\* alert check follows.
RecordFailure(t) ==
    /\ recorder[t].at = "working"
    /\ Cardinality(Since(failures, 0)) < MaxFailures
    /\ failures' = Append(failures, moment)
    /\ recorder' = [recorder EXCEPT ![t].at = "check"]
    /\ UNCHANGED <<alerts, moment, cut>>

\* Mutated form: an alert needs more failures than the threshold.
ShouldSendAbove == Failing > Threshold /\ Since(alerts, Cooldown) = {}

ShouldSend == Failing >= Threshold /\ Since(alerts, Cooldown) = {}

CheckFailures(t) ==
    /\ recorder[t].at = "check"
    /\ recorder' = [recorder EXCEPT ![t] =
            IF ShouldSend THEN [at |-> "send", posts |-> 0] ELSE Working]
    /\ UNCHANGED <<failures, alerts, moment, cut>>

\* An attempt that fails and is not the last sleeps and is repeated.
PostAgain(t) ==
    /\ recorder[t].at = "send"
    /\ recorder[t].posts < RetryAttempts
    /\ recorder' = [recorder EXCEPT ![t].posts = @ + 1]
    /\ UNCHANGED <<failures, alerts, moment, cut>>

\* The service accepts the alert, or the last attempt has failed: either way the
\* alert is recorded, and its row keeps others silent.
RecordAlert(t) ==
    /\ recorder[t].at = "send"
    /\ alerts' = Append(alerts, moment)
    /\ recorder' = [recorder EXCEPT ![t] = Working]
    /\ UNCHANGED <<failures, moment, cut>>

\* The check or the alert's row fails on the database, which is only logged.
AlertLost(t) ==
    /\ recorder[t].at \in {"check", "send"}
    /\ recorder' = [recorder EXCEPT ![t] = Working]
    /\ cut' = TRUE
    /\ UNCHANGED <<failures, alerts, moment>>

AlertProcessDies ==
    /\ cut' = (cut \/ \E t \in Recorders : recorder[t].at # "working")
    /\ recorder' = [t \in Recorders |-> Working]
    /\ UNCHANGED <<failures, alerts, moment>>

AlertTick ==
    /\ moment < MaxAlertTime
    /\ moment' = moment + 1
    /\ UNCHANGED <<failures, alerts, recorder, cut>>

AlertsNext ==
    \/ \E t \in Recorders :
        \/ RecordFailure(t)
        \/ CheckFailures(t)
        \/ PostAgain(t)
        \/ RecordAlert(t)
        \/ AlertLost(t)
    \/ AlertProcessDies
    \/ AlertTick

AlertsSpec == AlertsInit /\ [][AlertsNext]_alertVars

-----------------------------------------------------------------------------
\* No outage stays silent and none floods: once the failures of a host reach the
\* threshold and every recorder is done, an alert went out since the cooldown
\* before the last of them, unless one was lost under way; and however checks and
\* records of concurrent failures overtake each other, a cooldown holds at most
\* one alert per thread.
OutageIsAlerted ==
    /\ ~cut /\ Failing >= Threshold /\ (\A t \in Recorders : recorder[t].at = "working") =>
        \E n \in DOMAIN alerts :
            \A i \in DOMAIN failures : alerts[n] >= failures[i] - Cooldown
    /\ Cardinality(Since(alerts, Cooldown)) <= Cardinality(Recorders)

=============================================================================
