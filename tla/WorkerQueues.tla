---------------------------- MODULE WorkerQueues ----------------------------
(***************************************************************************)
(* The queues of the worker process (apps/worker/src/index.ts): automation *)
(* jobs, notifications, and scheduled reports with their jobs.  They share *)
(* the process and its tick but none of their rows, so that each behaviour *)
(* exercises one of them: part says which.                                 *)
(***************************************************************************)
EXTENDS AutomationJobs, Notifications, ReportSchedules

VARIABLE part   \* the queue this behaviour is about

queueVars == <<vars, notificationVars, reportVars, part>>

QueuesTypeOK ==
  /\ part \in {"automation", "notifications", "reports"}
  /\ TypeOK /\ NotificationsTypeOK /\ ReportSchedulesTypeOK

QueuesInit ==
  /\ part \in {"automation", "notifications", "reports"}
  /\ Init /\ NotificationsInit /\ ReportSchedulesInit

AutomationTurn == part = "automation" /\ Next /\ UNCHANGED <<notificationVars, reportVars>>
NotificationsTurn == part = "notifications" /\ NotificationsNext /\ UNCHANGED <<vars, reportVars>>
ReportsTurn == part = "reports" /\ ReportSchedulesNext /\ UNCHANGED <<vars, notificationVars>>

QueuesNext == (AutomationTurn \/ NotificationsTurn \/ ReportsTurn) /\ UNCHANGED part

QueuesSpec == QueuesInit /\ [][QueuesNext]_queueVars /\ Fairness /\ NotificationsFairness

\* The worker leaves nothing behind: every job and every message ends, whatever
\* crashes and troubles there were.
QueuesSettle == JobsSettle /\ NotificationsSettle
=============================================================================
