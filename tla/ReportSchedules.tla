--------------------------- MODULE ReportSchedules ---------------------------
(***************************************************************************)
(* One report schedule and the report jobs it makes: swept by several      *)
(* workers (processReportSchedules, processReportJobs), edited, paused and *)
(* run at once by an administrator (reports.service.ts).                   *)
(*                                                                         *)
(* The unit of time is the hour.  An occurrence of the schedule is a       *)
(* multiple of Day.  The sweep is a serializable transaction: it fails     *)
(* when the schedule was written after its snapshot.                       *)
(***************************************************************************)
EXTENDS Integers, FiniteSets

CONSTANTS
  Sweepers,   \* worker processes
  Day,        \* hours between occurrences
  Horizon,    \* bound on time
  MaxUpsets   \* bound on edits, transient failures and dead workers together

ASSUME ReportSchedulesAssumption ==
  Day \in Nat \ {0} /\ Horizon \in Nat /\ MaxUpsets \in Nat

VARIABLES
  hour,       \* now
  schedule,   \* reportSchedule: isActive, nextRunAt, and a count of its writes
  report,     \* status of the job of each scheduledFor
  sweep,      \* each worker's transaction: the schedule of its snapshot
  building,   \* the job each worker builds
  upsets,
  shifted     \* a failed sweep has moved nextRunAt, or an edit has

reportVars == <<hour, schedule, report, sweep, building, upsets, shifted>>

Times == 0..Horizon
None == -1
Manual == -2   \* the scheduledFor of the job that was asked for (one is enough)
Slots == Times \cup {Manual}
NoSweep == [at |-> "idle", seen |-> [on |-> FALSE, next |-> 0, writes |-> 0]]
Occurrences == {t \in Times : t % Day = 0}
\* nextReportScheduleRun, nextScheduledReportRun: strictly after.
NextOccurrence(t) == Day * (t \div Day + 1)

ReportSchedulesTypeOK ==
  /\ hour \in Times
  /\ schedule \in [on : BOOLEAN, next : Nat, writes : Nat]
  /\ report \in [Slots -> {"NONE", "PENDING", "RUNNING", "DONE", "FAILED"}]
  /\ sweep \in [Sweepers -> [at : {"idle", "due", "tx", "failed"}, seen : [on : BOOLEAN, next : Nat, writes : Nat]]]
  /\ building \in [Sweepers -> Slots \cup {None}]
  /\ upsets \in 0..MaxUpsets /\ shifted \in BOOLEAN

ReportSchedulesInit ==
  /\ hour = 0 /\ schedule = [on |-> TRUE, next |-> Day, writes |-> 0]
  /\ report = [t \in Slots |-> "NONE"]
  /\ sweep = [w \in Sweepers |-> NoSweep] /\ building = [w \in Sweepers |-> None]
  /\ upsets = 0 /\ shifted = FALSE

Upset == upsets < MaxUpsets /\ upsets' = upsets + 1
Written(next) == schedule' = [schedule EXCEPT !.next = next, !.writes = @ + 1]

Hour == hour < Horizon /\ hour' = hour + 1
        /\ UNCHANGED <<schedule, report, sweep, building, upsets, shifted>>

-----------------------------------------------------------------------------
IsDue == schedule.on /\ schedule.next <= hour

SeeDue(w) ==
  /\ sweep[w].at = "idle" /\ building[w] = None /\ IsDue
  /\ sweep' = [sweep EXCEPT ![w].at = "due"]
  /\ UNCHANGED <<hour, schedule, report, building, upsets, shifted>>

BeginSweep(w) ==
  /\ sweep[w].at = "due"
  /\ sweep' = [sweep EXCEPT ![w] = IF IsDue THEN [at |-> "tx", seen |-> schedule] ELSE NoSweep]
  /\ UNCHANGED <<hour, schedule, report, building, upsets, shifted>>

\* Faulty variant: the next run is counted from now, not from the one that was due.
FromNow(seen) == NextOccurrence(hour)
Advance(seen) == NextOccurrence(seen)

\* Nobody wrote the schedule, and there is no job of this scheduledFor yet.
Conflicts(seen) == seen.writes # schedule.writes \/ report[seen.next] # "NONE"

Materialize(w) ==
  LET seen == sweep[w].seen IN
  /\ sweep[w].at = "tx" /\ ~Conflicts(seen)
  /\ report' = [report EXCEPT ![seen.next] = "PENDING"]
  /\ Written(Advance(seen.next))
  /\ sweep' = [sweep EXCEPT ![w] = NoSweep]
  /\ UNCHANGED <<hour, building, upsets, shifted>>

SweepFails(w) ==
  /\ sweep[w].at = "tx"
  /\ IF Conflicts(sweep[w].seen) THEN UNCHANGED upsets ELSE Upset
  /\ sweep' = [sweep EXCEPT ![w].at = "failed"]
  /\ UNCHANGED <<hour, schedule, report, building, shifted>>

\* The catch block: in an hour, whatever the schedule says by now.
Postpone(w) ==
  /\ sweep[w].at = "failed"
  /\ Written(hour + 1) /\ shifted' = TRUE
  /\ sweep' = [sweep EXCEPT ![w] = NoSweep]
  /\ UNCHANGED <<hour, report, building, upsets>>

-----------------------------------------------------------------------------
\* updateSchedule computes nextRunAt anew.
EditSchedule(on) ==
  /\ Upset
  /\ schedule' = [on |-> on, next |-> NextOccurrence(hour), writes |-> schedule.writes + 1]
  /\ shifted' = TRUE
  /\ UNCHANGED <<hour, report, sweep, building>>

\* runScheduleNow, scheduled for this very moment; it leaves nextRunAt alone.
RunNow ==
  /\ report[Manual] = "NONE"
  /\ report' = [report EXCEPT ![Manual] = "PENDING"]
  /\ Written(schedule.next)
  /\ UNCHANGED <<hour, sweep, building, upsets, shifted>>

\* Faulty variant: the claim does not ask for PENDING.
BuildAny(w, t) ==
  /\ sweep[w].at = "idle" /\ building[w] = None /\ report[t] \in {"PENDING", "RUNNING"}
  /\ report' = [report EXCEPT ![t] = "RUNNING"] /\ building' = [building EXCEPT ![w] = t]
  /\ UNCHANGED <<hour, schedule, sweep, upsets, shifted>>
Build(w, t) ==
  /\ sweep[w].at = "idle" /\ building[w] = None /\ report[t] = "PENDING"
  /\ report' = [report EXCEPT ![t] = "RUNNING"] /\ building' = [building EXCEPT ![w] = t]
  /\ UNCHANGED <<hour, schedule, sweep, upsets, shifted>>

\* Completion also writes lastJobId and lastError: a write of the schedule.
Finish(w, outcome) ==
  /\ building[w] # None
  /\ report' = [report EXCEPT ![building[w]] = outcome] /\ building' = [building EXCEPT ![w] = None]
  /\ Written(schedule.next)
  /\ UNCHANGED <<hour, sweep, upsets, shifted>>

\* A worker dies: a job it builds stays RUNNING and is not taken again.
SweeperDies(w) ==
  /\ sweep[w].at # "idle" \/ building[w] # None
  /\ Upset
  /\ sweep' = [sweep EXCEPT ![w] = NoSweep] /\ building' = [building EXCEPT ![w] = None]
  /\ UNCHANGED <<hour, schedule, report, shifted>>

ReportSchedulesNext ==
  \/ Hour \/ RunNow \/ \E on \in BOOLEAN : EditSchedule(on)
  \/ \E w \in Sweepers :
       \/ SeeDue(w) \/ BeginSweep(w) \/ Materialize(w) \/ SweepFails(w) \/ Postpone(w) \/ SweeperDies(w)
       \/ \E t \in Slots : Build(w, t)
       \/ \E outcome \in {"DONE", "FAILED"} : Finish(w, outcome)

ReportSchedulesSpec == ReportSchedulesInit /\ [][ReportSchedulesNext]_reportVars

-----------------------------------------------------------------------------
(* However late the workers are, no occurrence is skipped and nothing is   *)
(* made off schedule, as long as no sweep failed and nobody edited the     *)
(* schedule; a job is in the hands of one worker.                          *)
OccurrencesAreCovered ==
  /\ ~shifted => \A t \in Times :
       report[t] # "NONE" <=> t \in Occurrences \ {0} /\ t < schedule.next
  /\ \A v, w \in Sweepers : building[v] = building[w] /\ building[v] # None => v = w

(* F8-AUTOMATION-SCHEDULED-REPORTS-COMPLETION.md:28: uniqueness "plus      *)
(* transactional schedule advancement prevents duplicate scheduled jobs    *)
(* across concurrent workers": an occurrence makes one job.                *)
ScheduledOnce ==
  upsets = 0 => \A o \in Occurrences :
    Cardinality({t \in Times : o <= t /\ t < o + Day /\ report[t] # "NONE"}) <= 1
=============================================================================
