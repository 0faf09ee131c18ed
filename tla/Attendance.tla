----------------------------- MODULE Attendance -----------------------------
(***************************************************************************)
(* One day of attendance in a branch (attendance.service.ts), the leave    *)
(* requests of one employee (hr.service.ts) and the lock that hands the    *)
(* day to payroll (payroll.service.ts).  Punches and corrections are       *)
(* read-committed transactions: a request reads, others may act, and it    *)
(* writes.  Leave and lock are serializable; the lock fails when a record  *)
(* it writes has changed since its snapshot.                               *)
(***************************************************************************)
EXTENDS Integers, FiniteSetsExt, Functions

CONSTANTS
  Staff,                       \* employees: one AttendanceRecord each
  Punches, PunchOf, PunchAt,   \* AttendanceEvents: employee and occurredAt
  CheckIns,                    \* those with eventType CHECK_IN; the others are CHECK_OUT
  Corrections,
  Leaves, LeaveDays, Quota,    \* leave requests, their days, annualQuota
  Clerks,                      \* requests in progress
  Free

ASSUME AttendanceAssumption ==
  /\ PunchOf \in [Punches -> Staff] /\ PunchAt \in [Punches -> Nat] /\ CheckIns \subseteq Punches
  /\ LeaveDays \in [Leaves -> Nat] /\ Quota \in Nat
  /\ IsFiniteSet(Staff) /\ IsFiniteSet(Punches) /\ IsFiniteSet(Leaves)

VARIABLES
  punched,      \* stored events
  record,       \* AttendanceRecord of each employee
  present,      \* dailyAttendanceSummary.presentCount
  correction,   \* AttendanceCorrections
  leave,        \* status of each leave request
  clerk,        \* what each request has read
  crossed,      \* records written over by two requests that overlapped
  contested,    \* locked records that a request which had read them unlocked reached
  uncounted,    \* others came to work or were corrected while the day was counted, or since
  crowded       \* a leave was requested while another was undecided

attendanceVars == <<punched, record, present, correction, leave, clerk, crossed, contested, uncounted, crowded>>

Never == -1
Working == {"PRESENT"}                       \* and LATE, EARLY_LEAVE
FinalStatuses == {"PRESENT", "ABSENT"}       \* and the other final ones
RecordType == [status : {"NONE", "NEEDS_REVIEW"} \cup FinalStatuses, in : Int, out : Int, locked : BOOLEAN]
NoRecord == [status |-> "NONE", in |-> Never, out |-> Never, locked |-> FALSE]
Requested == {"NONE", "SUBMITTED", "APPROVED", "REJECTED"}

AttendanceTypeOK ==
  /\ punched \subseteq Punches
  /\ record \in [Staff -> RecordType] /\ present \in Nat
  /\ correction \in [Corrections -> [status : Requested, of : Staff, to : {"NEEDS_REVIEW"} \cup FinalStatuses]]
  /\ leave \in [Leaves -> Requested]
  /\ \A k \in Clerks : clerk[k] = Free \/ clerk[k].op \in {"punch", "submit", "review", "lock"}
  /\ crossed \subseteq Staff /\ contested \subseteq Staff
  /\ uncounted \in BOOLEAN /\ crowded \in BOOLEAN

AttendanceInit ==
  /\ punched = {} /\ record = [e \in Staff |-> NoRecord] /\ present = 0
  /\ correction \in [Corrections -> [status : {"NONE"}, of : {CHOOSE e \in Staff : TRUE}, to : {"ABSENT"}]]
  /\ leave = [l \in Leaves |-> "NONE"]
  /\ clerk = [k \in Clerks |-> Free]
  /\ crossed = {} /\ contested = {} /\ uncounted = FALSE /\ crowded = FALSE

Busy(k, op) == clerk[k] # Free /\ clerk[k].op = op
Begins(k, request) == clerk[k] = Free /\ clerk' = [clerk EXCEPT ![k] = request]
Ends(k) == clerk' = [clerk EXCEPT ![k] = Free]
Locking == \E k \in Clerks : Busy(k, "lock")
-----------------------------------------------------------------------------
AtWork == {e \in Staff : record[e].status \in Working}

\* record: a key seen before is answered with the stored event.
StartPunch(k, p) ==
  /\ p \notin punched
  /\ Begins(k, [op |-> "punch", punch |-> p, seen |-> record[PunchOf[p]], atWork |-> AtWork])
  /\ UNCHANGED <<punched, record, present, correction, leave, crossed, contested, uncounted, crowded>>

\* Faulty variant: the latest arrival is taken for the first check-in.
IsFirstByArrival(p, seen) == p \in CheckIns
IsFirst(p, seen) == p \in CheckIns /\ (seen.in = Never \/ PunchAt[p] < seen.in)
IsLast(p, seen) == p \notin CheckIns /\ (seen.out = Never \/ PunchAt[p] > seen.out)

\* Only the fields that change are written, whatever the row is by now, locked
\* or corrected; then the day is counted anew, with what others did meanwhile or
\* without it.
EndPunch(k) ==
  /\ Busy(k, "punch")
  /\ LET p == clerk[k].punch
         e == PunchOf[p]
         seen == clerk[k].seen IN
     /\ p \notin punched
     /\ punched' = punched \cup {p}
     /\ record' = [record EXCEPT ![e] = [status |-> "PRESENT", locked |-> @.locked,
                     in |-> IF IsFirst(p, seen) THEN PunchAt[p] ELSE @.in,
                     out |-> IF IsLast(p, seen) THEN PunchAt[p] ELSE @.out]]
     /\ \E counted \in {clerk[k].atWork, AtWork} : present' = 1 + Cardinality(counted \ {e})
     /\ uncounted' = (clerk[k].atWork \ {e} # AtWork \ {e})
     /\ crossed' = IF record[e] = seen THEN crossed ELSE crossed \cup {e}
  /\ Ends(k)
  /\ UNCHANGED <<correction, leave, contested, crowded>>

\* The unique key refuses the second of two overlapping copies.
PunchRefused(k) ==
  /\ Busy(k, "punch") /\ clerk[k].punch \in punched /\ Ends(k)
  /\ UNCHANGED <<punched, record, present, correction, leave, crossed, contested, uncounted, crowded>>

-----------------------------------------------------------------------------
Undecided(e) == {c \in Corrections : correction[c].of = e /\ correction[c].status = "SUBMITTED"}

StartCorrection(k, e) ==
  /\ record[e].status # "NONE" /\ ~record[e].locked /\ Undecided(e) = {}
  /\ Begins(k, [op |-> "submit", of |-> e])
  /\ UNCHANGED <<punched, record, present, correction, leave, crossed, contested, uncounted, crowded>>

EndCorrection(k, c, to) ==
  /\ Busy(k, "submit") /\ correction[c].status = "NONE"
  /\ correction' = [correction EXCEPT ![c] = [status |-> "SUBMITTED", of |-> clerk[k].of, to |-> to]]
  /\ contested' = IF Locking \/ record[clerk[k].of].locked THEN contested \cup {clerk[k].of} ELSE contested
  /\ Ends(k)
  /\ UNCHANGED <<punched, record, present, leave, crossed, uncounted, crowded>>

StartReview(k, c) ==
  /\ correction[c].status = "SUBMITTED" /\ ~record[correction[c].of].locked
  /\ Begins(k, [op |-> "review", of |-> c])
  /\ UNCHANGED <<punched, record, present, correction, leave, crossed, contested, uncounted, crowded>>

\* The patch and the decision, by id.  A patch of the times is not modelled.
EndReview(k, approve) ==
  /\ Busy(k, "review")
  /\ LET c == clerk[k].of
         e == correction[c].of IN
     /\ correction' = [correction EXCEPT ![c].status = IF approve THEN "APPROVED" ELSE "REJECTED"]
     /\ record' = [record EXCEPT ![e].status = IF approve THEN correction[c].to ELSE @]
     /\ contested' = IF approve /\ record[e].locked THEN contested \cup {e} ELSE contested
     /\ uncounted' = (uncounted \/ approve)
  /\ Ends(k)
  /\ UNCHANGED <<punched, present, leave, crossed, crowded>>

-----------------------------------------------------------------------------
LeaveTotal(statuses) == SumFunctionOnSet(LeaveDays, {l \in Leaves : leave[l] \in statuses})

\* Faulty variant: the request itself is not counted.
WithinQuotaSoFar(l) == LeaveTotal({"APPROVED"}) <= Quota
WithinQuota(l) == LeaveTotal({"APPROVED"}) + LeaveDays[l] <= Quota

\* The quota counts what is approved; the decision does not count again.
SubmitLeave(l) ==
  /\ leave[l] = "NONE" /\ WithinQuota(l)
  /\ leave' = [leave EXCEPT ![l] = "SUBMITTED"]
  /\ crowded' = (crowded \/ \E m \in Leaves : leave[m] = "SUBMITTED")
  /\ UNCHANGED <<punched, record, present, correction, clerk, crossed, contested, uncounted>>

ReviewLeave(l, approve) ==
  /\ leave[l] = "SUBMITTED"
  /\ leave' = [leave EXCEPT ![l] = IF approve THEN "APPROVED" ELSE "REJECTED"]
  /\ UNCHANGED <<punched, record, present, correction, clerk, crossed, contested, uncounted, crowded>>

\* Faulty variant: corrections nobody has decided do not hold the lock back.
DayIsSettledButCorrections ==
  /\ \A e \in Staff : record[e].status \in FinalStatuses \cup {"NONE"}
  /\ \A l \in Leaves : leave[l] # "SUBMITTED"
DayIsSettled ==
  /\ \A e \in Staff : record[e].status \in FinalStatuses \cup {"NONE"} /\ Undecided(e) = {}
  /\ \A l \in Leaves : leave[l] # "SUBMITTED"

StartLock(k) ==
  /\ DayIsSettled
  /\ Begins(k, [op |-> "lock", seen |-> record])
  /\ UNCHANGED <<punched, record, present, correction, leave, crossed, contested, uncounted, crowded>>

EndLock(k) ==
  /\ Busy(k, "lock")
  /\ LET seen == clerk[k].seen
         rows == {e \in Staff : seen[e].status # "NONE" /\ ~seen[e].locked} IN
     record' = IF \E e \in rows : record[e] # seen[e] THEN record
               ELSE [e \in Staff |-> [record[e] EXCEPT !.locked = @ \/ e \in rows]]
  /\ Ends(k)
  /\ UNCHANGED <<punched, present, correction, leave, crossed, contested, uncounted, crowded>>

AttendanceNext ==
  \/ \E k \in Clerks :
       \/ \E p \in Punches : StartPunch(k, p)
       \/ EndPunch(k) \/ PunchRefused(k) \/ StartLock(k) \/ EndLock(k)
       \/ \E e \in Staff : StartCorrection(k, e)
       \/ \E c \in Corrections : \/ StartReview(k, c)
                                 \/ \E to \in {"NEEDS_REVIEW"} \cup FinalStatuses : EndCorrection(k, c, to)
       \/ \E approve \in BOOLEAN : EndReview(k, approve)
  \/ \E l \in Leaves : SubmitLeave(l) \/ \E approve \in BOOLEAN : ReviewLeave(l, approve)

AttendanceSpec == AttendanceInit /\ [][AttendanceNext]_attendanceVars

-----------------------------------------------------------------------------
Times(e, punches) == {PunchAt[p] : p \in {q \in punches : PunchOf[q] = e}}

(* Whatever the order in which devices deliver, and however often, the     *)
(* record holds the first check-in and the last check-out, unless two      *)
(* requests on it overlapped.                                              *)
TimesAreTrue ==
  \A e \in Staff \ crossed :
    /\ record[e].in = IF Times(e, punched \cap CheckIns) = {} THEN Never ELSE Min(Times(e, punched \cap CheckIns))
    /\ record[e].out = IF Times(e, punched \ CheckIns) = {} THEN Never ELSE Max(Times(e, punched \ CheckIns))

(* The day's count agrees with the records, unless others came to work or  *)
(* were corrected while the last punch was recorded, or a correction was    *)
(* approved since (record counts, reviewCorrection does not).               *)
DayIsCounted == uncounted \/ present = Cardinality(AtWork)

(* What payroll is handed is final: a locked record needs no review and no *)
(* correction of it waits, which nobody could decide any more, unless a    *)
(* request that had read it unlocked came after the lock's snapshot        *)
(* (lockAttendance, submitCorrection, reviewCorrection).                   *)
LockIsComplete ==
  \A e \in Staff \ contested : record[e].locked => record[e].status \in FinalStatuses /\ Undecided(e) = {}

(* Leave stays within the quota, unless requests waited side by side       *)
(* (submitLeave, reviewLeave).                                             *)
LeaveWithinQuota == ~crowded => LeaveTotal({"APPROVED"}) <= Quota

AttendanceIsTrue == TimesAreTrue /\ DayIsCounted /\ LockIsComplete /\ LeaveWithinQuota

(* attendance.service.ts:686, "koreksi tidak boleh mengubah periode payroll *)
(* terkunci": no correction changes a locked record.                        *)
CorrectionsRespectLock == [][\A k \in Clerks, e \in Staff :
  Busy(k, "review") /\ clerk'[k] = Free /\ record[e].locked => record'[e] = record[e]]_attendanceVars
=============================================================================
