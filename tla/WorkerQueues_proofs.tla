------------------------- MODULE WorkerQueues_proofs --------------------------
(***************************************************************************)
(* For every set of jobs and workers and every budget of attempts, crashes *)
(* and replays: the effect of a job that no unlucky timing met is          *)
(* committed at most once.  A claim is a promise that the job is           *)
(* PROCESSING and its lock fresh; unless the holder outlives it, a lock    *)
(* only goes stale once nobody holds the job, so no second worker is let   *)
(* in.                                                                     *)
(***************************************************************************)
EXTENDS WorkerQueues, TLAPS

\* A worker between claim and end works on a locked job with no effect yet.
HolderIsLocked ==
  \A w \in Workers :
    IF at[w] = "idle" THEN doing[w] = NoJob
    ELSE doing[w] \notin disturbed => status[doing[w]] = "PROCESSING" /\ ~stale[doing[w]]

\* An operator's request in flight counts as a disturbance of its job.
RequestDisturbs == request # NoRequest => request.job \in disturbed

IInv ==
  /\ TypeOK /\ HolderIsLocked /\ RequestDisturbs
  /\ OneHolder /\ StatusIsTruthful /\ SuccessHasEffect

LEMMA InitIInv == Init => IInv
BY AutomationJobsAssumption DEF Init, IInv, TypeOK, HolderIsLocked, RequestDisturbs, OneHolder,
   StatusIsTruthful, SuccessHasEffect, Waiting, Final

LEMMA StepIInv == IInv /\ [Next]_vars => IInv'
<1> SUFFICES ASSUME IInv, [Next]_vars PROVE IInv'
  OBVIOUS
<1> USE AutomationJobsAssumption DEF IInv, row, worker
<1>1. ASSUME NEW j \in Jobs, Enqueue(j) PROVE IInv'
  <2> USE <1>1 DEF Enqueue
  <2>1. TypeOK'
    BY DEF TypeOK, Waiting, Final
  <2>2. HolderIsLocked'
    BY DEF TypeOK, HolderIsLocked, OneHolder, Waiting
  <2>3. RequestDisturbs'
    BY DEF TypeOK, RequestDisturbs
  <2>4. OneHolder'
    BY DEF TypeOK, HolderIsLocked, OneHolder, Waiting
  <2>5. StatusIsTruthful'
    BY DEF TypeOK, HolderIsLocked, StatusIsTruthful, Waiting
  <2>6. SuccessHasEffect'
    BY DEF TypeOK, SuccessHasEffect
  <2> QED BY <2>1, <2>2, <2>3, <2>4, <2>5, <2>6
<1>2. ASSUME NEW j \in Jobs, FallDue(j) PROVE IInv'
  <2> USE <1>2 DEF FallDue
  <2>1. TypeOK'
    BY DEF TypeOK, Waiting, Final
  <2>2. HolderIsLocked'
    BY DEF TypeOK, HolderIsLocked, OneHolder, Waiting
  <2>3. RequestDisturbs'
    BY DEF TypeOK, RequestDisturbs
  <2>4. OneHolder'
    BY DEF TypeOK, HolderIsLocked, OneHolder, Waiting
  <2>5. StatusIsTruthful'
    BY DEF TypeOK, HolderIsLocked, StatusIsTruthful, Waiting
  <2>6. SuccessHasEffect'
    BY DEF TypeOK, SuccessHasEffect
  <2> QED BY <2>1, <2>2, <2>3, <2>4, <2>5, <2>6
<1>3. ASSUME NEW j \in Jobs, LockExpires(j) PROVE IInv'
  <2> USE <1>3 DEF LockExpires
  <2>1. TypeOK'
    BY DEF TypeOK, Waiting, Final
  <2>2. HolderIsLocked'
    BY DEF TypeOK, HolderIsLocked, OneHolder, Waiting
  <2>3. RequestDisturbs'
    BY DEF TypeOK, RequestDisturbs
  <2>4. OneHolder'
    BY DEF TypeOK, HolderIsLocked, OneHolder, Waiting
  <2>5. StatusIsTruthful'
    BY DEF TypeOK, HolderIsLocked, StatusIsTruthful, Waiting
  <2>6. SuccessHasEffect'
    BY DEF TypeOK, SuccessHasEffect
  <2> QED BY <2>1, <2>2, <2>3, <2>4, <2>5, <2>6
<1>4. ASSUME NEW w \in Workers, NEW j \in Jobs, Claim(w, j) PROVE IInv'
  <2> USE <1>4 DEF Claim
  <2>1. TypeOK'
    BY DEF TypeOK, Waiting, Final
  <2>2. HolderIsLocked'
    BY DEF TypeOK, HolderIsLocked, OneHolder, Waiting
  <2>3. RequestDisturbs'
    BY DEF TypeOK, RequestDisturbs
  <2>4. OneHolder'
    BY DEF TypeOK, HolderIsLocked, OneHolder, Waiting
  <2>5. StatusIsTruthful'
    BY DEF TypeOK, HolderIsLocked, StatusIsTruthful, Waiting
  <2>6. SuccessHasEffect'
    BY DEF TypeOK, SuccessHasEffect
  <2> QED BY <2>1, <2>2, <2>3, <2>4, <2>5, <2>6
<1>5. ASSUME NEW w \in Workers, Execute(w) PROVE IInv'
  <2> USE <1>5 DEF Execute, Rest
  <2>1. TypeOK'
    BY DEF TypeOK, Waiting, Final
  <2>2. HolderIsLocked'
    BY DEF TypeOK, HolderIsLocked, OneHolder, Waiting
  <2>3. RequestDisturbs'
    BY DEF TypeOK, RequestDisturbs
  <2>4. OneHolder'
    BY DEF TypeOK, HolderIsLocked, OneHolder, Waiting
  <2>5. StatusIsTruthful'
    BY DEF TypeOK, HolderIsLocked, StatusIsTruthful, Waiting
  <2>6. SuccessHasEffect'
    BY DEF TypeOK, SuccessHasEffect
  <2> QED BY <2>1, <2>2, <2>3, <2>4, <2>5, <2>6
<1>6. ASSUME NEW w \in Workers, Abort(w) PROVE IInv'
  <2> USE <1>6 DEF Abort
  <2>1. TypeOK'
    BY DEF TypeOK, Waiting, Final
  <2>2. HolderIsLocked'
    BY DEF TypeOK, HolderIsLocked, OneHolder, Waiting
  <2>3. RequestDisturbs'
    BY DEF TypeOK, RequestDisturbs
  <2>4. OneHolder'
    BY DEF TypeOK, HolderIsLocked, OneHolder, Waiting
  <2>5. StatusIsTruthful'
    BY DEF TypeOK, HolderIsLocked, StatusIsTruthful, Waiting
  <2>6. SuccessHasEffect'
    BY DEF TypeOK, SuccessHasEffect
  <2> QED BY <2>1, <2>2, <2>3, <2>4, <2>5, <2>6
<1>7. ASSUME NEW w \in Workers, RecordFailure(w) PROVE IInv'
  <2> USE <1>7 DEF RecordFailure, Rest
  <2>1. TypeOK'
    BY DEF TypeOK, Waiting, Final
  <2>2. HolderIsLocked'
    BY DEF TypeOK, HolderIsLocked, OneHolder, Waiting
  <2>3. RequestDisturbs'
    BY DEF TypeOK, RequestDisturbs
  <2>4. OneHolder'
    BY DEF TypeOK, HolderIsLocked, OneHolder, Waiting
  <2>5. StatusIsTruthful'
    BY DEF TypeOK, HolderIsLocked, StatusIsTruthful, Waiting
  <2>6. SuccessHasEffect'
    BY DEF TypeOK, SuccessHasEffect
  <2> QED BY <2>1, <2>2, <2>3, <2>4, <2>5, <2>6
<1>8. ASSUME NEW w \in Workers, Crash(w) PROVE IInv'
  <2> USE <1>8 DEF Crash, Rest
  <2>1. TypeOK'
    BY DEF TypeOK, Waiting, Final
  <2>2. HolderIsLocked'
    BY DEF TypeOK, HolderIsLocked, OneHolder, Waiting
  <2>3. RequestDisturbs'
    BY DEF TypeOK, RequestDisturbs
  <2>4. OneHolder'
    BY DEF TypeOK, HolderIsLocked, OneHolder, Waiting
  <2>5. StatusIsTruthful'
    BY DEF TypeOK, HolderIsLocked, StatusIsTruthful, Waiting
  <2>6. SuccessHasEffect'
    BY DEF TypeOK, SuccessHasEffect
  <2> QED BY <2>1, <2>2, <2>3, <2>4, <2>5, <2>6
<1>9. ASSUME NEW w \in Workers, CommitUnacknowledged(w) PROVE IInv'
  <2> USE <1>9 DEF CommitUnacknowledged
  <2>1. TypeOK'
    BY DEF TypeOK, Waiting, Final
  <2>2. HolderIsLocked'
    BY DEF TypeOK, HolderIsLocked, OneHolder, Waiting
  <2>3. RequestDisturbs'
    BY DEF TypeOK, RequestDisturbs
  <2>4. OneHolder'
    BY DEF TypeOK, HolderIsLocked, OneHolder, Waiting
  <2>5. StatusIsTruthful'
    BY DEF TypeOK, HolderIsLocked, StatusIsTruthful, Waiting
  <2>6. SuccessHasEffect'
    BY DEF TypeOK, SuccessHasEffect
  <2> QED BY <2>1, <2>2, <2>3, <2>4, <2>5, <2>6
<1>10. ASSUME NEW op \in Ops, NEW j \in Jobs, Ask(op, j) PROVE IInv'
  <2> USE <1>10 DEF Ask, Allowed, Ops
  <2>1. TypeOK'
    BY DEF TypeOK, Waiting, Final, NoRequest
  <2>2. HolderIsLocked'
    BY DEF TypeOK, HolderIsLocked, OneHolder, Waiting
  <2>3. RequestDisturbs'
    BY DEF TypeOK, RequestDisturbs
  <2>4. OneHolder'
    BY DEF TypeOK, HolderIsLocked, OneHolder, Waiting
  <2>5. StatusIsTruthful'
    BY DEF TypeOK, HolderIsLocked, StatusIsTruthful, Waiting
  <2>6. SuccessHasEffect'
    BY DEF TypeOK, SuccessHasEffect
  <2> QED BY <2>1, <2>2, <2>3, <2>4, <2>5, <2>6
<1>11. ASSUME NEW op \in Ops, NEW j \in Jobs, Write(op, j),
              Allowed(op, j) \/ j \in disturbed,
              request' \in {request, NoRequest}
       PROVE  IInv'
  <2> USE <1>11 DEF Write, Ops
  <2>1. /\ status' = [status EXCEPT ![j] = IF op = "CANCEL" THEN "CANCELLED" ELSE "RETRYING"]
        /\ stale' = [stale EXCEPT ![j] = FALSE]
        /\ UNCHANGED <<at, doing, effects, crashes, disturbed>>
    OBVIOUS
  <2>2. TypeOK'
    <3>1. replays' \in 0 .. MaxReplays
      BY DEF TypeOK
    <3>2. attempts' \in [Jobs -> Nat] /\ due' \in [Jobs -> BOOLEAN]
      <4>1. CASE op = "CANCEL"
        <5>1. attempts' = attempts /\ due' = due
          BY <4>1
        <5> QED BY <5>1 DEF TypeOK
      <4>2. CASE op # "CANCEL"
        <5>1. /\ attempts' = [attempts EXCEPT ![j] = 0]
              /\ due' = [due EXCEPT ![j] = TRUE]
          BY <4>2
        <5> QED BY <5>1 DEF TypeOK
      <4> QED BY <4>1, <4>2
    <3>3. status' \in [Jobs -> {"NONE", "PROCESSING"} \cup Waiting \cup Final]
      BY <2>1 DEF TypeOK, Waiting, Final
    <3>4. stale' \in [Jobs -> BOOLEAN]
      BY <2>1 DEF TypeOK
    <3>5. request' \in {NoRequest} \cup [op : Ops, job : Jobs]
      BY DEF TypeOK
    <3> QED BY <2>1, <3>1, <3>2, <3>3, <3>4, <3>5 DEF TypeOK
  <2>3. j \notin disturbed => effects[j] = 0 /\ status[j] \notin {"PROCESSING", "SUCCEEDED"}
    BY DEF Allowed, Waiting, StatusIsTruthful
  <2>4. HolderIsLocked'
    BY <2>1, <2>3 DEF TypeOK, HolderIsLocked
  <2>5. RequestDisturbs'
    BY <2>1 DEF RequestDisturbs
  <2>6. OneHolder'
    BY <2>1 DEF OneHolder
  <2>7. StatusIsTruthful'
    BY <2>1, <2>3 DEF TypeOK, StatusIsTruthful
  <2>8. SuccessHasEffect'
    BY <2>1 DEF TypeOK, SuccessHasEffect
  <2> QED BY <2>2, <2>4, <2>5, <2>6, <2>7, <2>8
<1>12. ASSUME NEW op \in Ops, NEW j \in Jobs, Operate(op, j) PROVE IInv'
  BY <1>11, <1>12 DEF Operate
<1>13. ASSUME Answer PROVE IInv'
  <2>1. request.op \in Ops /\ request.job \in Jobs /\ request.job \in disturbed
    BY <1>13 DEF Answer, TypeOK, RequestDisturbs
  <2> QED BY <1>11, <1>13, <2>1 DEF Answer
<1>14. CASE UNCHANGED vars
  BY <1>14 DEF vars, TypeOK, HolderIsLocked, RequestDisturbs, OneHolder, StatusIsTruthful,
     SuccessHasEffect
<1> QED
  BY <1>1, <1>2, <1>3, <1>4, <1>5, <1>6, <1>7, <1>8, <1>9, <1>10, <1>12, <1>13, <1>14
     DEF Next, WorkerStep

(* The inductive invariant holds throughout every behaviour.               *)
THEOREM Invariance == Spec => []IInv
BY InitIInv, StepIInv, PTL DEF Spec

(* Every column and program counter stays in its range. *)
THEOREM TypeCorrect == Spec => []TypeOK
<1>1. IInv => TypeOK
  BY DEF IInv
<1> QED BY <1>1, Invariance, PTL

(* SUCCEEDED means done, once, and anything else means not done, so that   *)
(* cancel and replay act on jobs without effect.                           *)
THEOREM Truthful == Spec => []StatusIsTruthful
<1>1. IInv => StatusIsTruthful
  BY DEF IInv
<1> QED BY <1>1, Invariance, PTL

(* The ten-minute lock excludes: one worker at a time between claim and end.*)
THEOREM MutualExclusion == Spec => []OneHolder
<1>1. IInv => OneHolder
  BY DEF IInv
<1> QED BY <1>1, Invariance, PTL

(* No timing whatever makes the worker report a success that did not happen.*)
THEOREM NoHollowSuccess == Spec => []SuccessHasEffect
<1>1. IInv => SuccessHasEffect
  BY DEF IInv
<1> QED BY <1>1, Invariance, PTL

(* The three together are what the queue promises of every job.            *)
THEOREM JobsTruthful == Spec => []JobsAreTruthful
BY Truthful, MutualExclusion, NoHollowSuccess, PTL DEF JobsAreTruthful
-----------------------------------------------------------------------------
(* Notifications.  A row in hand is not due, so that the claim of another  *)
(* sender fails; what the sender has done so far is what the row and the   *)
(* provider say.  A row nobody has in hand is settled: told if SENT, and   *)
(* mirrored.                                                               *)

Holds(s, n) == task[s] # NoTask /\ task[s].at # "read" /\ task[s].note = n

\* How far a sender is, told by the row and the provider.
InStep(s, n) ==
  /\ n \notin fallen
  /\ task[s].at = "send" => note[n] = "QUEUED" /\ told[n] = 0
  /\ task[s].at # "send" => n \notin InApp
  /\ task[s].at = "accepted" => note[n] = "QUEUED" /\ told[n] = 1
  /\ task[s].at = "sent" => note[n] = "SENT" /\ told[n] = 1
  /\ task[s].at = "failed" => note[n] = "QUEUED" /\ told[n] = 0
  /\ task[s].at = "requeued" => note[n] = After(task[s].seen) /\ told[n] = 0

HoldersInStep == \A n \in Notes \ troubled, s \in Senders : Holds(s, n) => InStep(s, n)

OneSender == \A n \in Notes \ troubled, r, s \in Senders : Holds(r, n) /\ Holds(s, n) => r = s

FreeIsSettled ==
  \A n \in Notes \ troubled : (\A s \in Senders : ~Holds(s, n)) =>
    /\ told[n] = IF note[n] = "SENT" THEN 1 ELSE 0
    /\ n \notin InApp => mirror[n] = note[n]

NotificationsIInv == NotificationsTypeOK /\ HoldersInStep /\ OneSender /\ FreeIsSettled

LEMMA NotificationsStart == NotificationsInit => NotificationsIInv
BY NotificationsAssumption DEF NotificationsInit, NotificationsIInv, NotificationsTypeOK, HoldersInStep,
   OneSender, FreeIsSettled, Holds

LEMMA NotificationsTyped ==
  NotificationsTypeOK /\ [NotificationsNext]_notificationVars => NotificationsTypeOK'
<1> SUFFICES ASSUME NotificationsTypeOK, [NotificationsNext]_notificationVars PROVE NotificationsTypeOK'
  OBVIOUS
<1> USE NotificationsAssumption DEF NotificationsTypeOK, noteRow
<1>1. ASSUME NEW n \in Notes, Queue(n) PROVE NotificationsTypeOK'
  BY <1>1 DEF Queue
<1>2. ASSUME NEW n \in Notes, FallsDueAgain(n) PROVE NotificationsTypeOK'
  BY <1>2 DEF FallsDueAgain, InHand, Trouble, NoTrouble
<1>3. ASSUME NEW o \in Operators, CancelNote(o) PROVE NotificationsTypeOK'
  BY <1>3 DEF CancelNote, Decide, Requests, Trouble, NoTrouble
<1>4. ASSUME NEW o \in Operators, ReplayNote(o) PROVE NotificationsTypeOK'
  BY <1>4 DEF ReplayNote, Decide, Requests, Trouble, NoTrouble
<1>5. ASSUME NEW s \in Senders, NEW n \in Notes, ReadNote(s, n) PROVE NotificationsTypeOK'
  BY <1>5 DEF ReadNote, NoTrouble, Tasks
<1>6. ASSUME NEW s \in Senders, LeaseNote(s) PROVE NotificationsTypeOK'
  BY <1>6 DEF LeaseNote, Claimable, At, Goes, Done, NoTrouble, Tasks
<1>7. ASSUME NEW s \in Senders, NEW accepted \in BOOLEAN, NEW answered \in BOOLEAN,
              Send(s, accepted, answered) PROVE NotificationsTypeOK'
  BY <1>7 DEF Send, At, Goes, Trouble, NoTrouble, Tasks
<1>8. ASSUME NEW s \in Senders, PrintToConsole(s) PROVE NotificationsTypeOK'
  BY <1>8 DEF PrintToConsole, At, Done, NoTrouble, Tasks
<1>9. ASSUME NEW s \in Senders, MarkSent(s) PROVE NotificationsTypeOK'
  BY <1>9 DEF MarkSent, At, Goes, NoTrouble, Tasks
<1>10. ASSUME NEW s \in Senders, MarkMirror(s) PROVE NotificationsTypeOK'
  BY <1>10 DEF MarkMirror, At, Done, NoTrouble, Tasks
<1>11. ASSUME NEW s \in Senders, BookkeepingFails(s) PROVE NotificationsTypeOK'
  BY <1>11 DEF BookkeepingFails, At, Goes, Trouble, Tasks
<1>12. ASSUME NEW s \in Senders, Requeue(s) PROVE NotificationsTypeOK'
  BY <1>12 DEF Requeue, At, Goes, NoTrouble, Tasks, After
<1>13. ASSUME NEW s \in Senders, RequeueMirror(s) PROVE NotificationsTypeOK'
  BY <1>13 DEF RequeueMirror, At, Done, NoTrouble, Tasks, After
<1>14. ASSUME NEW s \in Senders, SenderDies(s) PROVE NotificationsTypeOK'
  BY <1>14 DEF SenderDies, Done, Trouble, Tasks
<1>15. ASSUME NEW o \in Operators, NEW to \in {"CANCELLED", "QUEUED"}, NEW n \in Notes, AskNote(o, to, n)
       PROVE  NotificationsTypeOK'
  BY <1>15 DEF AskNote, NoTrouble, Requests
<1>16. CASE UNCHANGED notificationVars
  BY <1>16 DEF notificationVars
<1> QED
  BY <1>1, <1>2, <1>3, <1>4, <1>5, <1>6, <1>7, <1>8, <1>9, <1>10, <1>11, <1>12, <1>13, <1>14, <1>15, <1>16 DEF NotificationsNext, SenderStep

LEMMA NotificationsStep ==
  NotificationsIInv /\ [NotificationsNext]_notificationVars => NotificationsIInv'
<1> SUFFICES ASSUME NotificationsIInv, [NotificationsNext]_notificationVars PROVE NotificationsIInv'
  OBVIOUS
<1> USE NotificationsAssumption DEF NotificationsIInv, noteRow
<1>0. NotificationsTypeOK'
  BY NotificationsTyped
<1>1. ASSUME NEW n \in Notes, Queue(n) PROVE NotificationsIInv'
  <2> USE <1>1 DEF Queue
  <2>1. HoldersInStep'
    BY DEF NotificationsTypeOK, HoldersInStep, OneSender, Holds, InStep, Tasks, After
  <2>2. OneSender'
    BY DEF NotificationsTypeOK, HoldersInStep, OneSender, Holds, InStep, Tasks
  <2>3. FreeIsSettled'
    BY DEF NotificationsTypeOK, HoldersInStep, FreeIsSettled, Holds, InStep, Tasks
  <2> QED BY <1>0, <2>1, <2>2, <2>3
<1>2. ASSUME NEW n \in Notes, FallsDueAgain(n) PROVE NotificationsIInv'
  <2> USE <1>2 DEF FallsDueAgain, InHand, Trouble, NoTrouble
  <2>1. HoldersInStep'
    BY DEF NotificationsTypeOK, HoldersInStep, OneSender, Holds, InStep, Tasks
  <2>2. OneSender'
    BY DEF NotificationsTypeOK, HoldersInStep, OneSender, Holds, InStep, Tasks
  <2>3. FreeIsSettled'
    BY DEF NotificationsTypeOK, HoldersInStep, FreeIsSettled, Holds, InStep, Tasks
  <2> QED BY <1>0, <2>1, <2>2, <2>3
<1>3. ASSUME NEW o \in Operators, CancelNote(o) PROVE NotificationsIInv'
  <2> USE <1>3 DEF CancelNote, Decide, Permitted, InHand, Trouble, NoTrouble, Requests
  <2>1. HoldersInStep'
    BY DEF NotificationsTypeOK, HoldersInStep, OneSender, Holds, InStep, Tasks
  <2>2. OneSender'
    BY DEF NotificationsTypeOK, HoldersInStep, OneSender, Holds, InStep, Tasks
  <2>3. FreeIsSettled'
    BY DEF NotificationsTypeOK, HoldersInStep, FreeIsSettled, Holds, InStep, Tasks
  <2> QED BY <1>0, <2>1, <2>2, <2>3
<1>4. ASSUME NEW o \in Operators, ReplayNote(o) PROVE NotificationsIInv'
  <2> USE <1>4 DEF ReplayNote, Decide, Permitted, InHand, Trouble, NoTrouble, Requests
  <2>1. HoldersInStep'
    BY DEF NotificationsTypeOK, HoldersInStep, OneSender, Holds, InStep, Tasks
  <2>2. OneSender'
    BY DEF NotificationsTypeOK, HoldersInStep, OneSender, Holds, InStep, Tasks
  <2>3. FreeIsSettled'
    BY DEF NotificationsTypeOK, HoldersInStep, FreeIsSettled, Holds, InStep, Tasks
  <2> QED BY <1>0, <2>1, <2>2, <2>3
<1>5. ASSUME NEW s \in Senders, NEW n \in Notes, ReadNote(s, n) PROVE NotificationsIInv'
  <2> USE <1>5 DEF ReadNote, NoTrouble
  <2>1. HoldersInStep'
    BY DEF NotificationsTypeOK, HoldersInStep, OneSender, Holds, InStep, Tasks
  <2>2. OneSender'
    BY DEF NotificationsTypeOK, HoldersInStep, OneSender, Holds, InStep, Tasks
  <2>3. FreeIsSettled'
    BY DEF NotificationsTypeOK, HoldersInStep, FreeIsSettled, Holds, InStep, Tasks
  <2> QED BY <1>0, <2>1, <2>2, <2>3
<1>6. ASSUME NEW s \in Senders, LeaseNote(s) PROVE NotificationsIInv'
  <2> USE <1>6 DEF LeaseNote, Claimable, At, Goes, Done, NoTrouble
  <2>1. HoldersInStep'
    BY DEF NotificationsTypeOK, HoldersInStep, OneSender, Holds, InStep, Tasks, FreeIsSettled
  <2>2. OneSender'
    BY DEF NotificationsTypeOK, HoldersInStep, OneSender, Holds, InStep, Tasks
  <2>3. FreeIsSettled'
    BY DEF NotificationsTypeOK, HoldersInStep, FreeIsSettled, Holds, InStep, Tasks
  <2> QED BY <1>0, <2>1, <2>2, <2>3
<1>7. ASSUME NEW s \in Senders, NEW accepted \in BOOLEAN, NEW answered \in BOOLEAN,
              Send(s, accepted, answered) PROVE NotificationsIInv'
  <2> USE <1>7 DEF Send, At, Goes, Trouble, NoTrouble
  <2>1. HoldersInStep'
    BY DEF NotificationsTypeOK, HoldersInStep, OneSender, Holds, InStep, Tasks
  <2>2. OneSender'
    BY DEF NotificationsTypeOK, HoldersInStep, OneSender, Holds, InStep, Tasks
  <2>3. FreeIsSettled'
    BY DEF NotificationsTypeOK, HoldersInStep, FreeIsSettled, Holds, InStep, Tasks
  <2> QED BY <1>0, <2>1, <2>2, <2>3
<1>8. ASSUME NEW s \in Senders, PrintToConsole(s) PROVE NotificationsIInv'
  <2> USE <1>8 DEF PrintToConsole, At, Done, NoTrouble
  <2>1. HoldersInStep'
    BY DEF NotificationsTypeOK, HoldersInStep, OneSender, Holds, InStep, Tasks
  <2>2. OneSender'
    BY DEF NotificationsTypeOK, HoldersInStep, OneSender, Holds, InStep, Tasks
  <2>3. FreeIsSettled'
    BY DEF NotificationsTypeOK, HoldersInStep, FreeIsSettled, Holds, InStep, Tasks
  <2> QED BY <1>0, <2>1, <2>2, <2>3
<1>9. ASSUME NEW s \in Senders, MarkSent(s) PROVE NotificationsIInv'
  <2> USE <1>9 DEF MarkSent, At, Goes, NoTrouble
  <2>1. HoldersInStep'
    BY DEF NotificationsTypeOK, HoldersInStep, OneSender, Holds, InStep, Tasks
  <2>2. OneSender'
    BY DEF NotificationsTypeOK, HoldersInStep, OneSender, Holds, InStep, Tasks
  <2>3. FreeIsSettled'
    BY DEF NotificationsTypeOK, HoldersInStep, FreeIsSettled, Holds, InStep, Tasks
  <2> QED BY <1>0, <2>1, <2>2, <2>3
<1>10. ASSUME NEW s \in Senders, MarkMirror(s) PROVE NotificationsIInv'
  <2> USE <1>10 DEF MarkMirror, At, Done, NoTrouble
  <2>1. HoldersInStep'
    BY DEF NotificationsTypeOK, HoldersInStep, OneSender, Holds, InStep, Tasks
  <2>2. OneSender'
    BY DEF NotificationsTypeOK, HoldersInStep, OneSender, Holds, InStep, Tasks
  <2>3. FreeIsSettled'
    BY DEF NotificationsTypeOK, HoldersInStep, FreeIsSettled, Holds, InStep, Tasks
  <2> QED BY <1>0, <2>1, <2>2, <2>3
<1>11. ASSUME NEW s \in Senders, BookkeepingFails(s) PROVE NotificationsIInv'
  <2> USE <1>11 DEF BookkeepingFails, At, Goes, Trouble
  <2>1. HoldersInStep'
    BY DEF NotificationsTypeOK, HoldersInStep, OneSender, Holds, InStep, Tasks
  <2>2. OneSender'
    BY DEF NotificationsTypeOK, HoldersInStep, OneSender, Holds, InStep, Tasks
  <2>3. FreeIsSettled'
    BY DEF NotificationsTypeOK, HoldersInStep, FreeIsSettled, Holds, InStep, Tasks
  <2> QED BY <1>0, <2>1, <2>2, <2>3
<1>12. ASSUME NEW s \in Senders, Requeue(s) PROVE NotificationsIInv'
  <2> USE <1>12 DEF Requeue, At, Goes, NoTrouble
  <2>1. HoldersInStep'
    BY DEF NotificationsTypeOK, HoldersInStep, OneSender, Holds, InStep, Tasks
  <2>2. OneSender'
    BY DEF NotificationsTypeOK, HoldersInStep, OneSender, Holds, InStep, Tasks
  <2>3. FreeIsSettled'
    BY DEF NotificationsTypeOK, HoldersInStep, FreeIsSettled, Holds, InStep, Tasks
  <2> QED BY <1>0, <2>1, <2>2, <2>3
<1>13. ASSUME NEW s \in Senders, RequeueMirror(s) PROVE NotificationsIInv'
  <2> USE <1>13 DEF RequeueMirror, At, Done, NoTrouble
  <2>1. HoldersInStep'
    BY DEF NotificationsTypeOK, HoldersInStep, OneSender, Holds, InStep, Tasks
  <2>2. OneSender'
    BY DEF NotificationsTypeOK, HoldersInStep, OneSender, Holds, InStep, Tasks
  <2>3. FreeIsSettled'
    BY DEF NotificationsTypeOK, HoldersInStep, FreeIsSettled, Holds, InStep, Tasks, After
  <2> QED BY <1>0, <2>1, <2>2, <2>3
<1>14. ASSUME NEW s \in Senders, SenderDies(s) PROVE NotificationsIInv'
  <2> USE <1>14 DEF SenderDies, Done, Trouble
  <2>1. HoldersInStep'
    BY DEF NotificationsTypeOK, HoldersInStep, OneSender, Holds, InStep, Tasks
  <2>2. OneSender'
    BY DEF NotificationsTypeOK, HoldersInStep, OneSender, Holds, InStep, Tasks
  <2>3. FreeIsSettled'
    BY DEF NotificationsTypeOK, HoldersInStep, FreeIsSettled, Holds, InStep, Tasks
  <2> QED BY <1>0, <2>1, <2>2, <2>3
<1>15. ASSUME NEW o \in Operators, NEW to \in {"CANCELLED", "QUEUED"}, NEW n \in Notes, AskNote(o, to, n)
       PROVE  NotificationsIInv'
  <2> USE <1>15 DEF AskNote, NoTrouble
  <2>1. HoldersInStep' /\ OneSender' /\ FreeIsSettled'
    BY DEF HoldersInStep, OneSender, FreeIsSettled, Holds, InStep
  <2> QED BY <1>0, <2>1
<1>16. CASE UNCHANGED notificationVars
  BY <1>16 DEF notificationVars, NotificationsTypeOK, HoldersInStep, OneSender, FreeIsSettled, Holds, InStep
<1> QED
  BY <1>1, <1>2, <1>3, <1>4, <1>5, <1>6, <1>7, <1>8, <1>9, <1>10, <1>11, <1>12, <1>13, <1>14, <1>15, <1>16 DEF NotificationsNext, SenderStep

(* A row in hand is nobody else's, and the provider has heard of a message *)
(* at most once; only what it accepted is SENT, and the employee's view    *)
(* agrees: for any number of senders, messages, attempts, troubles and     *)
(* requests of operators that overlap each other and the senders.          *)
THEOREM MessagesSentOnce == NotificationsSpec => []SentOnce
<1>1. NotificationsIInv => SentOnce
  BY DEF NotificationsIInv, NotificationsTypeOK, SentOnce, HoldersInStep, FreeIsSettled, Holds, InHand,
     InStep, After, Tasks
<1> QED BY <1>1, NotificationsStart, NotificationsStep, PTL DEF NotificationsSpec

-----------------------------------------------------------------------------
(* Scheduled reports.  A sweep whose snapshot was not written since has    *)
(* the schedule itself in hand, so that the job it makes is the next       *)
(* occurrence and the schedule moves by exactly one; a job is RUNNING      *)
(* while somebody builds it, which keeps the others away.                  *)

SweepSawTheSchedule ==
  \A w \in Sweepers : sweep[w].at = "tx" =>
    /\ sweep[w].seen.next <= hour /\ sweep[w].seen.writes <= schedule.writes
    /\ sweep[w].seen.writes = schedule.writes => sweep[w].seen = schedule

NextIsAnOccurrence == ~shifted => schedule.next % Day = 0 /\ schedule.next # 0

JobsUpToNext ==
  ~shifted => \A t \in Times : report[t] # "NONE" <=> t \in Occurrences \ {0} /\ t < schedule.next

BuiltByOne ==
  /\ \A w \in Sweepers : building[w] # None => report[building[w]] = "RUNNING"
  /\ \A v, w \in Sweepers : building[v] = building[w] /\ building[v] # None => v = w

ReportsIInv ==
  ReportSchedulesTypeOK /\ SweepSawTheSchedule /\ NextIsAnOccurrence /\ JobsUpToNext /\ BuiltByOne

(* nextReportScheduleRun of an occurrence is the occurrence after it, and  *)
(* there is none between them.                                             *)
LEMMA NextIsOneFurther ==
  ASSUME NEW k \in Nat
  PROVE  NextOccurrence(Day * k) = Day * (k + 1)
<1>1. Day \in Nat \ {0} /\ Day * k \in Nat
  BY ReportSchedulesAssumption
<1>2. (Day * k) \div Day = k
  BY <1>1
<1> QED BY <1>2 DEF NextOccurrence

LEMMA NoneBetween ==
  ASSUME NEW k \in Nat, NEW t \in Nat, t % Day = 0, Day * k <= t, t < Day * (k + 1)
  PROVE  t = Day * k
<1>1. Day \in Nat \ {0}
  BY ReportSchedulesAssumption
<1> DEFINE j == t \div Day
<1>2. j \in Nat /\ t = Day * j
  BY <1>1
<1> HIDE DEF j
<1>3. j < k + 1
  <2> SUFFICES ASSUME j >= k + 1 PROVE FALSE
    BY <1>2
  <2>1. PICK d \in Nat : j = k + 1 + d
    BY <1>2
  <2>2. Day * j = Day * (k + 1) + Day * d /\ Day * d >= 0
    BY <1>1, <2>1
  <2> QED BY <1>1, <1>2, <2>2
<1>4. k < j + 1
  <2> SUFFICES ASSUME k >= j + 1 PROVE FALSE
    BY <1>2
  <2>1. PICK d \in Nat : k = j + 1 + d
    BY <1>2
  <2>2. Day * k = Day * j + Day + Day * d /\ Day * d >= 0
    BY <1>1, <1>2, <2>1
  <2> QED BY <1>1, <1>2, <2>2
<1> QED BY <1>2, <1>3, <1>4

LEMMA OccurrenceIsAMultiple ==
  ASSUME NEW k \in Nat
  PROVE  (Day * k) % Day = 0
BY ReportSchedulesAssumption

LEMMA MultipleOfAnOccurrence ==
  ASSUME NEW t \in Nat, t % Day = 0
  PROVE  \E k \in Nat : t = Day * k
<1>1. Day \in Nat \ {0} /\ t = Day * (t \div Day) /\ t \div Day \in Nat
  BY ReportSchedulesAssumption
<1> QED BY <1>1

LEMMA WrittenIsTyped ==
  ASSUME NEW next \in Nat, schedule \in [on : BOOLEAN, next : Nat, writes : Nat], Written(next)
  PROVE  /\ schedule' \in [on : BOOLEAN, next : Nat, writes : Nat]
         /\ schedule'.next = next /\ schedule'.writes = schedule.writes + 1
         /\ schedule'.on = schedule.on
<1>1. schedule' = [schedule EXCEPT !.next = next, !.writes = schedule.writes + 1]
  BY DEF Written
<1>2. schedule.writes + 1 \in Nat
  OBVIOUS
<1> QED BY <1>1, <1>2

LEMMA ReportsStart == ReportSchedulesInit => ReportsIInv
<1> SUFFICES ASSUME ReportSchedulesInit PROVE ReportsIInv
  OBVIOUS
<1> USE ReportSchedulesAssumption DEF ReportSchedulesInit
<1>1. ReportSchedulesTypeOK
  <2>1. NoSweep \in [at : {"idle", "due", "tx", "failed"}, seen : [on : BOOLEAN, next : Nat, writes : Nat]]
    BY DEF NoSweep
  <2>2. hour \in Times /\ schedule \in [on : BOOLEAN, next : Nat, writes : Nat]
    BY DEF Times
  <2>3. sweep \in [Sweepers -> [at : {"idle", "due", "tx", "failed"}, seen : [on : BOOLEAN, next : Nat, writes : Nat]]]
    BY <2>1
  <2>4. building \in [Sweepers -> Slots \cup {None}] /\ report \in [Slots -> {"NONE", "PENDING", "RUNNING", "DONE", "FAILED"}]
    OBVIOUS
  <2>5. upsets \in 0 .. MaxUpsets
    OBVIOUS
  <2>6. shifted \in BOOLEAN
    BY Zenon
  <2> HIDE DEF ReportSchedulesInit
  <2> QED BY <2>2, <2>3, <2>4, <2>5, <2>6, Zenon DEF ReportSchedulesTypeOK
<1>2. NextIsAnOccurrence
  <2>1. schedule.next = Day * 1 /\ Day # 0
    OBVIOUS
  <2> QED BY <2>1, OccurrenceIsAMultiple DEF NextIsAnOccurrence
<1>3. JobsUpToNext
  <2>1. \A t \in Times : t % Day = 0 /\ t < Day => t = Day * 0
    BY NoneBetween DEF Times
  <2> QED BY <2>1 DEF JobsUpToNext, Occurrences, Times, Slots
<1> QED BY <1>1, <1>2, <1>3 DEF ReportsIInv, SweepSawTheSchedule, BuiltByOne, NoSweep, None

LEMMA ReportsTyped ==
  ReportsIInv /\ [ReportSchedulesNext]_reportVars => ReportSchedulesTypeOK'
<1> SUFFICES ASSUME ReportsIInv, [ReportSchedulesNext]_reportVars PROVE ReportSchedulesTypeOK'
  OBVIOUS
<1>0. \A t \in Nat : NextOccurrence(t) \in Nat
  BY ReportSchedulesAssumption DEF NextOccurrence
<1> USE ReportSchedulesAssumption DEF ReportsIInv, ReportSchedulesTypeOK
<1>1. ASSUME Hour PROVE ReportSchedulesTypeOK'
  BY <1>1 DEF Hour, Times
<1>2. ASSUME RunNow PROVE ReportSchedulesTypeOK'
  BY WrittenIsTyped, <1>2 DEF RunNow, Slots, Manual
<1>3. ASSUME NEW on \in BOOLEAN, EditSchedule(on) PROVE ReportSchedulesTypeOK'
  BY <1>0, <1>3 DEF EditSchedule, Upset, Times
<1>4. ASSUME NEW w \in Sweepers, SeeDue(w) PROVE ReportSchedulesTypeOK'
  BY <1>4 DEF SeeDue
<1>5. ASSUME NEW w \in Sweepers, BeginSweep(w) PROVE ReportSchedulesTypeOK'
  BY <1>5 DEF BeginSweep, NoSweep, IsDue
<1>6. ASSUME NEW w \in Sweepers, Materialize(w) PROVE ReportSchedulesTypeOK'
  BY <1>0, WrittenIsTyped, <1>6 DEF Materialize, Advance, NoSweep, Conflicts
<1>7. ASSUME NEW w \in Sweepers, SweepFails(w) PROVE ReportSchedulesTypeOK'
  BY <1>7 DEF SweepFails, Conflicts, Upset
<1>8. ASSUME NEW w \in Sweepers, Postpone(w) PROVE ReportSchedulesTypeOK'
  BY WrittenIsTyped, <1>8 DEF Postpone, NoSweep, Times
<1>9. ASSUME NEW w \in Sweepers, SweeperDies(w) PROVE ReportSchedulesTypeOK'
  BY <1>9 DEF SweeperDies, Upset, NoSweep
<1>10. ASSUME NEW w \in Sweepers, NEW t \in Slots, Build(w, t) PROVE ReportSchedulesTypeOK'
  BY <1>10 DEF Build
<1>11. ASSUME NEW w \in Sweepers, NEW outcome \in {"DONE", "FAILED"}, Finish(w, outcome) PROVE ReportSchedulesTypeOK'
  BY WrittenIsTyped, <1>11 DEF Finish
<1>12. CASE UNCHANGED reportVars
  BY <1>12 DEF reportVars
<1> QED
  BY <1>1, <1>2, <1>3, <1>4, <1>5, <1>6, <1>7, <1>8, <1>9, <1>10, <1>11, <1>12 DEF ReportSchedulesNext

LEMMA ReportsStep == ReportsIInv /\ [ReportSchedulesNext]_reportVars => ReportsIInv'
<1> SUFFICES ASSUME ReportsIInv, [ReportSchedulesNext]_reportVars PROVE ReportsIInv'
  OBVIOUS
<1> USE ReportSchedulesAssumption DEF ReportsIInv
<1>0. ReportSchedulesTypeOK'
  BY ReportsTyped
<1>1. ASSUME Hour PROVE ReportsIInv'
  <2> USE <1>1 DEF Hour, Times
  <2>1. SweepSawTheSchedule'
    BY DEF ReportSchedulesTypeOK, SweepSawTheSchedule
  <2>2. NextIsAnOccurrence' /\ JobsUpToNext'
    BY DEF ReportSchedulesTypeOK, NextIsAnOccurrence, JobsUpToNext, Slots, Times, Manual
  <2>3. BuiltByOne'
    BY DEF ReportSchedulesTypeOK, BuiltByOne, SweepSawTheSchedule, Slots, Times, None, Manual
  <2> QED BY <1>0, <2>1, <2>2, <2>3
<1>2. ASSUME RunNow PROVE ReportsIInv'
  <2> USE <1>2 DEF RunNow, Written, Slots, Manual
  <2>1. SweepSawTheSchedule'
    BY DEF ReportSchedulesTypeOK, SweepSawTheSchedule
  <2>2. NextIsAnOccurrence' /\ JobsUpToNext'
    BY DEF ReportSchedulesTypeOK, NextIsAnOccurrence, JobsUpToNext, Slots, Times, Manual
  <2>3. BuiltByOne'
    BY DEF ReportSchedulesTypeOK, BuiltByOne, SweepSawTheSchedule, Slots, Times, None, Manual
  <2> QED BY <1>0, <2>1, <2>2, <2>3
<1>3. ASSUME NEW on \in BOOLEAN, EditSchedule(on) PROVE ReportsIInv'
  <2> USE <1>3 DEF EditSchedule, Upset, Times
  <2>1. SweepSawTheSchedule'
    BY DEF ReportSchedulesTypeOK, SweepSawTheSchedule
  <2>2. NextIsAnOccurrence' /\ JobsUpToNext'
    BY DEF ReportSchedulesTypeOK, NextIsAnOccurrence, JobsUpToNext, Slots, Times, Manual
  <2>3. BuiltByOne'
    BY DEF ReportSchedulesTypeOK, BuiltByOne, SweepSawTheSchedule, Slots, Times, None, Manual
  <2> QED BY <1>0, <2>1, <2>2, <2>3
<1>4. ASSUME NEW w \in Sweepers, SeeDue(w) PROVE ReportsIInv'
  <2> USE <1>4 DEF SeeDue
  <2>1. SweepSawTheSchedule'
    BY DEF ReportSchedulesTypeOK, SweepSawTheSchedule
  <2>2. NextIsAnOccurrence' /\ JobsUpToNext'
    BY DEF ReportSchedulesTypeOK, NextIsAnOccurrence, JobsUpToNext, Slots, Times, Manual
  <2>3. BuiltByOne'
    BY DEF ReportSchedulesTypeOK, BuiltByOne, SweepSawTheSchedule, Slots, Times, None, Manual
  <2> QED BY <1>0, <2>1, <2>2, <2>3
<1>5. ASSUME NEW w \in Sweepers, BeginSweep(w) PROVE ReportsIInv'
  <2> USE <1>5 DEF BeginSweep, NoSweep, IsDue
  <2>1. SweepSawTheSchedule'
    BY DEF ReportSchedulesTypeOK, SweepSawTheSchedule
  <2>2. NextIsAnOccurrence' /\ JobsUpToNext'
    BY DEF ReportSchedulesTypeOK, NextIsAnOccurrence, JobsUpToNext, Slots, Times, Manual
  <2>3. BuiltByOne'
    BY DEF ReportSchedulesTypeOK, BuiltByOne, SweepSawTheSchedule, Slots, Times, None, Manual
  <2> QED BY <1>0, <2>1, <2>2, <2>3
<1>6. ASSUME NEW w \in Sweepers, Materialize(w) PROVE ReportsIInv'
  <2> USE <1>6 DEF Materialize, Written, Advance, NoSweep, Conflicts
  <2>1. SweepSawTheSchedule'
    BY DEF ReportSchedulesTypeOK, SweepSawTheSchedule
  <2>2. NextIsAnOccurrence' /\ JobsUpToNext'
    <3> DEFINE next == sweep[w].seen.next
    <3>1. next = schedule.next /\ next <= hour /\ next \in Times
      BY DEF ReportSchedulesTypeOK, SweepSawTheSchedule, Times
    <3> SUFFICES ASSUME ~shifted PROVE NextIsAnOccurrence' /\ JobsUpToNext'
      BY DEF NextIsAnOccurrence, JobsUpToNext
    <3>2. PICK k \in Nat : next = Day * k
      BY <3>1, MultipleOfAnOccurrence DEF NextIsAnOccurrence, Times
    <3>3. schedule'.next = Day * (k + 1)
      BY <3>2, NextIsOneFurther DEF ReportSchedulesTypeOK
    <3>4. next \in Occurrences \ {0} /\ next < schedule'.next
      <4>1. next % Day = 0 /\ next # 0
        BY <3>1 DEF NextIsAnOccurrence
      <4>2. Day * (k + 1) = Day * k + Day
        OBVIOUS
      <4>3. next < schedule'.next
        BY <3>1, <3>2, <3>3, <4>2 DEF Times
      <4> QED BY <3>1, <4>1, <4>3 DEF Occurrences
    <3>5. \A t \in Times : t \in Occurrences /\ t < schedule'.next /\ next <= t => t = next
      BY <3>2, <3>3, NoneBetween DEF Occurrences, Times
    <3>6. report' = [report EXCEPT ![next] = "PENDING"] /\ UNCHANGED shifted
      OBVIOUS
    <3> HIDE DEF next
    <3>7. NextIsAnOccurrence'
      <4>1. Day * (k + 1) = Day * k + Day
        OBVIOUS
      <4> QED BY <3>2, <3>3, <4>1, OccurrenceIsAMultiple DEF NextIsAnOccurrence, Times
    <3>8. JobsUpToNext'
      <4> SUFFICES ASSUME NEW t \in Times
                   PROVE  report'[t] # "NONE" <=> t \in Occurrences \ {0} /\ t < schedule'.next
        BY DEF JobsUpToNext
      <4>1. CASE t = next
        BY <3>1, <3>4, <3>6, <4>1 DEF ReportSchedulesTypeOK, Slots
      <4>2. CASE t # next
        <5>1. report'[t] = report[t]
          BY <3>6, <4>2 DEF ReportSchedulesTypeOK, Slots
        <5>2. report[t] # "NONE" <=> t \in Occurrences \ {0} /\ t < next
          BY <3>1 DEF JobsUpToNext
        <5>3. t < next \/ next <= t
          BY <3>1 DEF Times
        <5>4. t < next => t < schedule'.next
          BY <3>1, <3>4, <3>3 DEF Times
        <5> QED BY <3>4, <3>5, <4>2, <5>1, <5>2, <5>3, <5>4 DEF Times
      <4> QED BY <4>1, <4>2
    <3> QED BY <3>7, <3>8
  <2>3. BuiltByOne'
    BY DEF ReportSchedulesTypeOK, BuiltByOne, SweepSawTheSchedule, Slots, Times, None, Manual
  <2> QED BY <1>0, <2>1, <2>2, <2>3
<1>7. ASSUME NEW w \in Sweepers, SweepFails(w) PROVE ReportsIInv'
  <2> USE <1>7 DEF SweepFails, Conflicts, Upset
  <2>1. SweepSawTheSchedule'
    BY DEF ReportSchedulesTypeOK, SweepSawTheSchedule
  <2>2. NextIsAnOccurrence' /\ JobsUpToNext'
    BY DEF ReportSchedulesTypeOK, NextIsAnOccurrence, JobsUpToNext, Slots, Times, Manual
  <2>3. BuiltByOne'
    BY DEF ReportSchedulesTypeOK, BuiltByOne, SweepSawTheSchedule, Slots, Times, None, Manual
  <2> QED BY <1>0, <2>1, <2>2, <2>3
<1>8. ASSUME NEW w \in Sweepers, Postpone(w) PROVE ReportsIInv'
  <2> USE <1>8 DEF Postpone, Written, NoSweep, Times
  <2>1. SweepSawTheSchedule'
    BY DEF ReportSchedulesTypeOK, SweepSawTheSchedule
  <2>2. NextIsAnOccurrence' /\ JobsUpToNext'
    BY DEF ReportSchedulesTypeOK, NextIsAnOccurrence, JobsUpToNext, Slots, Times, Manual
  <2>3. BuiltByOne'
    BY DEF ReportSchedulesTypeOK, BuiltByOne, SweepSawTheSchedule, Slots, Times, None, Manual
  <2> QED BY <1>0, <2>1, <2>2, <2>3
<1>9. ASSUME NEW w \in Sweepers, SweeperDies(w) PROVE ReportsIInv'
  <2> USE <1>9 DEF SweeperDies, Upset, NoSweep
  <2>1. SweepSawTheSchedule'
    BY DEF ReportSchedulesTypeOK, SweepSawTheSchedule
  <2>2. NextIsAnOccurrence' /\ JobsUpToNext'
    BY DEF ReportSchedulesTypeOK, NextIsAnOccurrence, JobsUpToNext, Slots, Times, Manual
  <2>3. BuiltByOne'
    BY DEF ReportSchedulesTypeOK, BuiltByOne, SweepSawTheSchedule, Slots, Times, None, Manual
  <2> QED BY <1>0, <2>1, <2>2, <2>3
<1>10. ASSUME NEW w \in Sweepers, NEW t \in Slots, Build(w, t) PROVE ReportsIInv'
  <2> USE <1>10 DEF Build
  <2>1. SweepSawTheSchedule'
    BY DEF ReportSchedulesTypeOK, SweepSawTheSchedule
  <2>2. NextIsAnOccurrence' /\ JobsUpToNext'
    BY DEF ReportSchedulesTypeOK, NextIsAnOccurrence, JobsUpToNext, Slots, Times, Manual
  <2>3. BuiltByOne'
    BY DEF ReportSchedulesTypeOK, BuiltByOne, SweepSawTheSchedule, Slots, Times, None, Manual
  <2> QED BY <1>0, <2>1, <2>2, <2>3
<1>11. ASSUME NEW w \in Sweepers, NEW outcome \in {"DONE", "FAILED"}, Finish(w, outcome) PROVE ReportsIInv'
  <2> USE <1>11 DEF Finish, Written
  <2>1. SweepSawTheSchedule'
    BY DEF ReportSchedulesTypeOK, SweepSawTheSchedule
  <2>2. NextIsAnOccurrence' /\ JobsUpToNext'
    <3>1. \A t \in Times : report'[t] # "NONE" <=> report[t] # "NONE"
      BY DEF ReportSchedulesTypeOK, BuiltByOne, Slots
    <3>2. schedule'.next = schedule.next /\ UNCHANGED shifted
      BY DEF ReportSchedulesTypeOK
    <3> QED BY <3>1, <3>2 DEF NextIsAnOccurrence, JobsUpToNext
  <2>3. BuiltByOne'
    BY DEF ReportSchedulesTypeOK, BuiltByOne, SweepSawTheSchedule, Slots, Times, None, Manual
  <2> QED BY <1>0, <2>1, <2>2, <2>3
<1>12. CASE UNCHANGED reportVars
  BY <1>12 DEF reportVars, ReportSchedulesTypeOK, SweepSawTheSchedule, NextIsAnOccurrence,
     JobsUpToNext, BuiltByOne
<1> QED
  BY <1>1, <1>2, <1>3, <1>4, <1>5, <1>6, <1>7, <1>8, <1>9, <1>10, <1>11, <1>12 DEF ReportSchedulesNext

(* No occurrence is skipped and none is made off schedule, and a job is    *)
(* built by one worker: for any number of workers, any interval and any    *)
(* lateness, while no sweep failed and nobody edited the schedule.         *)
THEOREM OccurrencesCovered == ReportSchedulesSpec => []OccurrencesAreCovered
<1>1. ReportsIInv => OccurrencesAreCovered
  BY DEF ReportsIInv, OccurrencesAreCovered, JobsUpToNext, BuiltByOne
<1> QED BY <1>1, ReportsStart, ReportsStep, PTL DEF ReportSchedulesSpec
=============================================================================
