--------------------------- MODULE AutomationJobs ---------------------------
(***************************************************************************)
(* The automation queue: jobs materialised from business rules, claimed by *)
(* worker processes with a ten-minute lock, executed in a serializable     *)
(* transaction, retried up to maxAttempts, cancelled and replayed by       *)
(* operators (apps/worker/src/index.ts, platform.service.ts).              *)
(*                                                                         *)
(* Time is abstracted to two flags per job: due (scheduledAt <= now) and   *)
(* stale (lockedAt older than ten minutes).  A job is disturbed once one   *)
(* of three unlucky timings met it, which the code does not exclude:       *)
(*   - a live worker outlived its own lock on the job;                     *)
(*   - its transaction committed but its worker saw an error;              *)
(*   - an operator's request read it, and others could act on it before    *)
(*     the request's unconditional update.                                 *)
(***************************************************************************)
EXTENDS Integers

CONSTANTS Jobs, Workers, MaxAttempts, MaxCrashes, MaxReplays

NoJob == "no job"

ASSUME AutomationJobsAssumption ==
  /\ MaxAttempts \in Nat \ {0}
  /\ NoJob \notin Jobs
  /\ MaxCrashes \in Nat /\ MaxReplays \in Nat

VARIABLES
  status, attempts, due, stale,  \* columns of each AutomationJob row
  at,        \* of each worker: "idle", "claimed", "failed" (in the catch block)
  doing,     \* the job it works on
  effects,   \* how often each job's side effect was committed
  request,   \* an operator's request between its read and its write
  crashes, replays,
  disturbed  \* jobs met by an unlucky timing

row == <<status, attempts, due, stale>>
worker == <<at, doing>>
vars == <<row, worker, effects, request, crashes, replays, disturbed>>

Waiting == {"PENDING", "RETRYING"}
Final == {"SUCCEEDED", "FAILED", "CANCELLED"}
NoRequest == [op |-> "NONE", job |-> NoJob]
Ops == {"CANCEL", "REPLAY"}

TypeOK ==
  /\ status \in [Jobs -> {"NONE", "PROCESSING"} \cup Waiting \cup Final]
  /\ attempts \in [Jobs -> Nat]
  /\ due \in [Jobs -> BOOLEAN] /\ stale \in [Jobs -> BOOLEAN]
  /\ at \in [Workers -> {"idle", "claimed", "failed"}]
  /\ doing \in [Workers -> Jobs \cup {NoJob}]
  /\ \A w \in Workers : at[w] # "idle" => doing[w] \in Jobs
  /\ effects \in [Jobs -> Nat]
  /\ request \in {NoRequest} \cup [op : Ops, job : Jobs]
  /\ crashes \in 0 .. MaxCrashes /\ replays \in 0 .. MaxReplays
  /\ disturbed \subseteq Jobs

Init ==
  /\ status = [j \in Jobs |-> "NONE"]
  /\ attempts = [j \in Jobs |-> 0]
  /\ due = [j \in Jobs |-> FALSE] /\ stale = [j \in Jobs |-> FALSE]
  /\ at = [w \in Workers |-> "idle"] /\ doing = [w \in Workers |-> NoJob]
  /\ effects = [j \in Jobs |-> 0]
  /\ request = NoRequest /\ crashes = 0 /\ replays = 0 /\ disturbed = {}

-----------------------------------------------------------------------------
\* Faulty variant: an existing job is reset instead of left alone.
EnqueueReset(j) ==
  /\ status' = [status EXCEPT ![j] = "PENDING"]
  /\ due' = [due EXCEPT ![j] = TRUE]
  /\ UNCHANGED <<attempts, stale, worker, effects, request, crashes, replays, disturbed>>

\* materializeBusinessRules: an upsert by rule, event and action, so that a
\* second dispatch of the event finds the row and leaves it alone.
Enqueue(j) ==
  /\ status[j] = "NONE"
  /\ status' = [status EXCEPT ![j] = "PENDING"]
  /\ due' = [due EXCEPT ![j] = TRUE]
  /\ UNCHANGED <<attempts, stale, worker, effects, request, crashes, replays, disturbed>>

\* Faulty variant: any PROCESSING job is taken, stale or not.
ClaimAny(w, j) ==
  /\ at[w] = "idle"
  /\ (status[j] \in Waiting /\ due[j]) \/ status[j] = "PROCESSING"
  /\ status' = [status EXCEPT ![j] = "PROCESSING"]
  /\ attempts' = [attempts EXCEPT ![j] = @ + 1]
  /\ stale' = [stale EXCEPT ![j] = FALSE]
  /\ at' = [at EXCEPT ![w] = "claimed"] /\ doing' = [doing EXCEPT ![w] = j]
  /\ UNCHANGED <<due, effects, request, crashes, replays, disturbed>>

\* Faulty variant: jobs whose worker died are never taken again.
ClaimWaiting(w, j) ==
  /\ at[w] = "idle"
  /\ status[j] \in Waiting /\ due[j]
  /\ status' = [status EXCEPT ![j] = "PROCESSING"]
  /\ attempts' = [attempts EXCEPT ![j] = @ + 1]
  /\ stale' = [stale EXCEPT ![j] = FALSE]
  /\ at' = [at EXCEPT ![w] = "claimed"] /\ doing' = [doing EXCEPT ![w] = j]
  /\ UNCHANGED <<due, effects, request, crashes, replays, disturbed>>

\* The conditional updateMany that claims a due or abandoned job.
Claim(w, j) ==
  /\ at[w] = "idle"
  /\ (status[j] \in Waiting /\ due[j]) \/ (status[j] = "PROCESSING" /\ stale[j])
  /\ status' = [status EXCEPT ![j] = "PROCESSING"]
  /\ attempts' = [attempts EXCEPT ![j] = @ + 1]
  /\ stale' = [stale EXCEPT ![j] = FALSE]
  /\ at' = [at EXCEPT ![w] = "claimed"] /\ doing' = [doing EXCEPT ![w] = j]
  /\ UNCHANGED <<due, effects, request, crashes, replays, disturbed>>

Rest(w) == at' = [at EXCEPT ![w] = "idle"] /\ doing' = [doing EXCEPT ![w] = NoJob]

\* The transaction: it re-reads the job, returns unless it is PROCESSING, and
\* commits the side effect and SUCCEEDED together.  lockedBy is not compared.
Execute(w) ==
  /\ at[w] = "claimed" /\ Rest(w)
  /\ IF status[doing[w]] # "PROCESSING" THEN UNCHANGED <<effects, status>>
     ELSE /\ effects' = [effects EXCEPT ![doing[w]] = @ + 1]
          /\ status' = [status EXCEPT ![doing[w]] = "SUCCEEDED"]
  /\ UNCHANGED <<attempts, due, stale, request, crashes, replays, disturbed>>

\* Faulty variant: SUCCEEDED is written outside the transaction that rolls back.
AbortMarked(w) ==
  /\ at[w] = "claimed" /\ status[doing[w]] = "PROCESSING"
  /\ at' = [at EXCEPT ![w] = "failed"]
  /\ status' = [status EXCEPT ![doing[w]] = "SUCCEEDED"]
  /\ UNCHANGED <<attempts, due, stale, doing, effects, request, crashes, replays, disturbed>>

\* The transaction throws (unknown action, missing source, serialization
\* conflict, lost connection) and rolls back.
Abort(w) ==
  /\ at[w] = "claimed" /\ status[doing[w]] = "PROCESSING"
  /\ at' = [at EXCEPT ![w] = "failed"]
  /\ UNCHANGED <<row, doing, effects, request, crashes, replays, disturbed>>

\* It commits, but the worker gets an error instead of the acknowledgement.
CommitUnacknowledged(w) ==
  /\ at[w] = "claimed" /\ status[doing[w]] = "PROCESSING"
  /\ effects' = [effects EXCEPT ![doing[w]] = @ + 1]
  /\ status' = [status EXCEPT ![doing[w]] = "SUCCEEDED"]
  /\ at' = [at EXCEPT ![w] = "failed"]
  /\ disturbed' = disturbed \cup {doing[w]}
  /\ UNCHANGED <<attempts, due, stale, doing, request, crashes, replays>>

\* The catch block: it reads attempts and updates by id, whatever the status.
RecordFailure(w) ==
  LET j == doing[w] IN
  /\ at[w] = "failed" /\ Rest(w)
  /\ status' = [status EXCEPT ![j] =
                  IF attempts[j] >= MaxAttempts THEN "FAILED" ELSE "RETRYING"]
  /\ due' = [due EXCEPT ![j] = FALSE] /\ stale' = [stale EXCEPT ![j] = FALSE]
  /\ UNCHANGED <<attempts, effects, request, crashes, replays, disturbed>>

\* scheduledAt of a retry is reached.
FallDue(j) ==
  /\ status[j] \in Waiting /\ ~due[j]
  /\ due' = [due EXCEPT ![j] = TRUE]
  /\ UNCHANGED <<status, attempts, stale, worker, effects, request, crashes, replays, disturbed>>

\* Ten minutes pass since the lock.
LockExpires(j) ==
  /\ status[j] = "PROCESSING" /\ ~stale[j]
  /\ stale' = [stale EXCEPT ![j] = TRUE]
  /\ disturbed' = IF \E w \in Workers : doing[w] = j THEN disturbed \cup {j} ELSE disturbed
  /\ UNCHANGED <<status, attempts, due, worker, effects, request, crashes, replays>>

\* A worker process dies and is restarted with nothing in hand.
Crash(w) ==
  /\ at[w] # "idle" /\ crashes < MaxCrashes
  /\ Rest(w) /\ crashes' = crashes + 1
  /\ UNCHANGED <<row, effects, request, replays, disturbed>>

-----------------------------------------------------------------------------
\* Faulty variant: a replay may also repeat a job that succeeded.
AllowedLoosely(op, j) == status[j] \in IF op = "CANCEL" THEN Waiting ELSE Final

\* cancelAutomationJob and replayAutomationJob check the status they read ...
Allowed(op, j) == status[j] \in IF op = "CANCEL" THEN Waiting ELSE {"FAILED", "CANCELLED"}

\* ... and write by id.
Write(op, j) ==
  /\ IF op = "CANCEL"
     THEN /\ status' = [status EXCEPT ![j] = "CANCELLED"]
          /\ UNCHANGED <<attempts, due, replays>>
     ELSE /\ replays < MaxReplays /\ replays' = replays + 1
          /\ status' = [status EXCEPT ![j] = "RETRYING"]
          /\ attempts' = [attempts EXCEPT ![j] = 0]
          /\ due' = [due EXCEPT ![j] = TRUE]
  /\ stale' = [stale EXCEPT ![j] = FALSE]
  /\ UNCHANGED <<worker, effects, crashes, disturbed>>

Operate(op, j) == Allowed(op, j) /\ Write(op, j) /\ UNCHANGED request

\* The same request with other steps between its read and its write.
Ask(op, j) ==
  /\ request = NoRequest /\ Allowed(op, j)
  /\ request' = [op |-> op, job |-> j]
  /\ disturbed' = disturbed \cup {j}
  /\ UNCHANGED <<row, worker, effects, crashes, replays>>

Answer ==
  /\ request # NoRequest
  /\ Write(request.op, request.job)
  /\ request' = NoRequest

WorkerStep(w) == Execute(w) \/ Abort(w) \/ CommitUnacknowledged(w) \/ RecordFailure(w)

Next ==
  \/ \E j \in Jobs : Enqueue(j) \/ FallDue(j) \/ LockExpires(j)
  \/ \E w \in Workers : WorkerStep(w) \/ Crash(w) \/ \E j \in Jobs : Claim(w, j)
  \/ \E op \in Ops, j \in Jobs : Operate(op, j) \/ Ask(op, j)
  \/ Answer

\* The tick repeats, a started step ends, and clocks advance.  Operators,
\* crashes and new jobs are not forced.
Fairness ==
  /\ \A j \in Jobs : /\ WF_vars(FallDue(j)) /\ WF_vars(LockExpires(j))
                     /\ WF_vars(\E w \in Workers : Claim(w, j))
  /\ \A w \in Workers : WF_vars(WorkerStep(w))

Spec == Init /\ [][Next]_vars /\ Fairness

-----------------------------------------------------------------------------
(* The status tells the truth about the side effect: SUCCEEDED means it    *)
(* was committed, once, and every other status that it was not, so that    *)
(* cancelling or replaying a job (F8-AUTOMATION-SCHEDULED-REPORTS-         *)
(* COMPLETION.md:17-18) never hides or repeats one.                        *)
StatusIsTruthful ==
  \A j \in Jobs \ disturbed : effects[j] = IF status[j] = "SUCCEEDED" THEN 1 ELSE 0

(* Before a lock was outlived, no two workers are between the claim and    *)
(* the end of the same job, crashes and reclaimed locks included.          *)
OneHolder ==
  \A w1, w2 \in Workers : doing[w1] = doing[w2] /\ doing[w1] \in Jobs \ disturbed => w1 = w2

(* Whatever the timing, success is never claimed for nothing.              *)
SuccessHasEffect == \A j \in Jobs : status[j] = "SUCCEEDED" => effects[j] >= 1

JobsAreTruthful == StatusIsTruthful /\ OneHolder /\ SuccessHasEffect

(* No job is stranded, whatever the timing: jobs of crashed workers        *)
(* included, each one succeeds, exhausts its attempts or is cancelled.     *)
JobsSettle == \A j \in Jobs : status[j] \in Waiting \cup {"PROCESSING"} ~> status[j] \in Final
=============================================================================
