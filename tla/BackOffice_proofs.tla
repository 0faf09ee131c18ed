-------------------------- MODULE BackOffice_proofs ---------------------------
(***************************************************************************)
(* Proofs about the back office: document numbers, attendance, assets,    *)
(* payroll.                                                                *)
(* First what nextDocumentNumber guarantees for any number of callers,     *)
(* periods and documents, in a transaction or not, with any reset policy.  *)
(***************************************************************************)
EXTENDS BackOffice, SumTheorems, FiniteSetTheorems, TLAPS

(* An open writer is alone, and is using the committed nextNumber (or 1 in *)
(* the row it has just created).                                           *)
WriterAlone ==
  /\ \A c \in lock : /\ lock = {c}
                     /\ at[c] \in {"read", "bumped"}
                     /\ current[c] = IF next = 0 THEN 1 ELSE next
                     /\ at[c] = "read" => next = 0
  /\ \A c \in Callers \ Autocommit : at[c] = "bumped" => c \in lock

(* Numbers start at 1; those below nextNumber are spent, the others not.   *)
SpentBelow ==
  /\ \A c \in Callers : at[c] = "read" => current[c] >= 1
  /\ \A d \in documents : d[2] < next
  /\ \A c \in Autocommit : at[c] = "bumped" => current[c] < next

Apart ==
  \A c \in Callers : at[c] = "bumped" =>
    /\ \A d \in documents : d[2] # current[c]
    /\ \A d \in Callers \ {c} : at[d] = "bumped" => current[d] # current[c]

IInv == TypeOK /\ WriterAlone /\ SpentBelow /\ Apart

LEMMA Start == Init => IInv
BY NumbersAssumption DEF Init, IInv, TypeOK, WriterAlone, SpentBelow, Apart, Points

LEMMA Step == IInv /\ [Next]_vars => IInv'
<1> SUFFICES ASSUME IInv, [Next]_vars PROVE IInv'
  OBVIOUS
<1> USE NumbersAssumption DEF IInv, TypeOK, Points
<1>1. ASSUME NEW c \in Callers, Read(c) PROVE IInv'
  <2>1. TypeOK'
    BY <1>1 DEF Read, Proposed
  <2>2. c \notin lock
    BY <1>1 DEF Read, WriterAlone
  <2>3. WriterAlone'
    BY <1>1, <2>2 DEF Read, WriterAlone
  <2>4. SpentBelow'
    <3>1. next # 0 => Proposed(today) >= 1
      BY DEF Proposed
    <3>2. next = next' /\ documents = documents'
      BY <1>1 DEF Read
    <3>3. \A d \in Callers : at'[d] = "read" => current'[d] >= 1
      BY <1>1, <3>1 DEF Read, SpentBelow
    <3>4. \A d \in Autocommit : at'[d] = "bumped" => at[d] = "bumped" /\ current'[d] = current[d]
      BY <1>1 DEF Read
    <3> QED BY <3>2, <3>3, <3>4 DEF SpentBelow
  <2>5. Apart'
    BY <1>1 DEF Read, Apart
  <2> QED BY <2>1, <2>3, <2>4, <2>5
<1>2. ASSUME NEW c \in Callers, CreateRow(c) PROVE IInv'
  <2>1. CASE next # 0
    <3>1. /\ at' = [at EXCEPT ![c] = "conflict"] /\ lock = {}
          /\ UNCHANGED <<today, next, resetAt, lock, now, seen, current, documents, abandoned>>
      BY <1>2, <2>1 DEF CreateRow
    <3>2. TypeOK'
      BY <3>1
    <3>3. WriterAlone'
      BY <3>1 DEF WriterAlone
    <3>4. SpentBelow' /\ Apart'
      BY <3>1 DEF SpentBelow, Apart
    <3> QED BY <3>2, <3>3, <3>4
  <2>2. CASE next = 0
    <3>1. TypeOK'
      BY <1>2, <2>2 DEF CreateRow
    <3>2. WriterAlone'
      BY <1>2, <2>2 DEF CreateRow, WriterAlone
    <3>3. SpentBelow'
      BY <1>2, <2>2 DEF CreateRow, SpentBelow
    <3>4. Apart'
      BY <1>2, <2>2 DEF CreateRow, Apart
    <3> QED BY <3>1, <3>2, <3>3, <3>4
  <2> QED BY <2>1, <2>2
<1>3. ASSUME NEW c \in Callers, Bump(c) PROVE IInv'
  <2>1. CASE ~Matches(c)
    <3>1. c \notin lock
      BY <1>3, <2>1 DEF Bump, Matches, WriterAlone
    <3> QED BY <1>3, <2>1, <3>1 DEF Bump, WriterAlone, SpentBelow, Apart
  <2>2. CASE Matches(c)
    <3>1. current[c] = (IF c \in lock THEN 1 ELSE next) /\ (c \in lock => next = 0)
      BY <1>3, <2>2 DEF Bump, Matches, WriterAlone
    <3>2. TypeOK'
      BY <1>3, <2>2 DEF Bump, Increment
    <3>3. WriterAlone'
      <4>1. at' = [at EXCEPT ![c] = "bumped"] /\ current' = current
        BY <1>3, <2>2 DEF Bump
      <4>2. CASE c \in Autocommit
        <5>1. lock = {} /\ lock' = {}
          BY <1>3, <2>2, <4>2 DEF Bump, Increment
        <5> QED BY <4>1, <4>2, <5>1 DEF WriterAlone
      <4>3. CASE c \notin Autocommit
        <5>1. lock' = {c} /\ next' = next
          BY <1>3, <2>2, <4>3 DEF Bump, Increment
        <5>2. \A d \in Callers \ Autocommit : at[d] = "bumped" => d = c
          BY <1>3 DEF Bump, WriterAlone
        <5>3. current[c] = IF next = 0 THEN 1 ELSE next
          BY <1>3, <2>2, <3>1 DEF Bump, Matches, WriterAlone, SpentBelow
        <5>4. at'[c] = "bumped"
          BY <4>1
        <5>5. \A d \in Callers \ Autocommit : at'[d] = "bumped" => d = c
          BY <4>1, <5>2
        <5> QED BY <4>1, <5>1, <5>3, <5>4, <5>5 DEF WriterAlone
      <4> QED BY <4>2, <4>3
    <3>4. SpentBelow'
      BY <1>3, <2>2, <3>1 DEF Bump, Increment, SpentBelow
    <3>5. \A d \in Callers \ {c} : at[d] = "bumped" => current[d] < current[c]
      BY <1>3, <3>1 DEF Bump, WriterAlone, SpentBelow
    <3>6. \A d \in documents : d[2] # current[c]
      BY <3>1 DEF SpentBelow
    <3>7. at' = [at EXCEPT ![c] = "bumped"] /\ current' = current /\ documents' = documents
      BY <1>3, <2>2 DEF Bump
    <3>8. Apart'
      <4> SUFFICES ASSUME NEW b \in Callers, at'[b] = "bumped"
                   PROVE  /\ \A d \in documents : d[2] # current[b]
                          /\ \A d \in Callers \ {b} : at'[d] = "bumped" => current[d] # current[b]
        BY <3>7 DEF Apart
      <4>1. CASE b = c
        BY <4>1, <3>5, <3>6, <3>7
      <4>2. CASE b # c
        <5>1. at[b] = "bumped" /\ current[b] < current[c]
          BY <4>2, <3>5, <3>7
        <5> QED BY <4>2, <5>1, <3>7 DEF Apart
      <4> QED BY <4>1, <4>2
    <3> QED BY <3>2, <3>3, <3>4, <3>8
  <2> QED BY <2>1, <2>2
<1>4. ASSUME NEW c \in Callers, Commit(c) PROVE IInv'
  <2>1. TypeOK'
    BY <1>4 DEF Commit
  <2>2. c \notin Autocommit => lock = {c} /\ current[c] >= next
    BY <1>4 DEF Commit, WriterAlone
  <2>3. WriterAlone'
    BY <1>4, <2>2 DEF Commit, WriterAlone
  <2>4. SpentBelow'
    BY <1>4, <2>2 DEF Commit, SpentBelow
  <2>5. Apart'
    BY <1>4 DEF Commit, Apart
  <2> QED BY <2>1, <2>3, <2>4, <2>5
<1>5. ASSUME NEW c \in Callers, Fail(c) PROVE IInv'
  <2>1. /\ at' = [at EXCEPT ![c] = "idle"] /\ lock' = lock \ {c}
        /\ UNCHANGED <<today, next, resetAt, now, seen, current, documents>>
    BY <1>5 DEF Fail
  <2>2. TypeOK'
    <3>1. abandoned' \subseteq Nat
      BY <1>5 DEF Fail
    <3> QED BY <2>1, <3>1
  <2>3. WriterAlone'
    <3>1. \A b \in lock' : b \in lock /\ lock' = {b} /\ b # c
      BY <2>1 DEF WriterAlone
    <3>2. \A b \in Callers \ Autocommit : at'[b] = "bumped" => b \in lock'
      BY <2>1 DEF WriterAlone
    <3> QED BY <2>1, <3>1, <3>2 DEF WriterAlone
  <2>4. \A b \in Callers : at'[b] # "idle" => at'[b] = at[b]
    BY <2>1
  <2>5. SpentBelow'
    BY <2>1, <2>4 DEF SpentBelow
  <2>6. Apart'
    BY <2>1, <2>4 DEF Apart
  <2> QED BY <2>2, <2>3, <2>5, <2>6
<1>6. CASE NextPeriod
  <2>1. /\ today' \in Nat
        /\ UNCHANGED <<next, resetAt, lock, at, now, seen, current, documents, abandoned>>
    BY <1>6 DEF NextPeriod
  <2>2. TypeOK'
    BY <2>1
  <2>3. WriterAlone'
    BY <2>1 DEF WriterAlone
  <2>4. SpentBelow' /\ Apart'
    BY <2>1 DEF SpentBelow, Apart
  <2> QED BY <2>2, <2>3, <2>4
<1>7. CASE UNCHANGED vars
  <2>1. TypeOK'
    BY <1>7 DEF vars
  <2>2. WriterAlone'
    BY <1>7 DEF vars, WriterAlone
  <2>3. SpentBelow' /\ Apart'
    BY <1>7 DEF vars, SpentBelow, Apart
  <2> QED BY <2>1, <2>2, <2>3
<1> QED BY <1>1, <1>2, <1>3, <1>4, <1>5, <1>6, <1>7 DEF Next

THEOREM Invariance == Spec => []IInv
BY Start, Step, PTL DEF Spec

(* Every column of the row and of the callers keeps its type, and only a   *)
(* transaction holds the row's lock.                                       *)
THEOREM TypeCorrect == Spec => []TypeOK
<1>1. IInv => TypeOK
  BY DEF IInv
<1> QED BY <1>1, Invariance, PTL

(* nextDocumentNumber never gives the same number twice, whatever mixture  *)
(* of transactions and bare statements takes numbers.                      *)
THEOREM NumbersAreUnique == Spec => []UniqueNumbers
<1>1. IInv => UniqueNumbers
  <2> SUFFICES ASSUME IInv, NEW c \in Callers, at[c] = "bumped"
               PROVE  /\ <<now[c], current[c]>> \notin documents
                      /\ \A d \in Callers \ {c} : at[d] = "bumped" =>
                           <<now[d], current[d]>> # <<now[c], current[c]>>
    BY DEF UniqueNumbers
  <2>1. <<now[c], current[c]>> \notin documents
    BY DEF IInv, Apart
  <2>2. ASSUME NEW d \in Callers \ {c}, at[d] = "bumped" PROVE current[d] # current[c]
    BY <2>2 DEF IInv, Apart
  <2> QED BY <2>1, <2>2
<1> QED BY <1>1, Invariance, PTL

\* What has been given out: on documents, given up, or in the hands of a caller.
GivenOut == {d[2] : d \in documents} \cup abandoned
              \cup {current[c] : c \in {a \in Autocommit : at[a] = "bumped"}}

\* Numbers change hands without anything happening to the sequence.
LEMMA GapsKept == ASSUME GapFree, next' = next, GivenOut' = GivenOut PROVE GapFree'
BY DEF GapFree, GivenOut

\* The number that is next is given out, and the sequence moves by one.
LEMMA OneMoreGiven ==
  ASSUME GapFree, next \in Nat, NEW n \in Nat, n = (IF next = 0 THEN 1 ELSE next),
         next' = n + 1, GivenOut' = GivenOut \cup {n}
  PROVE  GapFree'
<1>1. {m \in 1..(n + 1) : m < n + 1} = {m \in 1..next : m < next} \cup {n}
  OBVIOUS
<1>2. {m \in 1..next : m < next}' = {m \in 1..(n + 1) : m < n + 1}
  OBVIOUS
<1> QED BY <1>1, <1>2 DEF GapFree, GivenOut

LEMMA GapsStep == IInv /\ GapFree /\ [Next]_vars => GapFree'
<1> SUFFICES ASSUME IInv, GapFree, [Next]_vars PROVE GapFree'
  OBVIOUS
<1> USE NumbersAssumption
<1>0. TypeOK /\ WriterAlone /\ SpentBelow
  BY DEF IInv
<1>1. ASSUME NEW c \in Callers, Read(c) PROVE GapFree'
  <2>1. GivenOut' = GivenOut
    BY <1>0, <1>1 DEF Read, GivenOut, TypeOK
  <2> QED BY <1>1, <2>1, GapsKept DEF Read
<1>2. ASSUME NEW c \in Callers, CreateRow(c) PROVE GapFree'
  <2>1. GivenOut' = GivenOut
    BY <1>0, <1>2 DEF CreateRow, GivenOut, TypeOK
  <2>2. CASE next' = next
    BY <2>1, <2>2, GapsKept
  <2>3. CASE next = 0 /\ next' = 1
    <3>1. {m \in 1..next : m < next}' = {m \in 1..next : m < next}
      BY <2>3
    <3> QED BY <2>1, <3>1 DEF GapFree, GivenOut
  <2> QED BY <1>2, <2>2, <2>3 DEF CreateRow
<1>3. ASSUME NEW c \in Callers, Bump(c) PROVE GapFree'
  <2>1. UNCHANGED <<current, documents, abandoned>> /\ at[c] = "read"
    BY <1>3 DEF Bump
  <2>2. CASE ~Matches(c) \/ c \notin Autocommit
    <3>1. next' = next /\ \E point : at' = [at EXCEPT ![c] = point] /\ (c \in Autocommit => point # "bumped")
      BY <1>3, <2>2 DEF Bump, Increment
    <3>2. {a \in Autocommit : at'[a] = "bumped"} = {a \in Autocommit : at[a] = "bumped"}
      BY <1>0, <2>1, <3>1 DEF TypeOK
    <3>3. GivenOut' = GivenOut
      BY <2>1, <3>2 DEF GivenOut
    <3> QED BY <3>1, <3>3, GapsKept
  <2>3. CASE Matches(c) /\ c \in Autocommit
    <3>1. /\ at' = [at EXCEPT ![c] = "bumped"] /\ next' = current[c] + 1
          /\ current[c] = next /\ next >= 1 /\ current[c] \in Nat
      BY <1>0, <1>3, <2>3 DEF Bump, Increment, Matches, TypeOK, SpentBelow
    <3>2. {a \in Autocommit : at'[a] = "bumped"} = {a \in Autocommit : at[a] = "bumped"} \cup {c}
      BY <1>0, <2>3, <3>1 DEF TypeOK
    <3>3. GivenOut' = GivenOut \cup {current[c]}
      BY <2>1, <3>2 DEF GivenOut
    <3> QED BY <1>0, <3>1, <3>3, OneMoreGiven DEF TypeOK
  <2> QED BY <2>2, <2>3
<1>4. ASSUME NEW c \in Callers, Commit(c) PROVE GapFree'
  <2>1. /\ documents' = documents \cup {<<now[c], current[c]>>} /\ at[c] = "bumped"
        /\ at' = [at EXCEPT ![c] = "idle"] /\ UNCHANGED <<current, abandoned>>
    BY <1>4 DEF Commit
  <2>2. {d[2] : d \in documents'} = {d[2] : d \in documents} \cup {current[c]}
    <3>1. <<now[c], current[c]>>[2] = current[c]
      OBVIOUS
    <3> QED BY <2>1, <3>1
  <2>3. {a \in Autocommit : at'[a] = "bumped"} = {a \in Autocommit : at[a] = "bumped"} \ {c}
    BY <1>0, <2>1 DEF TypeOK
  <2>4. GivenOut' = GivenOut \cup {current[c]}
    BY <2>1, <2>2, <2>3 DEF GivenOut
  <2>5. CASE c \in Autocommit
    <3>1. current[c] \in GivenOut /\ next' = next
      BY <1>4, <2>1, <2>5 DEF GivenOut, Commit
    <3> QED BY <2>4, <3>1, GapsKept
  <2>6. CASE c \notin Autocommit
    <3>1. /\ next' = current[c] + 1 /\ current[c] \in Nat /\ next \in Nat
          /\ current[c] = (IF next = 0 THEN 1 ELSE next)
      BY <1>0, <1>4, <2>1, <2>6 DEF Commit, WriterAlone, TypeOK
    <3> QED BY <2>4, <3>1, OneMoreGiven
  <2> QED BY <2>5, <2>6
<1>5. ASSUME NEW c \in Callers, Fail(c) PROVE GapFree'
  <2>1. at' = [at EXCEPT ![c] = "idle"] /\ UNCHANGED <<current, documents, next>>
    BY <1>5 DEF Fail
  <2>2. {a \in Autocommit : at'[a] = "bumped"} = {a \in Autocommit : at[a] = "bumped"} \ {c}
    BY <1>0, <2>1 DEF TypeOK
  <2>3. abandoned' = IF c \in Autocommit /\ at[c] = "bumped" THEN abandoned \cup {current[c]} ELSE abandoned
    BY <1>5 DEF Fail
  <2>4. GivenOut' = GivenOut
    BY <2>1, <2>2, <2>3 DEF GivenOut
  <2> QED BY <2>1, <2>4, GapsKept
<1>6. CASE NextPeriod \/ UNCHANGED vars
  <2>1. GivenOut' = GivenOut /\ next' = next
    BY <1>6 DEF NextPeriod, vars, GivenOut
  <2> QED BY <2>1, GapsKept
<1> QED BY <1>1, <1>2, <1>3, <1>4, <1>5, <1>6 DEF Next

(* No number is given twice and none is lost: below nextNumber every one   *)
(* is on a document or was taken outside a transaction.                    *)
THEOREM NumbersSound == Spec => []NumbersAreSound
<1>1. Init => GapFree
  <2> SUFFICES ASSUME Init PROVE GapFree
    OBVIOUS
  <2>1. {n \in 1..next : n < next} = {}
    BY DEF Init
  <2>2. {a \in Autocommit : at[a] = "bumped"} = {}
    BY NumbersAssumption DEF Init
  <2>3. documents = {} /\ abandoned = {}
    BY DEF Init
  <2> QED BY <2>1, <2>2, <2>3 DEF GapFree
<1>2. Spec => []GapFree
  BY <1>1, GapsStep, Invariance, PTL DEF Spec
<1> QED BY <1>2, NumbersAreUnique, PTL DEF NumbersAreSound

-----------------------------------------------------------------------------
(* One day of attendance.                                                  *)

\* What each request has read.
PunchTasks == [op : {"punch"}, punch : Punches, seen : RecordType, atWork : SUBSET Staff]
SubmitTasks == [op : {"submit"}, of : Staff]
ReviewTasks == [op : {"review"}, of : Corrections]
LockTasks == [op : {"lock"}, seen : [Staff -> RecordType]]
ClerkTasks == PunchTasks \cup SubmitTasks \cup ReviewTasks \cup LockTasks

AttendanceShape ==
  /\ clerk \in [Clerks -> {Free} \cup ClerkTasks]
  /\ record \in [Staff -> RecordType]
  /\ punched \subseteq Punches
  /\ correction \in [Corrections -> [status : Requested, of : Staff \cup {CHOOSE e \in Staff : TRUE},
                                     to : {"NEEDS_REVIEW"} \cup FinalStatuses]]
  /\ leave \in [Leaves -> Requested]

\* A time is the least, the greatest, or Never where there is none.
IsLeast(t, times) == IF times = {} THEN t = Never ELSE t \in times /\ \A u \in times : t <= u
IsGreatest(t, times) == IF times = {} THEN t = Never ELSE t \in times /\ \A u \in times : t >= u

TimesHold ==
  \A e \in Staff \ crossed : /\ IsLeast(record[e].in, Times(e, punched \cap CheckIns))
                             /\ IsGreatest(record[e].out, Times(e, punched \ CheckIns))

(* A request to lock has seen a settled day, and nothing but what contests *)
(* a record has left a correction waiting since.                           *)
SnapshotIsSettled ==
  \A k \in Clerks : Busy(k, "lock") =>
    \A e \in Staff : /\ clerk[k].seen[e].status \in FinalStatuses \cup {"NONE"}
                     /\ e \notin contested => Undecided(e) = {}

(* The one request that waits fits beside what is approved.                *)
WaitingFits ==
  ~crowded => /\ LeaveTotal({"APPROVED"}) <= Quota
              /\ \A l \in Leaves : leave[l] = "SUBMITTED" =>
                   /\ LeaveTotal({"APPROVED"}) + LeaveDays[l] <= Quota
                   /\ \A m \in Leaves : leave[m] = "SUBMITTED" => m = l

AttendanceIInv ==
  AttendanceShape /\ TimesHold /\ DayIsCounted /\ SnapshotIsSettled /\ LockIsComplete /\ WaitingFits

\* The times of an employee and one more.
LEMMA OneMoreTime ==
  ASSUME NEW e, NEW T, NEW p
  PROVE  Times(e, T \cup {p}) = IF PunchOf[p] = e THEN Times(e, T) \cup {PunchAt[p]} ELSE Times(e, T)
BY DEF Times

LEMMA LeastOfOneMore ==
  ASSUME NEW times \in SUBSET Nat, NEW t, NEW u \in Nat, IsLeast(t, times),
         NEW s, s = IF t = Never \/ u < t THEN u ELSE t
  PROVE  IsLeast(s, times \cup {u})
<1>1. CASE times = {}
  <2>1. t = Never /\ times \cup {u} = {u}
    BY <1>1 DEF IsLeast
  <2> QED BY <2>1 DEF IsLeast
<1>2. CASE times # {}
  <2>0. t \in times /\ \A v \in times : t <= v
    BY <1>2 DEF IsLeast
  <2>1. t \in times /\ t \in Nat /\ t # Never /\ \A v \in times : v \in Nat /\ t <= v
    BY <2>0 DEF Never
  <2>2. CASE u < t
    <3>1. \A v \in times \cup {u} : u <= v
      BY <2>1, <2>2
    <3> QED BY <2>2, <3>1 DEF IsLeast
  <2>3. CASE ~(u < t)
    <3>1. \A v \in times \cup {u} : t <= v
      BY <2>1, <2>3
    <3> QED BY <2>1, <2>3, <3>1 DEF IsLeast
  <2> QED BY <2>2, <2>3
<1> QED BY <1>1, <1>2

LEMMA GreatestOfOneMore ==
  ASSUME NEW times \in SUBSET Nat, NEW t, NEW u \in Nat, IsGreatest(t, times),
         NEW s, s = IF t = Never \/ u > t THEN u ELSE t
  PROVE  IsGreatest(s, times \cup {u})
<1>1. CASE times = {}
  <2>1. t = Never /\ times \cup {u} = {u}
    BY <1>1 DEF IsGreatest
  <2> QED BY <2>1 DEF IsGreatest
<1>2. CASE times # {}
  <2>0. t \in times /\ \A v \in times : t >= v
    BY <1>2 DEF IsGreatest
  <2>1. t \in times /\ t \in Nat /\ t # Never /\ \A v \in times : v \in Nat /\ t >= v
    BY <2>0 DEF Never
  <2>2. CASE u > t
    <3>1. \A v \in times \cup {u} : u >= v
      BY <2>1, <2>2
    <3> QED BY <2>2, <3>1 DEF IsGreatest
  <2>3. CASE ~(u > t)
    <3>1. \A v \in times \cup {u} : t >= v
      BY <2>1, <2>3
    <3> QED BY <2>1, <2>3, <3>1 DEF IsGreatest
  <2> QED BY <2>2, <2>3
<1> QED BY <1>1, <1>2

LEMMA LeastIsMin ==
  ASSUME NEW times \in SUBSET Nat, NEW t, IsLeast(t, times)
  PROVE  t = IF times = {} THEN Never ELSE Min(times)
<1>1. ASSUME times # {} PROVE t = Min(times)
  <2>1. t \in times /\ \A v \in times : t <= v
    BY <1>1 DEF IsLeast
  <2>2. Min(times) \in times /\ \A v \in times : Min(times) <= v
    BY <2>1 DEF Min
  <2>3. t <= Min(times) /\ Min(times) <= t
    BY <2>1, <2>2
  <2>4. t \in times /\ Min(times) \in times /\ \A v \in times : v \in Int
    BY <2>1, <2>2
  <2> DEFINE m == Min(times)
  <2> HIDE DEF m
  <2>5. t \in Int /\ m \in Int
    BY <2>4 DEF m
  <2>6. t = m
    BY <2>3, <2>5 DEF m
  <2> QED BY <2>6 DEF m
<1> QED BY <1>1 DEF IsLeast

LEMMA GreatestIsMax ==
  ASSUME NEW times \in SUBSET Nat, NEW t, IsGreatest(t, times)
  PROVE  t = IF times = {} THEN Never ELSE Max(times)
<1>1. ASSUME times # {} PROVE t = Max(times)
  <2>1. t \in times /\ \A v \in times : t >= v
    BY <1>1 DEF IsGreatest
  <2>2. Max(times) \in times /\ \A v \in times : Max(times) >= v
    BY <2>1 DEF Max
  <2>3. t >= Max(times) /\ Max(times) >= t
    BY <2>1, <2>2
  <2>4. t \in times /\ Max(times) \in times /\ \A v \in times : v \in Int
    BY <2>1, <2>2
  <2> DEFINE m == Max(times)
  <2> HIDE DEF m
  <2>5. t \in Int /\ m \in Int
    BY <2>4 DEF m
  <2>6. t = m
    BY <2>3, <2>5 DEF m
  <2> QED BY <2>6 DEF m
<1> QED BY <1>1 DEF IsGreatest

LEMMA AttendanceStart == AttendanceInit => AttendanceIInv
<1> SUFFICES ASSUME AttendanceInit PROVE AttendanceIInv
  OBVIOUS
<1> USE AttendanceAssumption
<1>1. AttendanceShape
  BY DEF AttendanceInit, AttendanceShape, NoRecord, RecordType, Requested, Never, FinalStatuses
<1>2. TimesHold
  <2>1. \A e \in Staff : Times(e, {}) = {}
    BY DEF Times
  <2>2. \A e \in Staff : record[e].in = Never /\ record[e].out = Never
    BY DEF AttendanceInit, NoRecord
  <2>3. punched \cap CheckIns = {} /\ punched \ CheckIns = {}
    BY DEF AttendanceInit
  <2> QED BY <2>1, <2>2, <2>3 DEF TimesHold, IsLeast, IsGreatest
<1>3. DayIsCounted
  <2>1. AtWork = {}
    BY DEF AttendanceInit, NoRecord, Working, AtWork
  <2>2. present = 0
    BY DEF AttendanceInit
  <2> QED BY <2>1, <2>2, FS_EmptySet DEF DayIsCounted
<1>4. SnapshotIsSettled
  BY DEF AttendanceInit, SnapshotIsSettled, Busy
<1>5. LockIsComplete
  BY DEF AttendanceInit, LockIsComplete, NoRecord
<1>6. WaitingFits
  <2>1. {l \in Leaves : leave[l] \in {"APPROVED"}} = {} /\ \A l \in Leaves : leave[l] # "SUBMITTED"
    BY DEF AttendanceInit
  <2>2. LeaveTotal({"APPROVED"}) = 0
    BY <2>1, SumEmpty DEF LeaveTotal
  <2> QED BY <2>1, <2>2 DEF WaitingFits
<1> QED BY <1>1, <1>2, <1>3, <1>4, <1>5, <1>6 DEF AttendanceIInv

\* A request begins.
StartsTask(k, task) ==
  /\ Begins(k, task) /\ task \in ClerkTasks /\ (task.op = "lock" => DayIsSettled /\ task.seen = record)
  /\ UNCHANGED <<punched, record, present, correction, leave, crossed, contested, uncounted, crowded>>

LEMMA AttendanceBegins ==
  ASSUME AttendanceIInv, NEW k \in Clerks, NEW task, StartsTask(k, task)
  PROVE  AttendanceIInv'
<1>0. UNCHANGED <<punched, record, present, correction, leave, crossed, contested, uncounted, crowded>>
  BY DEF StartsTask
<1>1. /\ clerk' = [clerk EXCEPT ![k] = task] /\ task \in ClerkTasks
      /\ task.op = "lock" => DayIsSettled /\ task.seen = record
  BY DEF StartsTask, Begins
<1>2. AttendanceShape'
  BY <1>0, <1>1 DEF AttendanceIInv, AttendanceShape
<1>3. TimesHold' /\ DayIsCounted' /\ WaitingFits' /\ LockIsComplete'
  <2>1. TimesHold' /\ DayIsCounted'
    BY <1>0 DEF AttendanceIInv, TimesHold, DayIsCounted, AtWork
  <2>2. WaitingFits' /\ LockIsComplete'
    BY <1>0 DEF AttendanceIInv, WaitingFits, LockIsComplete, LeaveTotal, Undecided
  <2> QED BY <2>1, <2>2
<1>4. SnapshotIsSettled'
  <2> SUFFICES ASSUME NEW j \in Clerks, Busy(j, "lock")', NEW e \in Staff
               PROVE  /\ clerk'[j].seen[e].status \in FinalStatuses \cup {"NONE"}
                      /\ e \notin contested => Undecided(e) = {}
    BY <1>0 DEF SnapshotIsSettled, Undecided
  <2>1. CASE j # k
    <3>1. clerk'[j] = clerk[j] /\ Busy(j, "lock")
      BY <1>1, <2>1 DEF AttendanceIInv, AttendanceShape, Busy
    <3> QED BY <3>1 DEF AttendanceIInv, SnapshotIsSettled
  <2>2. CASE j = k
    <3>1. clerk'[j] = task /\ task.op = "lock"
      BY <1>1, <2>2 DEF AttendanceIInv, AttendanceShape, Busy
    <3> QED BY <1>1, <3>1 DEF DayIsSettled
  <2> QED BY <2>1, <2>2
<1> QED BY <1>2, <1>3, <1>4 DEF AttendanceIInv

LEMMA AttendancePunch ==
  ASSUME AttendanceIInv, NEW k \in Clerks, EndPunch(k)
  PROVE  AttendanceIInv'
<1> USE AttendanceAssumption
<1> DEFINE p == clerk[k].punch
           e == PunchOf[p]
           had == clerk[k].seen
<1>0. UNCHANGED <<correction, leave, contested, crowded>>
  BY DEF EndPunch
<1>1. clerk[k] \in PunchTasks /\ p \in Punches /\ e \in Staff /\ had \in RecordType
  <2>1. clerk[k] \in ClerkTasks /\ clerk[k].op = "punch"
    BY DEF AttendanceIInv, AttendanceShape, EndPunch, Busy
  <2> QED BY <2>1 DEF ClerkTasks, PunchTasks, SubmitTasks, ReviewTasks, LockTasks
<1>2. /\ p \notin punched /\ punched' = punched \cup {p} /\ clerk' = [clerk EXCEPT ![k] = Free]
      /\ \E counted \in {clerk[k].atWork, AtWork} : present' = 1 + Cardinality(counted \ {e})
      /\ uncounted' = (clerk[k].atWork \ {e} # AtWork \ {e})
      /\ crossed' = IF record[e] = had THEN crossed ELSE crossed \cup {e}
  BY DEF EndPunch, Ends
<1>3. record' = [record EXCEPT ![e] = [status |-> "PRESENT", locked |-> @.locked,
                     in |-> IF IsFirst(p, had) THEN PunchAt[p] ELSE @.in,
                     out |-> IF IsLast(p, had) THEN PunchAt[p] ELSE @.out]]
  BY DEF EndPunch
<1>4. /\ \A f \in Staff \ {e} : record'[f] = record[f]
      /\ record'[e].status = "PRESENT" /\ record'[e].locked = record[e].locked
      /\ record'[e].in = (IF IsFirst(p, had) THEN PunchAt[p] ELSE record[e].in)
      /\ record'[e].out = (IF IsLast(p, had) THEN PunchAt[p] ELSE record[e].out)
      /\ record' \in [Staff -> RecordType]
  BY <1>1, <1>3 DEF AttendanceIInv, AttendanceShape, RecordType, FinalStatuses
<1>5. \A j \in Clerks : Busy(j, "lock")' => Busy(j, "lock") /\ clerk'[j] = clerk[j]
  BY <1>2 DEF AttendanceIInv, AttendanceShape, Busy
<1>6. clerk' \in [Clerks -> {Free} \cup ClerkTasks] /\ punched' \subseteq Punches
  BY <1>1, <1>2 DEF AttendanceIInv, AttendanceShape
<1>e. PunchOf[p] = e
  OBVIOUS
<1> HIDE DEF p, e, had
<1>7. AttendanceShape'
  BY <1>0, <1>4, <1>6 DEF AttendanceIInv, AttendanceShape
<1>8. TimesHold'
  <2> SUFFICES ASSUME NEW f \in Staff, f \notin crossed'
               PROVE  /\ IsLeast(record'[f].in, Times(f, punched' \cap CheckIns))
                      /\ IsGreatest(record'[f].out, Times(f, punched' \ CheckIns))
    BY DEF TimesHold
  <2>0. /\ IsLeast(record[f].in, Times(f, punched \cap CheckIns))
        /\ IsGreatest(record[f].out, Times(f, punched \ CheckIns))
    BY <1>2 DEF AttendanceIInv, TimesHold
  <2>1. /\ p \in CheckIns => /\ punched' \cap CheckIns = (punched \cap CheckIns) \cup {p}
                             /\ punched' \ CheckIns = punched \ CheckIns
        /\ p \notin CheckIns => /\ punched' \cap CheckIns = punched \cap CheckIns
                                /\ punched' \ CheckIns = (punched \ CheckIns) \cup {p}
    BY <1>2
  <2>2. CASE f # e
    <3>1. /\ Times(f, punched' \cap CheckIns) = Times(f, punched \cap CheckIns)
          /\ Times(f, punched' \ CheckIns) = Times(f, punched \ CheckIns)
      <4>1. \A T : Times(f, T \cup {p}) = Times(f, T)
        BY <1>e, <2>2, OneMoreTime
      <4> QED BY <2>1, <4>1
    <3> QED BY <1>4, <2>0, <2>2, <3>1
  <2>3. CASE f = e
    <3>1. record[e] = had
      BY <1>2, <2>3
    <3>2. PunchAt[p] \in Nat /\ Times(e, punched \cap CheckIns) \in SUBSET Nat
                             /\ Times(e, punched \ CheckIns) \in SUBSET Nat
      BY <1>1 DEF Times, AttendanceIInv, AttendanceShape
    <3>3. CASE p \in CheckIns
      <4>1. /\ Times(e, punched' \cap CheckIns) = Times(e, punched \cap CheckIns) \cup {PunchAt[p]}
            /\ Times(e, punched' \ CheckIns) = Times(e, punched \ CheckIns)
        BY <2>1, <3>3, <1>e, OneMoreTime
      <4>2. /\ record'[e].in = (IF record[e].in = Never \/ PunchAt[p] < record[e].in THEN PunchAt[p] ELSE record[e].in)
            /\ record'[e].out = record[e].out
        <5>1. IsFirst(p, had) <=> (record[e].in = Never \/ PunchAt[p] < record[e].in)
          BY <3>1, <3>3 DEF IsFirst
        <5>2. ~IsLast(p, had)
          BY <3>3 DEF IsLast
        <5> QED BY <1>4, <5>1, <5>2, Zenon
      <4>3. IsLeast(record[e].in, Times(e, punched \cap CheckIns))
        BY <2>0, <2>3
      <4>4. IsLeast(record'[e].in, Times(e, punched' \cap CheckIns))
        <5> DEFINE times == Times(e, punched \cap CheckIns)
                   u == PunchAt[p]
        <5>1. times \in SUBSET Nat /\ u \in Nat
          BY <3>2
        <5>2. Times(e, punched' \cap CheckIns) = times \cup {u}
          BY <4>1
        <5> HIDE DEF times, u
        <5>3. IsLeast(record'[e].in, times \cup {u})
          BY <5>1, <4>2, <4>3, LeastOfOneMore DEF times, u
        <5> QED BY <5>2, <5>3
      <4>5. IsGreatest(record'[e].out, Times(e, punched' \ CheckIns))
        BY <2>0, <2>3, <4>1, <4>2
      <4> QED BY <2>3, <4>4, <4>5
    <3>4. CASE p \notin CheckIns
      <4>1. /\ Times(e, punched' \ CheckIns) = Times(e, punched \ CheckIns) \cup {PunchAt[p]}
            /\ Times(e, punched' \cap CheckIns) = Times(e, punched \cap CheckIns)
        BY <2>1, <3>4, <1>e, OneMoreTime
      <4>2. /\ record'[e].out = (IF record[e].out = Never \/ PunchAt[p] > record[e].out THEN PunchAt[p] ELSE record[e].out)
            /\ record'[e].in = record[e].in
        <5>1. IsLast(p, had) <=> (record[e].out = Never \/ PunchAt[p] > record[e].out)
          BY <3>1, <3>4 DEF IsLast
        <5>2. ~IsFirst(p, had)
          BY <3>4 DEF IsFirst
        <5> QED BY <1>4, <5>1, <5>2, Zenon
      <4>3. IsGreatest(record[e].out, Times(e, punched \ CheckIns))
        BY <2>0, <2>3
      <4>4. IsGreatest(record'[e].out, Times(e, punched' \ CheckIns))
        <5> DEFINE times == Times(e, punched \ CheckIns)
                   u == PunchAt[p]
        <5>1. times \in SUBSET Nat /\ u \in Nat
          BY <3>2
        <5>2. Times(e, punched' \ CheckIns) = times \cup {u}
          BY <4>1
        <5> HIDE DEF times, u
        <5>3. IsGreatest(record'[e].out, times \cup {u})
          BY <5>1, <4>2, <4>3, GreatestOfOneMore DEF times, u
        <5> QED BY <5>2, <5>3
      <4>5. IsLeast(record'[e].in, Times(e, punched' \cap CheckIns))
        BY <2>0, <2>3, <4>1, <4>2
      <4> QED BY <2>3, <4>4, <4>5
    <3> QED BY <3>3, <3>4
  <2> QED BY <2>2, <2>3
<1>9. DayIsCounted'
  <2> DEFINE rest == AtWork \ {e}
  <2>1. AtWork' = rest \cup {e}
    BY <1>1, <1>4 DEF AtWork, Working
  <2>2. IsFiniteSet(rest) /\ e \notin rest /\ Cardinality(rest) \in Nat
    BY FS_Subset, FS_CardinalityType DEF AtWork
  <2>3. uncounted' \/ present' = 1 + Cardinality(rest)
    BY <1>2
  <2> HIDE DEF rest
  <2>4. Cardinality(rest \cup {e}) = Cardinality(rest) + 1
    BY <2>2, FS_AddElement
  <2>5. uncounted' \/ present' = Cardinality(rest \cup {e})
    <3>1. 1 + Cardinality(rest) = Cardinality(rest \cup {e})
      BY <2>2, <2>4
    <3> QED BY <1>2, <2>3, <3>1
  <2> QED BY <2>1, <2>5 DEF DayIsCounted
<1>10. SnapshotIsSettled'
  BY <1>0, <1>5 DEF AttendanceIInv, SnapshotIsSettled, Undecided
<1>11. LockIsComplete'
  <2> SUFFICES ASSUME NEW f \in Staff \ contested, record'[f].locked
               PROVE  record'[f].status \in FinalStatuses /\ Undecided(f) = {}
    BY <1>0 DEF LockIsComplete, Undecided
  <2>1. record[f].locked
    BY <1>4
  <2>2. record[f].status \in FinalStatuses /\ Undecided(f) = {}
    BY <2>1 DEF AttendanceIInv, LockIsComplete
  <2> QED BY <1>4, <2>2 DEF FinalStatuses
<1>12. WaitingFits'
  BY <1>0 DEF AttendanceIInv, WaitingFits, LeaveTotal
<1> QED BY <1>7, <1>8, <1>9, <1>10, <1>11, <1>12 DEF AttendanceIInv

LEMMA AttendanceSubmit ==
  ASSUME AttendanceIInv, NEW k \in Clerks, NEW c \in Corrections, NEW to \in {"NEEDS_REVIEW"} \cup FinalStatuses,
         EndCorrection(k, c, to)
  PROVE  AttendanceIInv'
<1> DEFINE e == clerk[k].of
<1>0. UNCHANGED <<punched, record, present, leave, crossed, uncounted, crowded>>
  BY DEF EndCorrection
<1>1. e \in Staff
  <2>1. clerk[k] \in ClerkTasks /\ clerk[k].op = "submit"
    BY DEF AttendanceIInv, AttendanceShape, EndCorrection, Busy
  <2> QED BY <2>1 DEF ClerkTasks, PunchTasks, SubmitTasks, ReviewTasks, LockTasks
<1>2. /\ correction' = [correction EXCEPT ![c] = [status |-> "SUBMITTED", of |-> e, to |-> to]]
      /\ contested' = IF Locking \/ record[e].locked THEN contested \cup {e} ELSE contested
      /\ clerk' = [clerk EXCEPT ![k] = Free]
  BY DEF EndCorrection, Ends
<1> HIDE DEF e
<1>3. \A j \in Clerks : Busy(j, "lock")' => Busy(j, "lock") /\ clerk'[j] = clerk[j]
  BY <1>2 DEF AttendanceIInv, AttendanceShape, Busy
<1>4. \A f \in Staff \ {e} : Undecided(f)' \subseteq Undecided(f)
  BY <1>2 DEF Undecided, AttendanceIInv, AttendanceShape
<1>5. AttendanceShape'
  BY <1>0, <1>1, <1>2 DEF AttendanceIInv, AttendanceShape, Requested
<1>6. TimesHold' /\ DayIsCounted' /\ WaitingFits'
  <2>1. TimesHold' /\ DayIsCounted'
    BY <1>0 DEF AttendanceIInv, TimesHold, DayIsCounted, AtWork
  <2>2. WaitingFits'
    BY <1>0 DEF AttendanceIInv, WaitingFits, LeaveTotal
  <2> QED BY <2>1, <2>2
<1>7. SnapshotIsSettled'
  <2> SUFFICES ASSUME NEW j \in Clerks, Busy(j, "lock")', NEW f \in Staff
               PROVE  /\ clerk'[j].seen[f].status \in FinalStatuses \cup {"NONE"}
                      /\ f \notin contested' => Undecided(f)' = {}
    BY DEF SnapshotIsSettled
  <2>1. Busy(j, "lock") /\ clerk'[j] = clerk[j] /\ Locking
    BY <1>3 DEF Locking
  <2>2. f \notin contested' => f # e /\ f \notin contested
    BY <1>2, <2>1
  <2> QED BY <1>4, <2>1, <2>2 DEF AttendanceIInv, SnapshotIsSettled
<1>8. LockIsComplete'
  <2> SUFFICES ASSUME NEW f \in Staff \ contested', record[f].locked
               PROVE  record[f].status \in FinalStatuses /\ Undecided(f)' = {}
    BY <1>0 DEF LockIsComplete
  <2>1. f # e /\ f \notin contested
    BY <1>2
  <2> QED BY <1>4, <2>1 DEF AttendanceIInv, LockIsComplete
<1> QED BY <1>5, <1>6, <1>7, <1>8 DEF AttendanceIInv

LEMMA AttendanceReview ==
  ASSUME AttendanceIInv, NEW k \in Clerks, NEW approve \in BOOLEAN, EndReview(k, approve)
  PROVE  AttendanceIInv'
<1> DEFINE c == clerk[k].of
           e == correction[c].of
<1>0. UNCHANGED <<punched, present, leave, crossed, crowded>>
  BY DEF EndReview
<1>1. c \in Corrections
  <2>1. clerk[k] \in ClerkTasks /\ clerk[k].op = "review"
    BY DEF AttendanceIInv, AttendanceShape, EndReview, Busy
  <2> QED BY <2>1 DEF ClerkTasks, PunchTasks, SubmitTasks, ReviewTasks, LockTasks
<1>2. /\ correction' = [correction EXCEPT ![c].status = IF approve THEN "APPROVED" ELSE "REJECTED"]
      /\ record' = [record EXCEPT ![e].status = IF approve THEN correction[c].to ELSE @]
      /\ contested' = IF approve /\ record[e].locked THEN contested \cup {e} ELSE contested
      /\ uncounted' = (uncounted \/ approve)
      /\ clerk' = [clerk EXCEPT ![k] = Free]
  BY DEF EndReview, Ends
<1>3. correction[c].to \in {"NEEDS_REVIEW"} \cup FinalStatuses
  BY <1>1 DEF AttendanceIInv, AttendanceShape
<1> HIDE DEF c, e
<1>4. /\ \A f \in Staff : /\ record'[f].in = record[f].in /\ record'[f].out = record[f].out
                          /\ record'[f].locked = record[f].locked
                          /\ f # e \/ ~approve => record'[f].status = record[f].status
      /\ record' \in [Staff -> RecordType]
  <2>1. record \in [Staff -> RecordType]
    BY DEF AttendanceIInv, AttendanceShape
  <2> DEFINE row == [record[e] EXCEPT !.status = IF approve THEN correction[c].to ELSE @]
  <2>2. record' = [record EXCEPT ![e] = row]
    BY <1>2, <2>1
  <2>3. e \in Staff => /\ row \in RecordType /\ row.in = record[e].in /\ row.out = record[e].out
                       /\ row.locked = record[e].locked /\ (~approve => row.status = record[e].status)
    BY <1>3, <2>1 DEF RecordType
  <2> HIDE DEF row
  <2> QED BY <2>1, <2>2, <2>3
<1>5. \A j \in Clerks : Busy(j, "lock")' => Busy(j, "lock") /\ clerk'[j] = clerk[j]
  BY <1>2 DEF AttendanceIInv, AttendanceShape, Busy
<1>6. \A f \in Staff : Undecided(f)' \subseteq Undecided(f)
  <2>1. \A d \in Corrections : /\ correction'[d].of = correction[d].of
                               /\ correction'[d].status = "SUBMITTED" => correction[d].status = "SUBMITTED"
    BY <1>2 DEF AttendanceIInv, AttendanceShape
  <2> QED BY <2>1 DEF Undecided
<1>7. AttendanceShape'
  <2>1. correction' \in [Corrections -> [status : Requested, of : Staff \cup {CHOOSE x \in Staff : TRUE},
                                         to : {"NEEDS_REVIEW"} \cup FinalStatuses]]
    <3>1. correction \in [Corrections -> [status : Requested, of : Staff \cup {CHOOSE x \in Staff : TRUE},
                                          to : {"NEEDS_REVIEW"} \cup FinalStatuses]]
      BY DEF AttendanceIInv, AttendanceShape
    <3>2. "APPROVED" \in Requested /\ "REJECTED" \in Requested
      BY DEF Requested
    <3> QED BY <1>2, <3>1, <3>2
  <2> QED BY <1>0, <1>2, <1>4, <2>1 DEF AttendanceIInv, AttendanceShape
<1>8. TimesHold'
  BY <1>0, <1>4 DEF AttendanceIInv, TimesHold
<1>9. DayIsCounted'
  <2>1. CASE approve
    BY <1>2, <2>1 DEF DayIsCounted
  <2>2. CASE ~approve
    <3>1. AtWork' = AtWork
      BY <1>4, <2>2 DEF AtWork
    <3>2. uncounted => uncounted'
      BY <1>2
    <3> QED BY <1>0, <3>1, <3>2 DEF AttendanceIInv, DayIsCounted
  <2> QED BY <2>1, <2>2
<1>10. SnapshotIsSettled'
  <2>1. \A f \in Staff : f \notin contested' => f \notin contested
    BY <1>2
  <2> QED BY <1>5, <1>6, <2>1 DEF AttendanceIInv, SnapshotIsSettled
<1>11. LockIsComplete'
  <2> SUFFICES ASSUME NEW f \in Staff \ contested', record'[f].locked
               PROVE  record'[f].status \in FinalStatuses /\ Undecided(f)' = {}
    BY DEF LockIsComplete
  <2>1. record[f].locked /\ f \notin contested /\ (f # e \/ ~approve)
    BY <1>2, <1>4
  <2> QED BY <1>4, <1>6, <2>1 DEF AttendanceIInv, LockIsComplete
<1>12. WaitingFits'
  BY <1>0 DEF AttendanceIInv, WaitingFits, LeaveTotal
<1> QED BY <1>7, <1>8, <1>9, <1>10, <1>11, <1>12 DEF AttendanceIInv

LEMMA AttendanceLocks ==
  ASSUME AttendanceIInv, NEW k \in Clerks, EndLock(k)
  PROVE  AttendanceIInv'
<1> DEFINE had == clerk[k].seen
           rows == {e \in Staff : had[e].status # "NONE" /\ ~had[e].locked}
<1>0. UNCHANGED <<punched, present, correction, leave, crossed, contested, uncounted, crowded>>
  BY DEF EndLock
<1>1. /\ clerk' = [clerk EXCEPT ![k] = Free]
      /\ record' = IF \E e \in rows : record[e] # had[e] THEN record
                   ELSE [e \in Staff |-> [record[e] EXCEPT !.locked = @ \/ e \in rows]]
  BY DEF EndLock, Ends
<1>2. \A e \in Staff : /\ had[e].status \in FinalStatuses \cup {"NONE"}
                       /\ e \notin contested => Undecided(e) = {}
  BY DEF EndLock, AttendanceIInv, SnapshotIsSettled
<1>3. \A e \in rows : e \in Staff /\ had[e].status \in FinalStatuses
  BY <1>2
<1> HIDE DEF had, rows
<1>4. /\ \A f \in Staff : /\ record'[f].in = record[f].in /\ record'[f].out = record[f].out
                          /\ record'[f].status = record[f].status
                          /\ record'[f].locked => record[f].locked \/ (f \in rows /\ record[f] = had[f])
      /\ record' \in [Staff -> RecordType]
  <2>1. CASE record' = record
    BY <2>1 DEF AttendanceIInv, AttendanceShape
  <2>2. CASE /\ \A e \in rows : record[e] = had[e]
             /\ record' = [e \in Staff |-> [record[e] EXCEPT !.locked = @ \/ e \in rows]]
    <3>1. \A f \in Staff : record[f] \in RecordType /\ record'[f] = [record[f] EXCEPT !.locked = @ \/ f \in rows]
      BY <2>2 DEF AttendanceIInv, AttendanceShape
    <3>2. \A f \in Staff : /\ record'[f].in = record[f].in /\ record'[f].out = record[f].out
                           /\ record'[f].status = record[f].status
                           /\ record'[f].locked = (record[f].locked \/ f \in rows)
                           /\ record'[f] \in RecordType
      BY <3>1 DEF RecordType
    <3>3. record' \in [Staff -> RecordType]
      BY <2>2, <3>2
    <3> QED BY <2>2, <3>2, <3>3
  <2> QED BY <1>1, <2>1, <2>2
<1>5. \A j \in Clerks : Busy(j, "lock")' => Busy(j, "lock") /\ clerk'[j] = clerk[j]
  BY <1>1 DEF AttendanceIInv, AttendanceShape, Busy
<1>6. AttendanceShape'
  BY <1>0, <1>1, <1>4 DEF AttendanceIInv, AttendanceShape
<1>7. TimesHold'
  BY <1>0, <1>4 DEF AttendanceIInv, TimesHold
<1>8. DayIsCounted'
  <2>1. AtWork' = AtWork
    BY <1>4 DEF AtWork
  <2> QED BY <1>0, <2>1 DEF AttendanceIInv, DayIsCounted
<1>9. SnapshotIsSettled'
  BY <1>0, <1>5 DEF AttendanceIInv, SnapshotIsSettled, Undecided
<1>10. LockIsComplete'
  <2> SUFFICES ASSUME NEW f \in Staff \ contested, record'[f].locked
               PROVE  record[f].status \in FinalStatuses /\ Undecided(f) = {}
    BY <1>0, <1>4 DEF LockIsComplete, Undecided
  <2>1. CASE record[f].locked
    BY <2>1 DEF AttendanceIInv, LockIsComplete
  <2>2. CASE f \in rows /\ record[f] = had[f]
    BY <1>2, <1>3, <2>2
  <2> QED BY <1>4, <2>1, <2>2
<1>11. WaitingFits'
  BY <1>0 DEF AttendanceIInv, WaitingFits, LeaveTotal
<1> QED BY <1>6, <1>7, <1>8, <1>9, <1>10, <1>11 DEF AttendanceIInv

\* A step of the leave requests touches nothing else.
LEMMA LeaveApart ==
  ASSUME AttendanceIInv, leave' \in [Leaves -> Requested], WaitingFits',
         UNCHANGED <<punched, record, present, correction, clerk, crossed, contested, uncounted>>
  PROVE  AttendanceIInv'
<1>1. AttendanceShape'
  BY DEF AttendanceIInv, AttendanceShape
<1>2. TimesHold' /\ DayIsCounted'
  BY DEF AttendanceIInv, TimesHold, DayIsCounted, AtWork
<1>3. SnapshotIsSettled' /\ LockIsComplete'
  BY DEF AttendanceIInv, SnapshotIsSettled, LockIsComplete, Busy, Undecided
<1> QED BY <1>1, <1>2, <1>3 DEF AttendanceIInv

LEMMA LeaveDaysAreNumbers == \A l \in Leaves : LeaveDays[l] \in Int
<1>1. LeaveDays \in [Leaves -> Nat]
  BY AttendanceAssumption
<1> QED BY <1>1

\* A request approved more, or none.
LEMMA LeaveTotals ==
  ASSUME leave \in [Leaves -> Requested], NEW l \in Leaves, leave[l] # "APPROVED",
         NEW status, leave' = [leave EXCEPT ![l] = status]
  PROVE  /\ LeaveTotal({"APPROVED"}) \in Int
         /\ LeaveTotal({"APPROVED"})' =
              IF status = "APPROVED" THEN LeaveTotal({"APPROVED"}) + LeaveDays[l] ELSE LeaveTotal({"APPROVED"})
<1> USE AttendanceAssumption
<1> DEFINE old == {m \in Leaves : leave[m] \in {"APPROVED"}}
<1>1. l \notin old /\ IsFiniteSet(old) /\ \A m \in old \cup {l} : LeaveDays[m] \in Int
  <2>1. old \in SUBSET Leaves
    OBVIOUS
  <2>2. \A m \in old \cup {l} : LeaveDays[m] \in Int
    <3>1. \A m \in Leaves : LeaveDays[m] \in Int
      BY LeaveDaysAreNumbers
    <3>2. \A m \in old \cup {l} : m \in Leaves
      OBVIOUS
    <3> HIDE DEF old
    <3> QED BY <3>1, <3>2
  <2>3. l \notin old
    OBVIOUS
  <2> HIDE DEF old
  <2> QED BY <2>1, <2>2, <2>3, FS_Subset
<1>2. {m \in Leaves : leave'[m] \in {"APPROVED"}} = IF status = "APPROVED" THEN old \cup {l} ELSE old
  OBVIOUS
<1>3. LeaveTotal({"APPROVED"}) = SumFunctionOnSet(LeaveDays, old)
  BY DEF LeaveTotal
<1>4. LeaveTotal({"APPROVED"})' = SumFunctionOnSet(LeaveDays, IF status = "APPROVED" THEN old \cup {l} ELSE old)
  BY <1>2 DEF LeaveTotal
<1> HIDE DEF old
<1>5. SumFunctionOnSet(LeaveDays, old \cup {l}) = SumFunctionOnSet(LeaveDays, old) + LeaveDays[l]
  BY <1>1, SumAdded
<1>6. SumFunctionOnSet(LeaveDays, old) \in Int
  BY <1>1, SumType
<1> QED BY <1>3, <1>4, <1>5, <1>6

LEMMA AttendanceLeave ==
  ASSUME AttendanceIInv, NEW l \in Leaves,
         SubmitLeave(l) \/ \E approve \in BOOLEAN : ReviewLeave(l, approve)
  PROVE  AttendanceIInv'
<1> USE AttendanceAssumption
<1>0. leave \in [Leaves -> Requested] /\ LeaveDays[l] \in Nat
  BY DEF AttendanceIInv, AttendanceShape
<1>1. CASE SubmitLeave(l)
  <2>1. /\ leave[l] = "NONE" /\ leave' = [leave EXCEPT ![l] = "SUBMITTED"]
        /\ LeaveTotal({"APPROVED"}) + LeaveDays[l] <= Quota
        /\ crowded' = (crowded \/ \E m \in Leaves : leave[m] = "SUBMITTED")
        /\ UNCHANGED <<punched, record, present, correction, clerk, crossed, contested, uncounted>>
    BY <1>1 DEF SubmitLeave, WithinQuota
  <2>2. LeaveTotal({"APPROVED"})' = LeaveTotal({"APPROVED"}) /\ LeaveTotal({"APPROVED"}) \in Int
    <3> DEFINE status == "SUBMITTED"
    <3>1. leave[l] # "APPROVED" /\ leave' = [leave EXCEPT ![l] = status] /\ status # "APPROVED"
      BY <2>1
    <3> HIDE DEF status
    <3> QED BY <1>0, <3>1, LeaveTotals
  <2>3. leave' \in [Leaves -> Requested]
    BY <1>0, <2>1 DEF Requested
  <2>4. WaitingFits'
    <3> SUFFICES ASSUME ~crowded'
                 PROVE  /\ LeaveTotal({"APPROVED"})' <= Quota
                        /\ \A m \in Leaves : leave'[m] = "SUBMITTED" =>
                             /\ LeaveTotal({"APPROVED"})' + LeaveDays[m] <= Quota
                             /\ \A n \in Leaves : leave'[n] = "SUBMITTED" => n = m
      BY DEF WaitingFits
    <3>1. \A m \in Leaves : leave[m] # "SUBMITTED"
      BY <2>1
    <3>2. \A m \in Leaves : leave'[m] = "SUBMITTED" => m = l
      BY <1>0, <2>1, <3>1
    <3>3. LeaveTotal({"APPROVED"}) <= Quota
      BY <1>0, <2>1, <2>2
    <3> QED BY <2>1, <2>2, <3>2, <3>3
  <2> QED BY <2>1, <2>3, <2>4, LeaveApart
<1>2. ASSUME NEW approve \in BOOLEAN, ReviewLeave(l, approve) PROVE AttendanceIInv'
  <2> DEFINE status == IF approve THEN "APPROVED" ELSE "REJECTED"
  <2>1. /\ leave[l] = "SUBMITTED" /\ leave' = [leave EXCEPT ![l] = status]
        /\ UNCHANGED <<punched, record, present, correction, clerk, crossed, contested, uncounted, crowded>>
    BY <1>2 DEF ReviewLeave
  <2>2. status \in Requested /\ status # "SUBMITTED"
    BY DEF Requested
  <2> HIDE DEF status
  <2>3. leave' \in [Leaves -> Requested]
    BY <1>0, <2>1, <2>2
  <2>4. /\ LeaveTotal({"APPROVED"}) \in Int
        /\ LeaveTotal({"APPROVED"})' =
             IF status = "APPROVED" THEN LeaveTotal({"APPROVED"}) + LeaveDays[l] ELSE LeaveTotal({"APPROVED"})
    BY <1>0, <2>1, LeaveTotals
  <2>5. WaitingFits'
    <3> SUFFICES ASSUME ~crowded
                 PROVE  /\ LeaveTotal({"APPROVED"})' <= Quota
                        /\ \A m \in Leaves : leave'[m] # "SUBMITTED"
      BY <2>1 DEF WaitingFits
    <3>1. /\ LeaveTotal({"APPROVED"}) <= Quota
          /\ LeaveTotal({"APPROVED"}) + LeaveDays[l] <= Quota
          /\ \A m \in Leaves : leave[m] = "SUBMITTED" => m = l
      BY <2>1 DEF AttendanceIInv, WaitingFits
    <3>2. \A m \in Leaves : leave'[m] # "SUBMITTED"
      BY <1>0, <2>1, <2>2, <3>1
    <3> QED BY <2>4, <3>1, <3>2
  <2> QED BY <2>1, <2>3, <2>5, LeaveApart
<1> QED BY <1>1, <1>2

LEMMA AttendanceStep == AttendanceIInv /\ [AttendanceNext]_attendanceVars => AttendanceIInv'
<1> SUFFICES ASSUME AttendanceIInv, [AttendanceNext]_attendanceVars PROVE AttendanceIInv'
  OBVIOUS
<1> USE AttendanceAssumption
<1>1. ASSUME NEW k \in Clerks, NEW p \in Punches, StartPunch(k, p) PROVE AttendanceIInv'
  <2> DEFINE task == [op |-> "punch", punch |-> p, seen |-> record[PunchOf[p]], atWork |-> AtWork]
  <2>1. AtWork \in SUBSET Staff
    BY DEF AtWork
  <2>2. task \in PunchTasks /\ task.op # "lock"
    BY <2>1 DEF PunchTasks, AttendanceIInv, AttendanceShape
  <2>3. StartsTask(k, task)
    BY <1>1, <2>2 DEF StartPunch, StartsTask, ClerkTasks
  <2> QED BY <2>3, AttendanceBegins
<1>2. ASSUME NEW k \in Clerks, NEW e \in Staff, StartCorrection(k, e) PROVE AttendanceIInv'
  <2>1. StartsTask(k, [op |-> "submit", of |-> e])
    BY <1>2 DEF StartCorrection, StartsTask, ClerkTasks, SubmitTasks
  <2> QED BY <2>1, AttendanceBegins
<1>3. ASSUME NEW k \in Clerks, NEW c \in Corrections, StartReview(k, c) PROVE AttendanceIInv'
  <2>1. StartsTask(k, [op |-> "review", of |-> c])
    BY <1>3 DEF StartReview, StartsTask, ClerkTasks, ReviewTasks
  <2> QED BY <2>1, AttendanceBegins
<1>4. ASSUME NEW k \in Clerks, StartLock(k) PROVE AttendanceIInv'
  <2>1. StartsTask(k, [op |-> "lock", seen |-> record])
    BY <1>4 DEF StartLock, StartsTask, ClerkTasks, LockTasks, AttendanceIInv, AttendanceShape
  <2> QED BY <2>1, AttendanceBegins
<1>5. ASSUME NEW k \in Clerks, PunchRefused(k) \/ UNCHANGED attendanceVars PROVE AttendanceIInv'
  <2>1. /\ UNCHANGED <<punched, record, present, correction, leave, crossed, contested, uncounted, crowded>>
        /\ clerk' = [clerk EXCEPT ![k] = Free] \/ clerk' = clerk
    BY <1>5 DEF PunchRefused, Ends, attendanceVars
  <2>2. /\ clerk' \in [Clerks -> {Free} \cup ClerkTasks]
        /\ \A j \in Clerks : Busy(j, "lock")' => Busy(j, "lock") /\ clerk'[j] = clerk[j]
    BY <2>1 DEF AttendanceIInv, AttendanceShape, Busy
  <2>3. AttendanceShape'
    BY <2>1, <2>2 DEF AttendanceIInv, AttendanceShape
  <2>4. TimesHold' /\ DayIsCounted'
    BY <2>1 DEF AttendanceIInv, TimesHold, DayIsCounted, AtWork
  <2>5. WaitingFits' /\ LockIsComplete'
    BY <2>1 DEF AttendanceIInv, WaitingFits, LockIsComplete, LeaveTotal, Undecided
  <2>6. SnapshotIsSettled'
    BY <2>1, <2>2 DEF AttendanceIInv, SnapshotIsSettled, Undecided
  <2> QED BY <2>3, <2>4, <2>5, <2>6 DEF AttendanceIInv
<1>6. CASE UNCHANGED attendanceVars
  <2>1. AttendanceShape'
    BY <1>6 DEF AttendanceIInv, AttendanceShape, attendanceVars
  <2>2. TimesHold' /\ DayIsCounted'
    BY <1>6 DEF AttendanceIInv, TimesHold, DayIsCounted, attendanceVars, AtWork
  <2>3. WaitingFits' /\ LockIsComplete' /\ SnapshotIsSettled'
    BY <1>6 DEF AttendanceIInv, WaitingFits, LockIsComplete, SnapshotIsSettled, LeaveTotal, Undecided, Busy, attendanceVars
  <2> QED BY <2>1, <2>2, <2>3 DEF AttendanceIInv
<1>7. CASE \E k \in Clerks :
       \/ \E p \in Punches : StartPunch(k, p)
       \/ EndPunch(k) \/ PunchRefused(k) \/ StartLock(k) \/ EndLock(k)
       \/ \E e \in Staff : StartCorrection(k, e)
       \/ \E c \in Corrections : \/ StartReview(k, c)
                                 \/ \E to \in {"NEEDS_REVIEW"} \cup FinalStatuses : EndCorrection(k, c, to)
       \/ \E approve \in BOOLEAN : EndReview(k, approve)
  BY <1>1, <1>2, <1>3, <1>4, <1>5, <1>7, AttendancePunch, AttendanceSubmit, AttendanceReview, AttendanceLocks
<1> QED BY <1>6, <1>7, AttendanceLeave DEF AttendanceNext

(* The attendance desk keeps its promises for any number of employees,     *)
(* devices, corrections, leave requests and concurrent requests: times     *)
(* that no overlap crossed are the first and the last, the day's count     *)
(* agrees, what is locked is final, and leave stays within its quota.      *)
THEOREM AttendanceCorrect == AttendanceSpec => []AttendanceIsTrue
<1>1. AttendanceIInv => AttendanceIsTrue
  <2> SUFFICES ASSUME AttendanceIInv PROVE AttendanceIsTrue
    OBVIOUS
  <2>1. TimesAreTrue
    <3> SUFFICES ASSUME NEW e \in Staff \ crossed
                 PROVE  /\ record[e].in = IF Times(e, punched \cap CheckIns) = {} THEN Never
                                          ELSE Min(Times(e, punched \cap CheckIns))
                        /\ record[e].out = IF Times(e, punched \ CheckIns) = {} THEN Never
                                           ELSE Max(Times(e, punched \ CheckIns))
      BY DEF TimesAreTrue
    <3>1. \A T \in SUBSET Punches : Times(e, T) \in SUBSET Nat
      BY AttendanceAssumption DEF Times
    <3>2. punched \subseteq Punches
      BY DEF AttendanceIInv, AttendanceShape
    <3>3. \A times \in SUBSET Nat : \A t : IsLeast(t, times) => t = IF times = {} THEN Never ELSE Min(times)
      BY LeastIsMin
    <3>4. \A times \in SUBSET Nat : \A t : IsGreatest(t, times) => t = IF times = {} THEN Never ELSE Max(times)
      BY GreatestIsMax
    <3>5. /\ IsLeast(record[e].in, Times(e, punched \cap CheckIns))
          /\ IsGreatest(record[e].out, Times(e, punched \ CheckIns))
      BY DEF AttendanceIInv, TimesHold
    <3>6. punched \cap CheckIns \in SUBSET Punches /\ punched \ CheckIns \in SUBSET Punches
      BY <3>2
    <3> QED BY <3>1, <3>3, <3>4, <3>5, <3>6
  <2>2. LeaveWithinQuota
    BY DEF AttendanceIInv, WaitingFits, LeaveWithinQuota
  <2> QED BY <2>1, <2>2 DEF AttendanceIInv, AttendanceIsTrue
<1> QED BY <1>1, AttendanceStart, AttendanceStep, PTL DEF AttendanceSpec


-----------------------------------------------------------------------------
(* Fixed assets.                                                           *)

AssetRows == [status : {"NONE", "ACTIVE"} \cup Gone, since : {0} \cup Days, book : Int,
              accumulated : Nat, holder : Holders \cup {Nobody}]

AssetsShape ==
  /\ asset \in [Items -> AssetRows]
  /\ dated \subseteq Days \X Days
  /\ account \in [{"asset", "contra"} -> Int]

\* What each asset adds to the difference of the two accounts.
Carried == [a \in Items |-> IF asset[a].status = "ACTIVE" THEN asset[a].book ELSE 0]

AccountsCarry == account["asset"] + account["contra"] = SumFunctionOnSet(Carried, Items)

BookAboveResidual == \A a \in Items : asset[a].status # "NONE" => asset[a].book >= Min({Cost[a], Residual[a]})

AssetsIInv == AssetsShape /\ AccountsCarry /\ BookAboveResidual /\ MonthsChargedOnce


LEMMA MinOfTwo == \A x, y \in Int : Min({x, y}) = IF x <= y THEN x ELSE y
<1> SUFFICES ASSUME NEW x \in Int, NEW y \in Int PROVE Min({x, y}) = IF x <= y THEN x ELSE y
  OBVIOUS
<1>1. \E m \in {x, y} : \A n \in {x, y} : m <= n
  OBVIOUS
<1>2. Min({x, y}) \in {x, y} /\ \A n \in {x, y} : Min({x, y}) <= n
  BY <1>1 DEF Min
<1> QED BY <1>2

LEMMA MaxOfTwo == \A x, y \in Int : Max({x, y}) = IF x >= y THEN x ELSE y
<1> SUFFICES ASSUME NEW x \in Int, NEW y \in Int PROVE Max({x, y}) = IF x >= y THEN x ELSE y
  OBVIOUS
<1>1. \E m \in {x, y} : \A n \in {x, y} : m >= n
  OBVIOUS
<1>2. Max({x, y}) \in {x, y} /\ \A n \in {x, y} : Max({x, y}) >= n
  BY <1>1 DEF Max
<1> QED BY <1>2

LEMMA MonthsFollowDays ==
  /\ \A d, f \in Int : MonthOf(d) \in Int /\ (d <= f => MonthOf(d) <= MonthOf(f))
  /\ Days \subseteq Int
  /\ \A d \in Days : MonthOf(d) \in 1..Months
BY AssetsAssumption DEF MonthOf, Days

LEMMA DaysAreNumbers == Days \subseteq Int
BY AssetsAssumption DEF Days

LEMMA ProductGrows == \A k \in Nat, i, j \in Int : i <= j => k * i <= k * j
<1> SUFFICES ASSUME NEW k \in Nat, NEW i \in Int, NEW j \in Int, i <= j PROVE k * i <= k * j
  OBVIOUS
<1> DEFINE d == j - i
<1>1. d \in Nat /\ j = i + d
  OBVIOUS
<1> HIDE DEF d
<1>2. k * (i + d) = k * i + k * d /\ k * d \in Nat /\ k * i \in Int
  BY <1>1
<1> QED BY <1>1, <1>2

LEMMA AssetValues ==
  \A a \in Items : Cost[a] \in Nat /\ Residual[a] \in Nat /\ Life[a] \in Nat \ {0}
<1>1. Cost \in [Items -> Nat] /\ Residual \in [Items -> Nat] /\ Life \in [Items -> Nat \ {0}]
  BY AssetsAssumption
<1> QED BY <1>1

LEMMA MonthlyIsInt == \A a \in Items : MonthlyCharge(a) \in Int
<1> SUFFICES ASSUME NEW a \in Items PROVE MonthlyCharge(a) \in Int
  OBVIOUS
<1>1. Cost[a] \in Nat /\ Residual[a] \in Nat /\ Life[a] \in Nat \ {0}
  BY AssetValues
<1>2. 2 * (Cost[a] - Residual[a]) + Life[a] \in Int /\ 2 * Life[a] \in Nat /\ 2 * Life[a] > 0
  BY <1>1
<1> QED BY <1>2 DEF MonthlyCharge

\* What a run takes from an asset, at most.
LEMMA ChargeBounds ==
  ASSUME AssetsShape, NEW a \in Items, NEW from \in Days, NEW to \in Days
  PROVE  /\ Charge(a, from, to) \in Nat
         /\ Charge(a, from, to) # 0 =>
              /\ asset[a].status = "ACTIVE" /\ Cost[a] > Residual[a]
              /\ Charge(a, from, to) <= asset[a].book - Residual[a]
              /\ Charge(a, from, to) <= MonthlyCharge(a) * MonthsCharged(a, from, to)
<1> DEFINE x == MonthlyCharge(a) * MonthsCharged(a, from, to)
           y == asset[a].book - Residual[a]
<1>1. asset[a].since \in Int /\ asset[a].book \in Int /\ Cost[a] \in Nat /\ Residual[a] \in Nat
  <2>1. Cost[a] \in Nat /\ Residual[a] \in Nat
    BY AssetValues
  <2>2. asset[a] \in AssetRows
    BY DEF AssetsShape
  <2>3. asset[a].since \in {0} \cup Days /\ asset[a].book \in Int
    BY <2>2 DEF AssetRows
  <2> DEFINE s == asset[a].since
  <2> HIDE DEF s
  <2>4. s \in {0} \cup Days
    BY <2>3 DEF s
  <2>7. s \in Int
    BY <2>4, DaysAreNumbers
  <2>5. asset[a].book \in Int
    BY <2>3
  <2>6. Cost[a] \in Nat /\ Residual[a] \in Nat
    BY <2>1
  <2> QED BY <2>5, <2>6, <2>7 DEF s
<1>2. MonthsCharged(a, from, to) \in Int
  BY <1>1, MonthsFollowDays DEF MonthsCharged
<1>3. x \in Int /\ y \in Int
  BY <1>1, <1>2, MonthlyIsInt
<1>4. Charge(a, from, to) = IF asset[a].status # "ACTIVE" \/ asset[a].book <= 0 \/ Cost[a] <= Residual[a] THEN 0
                            ELSE Max({0, Min({x, y})})
  BY DEF Charge
<1> HIDE DEF x, y
<1>5. Min({x, y}) \in Int /\ Min({x, y}) <= x /\ Min({x, y}) <= y
  BY <1>3, MinOfTwo
<1> DEFINE z == Min({x, y})
<1> HIDE DEF z
<1>6. Max({0, z}) = IF 0 >= z THEN 0 ELSE z
  BY <1>5, MaxOfTwo DEF z
<1>7. z \in Int /\ z <= x /\ z <= y
  BY <1>5 DEF z
<1>8. CASE asset[a].status # "ACTIVE" \/ asset[a].book <= 0 \/ Cost[a] <= Residual[a]
  BY <1>4, <1>8
<1>9. CASE ~(asset[a].status # "ACTIVE" \/ asset[a].book <= 0 \/ Cost[a] <= Residual[a])
  <2>1. Charge(a, from, to) = IF 0 >= z THEN 0 ELSE z
    BY <1>4, <1>6, <1>9 DEF z
  <2>2. Cost[a] > Residual[a] /\ asset[a].status = "ACTIVE"
    BY <1>1, <1>9
  <2> QED BY <1>7, <2>1, <2>2 DEF x, y
<1> QED BY <1>8, <1>9

LEMMA AssetsStart == AssetsInit => AssetsIInv
<1> SUFFICES ASSUME AssetsInit PROVE AssetsIInv
  OBVIOUS
<1> USE AssetsAssumption
<1>1. AssetsShape
  BY DEF AssetsInit, AssetsShape, AssetRows, NoAsset, Nobody
<1>2. \A a \in Items : asset[a].status = "NONE" /\ asset[a].accumulated = 0
  BY DEF AssetsInit, NoAsset
<1>3. AccountsCarry
  <2>1. \A a \in Items : Carried[a] = 0
    BY <1>2 DEF Carried
  <2>2. SumFunctionOnSet(Carried, Items) = 0
    BY <2>1, SumOfZeros
  <2> QED BY <2>2 DEF AssetsInit, AccountsCarry
<1> QED BY <1>1, <1>2, <1>3 DEF AssetsIInv, BookAboveResidual, MonthsChargedOnce

\* Where the runs stay and no accumulated depreciation grows, months stay charged once.
LEMMA ChargesKept ==
  ASSUME MonthsChargedOnce, dated' = dated,
         \A a \in Items : asset'[a].accumulated # 0 =>
           asset'[a].accumulated = asset[a].accumulated /\ asset'[a].since = asset[a].since
  PROVE  MonthsChargedOnce'
<1>1. Touched' = Touched /\ Split' = Split
  BY DEF Touched, Split
<1> QED BY <1>1 DEF MonthsChargedOnce

\* The carried value of one asset changes, and the accounts with it.
LEMMA CarriedChanges ==
  ASSUME AssetsIInv, NEW a \in Items, asset' \in [Items -> AssetRows],
         \A b \in Items \ {a} : asset'[b] = asset[b],
         account' \in [{"asset", "contra"} -> Int],
         account'["asset"] + account'["contra"] = account["asset"] + account["contra"] - Carried[a] + Carried'[a]
  PROVE  AccountsCarry'
<1>1. \A b \in Items : Carried[b] \in Int /\ Carried'[b] \in Int
  BY DEF AssetsIInv, AssetsShape, AssetRows, Carried
<1>2. \A b \in Items \ {a} : Carried'[b] = Carried[b]
  BY DEF Carried
<1>3. IsFiniteSet(Items)
  BY AssetsAssumption
<1>4. AccountsCarry
  BY DEF AssetsIInv
<1> DEFINE f == Carried
           g == Carried'
<1> HIDE DEF f, g
<1>5. SumFunctionOnSet(g, Items) = SumFunctionOnSet(f, Items) - f[a] + g[a]
  <2>1. \A b \in Items : f[b] \in Int
    BY <1>1 DEF f
  <2>2. g[a] \in Int
    BY <1>1 DEF g
  <2>3. \A b \in Items \ {a} : g[b] = f[b]
    BY <1>2 DEF f, g
  <2> QED BY <1>3, <2>1, <2>2, <2>3, SumChanged
<1> DEFINE p == SumFunctionOnSet(f, Items)
           q == SumFunctionOnSet(g, Items)
<1>6. p \in Int /\ f[a] \in Int /\ g[a] \in Int
  <2>1. \A b \in Items : f[b] \in Int /\ g[b] \in Int
    BY <1>1 DEF f, g
  <2> QED BY <1>3, <2>1, SumType
<1>7. /\ account["asset"] + account["contra"] = p
      /\ account'["asset"] + account'["contra"] = account["asset"] + account["contra"] - f[a] + g[a]
      /\ account["asset"] \in Int /\ account["contra"] \in Int
  BY <1>4 DEF AccountsCarry, AssetsIInv, AssetsShape, f, g
<1>8. q = p - f[a] + g[a]
  BY <1>5
<1> HIDE DEF p, q
<1>9. account'["asset"] + account'["contra"] = q
  BY <1>6, <1>7, <1>8
<1> QED BY <1>9 DEF AccountsCarry, g, q

Acquired(day, c, h) == [NoAsset EXCEPT !.status = "ACTIVE", !.since = day, !.book = c, !.holder = h]

LEMMA NewRow ==
  ASSUME NEW A, NEW B, NEW H, "ACTIVE" \in A, NEW day \in B, NEW h \in H, NEW c \in Int
  PROVE  Acquired(day, c, h) \in [status : A, since : B, book : Int, accumulated : Nat, holder : H]
BY DEF Acquired, NoAsset

LEMMA AssetsAcquire ==
  ASSUME AssetsIInv, NEW a \in Items, NEW day \in Days, NEW h \in Holders \cup {Nobody}, Acquire(a, day, h)
  PROVE  AssetsIInv'
<1> USE AssetsAssumption
<1> DEFINE row == [NoAsset EXCEPT !.status = "ACTIVE", !.since = day, !.book = Cost[a], !.holder = h]
<1>1. /\ asset[a].status = "NONE" /\ asset' = [asset EXCEPT ![a] = row]
      /\ account' = [account EXCEPT !["asset"] = @ + Cost[a]] /\ dated' = dated
  BY DEF Acquire
<1>2. /\ row \in AssetRows /\ row.status = "ACTIVE" /\ row.book = Cost[a] /\ row.accumulated = 0
      /\ Cost[a] \in Nat /\ Residual[a] \in Nat
  <2>1. Cost[a] \in Nat /\ Residual[a] \in Nat
    BY AssetValues
  <2>2. "ACTIVE" \in {"NONE", "ACTIVE"} \cup Gone /\ day \in {0} \cup Days
    OBVIOUS
  <2>3. row \in AssetRows
    <3>1. Cost[a] \in Int
      BY <2>1
    <3> DEFINE A == {"NONE", "ACTIVE"} \cup Gone
               B == {0} \cup Days
               H == Holders \cup {Nobody}
               c == Cost[a]
    <3>2. "ACTIVE" \in A /\ day \in B /\ h \in H /\ c \in Int
      BY <2>2, <3>1
    <3>3. AssetRows = [status : A, since : B, book : Int, accumulated : Nat, holder : H]
      BY DEF AssetRows
    <3>4. row = Acquired(day, c, h)
      BY DEF Acquired
    <3> HIDE DEF A, B, H, c, row
    <3> QED BY <3>2, <3>3, <3>4, NewRow
  <2>4. row.status = "ACTIVE" /\ row.book = Cost[a] /\ row.accumulated = 0
    BY DEF NoAsset
  <2> QED BY <2>1, <2>3, <2>4
<1> HIDE DEF row
<1>3. /\ asset' \in [Items -> AssetRows] /\ asset'[a] = row /\ \A b \in Items \ {a} : asset'[b] = asset[b]
      /\ account' \in [{"asset", "contra"} -> Int]
      /\ account'["asset"] = account["asset"] + Cost[a] /\ account'["contra"] = account["contra"]
  BY <1>1, <1>2 DEF AssetsIInv, AssetsShape
<1>4. AssetsShape'
  BY <1>1, <1>3 DEF AssetsIInv, AssetsShape
<1>5. AccountsCarry'
  <2>1. Carried[a] = 0 /\ Carried'[a] = Cost[a]
    BY <1>1, <1>2, <1>3 DEF Carried
  <2>2. account["asset"] \in Int /\ account["contra"] \in Int
    BY DEF AssetsIInv, AssetsShape
  <2> QED BY <1>2, <1>3, <2>1, <2>2, CarriedChanges
<1>6. BookAboveResidual'
  <2>1. Cost[a] >= Min({Cost[a], Residual[a]})
    BY <1>2, MinOfTwo
  <2> QED BY <1>2, <1>3, <2>1 DEF AssetsIInv, BookAboveResidual
<1>7. MonthsChargedOnce'
  BY <1>1, <1>2, <1>3, ChargesKept DEF AssetsIInv
<1> QED BY <1>4, <1>5, <1>6, <1>7 DEF AssetsIInv

LEMMA AssetsDispose ==
  ASSUME AssetsIInv, NEW a \in Items, NEW mode \in Gone, Dispose(a, mode)
  PROVE  AssetsIInv'
<1> USE AssetsAssumption
<1> DEFINE row == [asset[a] EXCEPT !.status = mode, !.holder = Nobody]
<1>0. asset[a] \in AssetRows /\ asset \in [Items -> AssetRows] /\ account \in [{"asset", "contra"} -> Int]
  BY DEF AssetsIInv, AssetsShape
<1>1. /\ asset[a].status = "ACTIVE" /\ asset' = [asset EXCEPT ![a].status = mode, ![a].holder = Nobody]
      /\ asset[a].book = Cost[a] - asset[a].accumulated /\ dated' = dated
      /\ account' = [account EXCEPT !["asset"] = @ - Cost[a], !["contra"] = @ + asset[a].accumulated]
  BY DEF Dispose
<1>2. asset' = [asset EXCEPT ![a] = row]
  BY <1>0, <1>1
<1>3. /\ row \in AssetRows /\ row.status = mode /\ row.book = asset[a].book /\ row.since = asset[a].since
      /\ row.accumulated = asset[a].accumulated /\ Cost[a] \in Nat /\ asset[a].accumulated \in Nat
  BY <1>0 DEF AssetRows
<1> HIDE DEF row
<1>4. asset' \in [Items -> AssetRows] /\ asset'[a] = row /\ \A b \in Items \ {a} : asset'[b] = asset[b]
  BY <1>0, <1>2, <1>3
<1>5. /\ account' \in [{"asset", "contra"} -> Int]
      /\ account'["asset"] = account["asset"] - Cost[a]
      /\ account'["contra"] = account["contra"] + asset[a].accumulated
  BY <1>0, <1>1, <1>3
<1>6. AssetsShape'
  BY <1>1, <1>4, <1>5 DEF AssetsIInv, AssetsShape
<1>7. AccountsCarry'
  <2>1. Carried[a] = Cost[a] - asset[a].accumulated /\ Carried'[a] = 0
    BY <1>1, <1>3, <1>4 DEF Carried, Gone
  <2>2. account["asset"] \in Int /\ account["contra"] \in Int
    BY <1>0
  <2> QED BY <1>3, <1>4, <1>5, <2>1, <2>2, CarriedChanges
<1>8. BookAboveResidual'
  <2>1. \A b \in Items : asset'[b].book = asset[b].book /\ (asset'[b].status # "NONE" => asset[b].status # "NONE")
    BY <1>1, <1>3, <1>4
  <2> QED BY <2>1 DEF AssetsIInv, BookAboveResidual
<1>9. MonthsChargedOnce'
  <2>1. \A b \in Items : asset'[b].accumulated = asset[b].accumulated /\ asset'[b].since = asset[b].since
    BY <1>3, <1>4
  <2> QED BY <1>1, <2>1, ChargesKept DEF AssetsIInv
<1> QED BY <1>6, <1>7, <1>8, <1>9 DEF AssetsIInv

\* Custody and maintenance leave the values alone.
LEMMA AssetsElsewhere ==
  ASSUME AssetsIInv, UNCHANGED <<dated, account>>, asset' \in [Items -> AssetRows],
         \A b \in Items : /\ asset'[b].status = asset[b].status /\ asset'[b].since = asset[b].since
                          /\ asset'[b].book = asset[b].book /\ asset'[b].accumulated = asset[b].accumulated
  PROVE  AssetsIInv'
<1>1. AssetsShape'
  BY DEF AssetsIInv, AssetsShape
<1>2. AccountsCarry'
  <2>1. Carried' = Carried
    BY DEF Carried
  <2> QED BY <2>1 DEF AssetsIInv, AccountsCarry
<1>3. BookAboveResidual'
  BY DEF AssetsIInv, BookAboveResidual
<1>4. MonthsChargedOnce'
  BY ChargesKept DEF AssetsIInv
<1> QED BY <1>1, <1>2, <1>3, <1>4 DEF AssetsIInv

LEMMA PositiveFactor == \A i \in Int, n \in Nat, d \in Nat : d # 0 /\ d <= i * n => i \in Nat
<1> SUFFICES ASSUME NEW i \in Int, NEW n \in Nat, i < 0 PROVE i * n <= 0
  OBVIOUS
<1> DEFINE j == -i
<1>1. j \in Nat /\ i = -j
  OBVIOUS
<1> HIDE DEF j
<1>2. (-j) * n = -(j * n) /\ j * n \in Nat
  BY <1>1
<1> QED BY <1>1, <1>2


LEMMA AssetsRun ==
  ASSUME AssetsIInv, NEW from \in Days, NEW to \in Days, RunDepreciation(from, to)
  PROVE  AssetsIInv'
<1> DEFINE ch == [a \in Items |-> Charge(a, from, to)]
<1>0. /\ asset \in [Items -> AssetRows] /\ account \in [{"asset", "contra"} -> Int]
      /\ dated \subseteq Days \X Days /\ AssetsShape
  BY DEF AssetsIInv, AssetsShape
<1>1. /\ from <= to /\ ~Overlaps(from, to) /\ dated' = dated \cup {<<from, to>>}
      /\ asset' = [a \in Items |-> [asset[a] EXCEPT !.book = @ - Charge(a, from, to),
                                                    !.accumulated = @ + Charge(a, from, to)]]
      /\ account' = [account EXCEPT !["contra"] = @ - SumFunction(ch)]
  BY DEF RunDepreciation
<1>2. \A a \in Items :
        /\ ch[a] = Charge(a, from, to) /\ ch[a] \in Nat
        /\ ch[a] # 0 => /\ asset[a].status = "ACTIVE" /\ Cost[a] > Residual[a]
                        /\ ch[a] <= asset[a].book - Residual[a]
                        /\ ch[a] <= MonthlyCharge(a) * MonthsCharged(a, from, to)
  BY <1>0, ChargeBounds
<1>3. SumFunction(ch) = SumFunctionOnSet(ch, Items)
  BY DEF SumFunction
<1> HIDE DEF ch
<1>4. \A a \in Items : /\ asset'[a] \in AssetRows
                       /\ asset'[a].book = asset[a].book - ch[a]
                       /\ asset'[a].accumulated = asset[a].accumulated + ch[a]
                       /\ asset'[a].since = asset[a].since /\ asset'[a].status = asset[a].status
  <2> SUFFICES ASSUME NEW a \in Items
               PROVE  /\ asset'[a] \in AssetRows
                      /\ asset'[a].book = asset[a].book - ch[a]
                      /\ asset'[a].accumulated = asset[a].accumulated + ch[a]
                      /\ asset'[a].since = asset[a].since /\ asset'[a].status = asset[a].status
    OBVIOUS
  <2>1. asset'[a] = [asset[a] EXCEPT !.book = @ - ch[a], !.accumulated = @ + ch[a]]
    BY <1>1, <1>2
  <2>2. asset[a] \in AssetRows /\ ch[a] \in Nat
    BY <1>0, <1>2
  <2>3. asset'[a] = [status |-> asset[a].status, since |-> asset[a].since, book |-> asset[a].book - ch[a],
                     accumulated |-> asset[a].accumulated + ch[a], holder |-> asset[a].holder]
    BY <2>1, <2>2 DEF AssetRows
  <2>4. /\ asset[a].status \in {"NONE", "ACTIVE"} \cup Gone /\ asset[a].since \in {0} \cup Days
        /\ asset[a].book - ch[a] \in Int /\ asset[a].accumulated + ch[a] \in Nat
        /\ asset[a].holder \in Holders \cup {Nobody}
    BY <2>2 DEF AssetRows
  <2> QED BY <2>3, <2>4 DEF AssetRows
<1>5. asset' \in [Items -> AssetRows]
  BY <1>1, <1>4
<1>6. SumFunctionOnSet(ch, Items) \in Int /\ IsFiniteSet(Items)
  BY <1>2, SumType, AssetsAssumption
<1>7. AssetsShape'
  <2>1. <<from, to>> \in Days \X Days
    OBVIOUS
  <2>2. dated' \subseteq Days \X Days
    BY <1>0, <1>1, <2>1
  <2>3. account' \in [{"asset", "contra"} -> Int]
    <3> DEFINE total == SumFunction(ch)
    <3>1. total \in Int
      BY <1>3, <1>6
    <3>2. account' = [account EXCEPT !["contra"] = @ - total]
      BY <1>1
    <3> HIDE DEF total
    <3> QED BY <1>0, <3>1, <3>2
  <2> QED BY <1>5, <2>2, <2>3 DEF AssetsShape
<1>8. AccountsCarry'
  <2>1. \A a \in Items : Carried[a] \in Int /\ ch[a] \in Int /\ Carried'[a] = Carried[a] - ch[a]
    <3> SUFFICES ASSUME NEW a \in Items PROVE Carried[a] \in Int /\ ch[a] \in Int /\ Carried'[a] = Carried[a] - ch[a]
      OBVIOUS
    <3>1. asset[a].book \in Int
      BY <1>0 DEF AssetRows
    <3>2. CASE asset[a].status = "ACTIVE"
      BY <1>2, <1>4, <3>1, <3>2 DEF Carried
    <3>3. CASE asset[a].status # "ACTIVE"
      <4>1. ch[a] = 0 /\ Carried[a] = 0 /\ Carried'[a] = 0
        BY <1>2, <1>4, <3>3 DEF Carried
      <4> QED BY <4>1
    <3> QED BY <3>2, <3>3
  <2> DEFINE f == Carried
             g == Carried'
  <2>2. \A a \in Items : f[a] \in Int /\ ch[a] \in Int /\ g[a] = f[a] - ch[a]
    BY <2>1
  <2> HIDE DEF f, g
  <2>3. SumFunctionOnSet(g, Items) = SumFunctionOnSet(f, Items) - SumFunctionOnSet(ch, Items)
    BY <1>6, <2>2, SumMinus
  <2>4. SumFunctionOnSet(f, Items) \in Int
    BY <1>6, <2>2, SumType
  <2>5. /\ account'["asset"] = account["asset"] /\ account["asset"] \in Int /\ account["contra"] \in Int
        /\ account'["contra"] = account["contra"] - SumFunctionOnSet(ch, Items)
    BY <1>0, <1>1, <1>3
  <2>6. account["asset"] + account["contra"] = SumFunctionOnSet(f, Items)
    BY DEF AssetsIInv, AccountsCarry, f
  <2>7. account'["asset"] + account'["contra"] = SumFunctionOnSet(g, Items)
    BY <1>6, <2>3, <2>4, <2>5, <2>6
  <2> QED BY <2>7 DEF AccountsCarry, g
<1>9. BookAboveResidual'
  <2> SUFFICES ASSUME NEW a \in Items, asset'[a].status # "NONE"
               PROVE  asset'[a].book >= Min({Cost[a], Residual[a]})
    BY DEF BookAboveResidual
  <2>1. Cost[a] \in Nat /\ Residual[a] \in Nat /\ asset[a].book \in Int
    <3>1. asset[a] \in AssetRows
      BY <1>0
    <3> QED BY <3>1, AssetValues DEF AssetRows
  <2>2. asset[a].book >= Min({Cost[a], Residual[a]})
    BY <1>4 DEF AssetsIInv, BookAboveResidual
  <2>3. Min({Cost[a], Residual[a]}) <= Residual[a] /\ Min({Cost[a], Residual[a]}) \in Int
    <3>1. Cost[a] \in Int /\ Residual[a] \in Int
      BY <2>1
    <3>2. Min({Cost[a], Residual[a]}) = IF Cost[a] <= Residual[a] THEN Cost[a] ELSE Residual[a]
      BY <3>1, MinOfTwo
    <3> QED BY <3>1, <3>2
  <2> DEFINE m == Min({Cost[a], Residual[a]})
  <2> HIDE DEF m
  <2>4. asset[a].book >= m /\ m <= Residual[a] /\ m \in Int
    BY <2>2, <2>3 DEF m
  <2>5. asset'[a].book = asset[a].book - ch[a] /\ (ch[a] # 0 => ch[a] <= asset[a].book - Residual[a]) /\ ch[a] \in Nat
    BY <1>2, <1>4
  <2>6. asset'[a].book >= m
    BY <2>1, <2>4, <2>5
  <2> QED BY <2>6 DEF m
<1>10. MonthsChargedOnce'
  <2> SUFFICES ASSUME ~Split', NEW a \in Items, asset'[a].accumulated # 0
               PROVE  asset'[a].accumulated <=
                        MonthlyCharge(a) * Cardinality({m \in Touched' : m >= MonthOf(asset'[a].since)})
    BY DEF MonthsChargedOnce
  <2> DEFINE start == MonthOf(asset[a].since)
             old == {m \in Touched : m >= start}
             new == {m \in Touched' : m >= start}
             n == Cardinality(old)
             first == IF from > asset[a].since THEN from ELSE asset[a].since
             fresh == MonthOf(first)..MonthOf(to)
             rate == MonthlyCharge(a)
             was == asset[a].accumulated
  <2>1. ~Split
    BY <1>1 DEF Split
  <2>2. was \in Nat /\ rate \in Int /\ asset[a].since \in Int /\ ch[a] \in Nat
    <3>1. asset[a] \in AssetRows
      BY <1>0
    <3>2. was \in Nat /\ asset[a].since \in {0} \cup Days
      BY <3>1 DEF AssetRows
    <3>3. rate \in Int
      BY MonthlyIsInt
    <3>4. asset[a].since \in Int
      BY <3>2, DaysAreNumbers
    <3>5. ch[a] \in Nat
      BY <1>2
    <3> QED BY <3>2, <3>3, <3>4, <3>5
  <2>3. was # 0 => was <= rate * n
    BY <2>1 DEF AssetsIInv, MonthsChargedOnce
  <2>4. /\ IsFiniteSet(1..Months) /\ Touched \subseteq Touched'
        /\ Touched' \subseteq 1..Months /\ Touched \subseteq 1..Months
    <3>1. Months \in Int /\ 1 \in Int
      BY AssetsAssumption
    <3>2. IsFiniteSet(1..Months)
      BY <3>1, FS_Interval
    <3> QED BY <1>1, <3>2 DEF Touched
  <2>5. /\ IsFiniteSet(old) /\ IsFiniteSet(new) /\ old \subseteq new
        /\ n \in Nat /\ Cardinality(new) \in Nat
    BY <2>4, FS_Subset, FS_CardinalityType
  <2>6. asset'[a].accumulated = was + ch[a] /\ asset'[a].since = asset[a].since
    BY <1>4
  <2>7. CASE ch[a] = 0
    <3>1. n <= Cardinality(new)
      BY <2>5, FS_Subset
    <3>2. was # 0 /\ was <= rate * n /\ asset'[a].accumulated = was
      BY <2>2, <2>3, <2>6, <2>7
    <3> HIDE DEF was, rate, n, new
    <3>3. rate \in Nat
      BY <2>2, <2>5, <3>2, PositiveFactor
    <3>4. rate * n <= rate * Cardinality(new)
      BY <2>5, <3>1, <3>3, ProductGrows
    <3>5. rate * n \in Int /\ rate * Cardinality(new) \in Int
      BY <2>5, <3>3
    <3>6. was <= rate * Cardinality(new)
      BY <2>2, <3>2, <3>4, <3>5
    <3> QED BY <2>6, <3>2, <3>6 DEF new, rate
  <2>8. CASE ch[a] # 0
    <3>1. first \in Int /\ to \in Int /\ MonthOf(first) \in Int /\ MonthOf(to) \in Int
      BY <2>2, MonthsFollowDays
    <3>2. ch[a] <= rate * MonthsCharged(a, from, to)
      BY <1>2, <2>8
    <3>3. MonthsCharged(a, from, to) = IF first > to THEN 0 ELSE MonthOf(to) - MonthOf(first) + 1
      BY DEF MonthsCharged
    <3>4. first <= to
      <4>1. CASE first > to
        <5>1. ch[a] <= rate * 0
          BY <3>2, <3>3, <4>1
        <5> QED BY <2>2, <2>8, <5>1
      <4> QED BY <3>1, <4>1
    <3>5. MonthOf(first) <= MonthOf(to) /\ MonthOf(first) >= start /\ MonthOf(first) >= MonthOf(from)
      BY <2>2, <3>1, <3>4, MonthsFollowDays
    <3>6. IsFiniteSet(fresh) /\ Cardinality(fresh) = MonthOf(to) - MonthOf(first) + 1
      BY <3>1, <3>5, FS_Interval
    <3>7. fresh \subseteq new
      <4> SUFFICES ASSUME NEW m \in fresh PROVE m \in Touched' /\ m >= start
        OBVIOUS
      <4>1. m \in Int /\ MonthOf(from) <= m /\ m <= MonthOf(to) /\ start \in Int
        BY <2>2, <3>1, <3>5, MonthsFollowDays
      <4>2. m \in 1..Months
        <5>1. MonthOf(from) \in 1..Months /\ MonthOf(to) \in 1..Months
          BY MonthsFollowDays
        <5>2. Months \in Int /\ m \in Int /\ MonthOf(from) \in Int /\ MonthOf(to) \in Int
          BY <4>1, <5>1, AssetsAssumption
        <5> DEFINE i == MonthOf(from)
                   j == MonthOf(to)
        <5>3. i \in Int /\ j \in Int /\ 1 <= i /\ j <= Months /\ i <= m /\ m <= j
          BY <4>1, <5>1, <5>2
        <5> HIDE DEF i, j
        <5>4. 1 <= m /\ m <= Months
          BY <5>2, <5>3
        <5> QED BY <5>2, <5>4
      <4>3. <<from, to>> \in dated' /\ <<from, to>>[1] = from /\ <<from, to>>[2] = to
        BY <1>1
      <4>4. m \in Touched'
        BY <4>1, <4>2, <4>3 DEF Touched
      <4>5. m >= start
        BY <2>2, <3>1, <3>5, <4>1
      <4> QED BY <4>4, <4>5
    <3>8. old \cap fresh = {}
      <4> SUFFICES ASSUME NEW m \in old, m \in fresh PROVE FALSE
        OBVIOUS
      <4>1. PICK r \in dated : MonthOf(r[1]) <= m /\ m <= MonthOf(r[2])
        BY DEF Touched
      <4>2. r[1] \in Days /\ r[2] \in Days /\ r \in dated' /\ <<from, to>> \in dated'
        BY <1>0, <1>1
      <4>3. m \in Int /\ MonthOf(from) <= m /\ m <= MonthOf(to)
        BY <3>1, <3>5, MonthsFollowDays
      <4>4. r[1] > to \/ r[2] < from
        <5>1. ~(r[1] <= to /\ r[2] >= from)
          BY <1>1, <4>1 DEF Overlaps
        <5> QED BY <4>2, <5>1, MonthsFollowDays
      <4>5. /\ MonthOf(r[1]) \in Int /\ MonthOf(r[2]) \in Int /\ MonthOf(from) \in Int /\ MonthOf(to) \in Int
            /\ r[2] < from => MonthOf(r[2]) <= MonthOf(from)
            /\ r[1] > to => MonthOf(to) <= MonthOf(r[1])
        <5>1. r[1] \in Int /\ r[2] \in Int /\ from \in Int /\ to \in Int
          BY <4>2, DaysAreNumbers
        <5>2. (r[2] < from => r[2] <= from) /\ (r[1] > to => to <= r[1])
          BY <5>1
        <5> QED BY <5>1, <5>2, MonthsFollowDays
      <4>6. /\ r[2] < from => MonthOf(r[2]) # MonthOf(from)
            /\ r[1] > to => MonthOf(to) # MonthOf(r[1])
        <5>1. <<from, to>>[1] = from /\ <<from, to>>[2] = to
          OBVIOUS
        <5>2. r[1] \in Int /\ to \in Int /\ (r[1] > to => to < r[1])
          BY <4>2, DaysAreNumbers
        <5> QED BY <4>2, <5>1, <5>2 DEF Split
      <4> QED BY <4>1, <4>3, <4>4, <4>5, <4>6
    <3> DEFINE k == Cardinality(fresh)
    <3>9. k \in Nat /\ k # 0 /\ ch[a] <= rate * k
      BY <3>1, <3>2, <3>3, <3>4, <3>5, <3>6
    <3>10. n + k <= Cardinality(new)
      <4>1. Cardinality(old \cup fresh) = n + k
        <5>1. Cardinality(old \cup fresh) = n + k - Cardinality(old \cap fresh)
          <6> HIDE DEF old, fresh
          <6> QED BY <2>5, <3>6, FS_Union
        <5>2. Cardinality(old \cap fresh) = 0
          BY <3>8, FS_EmptySet
        <5> HIDE DEF n, k
        <5> QED BY <2>5, <3>9, <5>1, <5>2
      <4>2. old \cup fresh \subseteq new
        BY <2>5, <3>7
      <4> QED BY <2>5, <4>1, <4>2, FS_Subset
    <3> HIDE DEF was, rate, n, k, new
    <3>11. rate \in Nat
      BY <2>2, <2>8, <3>9, PositiveFactor
    <3>12. rate * (n + k) <= rate * Cardinality(new)
      BY <2>5, <3>9, <3>10, <3>11, ProductGrows
    <3>13. rate * (n + k) = rate * n + rate * k /\ rate * n \in Nat /\ rate * k \in Nat /\ rate * Cardinality(new) \in Nat
      BY <2>5, <3>9, <3>11
    <3>14. was <= rate * n
      BY <2>2, <2>3, <3>13
    <3>15. was + ch[a] <= rate * Cardinality(new)
      BY <2>2, <3>9, <3>12, <3>13, <3>14
    <3> QED BY <2>6, <3>15 DEF new, rate
  <2> QED BY <2>7, <2>8
<1> QED BY <1>7, <1>8, <1>9, <1>10 DEF AssetsIInv

LEMMA AssetsStep == AssetsIInv /\ [AssetsNext]_assetVars => AssetsIInv'
<1> SUFFICES ASSUME AssetsIInv, [AssetsNext]_assetVars PROVE AssetsIInv'
  OBVIOUS
<1>0. asset \in [Items -> AssetRows]
  BY DEF AssetsIInv, AssetsShape
<1>1. ASSUME NEW a \in Items, NEW h \in Holders,
             Assign(a, h) \/ \E i \in Handovers : Transfer(a, i, h)
      PROVE  AssetsIInv'
  <2>1. /\ UNCHANGED <<dated, account>>
        /\ asset' = asset \/ asset' = [asset EXCEPT ![a].holder = h]
    BY <1>1 DEF Assign, Transfer
  <2>2. /\ asset' \in [Items -> AssetRows]
        /\ \A b \in Items : /\ asset'[b].status = asset[b].status /\ asset'[b].since = asset[b].since
                            /\ asset'[b].book = asset[b].book /\ asset'[b].accumulated = asset[b].accumulated
    BY <1>0, <2>1 DEF AssetRows
  <2> QED BY <2>1, <2>2, AssetsElsewhere
<1>2. CASE UNCHANGED <<asset, dated, account>>
  BY <1>0, <1>2, AssetsElsewhere
<1>3. ASSUME NEW a \in Items, NEW w \in WorkOrders, CreateMaintenance(w, a) PROVE AssetsIInv'
  BY <1>2, <1>3 DEF CreateMaintenance
<1>4. ASSUME NEW w \in WorkOrders, CompleteMaintenance(w) PROVE AssetsIInv'
  BY <1>2, <1>4 DEF CompleteMaintenance
<1>5. CASE UNCHANGED assetVars
  BY <1>2, <1>5 DEF assetVars
<1>6. ASSUME NEW a \in Items,
             \/ \E day \in Days, h \in Holders \cup {Nobody} : Acquire(a, day, h)
             \/ \E mode \in Gone : Dispose(a, mode)
      PROVE  AssetsIInv'
  BY <1>6, AssetsAcquire, AssetsDispose
<1> QED BY <1>1, <1>3, <1>4, <1>5, <1>6, AssetsRun DEF AssetsNext

(* Register and ledger reconcile for any assets, cost, life and calendar:  *)
(* 1401 less 1491 is the book value of what the branch has, no book value  *)
(* falls below the residual value, and no month is charged twice.          *)
THEOREM AssetsCorrect == AssetsSpec => []AssetsReconcile
<1>1. AssetsIInv => AssetsReconcile
  <2> SUFFICES ASSUME AssetsIInv PROVE AssetsReconcile
    OBVIOUS
  <2> DEFINE has == {b \in Items : asset[b].status = "ACTIVE"}
             books == [a \in has |-> asset[a].book]
  <2>1. SumFunction(books) = SumFunctionOnSet(books, has)
    BY DEF SumFunction
  <2>2. \A a \in has : Carried[a] = books[a]
    BY DEF Carried
  <2>3. /\ IsFiniteSet(Items) /\ has \in SUBSET Items
        /\ \A a \in Items : Carried[a] \in Int /\ (a \notin has => Carried[a] = 0)
    BY AssetsAssumption DEF AssetsIInv, AssetsShape, AssetRows, Carried
  <2>4. account["asset"] + account["contra"] = SumFunctionOnSet(Carried, Items)
    BY DEF AssetsIInv, AccountsCarry
  <2>5. LedgerAgrees <=> /\ account["asset"] + account["contra"] = SumFunction(books)
                         /\ BookAboveResidual
    BY DEF LedgerAgrees, BookAboveResidual
  <2> HIDE DEF has, books
  <2>6. SumFunctionOnSet(Carried, Items) = SumFunctionOnSet(Carried, has)
    BY <2>3, SumOfOthers
  <2>7. IsFiniteSet(has)
    BY <2>3, FS_Subset
  <2>8. SumFunctionOnSet(Carried, has) = SumFunctionOnSet(books, has)
    BY <2>2, <2>7, SumAgree
  <2>9. LedgerAgrees
    BY <2>1, <2>4, <2>5, <2>6, <2>8 DEF AssetsIInv
  <2> QED BY <2>9 DEF AssetsIInv, AssetsReconcile
<1> QED BY <1>1, AssetsStart, AssetsStep, PTL DEF AssetsSpec

-----------------------------------------------------------------------------
(***************************************************************************)
(* Payroll: for any employees, runs, corrections and claims.               *)
(***************************************************************************)

Unfinished == {"DRAFT", "REVIEW", "APPROVED"}
Live == {n \in Runs : run[n].status \in Unfinished \cup Recognized}
Rec == {n \in Runs : run[n].status \in Recognized}
Earlier(n) == {m \in Rec : m < n}

\* Runs are taken in order, and those that are not cancelled belong to one
\* regular run, which is recognized before it is adjusted.  Only the last of
\* them may be unfinished.
RunsAreChained ==
  /\ \A m, k \in Runs : run[m].status = "NONE" /\ m < k => run[k].status = "NONE"
  /\ \A m \in Runs : run[m].status = "NONE" => run[m] = NoRun
  /\ \A m \in Live : run[m].of # Regular =>
       run[m].of \in Rec /\ run[m].of < m /\ run[run[m].of].of = Regular
  /\ \A m, k \in Live : Root(m) = Root(k)
  /\ \A m, k \in Live : m < k => m \in Rec

\* What a row says is what its calculation found, less what the runs that were
\* recognized by then had said; and no employee of theirs was left out.
RowsAreExact ==
  /\ \A n \in Runs, e \in Employees : run[n].status \in {"NONE", "DRAFT"} => result[n][e] = NoRow
  /\ \A n \in Live, e \in Employees : result[n][e] # NoRow =>
       result[n][e].net = result[n][e].target - NetOver(Earlier(n), e)
  /\ \A n \in Live : run[n].status # "DRAFT" => \A m \in Earlier(n) : Rows(m) \subseteq Rows(n)

\* What a payment gives the employee.
Worth(p) == IF p.status = "CANCELLED" THEN 0 ELSE IF p.direction = "OUTBOUND" THEN p.amount ELSE -p.amount
Worths(e) == [m \in Runs |-> Worth(pay[m][e])]

\* Only recognized runs have payments, and together they are worth what those
\* runs say.
PaymentsBalance ==
  /\ \A n \in Runs \ Rec, e \in Employees : pay[n][e] = Unpaid
  /\ \A e \in Employees : SumFunction(Worths(e)) = NetOver(Rec, e)

\* Claims are on recognized runs, and are covered by what these withheld.
LiveClaims == {c \in Claims : claim[c].status \in {"OPEN", "POSTED"}}
ClaimsCovered ==
  /\ \A c \in LiveClaims : claim[c].run \in Rec
  /\ SumFunctionOnSet(Claimed, LiveClaims) <= OwedOver(Rec)
  /\ \A n \in Runs : run[n].of = Regular => run[n].owed >= 0

PayrollIInv ==
  /\ PayrollTypeOK /\ RunsAreChained /\ RowsAreExact /\ PaymentsBalance
  /\ PaidMeansSettled /\ ClaimsCovered

LEMMA RunsAreNumbers == IsFiniteSet(Runs) /\ Runs \subseteq Nat /\ Regular \notin Runs
BY FS_Interval, PayrollAssumption DEF Runs, Regular

LEMMA NetType ==
  ASSUME PayrollTypeOK, NEW m \in Runs, NEW e \in Employees
  PROVE  /\ Net(m, e) \in Int
         /\ result[m][e] # NoRow => result[m][e].net \in Int /\ result[m][e].target \in Nat
         /\ result[m][e] # NoRow => Net(m, e) = result[m][e].net
         /\ result[m][e] = NoRow => Net(m, e) = 0
<1>1. result[m][e] \in [net : Int, target : Nat] \cup {NoRow}
  BY DEF PayrollTypeOK
<1> QED BY <1>1 DEF Net

LEMMA NetOverType ==
  ASSUME PayrollTypeOK, NEW R \in SUBSET Runs, NEW e \in Employees
  PROVE  IsFiniteSet(R) /\ NetOver(R, e) \in Int /\ (R = {} => NetOver(R, e) = 0)
<1>1. IsFiniteSet(R)
  BY RunsAreNumbers, FS_Subset
<1>2. \A m \in R : Nets(e)[m] \in Int
  BY NetType DEF Nets
<1> QED BY <1>1, <1>2, SumType, SumEmpty DEF NetOver

LEMMA OwedOverType ==
  ASSUME PayrollTypeOK, NEW R \in SUBSET Runs
  PROVE  OwedOver(R) \in Int /\ (R = {} => OwedOver(R) = 0)
<1>1. IsFiniteSet(R)
  BY RunsAreNumbers, FS_Subset
<1>2. \A m \in R : Owed[m] \in Int
  BY DEF Owed, PayrollTypeOK
<1> QED BY <1>1, <1>2, SumType, SumEmpty DEF OwedOver

LEMMA WorthType ==
  ASSUME PayrollTypeOK, NEW m \in Runs, NEW e \in Employees
  PROVE  pay[m][e].amount \in Nat /\ Worth(pay[m][e]) \in Int /\ Worth(Unpaid) = 0
<1>1. pay[m][e] \in [status : {"NONE", "PENDING", "PAID", "CANCELLED"},
                     direction : {"OUTBOUND", "RECOVERY"}, amount : Nat]
  BY DEF PayrollTypeOK
<1> QED BY <1>1 DEF Worth, Unpaid

\* The runs that are not cancelled are one chain.
LEMMA Chained ==
  ASSUME PayrollTypeOK, RunsAreChained, NEW n \in Live
  PROVE  /\ Rec \in SUBSET Runs /\ Rec \subseteq Live /\ n \in Runs /\ Earlier(n) \in SUBSET Runs
         /\ Root(n) \in Live /\ run[Root(n)].of = Regular
         /\ Chain(Root(n)) = Rec /\ Before(n) = Earlier(n)
         /\ n \notin Rec => Earlier(n) = Rec
         /\ run[n].of = Regular => Earlier(n) = {}
         /\ run[n].of = Regular /\ n \notin Rec => Rec = {}
<1>1. Rec \in SUBSET Runs /\ Rec \subseteq Live /\ n \in Runs /\ Earlier(n) \in SUBSET Runs /\ Live \subseteq Nat
  BY RunsAreNumbers DEF Rec, Live, Earlier
<1>2. Root(n) \in Live /\ run[Root(n)].of = Regular
  BY <1>1 DEF RunsAreChained, Root
<1>3. \A m \in Live : Root(m) = Root(n)
  BY DEF RunsAreChained
<1>4. Chain(Root(n)) = Rec
  BY <1>1, <1>3 DEF Chain, Rec
<1>5. Before(n) = Earlier(n)
  BY <1>4 DEF Before, Earlier
<1>6. ASSUME n \notin Rec PROVE Earlier(n) = Rec
  <2>1. ASSUME NEW m \in Rec PROVE m < n
    <3>1. m \in Live /\ m # n /\ ~(n < m)
      BY <1>1, <1>6, <2>1 DEF RunsAreChained
    <3> QED BY <1>1, <3>1
  <2> QED BY <2>1 DEF Earlier
<1>7. ASSUME run[n].of = Regular PROVE Earlier(n) = {}
  <2> SUFFICES ASSUME NEW m \in Earlier(n) PROVE FALSE
    OBVIOUS
  <2>1. m \in Live /\ m < n /\ m \in Nat /\ n \in Nat
    BY <1>1 DEF Earlier
  <2>2. Root(m) = n
    BY <1>3, <1>7, <2>1 DEF Root
  <2>3. run[m].of = n
    BY <2>1, <2>2 DEF Root
  <2>4. run[m].of < m
    BY <2>1, <2>3, <1>1, RunsAreNumbers DEF RunsAreChained
  <2> QED BY <2>1, <2>3, <2>4
<1> QED BY <1>1, <1>2, <1>4, <1>5, <1>6, <1>7

LEMMA PayrollStart == PayrollInit => PayrollIInv
<1> SUFFICES ASSUME PayrollInit PROVE PayrollIInv
  OBVIOUS
<1>1. PayrollTypeOK
  BY RunsAreNumbers DEF PayrollInit, PayrollTypeOK, NoRun, Unpaid
<1>2. Live = {} /\ Rec = {} /\ LiveClaims = {}
  BY DEF PayrollInit, Live, Rec, LiveClaims, NoRun, Unfinished, Recognized
<1>3. RunsAreChained
  BY <1>2 DEF PayrollInit, RunsAreChained, NoRun
<1>4. RowsAreExact
  BY <1>2 DEF PayrollInit, RowsAreExact
<1>5. PaymentsBalance
  <2>1. ASSUME NEW e \in Employees PROVE SumFunction(Worths(e)) = NetOver(Rec, e)
    <3>1. \A m \in Runs : Worths(e)[m] = 0
      BY DEF PayrollInit, Worths, Worth, Unpaid
    <3>2. SumFunctionOnSet(Worths(e), Runs) = 0
      BY <3>1, RunsAreNumbers, SumOfZeros
    <3>3. SumFunction(Worths(e)) = 0
      BY <3>2 DEF SumFunction, Worths
    <3>4. NetOver(Rec, e) = 0
      BY <1>1, <1>2, NetOverType
    <3> QED BY <3>3, <3>4
  <2> QED BY <2>1 DEF PaymentsBalance, PayrollInit
<1>6. PaidMeansSettled
  BY DEF PaidMeansSettled, PayrollInit, NoRun, Recognized
<1>7. ClaimsCovered
  <2>1. SumFunctionOnSet(Claimed, LiveClaims) = 0 /\ OwedOver(Rec) = 0
    BY <1>1, <1>2, SumEmpty, OwedOverType
  <2> QED BY <1>2, <2>1 DEF ClaimsCovered, PayrollInit, NoRun
<1> QED BY <1>1, <1>3, <1>4, <1>5, <1>6, <1>7 DEF PayrollIInv

-----------------------------------------------------------------------------
\* Every column of payroll stays in its range.
RunRows == [status : {"NONE", "DRAFT", "REVIEW", "APPROVED", "CANCELLED"} \cup Recognized,
            of : Runs \cup {Regular}, count : Nat, owed : Int]
ResultRows == [net : Int, target : Nat] \cup {NoRow}
PayRows == [status : {"NONE", "PENDING", "PAID", "CANCELLED"},
            direction : {"OUTBOUND", "RECOVERY"}, amount : Nat]
ClaimRows == [status : {"NONE", "OPEN", "POSTED", "CANCELLED"}, run : Runs \cup {Regular}, gross : Nat]

LEMMA PayrollShape ==
  PayrollTypeOK <=> /\ active \subseteq Employees
                    /\ run \in [Runs -> RunRows] /\ result \in [Runs -> [Employees -> ResultRows]]
                    /\ pay \in [Runs -> [Employees -> PayRows]] /\ claim \in [Claims -> ClaimRows]
BY DEF PayrollTypeOK, RunRows, ResultRows, PayRows, ClaimRows

LEMMA TakenType ==
  ASSUME PayrollTypeOK, NEW n \in Runs, NEW m \in Runs, NEW e \in Employees
  PROVE  /\ OpenAmount(m, e) \in Nat
         /\ OpenAmount(m, e) # 0 => OpenAmount(m, e) = pay[m][e].amount
         /\ OpenOver({k \in Before(n) : k > m}, e) \in Nat /\ OpenOver(Before(n), e) \in Nat
         /\ Taken(n, m, e) \in Nat /\ Taken(n, m, e) <= OpenAmount(m, e)
         /\ Taken(n, m, e) = LET rest == AtLeastZero(AtLeastZero(-Net(n, e)) - OpenOver({k \in Before(n) : k > m}, e))
                             IN  IF OpenAmount(m, e) <= rest THEN OpenAmount(m, e) ELSE rest
         /\ Recovery(n, e) \in Nat
<1>1. \A k \in Runs : OpenAmount(k, e) \in Nat
  BY WorthType DEF OpenAmount
<1>2. OpenAmount(m, e) # 0 => OpenAmount(m, e) = pay[m][e].amount
  BY DEF OpenAmount
<1>3. ASSUME NEW R \in SUBSET Runs PROVE OpenOver(R, e) \in Nat
  <2>1. IsFiniteSet(R) /\ \A k \in R : OpenAmounts(e)[k] \in Nat
    BY <1>1, RunsAreNumbers, FS_Subset DEF OpenAmounts
  <2> QED BY <2>1, SumNat DEF OpenOver
<1>4. OpenOver({k \in Before(n) : k > m}, e) \in Nat /\ OpenOver(Before(n), e) \in Nat
  <2>1. {k \in Before(n) : k > m} \in SUBSET Runs /\ Before(n) \in SUBSET Runs
    BY DEF Before, Chain
  <2> QED BY <1>3, <2>1
<1>5. Net(n, e) \in Int
  BY NetType
<1> DEFINE o == OpenAmount(m, e)
           d == Net(n, e)
           s == OpenOver({k \in Before(n) : k > m}, e)
           b == OpenOver(Before(n), e)
           rest == AtLeastZero(AtLeastZero(-d) - s)
<1>6. o \in Nat /\ s \in Nat /\ d \in Int /\ b \in Nat
  BY <1>1, <1>4, <1>5
<1> HIDE DEF o, s, d, b
<1>7. rest \in Nat /\ AtLeastZero(-d - b) \in Nat
  BY <1>6 DEF AtLeastZero
<1>8. o \in Int /\ rest \in Int
  BY <1>6, <1>7
<1> HIDE DEF rest
<1>9. Min({o, rest}) = IF o <= rest THEN o ELSE rest
  BY <1>8, MinOfTwo
<1>10. Taken(n, m, e) = Min({o, rest}) /\ Recovery(n, e) = AtLeastZero(-d - b)
  BY DEF Taken, Recovery, o, s, d, b, rest
<1>11. Taken(n, m, e) \in Nat /\ Taken(n, m, e) <= o
  BY <1>6, <1>7, <1>9, <1>10
<1> USE DEF o, s, d, b, rest
<1> QED BY <1>2, <1>4, <1>6, <1>7, <1>9, <1>10, <1>11

RunStatuses == {"NONE", "DRAFT", "REVIEW", "APPROVED", "CANCELLED"} \cup Recognized

LEMMA RunWritten ==
  ASSUME run \in [Runs -> RunRows], NEW n \in Runs, NEW status \in RunStatuses
  PROVE  /\ [run EXCEPT ![n].status = status] \in [Runs -> RunRows]
         /\ [run[n] EXCEPT !.status = status] \in RunRows
<1>1. run[n] \in RunRows
  OBVIOUS
<1>2. [run[n] EXCEPT !.status = status] \in RunRows
  BY <1>1 DEF RunRows, RunStatuses
<1> QED BY <1>2

LEMMA TargetType == \A target \in Targets, e \in Employees : target[e] \in Nat
<1> SUFFICES ASSUME NEW target \in Targets, NEW e \in Employees PROVE target[e] \in Nat
  OBVIOUS
<1> DEFINE S == {MaxPay[x] : x \in Employees}
<1>1. IsFiniteSet(S) /\ S # {} /\ S \subseteq Nat /\ S \subseteq Int
  <2>1. MaxPay \in [Employees -> Nat] /\ IsFiniteSet(Employees)
    BY PayrollAssumption
  <2>2. IsFiniteSet(S)
    <3>1. MaxPay \in Surjection(Employees, S)
      BY <2>1 DEF Surjection
    <3> QED BY <2>1, <3>1, FS_Surjection
  <2>3. MaxPay[e] \in S /\ S \subseteq Nat
    BY <2>1
  <2> QED BY <2>2, <2>3
<1>2. target[e] \in 0..Max(S)
  BY DEF Targets
<1> HIDE DEF S
<1>3. Max(S) \in Nat
  <2>1. \E m \in S : \A x \in S : m >= x
    BY <1>1, GreatestExists
  <2> QED BY <1>1, <2>1 DEF Max
<1> QED BY <1>2, <1>3

LEMMA PayrollTyped == PayrollTypeOK /\ [PayrollNext]_payrollVars => PayrollTypeOK'
<1> SUFFICES ASSUME PayrollTypeOK, [PayrollNext]_payrollVars PROVE PayrollTypeOK'
  OBVIOUS
<1>1. /\ active \subseteq Employees
      /\ run \in [Runs -> RunRows] /\ result \in [Runs -> [Employees -> ResultRows]]
      /\ pay \in [Runs -> [Employees -> PayRows]] /\ claim \in [Claims -> ClaimRows]
  BY PayrollShape
<1> SUFFICES /\ active' \subseteq Employees
             /\ run' \in [Runs -> RunRows] /\ result' \in [Runs -> [Employees -> ResultRows]]
             /\ pay' \in [Runs -> [Employees -> PayRows]] /\ claim' \in [Claims -> ClaimRows]
  BY DEF PayrollTypeOK, RunRows, ResultRows, PayRows, ClaimRows
<1>2. ASSUME NEW e \in Employees, NEW employed \in BOOLEAN, SetActive(e, employed)
      PROVE  active' \subseteq Employees /\ UNCHANGED <<run, result, pay, claim>>
  BY <1>1, <1>2 DEF SetActive
\* Rows of runs and payments that are written.
<1>4. Unpaid \in PayRows /\ \A n \in Runs, e \in Employees : Outbound(n, e) \in PayRows
  <2>1. Unpaid \in PayRows
    BY DEF Unpaid, PayRows
  <2>2. ASSUME NEW n \in Runs, NEW e \in Employees PROVE Outbound(n, e) \in PayRows
    BY <2>1, NetType DEF Outbound, PayRows
  <2> QED BY <2>1, <2>2
<1>5. ASSUME NEW n \in Runs, CreateRun(n) \/ \E s \in Runs : CreateAdjustmentRun(n, s)
      PROVE  run' \in [Runs -> RunRows] /\ UNCHANGED <<active, result, pay, claim>>
  <2>1. CASE CreateRun(n)
    <3>1. [NoRun EXCEPT !.status = "DRAFT"] \in RunRows
      BY DEF NoRun, RunRows
    <3> QED BY <1>1, <2>1, <3>1 DEF CreateRun
  <2>2. ASSUME NEW s \in Runs, CreateAdjustmentRun(n, s)
        PROVE  run' \in [Runs -> RunRows] /\ UNCHANGED <<active, result, pay, claim>>
    <3> DEFINE draft == [NoRun EXCEPT !.status = "DRAFT"]
    <3>1. draft \in RunRows
      BY DEF NoRun, RunRows
    <3> HIDE DEF draft
    <3>2. [draft EXCEPT !.of = s] \in RunRows
      BY <3>1 DEF RunRows
    <3> USE DEF draft
    <3> QED BY <1>1, <2>2, <3>1, <3>2 DEF CreateAdjustmentRun
  <2> QED BY <1>5, <2>1, <2>2
<1>6. ASSUME NEW n \in Runs, CancelRun(n) \/ ApproveRun(n)
      PROVE  run' \in [Runs -> RunRows] /\ UNCHANGED <<active, result, pay, claim>>
  <2>1. "CANCELLED" \in RunStatuses /\ "APPROVED" \in RunStatuses
    BY DEF RunStatuses
  <2>2. /\ [run EXCEPT ![n].status = "CANCELLED"] \in [Runs -> RunRows]
        /\ [run EXCEPT ![n].status = "APPROVED"] \in [Runs -> RunRows]
    BY <1>1, <2>1, RunWritten
  <2> QED BY <1>6, <2>2 DEF CancelRun, ApproveRun
<1>7. ASSUME NEW n \in Runs, NEW target \in Targets, NEW owed \in 0..MaxOwed, CalculateRun(n, target, owed)
      PROVE  /\ run' \in [Runs -> RunRows] /\ result' \in [Runs -> [Employees -> ResultRows]]
             /\ UNCHANGED <<active, pay, claim>>
  <2> DEFINE recognized == IF run[n].of # Regular THEN Before(n) ELSE {}
             covered == active \cup UNION {Rows(m) : m \in recognized}
             row == [e \in Employees |->
               IF e \in covered THEN [net |-> target[e] - NetOver(recognized, e), target |-> target[e]] ELSE result[n][e]]
             count == Cardinality(covered)
             rest == owed - OwedOver(recognized)
  <2>1. recognized \in SUBSET Runs
    BY DEF Before, Chain
  <2>2. covered \in SUBSET Employees
    BY <1>1 DEF Rows
  <2>3. count \in Nat
    BY <2>2, PayrollAssumption, FS_Subset, FS_CardinalityType
  <2>4. rest \in Int
    BY <2>1, OwedOverType, PayrollAssumption
  <2>5. \A e \in Employees : target[e] \in Nat
    BY TargetType
  <2>6. row \in [Employees -> ResultRows]
    <3>1. \A e \in Employees : NetOver(recognized, e) \in Int
      BY <2>1, NetOverType
    <3> HIDE DEF recognized, covered
    <3>2. ASSUME NEW e \in Employees PROVE row[e] \in ResultRows
      BY <1>1, <2>5, <3>1 DEF ResultRows
    <3> QED BY <3>2
  <2>7. /\ result' = [result EXCEPT ![n] = row]
        /\ run' = [run EXCEPT ![n].status = "REVIEW", ![n].count = count, ![n].owed = rest]
        /\ UNCHANGED <<active, pay, claim>>
    BY <1>7 DEF CalculateRun
  <2> HIDE DEF row, count, rest
  <2>8. [[[run[n] EXCEPT !.status = "REVIEW"] EXCEPT !.count = count] EXCEPT !.owed = rest] \in RunRows
    <3>1. run[n] \in RunRows
      BY <1>1
    <3> QED BY <2>3, <2>4, <3>1 DEF RunRows
  <2>9. run' \in [Runs -> RunRows]
    BY <1>1, <2>7, <2>8
  <2> QED BY <1>1, <2>6, <2>7, <2>9
<1>8. \A n \in Runs : Posted(pay', n) \in RunStatuses
  BY DEF Posted, Recognized, RunStatuses
<1>9. ASSUME NEW n \in Runs, PostRegular(n)
      PROVE  /\ run' \in [Runs -> RunRows] /\ pay' \in [Runs -> [Employees -> PayRows]]
             /\ UNCHANGED <<active, result, claim>>
  <2>1. run' = [run EXCEPT ![n].status = Posted(pay', n)] /\ UNCHANGED <<active, result, claim>>
    BY <1>9 DEF PostRegular
  <2>2. run' \in [Runs -> RunRows]
    BY <1>1, <1>8, <2>1, RunWritten
  <2> DEFINE row == [e \in Employees |-> Outbound(n, e)]
  <2>3. row \in [Employees -> PayRows]
    BY <1>4
  <2>4. pay' = [pay EXCEPT ![n] = row]
    BY <1>9 DEF PostRegular
  <2> HIDE DEF row
  <2> QED BY <1>1, <2>1, <2>2, <2>3, <2>4
<1>10. ASSUME NEW n \in Runs, PostAdjustment(n)
       PROVE  /\ run' \in [Runs -> RunRows] /\ pay' \in [Runs -> [Employees -> PayRows]]
              /\ UNCHANGED <<active, result, claim>>
  <2>1. UNCHANGED <<active, result, claim>>
    BY <1>10 DEF PostAdjustment
  <2>2. run' \in [Runs -> RunRows]
    <3>1. \A m \in Runs : [run[m] EXCEPT !.status = Posted(pay', m)] \in RunRows
      BY <1>1, <1>8, RunWritten
    <3>2. run' = [m \in Runs |-> IF m = n \/ (m \in Before(n) /\ run[m].status = "POSTED")
                                  THEN [run[m] EXCEPT !.status = Posted(pay', m)] ELSE run[m]]
      BY <1>10 DEF PostAdjustment
    <3> QED BY <1>1, <3>1, <3>2
  <2>3. ASSUME NEW m \in Runs, NEW e \in Employees
        PROVE  /\ [pay[m][e] EXCEPT !.status = "CANCELLED"] \in PayRows
               /\ Taken(n, m, e) # 0 => [pay[m][e] EXCEPT !.amount = @ - Taken(n, m, e)] \in PayRows
               /\ [status |-> "PENDING", direction |-> "RECOVERY", amount |-> Recovery(n, e)] \in PayRows
    <3>1. pay[m][e] \in PayRows
      BY <1>1
    <3> DEFINE t == Taken(n, m, e)
               o == OpenAmount(m, e)
               r == Recovery(n, e)
               a == pay[m][e].amount
    <3>2. t \in Nat /\ t <= o /\ o \in Nat /\ (o # 0 => o = a) /\ r \in Nat /\ a \in Nat
      BY TakenType, WorthType
    <3> HIDE DEF t, o, r
    <3>3. t # 0 => a - t \in Nat
      BY <3>2
    <3>4. [status |-> "PENDING", direction |-> "RECOVERY", amount |-> r] \in PayRows
      BY <3>2 DEF PayRows
    <3>5. t # 0 => [pay[m][e] EXCEPT !.amount = @ - t] \in PayRows
      BY <3>1, <3>3 DEF PayRows
    <3>6. [pay[m][e] EXCEPT !.status = "CANCELLED"] \in PayRows
      BY <3>1 DEF PayRows
    <3> QED BY <3>4, <3>5, <3>6 DEF t, r
  <2>4. \A m \in Runs, e \in Employees : pay'[m][e] \in PayRows
    <3> SUFFICES ASSUME NEW m \in Runs, NEW e \in Employees PROVE pay'[m][e] \in PayRows
      OBVIOUS
    <3>1. pay'[m][e] =
       IF m = n THEN IF Recovery(n, e) > 0
                       THEN [status |-> "PENDING", direction |-> "RECOVERY", amount |-> Recovery(n, e)]
                       ELSE Outbound(n, e)
       ELSE IF m \notin Before(n) \/ Taken(n, m, e) = 0 THEN pay[m][e]
       ELSE IF Taken(n, m, e) = pay[m][e].amount THEN [pay[m][e] EXCEPT !.status = "CANCELLED"]
       ELSE [pay[m][e] EXCEPT !.amount = @ - Taken(n, m, e)]
      BY <1>10 DEF PostAdjustment
    <3>2. /\ [pay[m][e] EXCEPT !.status = "CANCELLED"] \in PayRows
          /\ Taken(n, m, e) # 0 => [pay[m][e] EXCEPT !.amount = @ - Taken(n, m, e)] \in PayRows
          /\ [status |-> "PENDING", direction |-> "RECOVERY", amount |-> Recovery(n, e)] \in PayRows
      BY <2>3
    <3>3. pay[m][e] \in PayRows /\ Outbound(n, e) \in PayRows
      BY <1>1, <1>4
    <3> QED BY <3>1, <3>2, <3>3
  <2>5. DOMAIN pay' = Runs /\ (\A m \in Runs : DOMAIN pay'[m] = Employees)
        /\ pay' = [m \in Runs |-> [e \in Employees |-> pay'[m][e]]]
    BY <1>10 DEF PostAdjustment
  <2> QED BY <2>1, <2>2, <2>4, <2>5
<1>11. ASSUME NEW n \in Runs, NEW e \in Employees, SettlePayment(n, e)
       PROVE  /\ run' \in [Runs -> RunRows] /\ pay' \in [Runs -> [Employees -> PayRows]]
              /\ UNCHANGED <<active, result, claim>>
  <2>1. [pay[n][e] EXCEPT !.status = "PAID"] \in PayRows
    <3>1. pay[n][e] \in PayRows
      BY <1>1
    <3> QED BY <3>1 DEF PayRows
  <2>2. pay' = [pay EXCEPT ![n] = [pay[n] EXCEPT ![e] = [pay[n][e] EXCEPT !.status = "PAID"]]]
    BY <1>11 DEF SettlePayment
  <2>3. pay' \in [Runs -> [Employees -> PayRows]]
    BY <1>1, <2>1, <2>2
  <2> DEFINE s == IF Open(pay', n) THEN run[n].status ELSE "PAID"
  <2>4. s \in RunStatuses
    <3>1. run[n] \in RunRows
      BY <1>1
    <3> QED BY <3>1 DEF RunRows, Recognized, RunStatuses
  <2>5. run' = [run EXCEPT ![n].status = s] /\ UNCHANGED <<active, result, claim>>
    BY <1>11 DEF SettlePayment
  <2> HIDE DEF s
  <2>6. run' \in [Runs -> RunRows]
    BY <1>1, <2>4, <2>5, RunWritten
  <2> QED BY <2>3, <2>5, <2>6
<1>12. ASSUME NEW c \in Claims, \/ \E n \in Runs, gross \in 1..MaxOwed : DraftClaim(c, n, gross)
                                \/ PostClaim(c) \/ CancelClaim(c)
       PROVE  claim' \in [Claims -> ClaimRows] /\ UNCHANGED <<active, run, result, pay>>
  <2>1. ASSUME NEW n \in Runs, NEW gross \in 1..MaxOwed, DraftClaim(c, n, gross)
        PROVE  claim' \in [Claims -> ClaimRows] /\ UNCHANGED <<active, run, result, pay>>
    <3>1. gross \in Nat
      BY PayrollAssumption
    <3>2. [status |-> "OPEN", run |-> n, gross |-> gross] \in ClaimRows
      BY <3>1 DEF ClaimRows
    <3> QED BY <1>1, <2>1, <3>2 DEF DraftClaim
  <2>2. CASE PostClaim(c) \/ CancelClaim(c)
    <3>1. [claim[c] EXCEPT !.status = "POSTED"] \in ClaimRows /\ [claim[c] EXCEPT !.status = "CANCELLED"] \in ClaimRows
      BY <1>1 DEF ClaimRows
    <3>2. \/ claim' = [claim EXCEPT ![c] = [claim[c] EXCEPT !.status = "POSTED"]]
          \/ claim' = [claim EXCEPT ![c] = [claim[c] EXCEPT !.status = "CANCELLED"]]
      BY <2>2 DEF PostClaim, CancelClaim
    <3> QED BY <1>1, <2>2, <3>1, <3>2 DEF PostClaim, CancelClaim
  <2> QED BY <1>12, <2>1, <2>2
<1>13. CASE UNCHANGED payrollVars
  BY <1>1, <1>13 DEF payrollVars
<1> QED BY <1>1, <1>2, <1>5, <1>6, <1>7, <1>9, <1>10, <1>11, <1>12, <1>13 DEF PayrollNext

-----------------------------------------------------------------------------
\* Runs as they are created, calculated, approved and cancelled.

LEMMA ChainFrame ==
  ASSUME RunsAreChained, \A m \in Runs : run'[m].of = run[m].of,
         \A m \in Runs : run'[m].status = "NONE" \/ run[m].status = "NONE" => run'[m] = run[m],
         Live' \subseteq Live, Rec \subseteq Rec'
  PROVE  RunsAreChained'
<1>1. \A m \in Runs : Root(m)' = Root(m)
  BY DEF Root
<1>2. Live \subseteq Runs /\ Live' \subseteq Runs /\ Rec \subseteq Runs
  BY DEF Live, Rec
<1>3. \A m \in Live' : run'[m].of # Regular =>
        run'[m].of \in Rec' /\ run'[m].of < m /\ run'[run'[m].of].of = Regular
  BY <1>2 DEF RunsAreChained
<1>4. \A m, k \in Live' : Root(m)' = Root(k)'
  BY <1>1, <1>2 DEF RunsAreChained
<1>5. \A m, k \in Live' : m < k => m \in Rec'
  BY <1>2 DEF RunsAreChained
<1>6. \A m, k \in Runs : run'[m].status = "NONE" /\ m < k => run'[k].status = "NONE"
  BY DEF RunsAreChained
<1>7. \A m \in Runs : run'[m].status = "NONE" => run'[m] = NoRun
  BY DEF RunsAreChained
<1> QED BY <1>3, <1>4, <1>5, <1>6, <1>7 DEF RunsAreChained

LEMMA RowsFrame ==
  ASSUME RowsAreExact, result' = result,
         \A m \in Runs : run'[m].status \in {"NONE", "DRAFT"} => run[m].status \in {"NONE", "DRAFT"},
         \A m \in Live' : Earlier(m)' = Earlier(m),
         \A m \in Live' : run'[m].status = "DRAFT" \/ (m \in Live /\ run[m].status # "DRAFT")
  PROVE  RowsAreExact'
<1>1. \A n \in Runs, e \in Employees : run'[n].status \in {"NONE", "DRAFT"} => result'[n][e] = NoRow
  BY DEF RowsAreExact
<1>2. Live' \subseteq Runs
  BY DEF Live
<1>3. \A n \in Live', e \in Employees : result'[n][e] # NoRow =>
        result'[n][e].net = result'[n][e].target - NetOver(Earlier(n), e)'
  <2> SUFFICES ASSUME NEW n \in Live', NEW e \in Employees, result'[n][e] # NoRow
               PROVE  result'[n][e].net = result'[n][e].target - NetOver(Earlier(n), e)'
    OBVIOUS
  <2>1. n \in Live
    BY <1>1, <1>2
  <2>2. NetOver(Earlier(n), e)' = NetOver(Earlier(n), e)
    BY DEF NetOver, Nets, Net
  <2> QED BY <2>1, <2>2 DEF RowsAreExact
<1>4. \A n \in Live' : run'[n].status # "DRAFT" => \A m \in Earlier(n)' : Rows(m)' \subseteq Rows(n)'
  BY DEF RowsAreExact, Rows
<1> QED BY <1>1, <1>3, <1>4 DEF RowsAreExact

\* A step that leaves recognized runs, payments and claims as they are.
LEMMA QuietStep ==
  ASSUME PaymentsBalance, PaidMeansSettled, ClaimsCovered, PayrollTypeOK, PayrollTypeOK',
         Rec' = Rec, \A m \in Rec : run'[m] = run[m] /\ result'[m] = result[m], pay' = pay, claim' = claim,
         \A m \in Runs : run'[m].of = Regular => run'[m].owed >= 0
  PROVE  PaymentsBalance' /\ PaidMeansSettled' /\ ClaimsCovered'
<1>1. Rec \in SUBSET Runs /\ IsFiniteSet(Rec)
  BY RunsAreNumbers, FS_Subset DEF Rec
<1>2. \A e \in Employees : NetOver(Rec, e)' = NetOver(Rec, e)
  <2> SUFFICES ASSUME NEW e \in Employees PROVE SumFunctionOnSet(Nets(e)', Rec) = SumFunctionOnSet(Nets(e), Rec)
    BY DEF NetOver
  <2>1. \A m \in Rec : Nets(e)'[m] = Nets(e)[m]
    BY <1>1 DEF Nets, Net
  <2> QED BY <1>1, <2>1, SumAgree
<1>3. OwedOver(Rec)' = OwedOver(Rec)
  <2>1. \A m \in Rec : Owed'[m] = Owed[m]
    BY <1>1 DEF Owed
  <2>2. SumFunctionOnSet(Owed', Rec) = SumFunctionOnSet(Owed, Rec)
    BY <1>1, <2>1, SumAgree
  <2> QED BY <2>2 DEF OwedOver
<1>4. PaymentsBalance'
  BY <1>2 DEF PaymentsBalance, Worths
<1>5. PaidMeansSettled'
  <2>1. \A m \in Runs : run'[m].status \in Recognized => m \in Rec /\ run'[m] = run[m]
    BY DEF Rec
  <2> QED BY <2>1 DEF PaidMeansSettled, Open
<1>6. ClaimsCovered'
  BY <1>3 DEF ClaimsCovered, LiveClaims, Claimed
<1> QED BY <1>4, <1>5, <1>6

LEMMA CreatedStep ==
  ASSUME PayrollIInv, PayrollTypeOK', NEW n \in Runs, CreateRun(n) \/ \E s \in Runs : CreateAdjustmentRun(n, s)
  PROVE  PayrollIInv'
<1>1. /\ PayrollTypeOK /\ RunsAreChained /\ RowsAreExact /\ PaymentsBalance
      /\ PaidMeansSettled /\ ClaimsCovered
  BY DEF PayrollIInv
<1>2. PICK s \in Runs \cup {Regular} :
        \/ s = Regular /\ CreateRun(n)
        \/ s \in Runs /\ CreateAdjustmentRun(n, s)
  OBVIOUS
<1>3. /\ NextRun(n) /\ n \in Nat
      /\ run'[n].status = "DRAFT" /\ run'[n].of = s /\ run'[n].owed = 0
      /\ \A m \in Runs \ {n} : run'[m] = run[m]
      /\ result' = result /\ pay' = pay /\ claim' = claim
  <2>1. DOMAIN run = Runs
    BY <1>1 DEF PayrollTypeOK
  <2>2. CASE s = Regular /\ CreateRun(n)
    BY <2>1, <2>2, RunsAreNumbers DEF CreateRun, NoRun
  <2>3. CASE s \in Runs /\ CreateAdjustmentRun(n, s)
    BY <2>1, <2>3, RunsAreNumbers DEF CreateAdjustmentRun, NoRun
  <2> QED BY <1>2, <2>2, <2>3
\* The run is new, and nothing comes after it.
<1>4. /\ run[n].status = "NONE"
      /\ \A m \in Runs : m < n => run[m].status # "NONE"
      /\ \A m \in Runs : n < m => run[m].status = "NONE" /\ run[m] = NoRun
  BY <1>1, <1>3 DEF NextRun, RunsAreChained
<1>5. Rec' = Rec /\ Live' = Live \cup {n} /\ n \notin Live /\ Rec \subseteq Live /\ Live \subseteq Runs
  BY <1>3, <1>4 DEF Rec, Live, Unfinished, Recognized
\* What is there is recognized, and of the run that is adjusted.
<1>6. \A m \in Live : m \in Rec /\ m < n /\ s \in Runs /\ Root(m) = s
  <2> SUFFICES ASSUME NEW m \in Live PROVE m \in Rec /\ m < n /\ s \in Runs /\ Root(m) = s
    OBVIOUS
  <2>1. m \in Runs /\ run[m].status # "NONE" /\ run[m].status # "CANCELLED" /\ m \in Nat
    BY <1>5, RunsAreNumbers DEF Live, Unfinished, Recognized
  <2>2. m < n
    BY <1>3, <1>4, <1>5, <2>1
  <2>3. CASE s = Regular /\ CreateRun(n)
    <3>1. \A k \in Runs : run[k].of = Regular => k \notin Live
      BY <2>3 DEF CreateRun, Live, Unfinished, Recognized
    <3>2. run[m].of # Regular
      BY <2>1, <3>1
    <3>3. run[m].of \in Rec /\ run[run[m].of].of = Regular
      BY <1>1, <3>2 DEF RunsAreChained
    <3> QED BY <1>5, <3>1, <3>3
  <2>4. CASE s \in Runs /\ CreateAdjustmentRun(n, s)
    <3>1. /\ run[s].of = Regular /\ s \in Rec
          /\ \A k \in Runs : run[k].of = s => run[k].status \notin {"DRAFT", "REVIEW", "APPROVED", "POSTED"}
      BY <2>4 DEF CreateAdjustmentRun, Adjustable, Rec
    <3>2. Root(m) = s
      BY <1>1, <1>5, <3>1 DEF RunsAreChained, Root
    <3>3. m \in Rec
      BY <2>1, <3>1, <3>2 DEF Root, Live, Unfinished, Recognized, Rec
    <3> QED BY <2>2, <2>4, <3>2, <3>3
  <2> QED BY <1>2, <2>3, <2>4
<1>7. s # Regular => s \in Live /\ run[s].of = Regular /\ s \in Rec /\ s # n
  <2> SUFFICES ASSUME s # Regular PROVE s \in Live /\ run[s].of = Regular /\ s \in Rec /\ s # n
    OBVIOUS
  <2>1. s \in Rec /\ run[s].of = Regular
    BY <1>2 DEF CreateAdjustmentRun, Adjustable, Rec
  <2> QED BY <1>5, <2>1
<1>8. RunsAreChained'
  <2>1. \A m \in Live : Root(m)' = Root(m)
    BY <1>3, <1>5 DEF Root
  <2>2. Root(n)' = IF s = Regular THEN n ELSE s
    BY <1>3 DEF Root
  <2>3. \A m \in Live' : run'[m].of # Regular =>
          run'[m].of \in Rec' /\ run'[m].of < m /\ run'[run'[m].of].of = Regular
    <3>1. ASSUME NEW m \in Live, run'[m].of # Regular
          PROVE  run'[m].of \in Rec' /\ run'[m].of < m /\ run'[run'[m].of].of = Regular
      <4>1. run'[m] = run[m] /\ m # n
        BY <1>3, <1>5
      <4>2. run[m].of \in Rec /\ run[m].of < m /\ run[run[m].of].of = Regular
        BY <1>1, <3>1, <4>1 DEF RunsAreChained
      <4>3. run[m].of # n /\ run[m].of \in Runs
        BY <1>5, <4>2
      <4> QED BY <1>3, <1>5, <4>1, <4>2, <4>3
    <3>2. ASSUME run'[n].of # Regular
          PROVE  run'[n].of \in Rec' /\ run'[n].of < n /\ run'[run'[n].of].of = Regular
      <4>1. s # Regular
        BY <1>3, <3>2
      <4>2. s \in Runs /\ s < n
        BY <1>5, <1>6, <1>7, <4>1
      <4> QED BY <1>3, <1>5, <1>7, <4>1, <4>2
    <3> QED BY <1>5, <3>1, <3>2
  <2>4. \A m, k \in Live' : Root(m)' = Root(k)'
    <3>1. \A m \in Live : Root(m)' = Root(n)'
      <4> SUFFICES ASSUME NEW m \in Live PROVE Root(m)' = Root(n)'
        OBVIOUS
      <4>1. s \in Runs /\ Root(m) = s
        BY <1>6
      <4>2. s # Regular
        BY <4>1, RunsAreNumbers
      <4> QED BY <2>1, <2>2, <4>1, <4>2
    <3>2. \A m \in Live' : Root(m)' = Root(n)'
      BY <1>5, <3>1
    <3> QED BY <3>2
  <2>5. \A m, k \in Live' : m < k => m \in Rec'
    <3>1. \A m \in Live : m \in Rec'
      BY <1>5, <1>6
    <3>2. \A k \in Live' : ~(n < k)
      <4>1. \A k \in Live : k < n /\ k \in Nat
        BY <1>5, <1>6, RunsAreNumbers
      <4> QED BY <1>3, <1>5, <4>1
    <3> QED BY <1>5, <3>1, <3>2
  <2>6. \A m, k \in Runs : run'[m].status = "NONE" /\ m < k => run'[k].status = "NONE"
    <3> SUFFICES ASSUME NEW m \in Runs, NEW k \in Runs, run'[m].status = "NONE", m < k PROVE run'[k].status = "NONE"
      OBVIOUS
    <3>1. m # n /\ run[m].status = "NONE"
      BY <1>3
    <3>2. k # n
      BY <1>4, <3>1
    <3> QED BY <1>1, <1>3, <3>1, <3>2 DEF RunsAreChained
  <2>7. \A m \in Runs : run'[m].status = "NONE" => run'[m] = NoRun
    BY <1>1, <1>3 DEF RunsAreChained
  <2> QED BY <2>3, <2>4, <2>5, <2>6, <2>7 DEF RunsAreChained
<1>9. RowsAreExact'
  <2>1. \A m \in Runs : run'[m].status \in {"NONE", "DRAFT"} => run[m].status \in {"NONE", "DRAFT"}
    BY <1>3, <1>4
  <2>2. \A m : Earlier(m)' = Earlier(m)
    BY <1>5 DEF Earlier
  <2>3. \A m \in Live' : run'[m].status = "DRAFT" \/ (m \in Live /\ run[m].status # "DRAFT")
    BY <1>3, <1>5
  <2> QED BY <1>1, <1>3, <2>1, <2>2, <2>3, RowsFrame
<1>10. PaymentsBalance' /\ PaidMeansSettled' /\ ClaimsCovered'
  <2>1. \A m \in Rec : run'[m] = run[m] /\ result'[m] = result[m]
    BY <1>3, <1>5
  <2>2. \A m \in Runs : run'[m].of = Regular => run'[m].owed >= 0
    BY <1>1, <1>3 DEF ClaimsCovered
  <2> QED BY <1>1, <1>3, <1>5, <2>1, <2>2, QuietStep
<1> QED BY <1>8, <1>9, <1>10 DEF PayrollIInv

LEMMA DecidedStep ==
  ASSUME PayrollIInv, PayrollTypeOK', NEW n \in Runs, CancelRun(n) \/ ApproveRun(n)
  PROVE  PayrollIInv'
<1>1. /\ PayrollTypeOK /\ RunsAreChained /\ RowsAreExact /\ PaymentsBalance
      /\ PaidMeansSettled /\ ClaimsCovered
  BY DEF PayrollIInv
<1>2. /\ run[n].status \in Unfinished /\ run'[n].of = run[n].of /\ run'[n].owed = run[n].owed
      /\ \/ run'[n].status = "CANCELLED"
         \/ run[n].status = "REVIEW" /\ run'[n].status = "APPROVED"
      /\ \A m \in Runs \ {n} : run'[m] = run[m]
      /\ result' = result /\ pay' = pay /\ claim' = claim
  <2>1. DOMAIN run = Runs /\ run[n] \in RunRows
    BY <1>1, PayrollShape
  <2>2. CASE CancelRun(n)
    <3>1. run' = [run EXCEPT ![n] = [run[n] EXCEPT !.status = "CANCELLED"]]
      BY <2>2 DEF CancelRun
    <3> QED BY <2>1, <2>2, <3>1 DEF CancelRun, RunRows, Unfinished
  <2>3. CASE ApproveRun(n)
    <3>1. run' = [run EXCEPT ![n] = [run[n] EXCEPT !.status = "APPROVED"]]
      BY <2>3 DEF ApproveRun
    <3> QED BY <2>1, <2>3, <3>1 DEF ApproveRun, RunRows, Unfinished
  <2> QED BY <2>2, <2>3
<1>3. Rec' = Rec /\ Live' \subseteq Live /\ Live' \subseteq Runs
  BY <1>2 DEF Rec, Live, Unfinished, Recognized
<1>4. RunsAreChained'
  <2>1. \A m \in Runs : run'[m].of = run[m].of
    BY <1>2
  <2>2. \A m \in Runs : run'[m].status = "NONE" \/ run[m].status = "NONE" => run'[m] = run[m]
    BY <1>2 DEF Unfinished
  <2> QED BY <1>1, <1>3, <2>1, <2>2, ChainFrame
<1>5. RowsAreExact'
  <2>1. \A m \in Runs : run'[m].status \in {"NONE", "DRAFT"} => run[m].status \in {"NONE", "DRAFT"}
    BY <1>2
  <2>2. \A m : Earlier(m)' = Earlier(m)
    BY <1>3 DEF Earlier
  <2>3. \A m \in Live' : run'[m].status = "DRAFT" \/ (m \in Live /\ run[m].status # "DRAFT")
    <3> SUFFICES ASSUME NEW m \in Live', run'[m].status # "DRAFT" PROVE m \in Live /\ run[m].status # "DRAFT"
      OBVIOUS
    <3>1. CASE m = n
      <4>1. run'[n].status # "CANCELLED"
        BY <3>1 DEF Live, Unfinished, Recognized
      <4> QED BY <1>2, <1>3, <3>1, <4>1
    <3>2. CASE m # n
      BY <1>2, <1>3, <3>2
    <3> QED BY <3>1, <3>2
  <2> QED BY <1>1, <1>2, <2>1, <2>2, <2>3, RowsFrame
<1>6. PaymentsBalance' /\ PaidMeansSettled' /\ ClaimsCovered'
  <2>1. n \notin Rec
    BY <1>2 DEF Rec, Unfinished, Recognized
  <2>2. \A m \in Rec : run'[m] = run[m] /\ result'[m] = result[m]
    BY <1>2, <2>1 DEF Rec
  <2>3. \A m \in Runs : run'[m].of = Regular => run'[m].owed >= 0
    BY <1>1, <1>2 DEF ClaimsCovered
  <2> QED BY <1>1, <1>2, <1>3, <2>2, <2>3, QuietStep
<1> QED BY <1>4, <1>5, <1>6 DEF PayrollIInv

LEMMA CalculatedStep ==
  ASSUME PayrollIInv, PayrollTypeOK', NEW n \in Runs, NEW target \in Targets, NEW owed \in 0..MaxOwed,
         CalculateRun(n, target, owed)
  PROVE  PayrollIInv'
<1>1. /\ PayrollTypeOK /\ RunsAreChained /\ RowsAreExact /\ PaymentsBalance
      /\ PaidMeansSettled /\ ClaimsCovered
  BY DEF PayrollIInv
<1> DEFINE recognized == IF run[n].of # Regular THEN Before(n) ELSE {}
           covered == active \cup UNION {Rows(m) : m \in recognized}
<1>2. /\ run[n].status \in {"DRAFT", "REVIEW"}
      /\ run'[n].status = "REVIEW" /\ run'[n].of = run[n].of /\ run'[n].owed = owed - OwedOver(recognized)
      /\ \A m \in Runs \ {n} : run'[m] = run[m] /\ result'[m] = result[m]
      /\ \A e \in Employees : result'[n][e] =
           IF e \in covered THEN [net |-> target[e] - NetOver(recognized, e), target |-> target[e]] ELSE result[n][e]
      /\ pay' = pay /\ claim' = claim
  <2>1. DOMAIN run = Runs /\ run[n] \in RunRows /\ DOMAIN result = Runs
    BY <1>1, PayrollShape
  <2> DEFINE rest == owed - OwedOver(recognized)
             count == Cardinality(covered)
             row == [e \in Employees |->
               IF e \in covered THEN [net |-> target[e] - NetOver(recognized, e), target |-> target[e]] ELSE result[n][e]]
  <2>2. /\ run[n].status \in {"DRAFT", "REVIEW"}
        /\ run' = [run EXCEPT ![n].status = "REVIEW", ![n].count = count, ![n].owed = rest]
        /\ result' = [result EXCEPT ![n] = row] /\ pay' = pay /\ claim' = claim
    BY DEF CalculateRun
  <2> HIDE DEF rest, count, recognized, covered
  <2>3. /\ run'[n].status = "REVIEW" /\ run'[n].of = run[n].of /\ run'[n].owed = rest
        /\ \A m \in Runs \ {n} : run'[m] = run[m]
    BY <2>1, <2>2 DEF RunRows
  <2>4. \A e \in Employees : result'[n][e] = row[e]
    BY <2>1, <2>2
  <2>5. \A m \in Runs \ {n} : result'[m] = result[m]
    BY <2>1, <2>2
  <2> QED BY <2>2, <2>3, <2>4, <2>5 DEF rest
<1>3. n \in Live /\ n \notin Rec
  BY <1>2 DEF Live, Rec, Unfinished, Recognized
<1>4. recognized = Earlier(n) /\ Earlier(n) \in SUBSET Rec /\ Rec \in SUBSET Runs /\ n \notin Earlier(n)
  <2>1. recognized = Earlier(n)
    BY <1>1, <1>3, Chained
  <2> QED BY <1>3, <2>1 DEF Earlier, Rec
<1>5. Rec' = Rec /\ Live' = Live /\ Live \subseteq Runs /\ \A m : Earlier(m)' = Earlier(m)
  <2>1. Rec' = Rec /\ Live' = Live /\ Live \subseteq Runs
    BY <1>2 DEF Rec, Live, Unfinished, Recognized
  <2> QED BY <2>1 DEF Earlier
<1> HIDE DEF recognized, covered
<1>6. RunsAreChained'
  <2>1. \A m \in Runs : run'[m].of = run[m].of
    BY <1>2
  <2>2. \A m \in Runs : run'[m].status = "NONE" \/ run[m].status = "NONE" => run'[m] = run[m]
    BY <1>2
  <2> QED BY <1>1, <1>5, <2>1, <2>2, ChainFrame
<1>7. \A m \in Live, e \in Employees :
        Earlier(m) \in SUBSET Runs /\ n \notin Earlier(m) /\ NetOver(Earlier(m), e)' = NetOver(Earlier(m), e)
  <2> SUFFICES ASSUME NEW m \in Live, NEW e \in Employees
               PROVE  Earlier(m) \in SUBSET Runs /\ n \notin Earlier(m)
                      /\ SumFunctionOnSet(Nets(e)', Earlier(m)) = SumFunctionOnSet(Nets(e), Earlier(m))
    BY <1>5 DEF NetOver
  <2>1. Earlier(m) \in SUBSET Runs /\ n \notin Earlier(m)
    BY <1>3, <1>4 DEF Earlier
  <2>2. IsFiniteSet(Earlier(m)) /\ \A k \in Earlier(m) : Nets(e)'[k] = Nets(e)[k]
    BY <1>2, <2>1, RunsAreNumbers, FS_Subset DEF Nets, Net
  <2>3. SumFunctionOnSet(Nets(e)', Earlier(m)) = SumFunctionOnSet(Nets(e), Earlier(m))
    BY <2>2, SumAgree
  <2> QED BY <2>1, <2>3
<1>8. RowsAreExact'
  <2>1. \A m \in Runs, e \in Employees : run'[m].status \in {"NONE", "DRAFT"} => result'[m][e] = NoRow
    BY <1>1, <1>2 DEF RowsAreExact
  <2>2. \A m \in Live', e \in Employees : result'[m][e] # NoRow =>
          result'[m][e].net = result'[m][e].target - NetOver(Earlier(m), e)'
    <3> SUFFICES ASSUME NEW m \in Live, NEW e \in Employees, result'[m][e] # NoRow
                 PROVE  result'[m][e].net = result'[m][e].target - NetOver(Earlier(m), e)
      BY <1>5, <1>7
    <3>1. CASE m = n /\ e \in covered
      <4>1. result'[n][e] = [net |-> target[e] - NetOver(recognized, e), target |-> target[e]]
        BY <1>2, <3>1
      <4>2. result'[n][e].net = target[e] - NetOver(recognized, e) /\ result'[n][e].target = target[e]
        BY <4>1
      <4> QED BY <1>4, <3>1, <4>2
    <3>2. CASE ~(m = n /\ e \in covered)
      <4>1. result'[m][e] = result[m][e]
        BY <1>2, <1>5, <3>2
      <4> QED BY <1>1, <4>1 DEF RowsAreExact
    <3> QED BY <3>1, <3>2
  <2>3. \A m \in Live' : run'[m].status # "DRAFT" => \A k \in Earlier(m)' : Rows(k)' \subseteq Rows(m)'
    <3> SUFFICES ASSUME NEW m \in Live, run'[m].status # "DRAFT", NEW k \in Earlier(m)
                 PROVE  Rows(k)' \subseteq Rows(m)'
      BY <1>5
    <3>1. k \in Runs /\ k # n /\ m \in Runs
      BY <1>3, <1>4, <1>5 DEF Earlier
    <3>2. Rows(k)' = Rows(k)
      BY <1>2, <3>1 DEF Rows
    <3>3. CASE m = n
      <4>1. Rows(k) \subseteq covered
        BY <1>4, <3>3 DEF covered
      <4>2. \A e \in Employees : NoRow # [net |-> target[e] - NetOver(recognized, e), target |-> target[e]]
        <5> SUFFICES ASSUME NEW e \in Employees
                     PROVE  [net |-> target[e] - NetOver(recognized, e), target |-> target[e]] \in [net : Int, target : Nat]
          BY PayrollAssumption
        <5>1. target[e] \in Nat
          BY TargetType
        <5>2. NetOver(recognized, e) \in Int
          BY <1>1, <1>4, NetOverType
        <5> QED BY <5>1, <5>2
      <4>3. \A e \in Rows(k) : e \in Employees /\ e \in covered
        BY <4>1 DEF Rows
      <4>4. \A e \in Rows(k) : result'[n][e] # NoRow
        BY <1>2, <4>2, <4>3
      <4> QED BY <3>2, <3>3, <4>3, <4>4 DEF Rows
    <3>4. CASE m # n
      <4>1. Rows(m)' = Rows(m) /\ run[m].status # "DRAFT"
        BY <1>2, <3>1, <3>4 DEF Rows
      <4> QED BY <1>1, <3>2, <4>1 DEF RowsAreExact
    <3> QED BY <3>3, <3>4
  <2> QED BY <2>1, <2>2, <2>3 DEF RowsAreExact
<1>9. PaymentsBalance' /\ PaidMeansSettled' /\ ClaimsCovered'
  <2>1. \A m \in Rec : run'[m] = run[m] /\ result'[m] = result[m]
    BY <1>2, <1>3, <1>4
  <2>2. run[n].of = Regular => owed - OwedOver(recognized) >= 0
    <3> SUFFICES ASSUME run[n].of = Regular PROVE owed - OwedOver(recognized) >= 0
      OBVIOUS
    <3>1. recognized = {}
      BY DEF recognized
    <3>2. OwedOver(recognized) = 0
      BY <1>1, <3>1, OwedOverType
    <3> QED BY <3>2, PayrollAssumption
  <2>3. \A m \in Runs : run'[m].of = Regular => run'[m].owed >= 0
    BY <1>1, <1>2, <2>2 DEF ClaimsCovered
  <2> QED BY <1>1, <1>2, <1>5, <2>1, <2>3, QuietStep
<1> QED BY <1>6, <1>8, <1>9 DEF PayrollIInv

-----------------------------------------------------------------------------
\* Posting, and what it pays.

LEMMA OutboundWorth ==
  ASSUME PayrollTypeOK, NEW n \in Runs, NEW e \in Employees
  PROVE  /\ Net(n, e) >= 0 => Worth(Outbound(n, e)) = Net(n, e)
         /\ Net(n, e) <= 0 => Outbound(n, e) = Unpaid
<1>1. Net(n, e) \in Int
  BY NetType
<1> DEFINE d == Net(n, e)
<1>2. Outbound(n, e) = IF d > 0 THEN [status |-> "PENDING", direction |-> "OUTBOUND", amount |-> d] ELSE Unpaid
  BY DEF Outbound
<1>3. d \in Int
  BY <1>1
<1> HIDE DEF d
<1>4. d > 0 => Worth(Outbound(n, e)) = d
  BY <1>2 DEF Worth
<1>5. d <= 0 => Outbound(n, e) = Unpaid
  BY <1>2, <1>3
<1>6. d >= 0 => Worth(Outbound(n, e)) = d
  BY <1>3, <1>4, <1>5 DEF Worth, Unpaid
<1> QED BY <1>5, <1>6 DEF d

LEMMA PostedStatus ==
  ASSUME NEW n \in Runs
  PROVE  /\ Posted(pay', n) \in Recognized
         /\ Posted(pay', n) = "POSTED" <=> Open(pay', n)
BY DEF Posted, Recognized

LEMMA PostRegularStep ==
  ASSUME PayrollIInv, PayrollTypeOK', NEW n \in Runs, PostRegular(n)
  PROVE  PayrollIInv'
<1>1. /\ PayrollTypeOK /\ RunsAreChained /\ RowsAreExact /\ PaymentsBalance
      /\ PaidMeansSettled /\ ClaimsCovered
  BY DEF PayrollIInv
<1>2. /\ run[n].status = "APPROVED" /\ run[n].of = Regular
      /\ run'[n].status = Posted(pay', n) /\ run'[n].of = Regular /\ run'[n].owed = run[n].owed
      /\ \A m \in Runs \ {n} : run'[m] = run[m] /\ pay'[m] = pay[m]
      /\ \A e \in Employees : pay'[n][e] = Outbound(n, e)
      /\ result' = result /\ claim' = claim
  <2>1. DOMAIN run = Runs /\ run[n] \in RunRows /\ DOMAIN pay = Runs
    BY <1>1, PayrollShape
  <2>2. run' = [run EXCEPT ![n] = [run[n] EXCEPT !.status = Posted(pay', n)]]
    BY DEF PostRegular
  <2>3. /\ run'[n].status = Posted(pay', n) /\ run'[n].of = run[n].of /\ run'[n].owed = run[n].owed
        /\ \A m \in Runs \ {n} : run'[m] = run[m]
    BY <2>1, <2>2 DEF RunRows
  <2>4. /\ \A e \in Employees : pay'[n][e] = Outbound(n, e)
        /\ \A m \in Runs \ {n} : pay'[m] = pay[m]
    BY <2>1 DEF PostRegular
  <2> QED BY <2>3, <2>4 DEF PostRegular
<1>3. n \in Live /\ n \notin Rec /\ Rec = {} /\ Earlier(n) = {}
  <2>1. n \in Live /\ n \notin Rec
    BY <1>2 DEF Live, Rec, Unfinished, Recognized
  <2> QED BY <1>1, <1>2, <2>1, Chained
<1>4. Rec' = {n} /\ Live' = Live /\ Live \subseteq Runs
  BY <1>2, <1>3, PostedStatus DEF Rec, Live, Unfinished, Recognized
<1>5. RunsAreChained'
  <2>1. \A m \in Runs : run'[m].of = run[m].of
    BY <1>2
  <2>2. \A m \in Runs : run'[m].status = "NONE" \/ run[m].status = "NONE" => run'[m] = run[m]
    BY <1>2, PostedStatus DEF Recognized
  <2>3. Rec \subseteq Rec' /\ Live' \subseteq Live
    BY <1>3, <1>4
  <2> QED BY <1>1, <2>1, <2>2, <2>3, ChainFrame
\* Nothing but the run itself is left: it is the last that is not cancelled.
<1>6. \A m \in Live : Earlier(m) = {} /\ Earlier(m)' = {}
  <2> SUFFICES ASSUME NEW m \in Live PROVE Earlier(m) = {} /\ Earlier(m)' = {}
    OBVIOUS
  <2>1. Earlier(m) = {}
    BY <1>3 DEF Earlier
  <2>2. ~(n < m)
    BY <1>1, <1>3 DEF RunsAreChained
  <2> QED BY <1>4, <2>1, <2>2 DEF Earlier
<1>7. RowsAreExact'
  <2>1. \A m \in Runs : run'[m].status \in {"NONE", "DRAFT"} => run[m].status \in {"NONE", "DRAFT"}
    BY <1>2, PostedStatus DEF Recognized
  <2>2. \A m \in Live' : Earlier(m)' = Earlier(m)
    BY <1>4, <1>6
  <2>3. \A m \in Live' : run'[m].status = "DRAFT" \/ (m \in Live /\ run[m].status # "DRAFT")
    BY <1>2, <1>4
  <2> QED BY <1>1, <1>2, <2>1, <2>2, <2>3, RowsFrame
<1>8. PaymentsBalance'
  <2>1. ASSUME NEW m \in Runs \ Rec', NEW e \in Employees PROVE pay'[m][e] = Unpaid
    BY <1>1, <1>2, <1>3, <1>4 DEF PaymentsBalance
  <2>2. ASSUME NEW e \in Employees PROVE SumFunction(Worths(e))' = NetOver(Rec, e)'
    <3>1. /\ SumFunctionOnSet(Nets(e)', {n}) = Net(n, e) /\ Net(n, e) \in Int /\ Net(n, e) >= 0
      <4>1. Nets(e)' = Nets(e) /\ Nets(e)[n] = Net(n, e) /\ Net(n, e) \in Int
        BY <1>1, <1>2, NetType DEF Nets, Net
      <4>2. SumFunctionOnSet(Nets(e), {n}) = Nets(e)[n] + SumFunctionOnSet(Nets(e), {n} \ {n})
        <5>1. IsFiniteSet({n}) /\ n \in {n} /\ \A m \in {n} : Nets(e)[m] \in Int
          BY <4>1, FS_Singleton
        <5> QED BY ONLY <5>1, SumRemove
      <4>3. SumFunctionOnSet(Nets(e), {n} \ {n}) = 0
        <5>1. {n} \ {n} = {}
          OBVIOUS
        <5> QED BY <5>1, SumEmpty
      <4>4. Net(n, e) >= 0
        <5>1. CASE result[n][e] = NoRow
          BY <1>1, <5>1, NetType
        <5>2. CASE result[n][e] # NoRow
          <6>1. result[n][e].net = result[n][e].target - NetOver(Earlier(n), e)
            BY <1>1, <1>3, <5>2 DEF RowsAreExact
          <6>2. NetOver(Earlier(n), e) = 0
            BY <1>1, <1>3, NetOverType
          <6> QED BY <1>1, <5>2, <6>1, <6>2, NetType
        <5> QED BY <5>1, <5>2
      <4> QED BY <4>1, <4>2, <4>3, <4>4
    <3>2. \A m \in Runs : Worths(e)[m] = 0
      BY <1>1, <1>3 DEF PaymentsBalance, Worths, Worth, Unpaid
    <3>3. SumFunctionOnSet(Worths(e), Runs) = 0
      BY <3>2, RunsAreNumbers, SumOfZeros
    <3>4. Worths(e)'[n] = Net(n, e) /\ \A m \in Runs \ {n} : Worths(e)'[m] = Worths(e)[m]
      <4>1. Worth(Outbound(n, e)) = Net(n, e)
        BY <1>1, <3>1, OutboundWorth
      <4> QED BY <1>2, <4>1 DEF Worths
    <3>5. SumFunctionOnSet(Worths(e)', Runs) = SumFunctionOnSet(Worths(e), Runs) - Worths(e)[n] + Worths(e)'[n]
      <4>1. /\ IsFiniteSet(Runs) /\ n \in Runs /\ \A m \in Runs : Worths(e)[m] \in Int
            /\ Worths(e)'[n] \in Int /\ \A m \in Runs \ {n} : Worths(e)'[m] = Worths(e)[m]
        BY <3>1, <3>2, <3>4, RunsAreNumbers
      <4> QED BY ONLY <4>1, SumChanged
    <3>6. SumFunction(Worths(e)') = SumFunctionOnSet(Worths(e)', Runs)
      BY DEF SumFunction, Worths
    <3> QED BY <1>4, <3>1, <3>2, <3>3, <3>4, <3>5, <3>6 DEF NetOver
  <2> QED BY <2>1, <2>2 DEF PaymentsBalance
<1>9. PaidMeansSettled'
  <2>1. \A m \in Runs : run'[m].status \in Recognized => m = n
    BY <1>4 DEF Rec
  <2> QED BY <1>2, <2>1, PostedStatus DEF PaidMeansSettled
<1>10. ClaimsCovered'
  <2>1. LiveClaims = {} /\ LiveClaims' = {}
    BY <1>1, <1>2, <1>3 DEF ClaimsCovered, LiveClaims
  <2>2. SumFunctionOnSet(Claimed', {}) = 0
    BY SumEmpty
  <2>3. SumFunctionOnSet(Owed', {n}) = run[n].owed
    <3>1. Owed'[n] = run[n].owed /\ run[n].owed \in Int
      BY <1>1, <1>2 DEF Owed, PayrollTypeOK
    <3>2. SumFunctionOnSet(Owed', {n}) = Owed'[n] + SumFunctionOnSet(Owed', {n} \ {n})
      BY <3>1, SumRemove, FS_Singleton
    <3>3. {n} \ {n} = {}
      OBVIOUS
    <3>4. SumFunctionOnSet(Owed', {n} \ {n}) = 0
      BY <3>3, SumEmpty
    <3> QED BY <3>1, <3>2, <3>4
  <2>4. \A m \in Runs : run'[m].of = Regular => run'[m].owed >= 0
    BY <1>1, <1>2 DEF ClaimsCovered
  <2>5. run[n].owed >= 0
    BY <1>1, <1>2 DEF ClaimsCovered
  <2> QED BY <1>4, <2>1, <2>2, <2>3, <2>4, <2>5 DEF ClaimsCovered, OwedOver
<1> QED BY <1>5, <1>7, <1>8, <1>9, <1>10 DEF PayrollIInv

-----------------------------------------------------------------------------
\* Paying, who is employed, and the claims.

LEMMA SettlePaymentStep ==
  ASSUME PayrollIInv, PayrollTypeOK', NEW n \in Runs, NEW e \in Employees, SettlePayment(n, e)
  PROVE  PayrollIInv'
<1>1. /\ PayrollTypeOK /\ RunsAreChained /\ RowsAreExact /\ PaymentsBalance
      /\ PaidMeansSettled /\ ClaimsCovered
  BY DEF PayrollIInv
<1>2. /\ run[n].status = "POSTED" /\ pay[n][e].status = "PENDING"
      /\ run'[n].status = Posted(pay', n) /\ run'[n].of = run[n].of /\ run'[n].owed = run[n].owed
      /\ \A m \in Runs \ {n} : run'[m] = run[m] /\ pay'[m] = pay[m]
      /\ \A x \in Employees \ {e} : pay'[n][x] = pay[n][x]
      /\ pay'[n][e].status = "PAID" /\ pay'[n][e].direction = pay[n][e].direction
      /\ pay'[n][e].amount = pay[n][e].amount
      /\ result' = result /\ claim' = claim
  <2>1. DOMAIN run = Runs /\ run[n] \in RunRows /\ DOMAIN pay = Runs /\ DOMAIN pay[n] = Employees
        /\ pay[n][e] \in PayRows
    BY <1>1, PayrollShape
  <2>2. run[n].status \in Recognized /\ pay[n][e].status = "PENDING"
    BY DEF SettlePayment
  <2>3. run[n].status = "POSTED"
    BY <1>1, <2>2 DEF PaidMeansSettled, Open
  <2>4. run' = [run EXCEPT ![n] = [run[n] EXCEPT !.status = Posted(pay', n)]]
    BY <2>3 DEF SettlePayment, Posted
  <2>5. /\ run'[n].status = Posted(pay', n) /\ run'[n].of = run[n].of /\ run'[n].owed = run[n].owed
        /\ \A m \in Runs \ {n} : run'[m] = run[m]
    BY <2>1, <2>4 DEF RunRows
  <2> DEFINE paid == [pay[n][e] EXCEPT !.status = "PAID"]
  <2>6. pay' = [pay EXCEPT ![n] = [pay[n] EXCEPT ![e] = paid]]
    BY DEF SettlePayment
  <2>7. paid.status = "PAID" /\ paid.direction = pay[n][e].direction /\ paid.amount = pay[n][e].amount
    BY <2>1 DEF PayRows
  <2> HIDE DEF paid
  <2>8. /\ \A m \in Runs \ {n} : pay'[m] = pay[m]
        /\ \A x \in Employees \ {e} : pay'[n][x] = pay[n][x]
        /\ pay'[n][e] = paid
    BY <2>1, <2>6
  <2> QED BY <2>2, <2>3, <2>5, <2>7, <2>8 DEF SettlePayment
<1>3. Rec' = Rec /\ Live' = Live /\ n \in Rec /\ Rec \subseteq Runs /\ Live \subseteq Runs
      /\ \A m : Earlier(m)' = Earlier(m)
  <2>1. Rec' = Rec /\ Live' = Live /\ n \in Rec /\ Rec \subseteq Runs /\ Live \subseteq Runs
    BY <1>2, PostedStatus DEF Rec, Live, Unfinished, Recognized
  <2> QED BY <2>1 DEF Earlier
<1>4. RunsAreChained'
  <2>1. \A m \in Runs : run'[m].of = run[m].of
    BY <1>2
  <2>2. \A m \in Runs : run'[m].status = "NONE" \/ run[m].status = "NONE" => run'[m] = run[m]
    BY <1>2, PostedStatus DEF Recognized
  <2> QED BY <1>1, <1>3, <2>1, <2>2, ChainFrame
<1>5. RowsAreExact'
  <2>1. \A m \in Runs : run'[m].status \in {"NONE", "DRAFT"} => run[m].status \in {"NONE", "DRAFT"}
    BY <1>2, PostedStatus DEF Recognized
  <2>2. \A m \in Live' : run'[m].status = "DRAFT" \/ (m \in Live /\ run[m].status # "DRAFT")
    BY <1>2, <1>3
  <2> QED BY <1>1, <1>2, <1>3, <2>1, <2>2, RowsFrame
<1>6. PaymentsBalance'
  <2>1. \A m \in Runs, x \in Employees : Worth(pay'[m][x]) = Worth(pay[m][x])
    <3> SUFFICES ASSUME NEW m \in Runs, NEW x \in Employees PROVE Worth(pay'[m][x]) = Worth(pay[m][x])
      OBVIOUS
    <3>1. CASE m = n /\ x = e
      BY <1>2, <3>1 DEF Worth
    <3>2. CASE ~(m = n /\ x = e)
      BY <1>2, <3>2
    <3> QED BY <3>1, <3>2
  <2>2. \A x \in Employees : Worths(x)' = Worths(x)
    BY <2>1 DEF Worths
  <2>3. \A x \in Employees : NetOver(Rec, x)' = NetOver(Rec, x)
    BY <1>2, <1>3 DEF NetOver, Nets, Net
  <2>4. \A m \in Runs \ Rec', x \in Employees : pay'[m][x] = Unpaid
    BY <1>1, <1>2, <1>3 DEF PaymentsBalance
  <2> QED BY <1>1, <2>2, <2>3, <2>4 DEF PaymentsBalance
<1>7. PaidMeansSettled'
  <2> SUFFICES ASSUME NEW m \in Runs, run'[m].status \in Recognized
               PROVE  run'[m].status = "POSTED" <=> Open(pay', m)
    BY DEF PaidMeansSettled
  <2>1. CASE m = n
    BY <1>2, <2>1, PostedStatus
  <2>2. CASE m # n
    BY <1>1, <1>2, <2>2 DEF PaidMeansSettled, Open
  <2> QED BY <2>1, <2>2
<1>8. ClaimsCovered'
  <2>1. OwedOver(Rec)' = OwedOver(Rec)
    <3>1. \A m \in Runs : run'[m].owed = run[m].owed
      BY <1>2
    <3>2. Owed' = Owed
      BY <3>1 DEF Owed
    <3> QED BY <1>3, <3>2 DEF OwedOver
  <2>2. LiveClaims' = LiveClaims /\ Claimed' = Claimed
    BY <1>2 DEF LiveClaims, Claimed
  <2>3. \A m \in Runs : run'[m].of = Regular => run'[m].owed >= 0
    BY <1>1, <1>2 DEF ClaimsCovered
  <2> QED BY <1>1, <1>2, <1>3, <2>1, <2>2, <2>3 DEF ClaimsCovered
<1> QED BY <1>4, <1>5, <1>6, <1>7, <1>8 DEF PayrollIInv

\* A step that leaves runs, results and payments as they are.
LEMMA ClaimFrame ==
  ASSUME PayrollIInv, PayrollTypeOK', run' = run, result' = result, pay' = pay, ClaimsCovered'
  PROVE  PayrollIInv'
<1>1. /\ PayrollTypeOK /\ RunsAreChained /\ RowsAreExact /\ PaymentsBalance
      /\ PaidMeansSettled /\ ClaimsCovered
  BY DEF PayrollIInv
<1>2. Rec' = Rec /\ Live' = Live /\ \A m : Earlier(m)' = Earlier(m)
  <2>1. Rec' = Rec /\ Live' = Live
    BY DEF Rec, Live
  <2> QED BY <2>1 DEF Earlier
<1>3. RunsAreChained'
  BY <1>1, <1>2 DEF RunsAreChained, Root
<1>4. \A m \in Runs, e \in Employees : Nets(e)' = Nets(e) /\ Worths(e)' = Worths(e) /\ Rows(m)' = Rows(m)
  BY DEF Nets, Net, Worths, Rows
<1>5. RowsAreExact'
  <2>1. \A m \in Live' : run'[m].status = "DRAFT" \/ (m \in Live /\ run[m].status # "DRAFT")
    BY <1>2
  <2> QED BY <1>1, <1>2, <2>1, RowsFrame
<1>6. PaymentsBalance'
  <2>1. \A e \in Employees : Nets(e)' = Nets(e) /\ Worths(e)' = Worths(e)
    BY DEF Nets, Net, Worths
  <2> QED BY <1>1, <1>2, <2>1 DEF PaymentsBalance, NetOver
<1>7. PaidMeansSettled'
  BY <1>1 DEF PaidMeansSettled, Open
<1> QED BY <1>3, <1>5, <1>6, <1>7 DEF PayrollIInv

LEMMA ClaimStep ==
  ASSUME PayrollIInv, PayrollTypeOK', NEW c \in Claims,
         \/ \E n \in Runs, gross \in 1..MaxOwed : DraftClaim(c, n, gross)
         \/ PostClaim(c) \/ CancelClaim(c)
  PROVE  PayrollIInv'
<1>1. /\ PayrollTypeOK /\ RunsAreChained /\ ClaimsCovered
  BY DEF PayrollIInv
<1>2. run' = run /\ result' = result /\ pay' = pay
  BY DEF DraftClaim, PostClaim, CancelClaim
<1>3. Rec' = Rec /\ OwedOver(Rec)' = OwedOver(Rec) /\ Rec \in SUBSET Runs
  <2>1. Rec' = Rec /\ Rec \in SUBSET Runs /\ Owed' = Owed
    BY <1>2 DEF Rec, Owed
  <2> QED BY <2>1 DEF OwedOver
<1>4. IsFiniteSet(Claims) /\ DOMAIN claim = Claims /\ claim[c] \in ClaimRows
      /\ \A d \in Claims : Claimed[d] \in Nat /\ Claimed'[d] \in Int
  BY <1>1, PayrollAssumption, PayrollShape DEF PayrollTypeOK, Claimed, ClaimRows
<1> DEFINE sum == SumFunctionOnSet(Claimed, LiveClaims)
           sumNext == SumFunctionOnSet(Claimed', LiveClaims')
           owed == OwedOver(Rec)
<1>5. LiveClaims \in SUBSET Claims /\ LiveClaims' \in SUBSET Claims /\ owed \in Int /\ sum <= owed
  BY <1>1, <1>3, OwedOverType DEF LiveClaims, ClaimsCovered
<1>6. ASSUME \A d \in Claims \ {c} : claim'[d] = claim[d]
      PROVE  /\ sum \in Int /\ sumNext \in Int
             /\ sumNext = sum - (IF c \in LiveClaims THEN claim[c].gross ELSE 0)
                            + (IF c \in LiveClaims' THEN claim'[c].gross ELSE 0)
  <2>1. \A d \in Claims \ {c} : Claimed'[d] = Claimed[d] /\ (d \in LiveClaims' <=> d \in LiveClaims)
    BY <1>6 DEF LiveClaims, Claimed
  <2>2. Claimed[c] = claim[c].gross /\ Claimed'[c] = claim'[c].gross
    BY DEF Claimed
  <2>3. \A d \in Claims : Claimed[d] \in Int /\ Claimed'[d] \in Int
    BY <1>4
  <2>4. /\ sum \in Int /\ sumNext \in Int
        /\ sumNext = sum - (IF c \in LiveClaims THEN Claimed[c] ELSE 0)
                       + (IF c \in LiveClaims' THEN Claimed'[c] ELSE 0)
    BY <1>4, <1>5, <2>1, <2>3, SumReplaced
  <2> QED BY <2>2, <2>4
<1> HIDE DEF sum, sumNext, owed
<1>7. ASSUME \A d \in LiveClaims' : claim'[d].run \in Rec, sumNext <= owed
      PROVE  ClaimsCovered'
  BY <1>1, <1>2, <1>3, <1>7 DEF ClaimsCovered, sumNext, owed
<1>8. ASSUME NEW n \in Runs, NEW gross \in 1..MaxOwed, DraftClaim(c, n, gross) PROVE ClaimsCovered'
  <2>1. /\ claim[c].status = "NONE" /\ n \in Rec /\ gross \in Nat /\ gross > 0
        /\ gross <= Available(Root(n), c)
        /\ claim'[c] = [status |-> "OPEN", run |-> n, gross |-> gross]
        /\ \A d \in Claims \ {c} : claim'[d] = claim[d]
    BY <1>4, <1>8, PayrollAssumption DEF DraftClaim, Rec
  <2>2. c \notin LiveClaims /\ LiveClaims' = LiveClaims \cup {c}
    BY <2>1 DEF LiveClaims
  <2>3. Chain(Root(n)) = Rec
    <3>1. n \in Live
      BY <2>1 DEF Rec, Live
    <3> QED BY <1>1, <3>1, Chained
  <2>4. Committed(Root(n), Claims \ {c}) = sum
    <3>1. {d \in Claims \ {c} : claim[d].status \in {"OPEN", "POSTED"} /\ claim[d].run \in Chain(Root(n))} = LiveClaims
      BY <1>1, <2>2, <2>3 DEF ClaimsCovered, LiveClaims
    <3> QED BY <3>1 DEF Committed, sum
  <2>5. gross <= AtLeastZero(owed - sum)
    BY <2>1, <2>3, <2>4 DEF Available, owed
  <2>6. sumNext = sum + gross /\ sum \in Int
    BY <1>6, <2>1, <2>2
  <2>7. sumNext <= owed
    BY <1>5, <2>1, <2>5, <2>6 DEF AtLeastZero
  <2>8. \A d \in LiveClaims' : claim'[d].run \in Rec
    BY <1>1, <1>5, <2>1, <2>2 DEF ClaimsCovered
  <2> QED BY <1>7, <2>7, <2>8
<1>9. ASSUME PostClaim(c) \/ CancelClaim(c) PROVE ClaimsCovered'
  <2>1. PICK status \in {"POSTED", "CANCELLED"} : claim' = [claim EXCEPT ![c] = [claim[c] EXCEPT !.status = status]]
    BY <1>9 DEF PostClaim, CancelClaim
  <2>2. /\ claim[c].status = "OPEN" /\ claim'[c].run = claim[c].run /\ claim'[c].gross = claim[c].gross
        /\ \A d \in Claims \ {c} : claim'[d] = claim[d]
    BY <1>4, <1>9, <2>1 DEF PostClaim, CancelClaim, ClaimRows
  <2>3. c \in LiveClaims /\ LiveClaims' \subseteq LiveClaims /\ claim[c].gross \in Nat
    BY <1>4, <2>2 DEF LiveClaims, ClaimRows
  <2>4. sumNext <= owed
    BY <1>5, <1>6, <2>2, <2>3
  <2>5. \A d \in LiveClaims' : claim'[d].run \in Rec
    BY <1>1, <1>5, <2>2, <2>3 DEF ClaimsCovered
  <2> QED BY <1>7, <2>4, <2>5
<1> QED BY <1>2, <1>8, <1>9, ClaimFrame

-----------------------------------------------------------------------------
\* An adjustment takes a lower pay from what is open of the earlier runs, the
\* newest first, and asks for the rest.

LEMMA AllTaken ==
  ASSUME PayrollTypeOK, NEW n \in Runs, NEW e \in Employees, NEW taken,
         \A m \in Before(n) : taken[m] = Taken(n, m, e)
  PROVE  SumFunctionOnSet(taken, Before(n)) =
           LET lower == AtLeastZero(-Net(n, e))
           IN  IF lower <= OpenOver(Before(n), e) THEN lower ELSE OpenOver(Before(n), e)
<1> DEFINE B == Before(n)
           o == OpenAmounts(e)
           d == AtLeastZero(-Net(n, e))
<1>1. B \in SUBSET Runs /\ B \in SUBSET Int /\ IsFiniteSet(B)
  <2>1. B \in SUBSET Runs
    BY DEF Before, Chain
  <2> HIDE DEF B
  <2>2. IsFiniteSet(B)
    BY <2>1, RunsAreNumbers, FS_Subset
  <2>3. B \in SUBSET Int
    BY <2>1, RunsAreNumbers
  <2> QED BY <2>1, <2>2, <2>3
<1>2. d \in Nat
  BY NetType DEF AtLeastZero
<1>3. \A m \in B : o[m] = OpenAmount(m, e) /\ o[m] \in Nat
  BY <1>1, TakenType DEF OpenAmounts
<1>4. \A m \in B : LET rest == d - SumFunctionOnSet(o, {k \in B : k > m})
                   IN  taken[m] = IF rest <= 0 THEN 0 ELSE IF o[m] <= rest THEN o[m] ELSE rest
  <2> SUFFICES ASSUME NEW m \in B
               PROVE  taken[m] = LET rest == d - SumFunctionOnSet(o, {k \in B : k > m})
                                 IN  IF rest <= 0 THEN 0 ELSE IF o[m] <= rest THEN o[m] ELSE rest
    OBVIOUS
  <2> DEFINE s == SumFunctionOnSet(o, {k \in B : k > m})
             t == Taken(n, m, e)
             a == OpenAmount(m, e)
  <2>1. s \in Nat /\ a \in Nat
        /\ t = LET rest == AtLeastZero(d - s) IN IF a <= rest THEN a ELSE rest
    <3>1. m \in Runs
      BY <1>1
    <3> QED BY <3>1, TakenType DEF OpenOver
  <2>2. taken[m] = t /\ o[m] = a
    BY <1>3
  <2> HIDE DEF s, t, a, d, o
  <2>3. t = IF d - s <= 0 THEN 0 ELSE IF a <= d - s THEN a ELSE d - s
    BY <1>2, <2>1 DEF AtLeastZero
  <2> QED BY <2>2, <2>3 DEF s
<1>5. OpenOver(B, e) = SumFunctionOnSet(o, B)
  BY DEF OpenOver
<1> HIDE DEF B, o, d
<1>6. SumFunctionOnSet(taken, B) = IF d <= SumFunctionOnSet(o, B) THEN d ELSE SumFunctionOnSet(o, B)
  BY <1>1, <1>2, <1>3, <1>4, SumTaken
<1> QED BY <1>5, <1>6 DEF B, d

LEMMA TakenWorth ==
  ASSUME PayrollTypeOK, NEW n \in Runs, NEW m \in Runs, NEW e \in Employees, NEW p,
         p = IF Taken(n, m, e) = 0 THEN pay[m][e]
             ELSE IF Taken(n, m, e) = pay[m][e].amount THEN [pay[m][e] EXCEPT !.status = "CANCELLED"]
             ELSE [pay[m][e] EXCEPT !.amount = @ - Taken(n, m, e)]
  PROVE  Worth(p) = Worth(pay[m][e]) - Taken(n, m, e)
<1> DEFINE t == Taken(n, m, e)
           a == pay[m][e].amount
           q == pay[m][e]
<1>1. q \in PayRows /\ t \in Nat /\ a \in Nat /\ Worth(q) \in Int
  BY TakenType, WorthType, PayrollShape
<1>2. CASE t = 0
  BY <1>1, <1>2
<1>3. CASE t # 0
  <2>1. q.status = "PENDING" /\ q.direction = "OUTBOUND"
    <3>1. OpenAmount(m, e) # 0
      <4>1. t \in Nat /\ t <= OpenAmount(m, e) /\ OpenAmount(m, e) \in Nat
        BY TakenType
      <4> HIDE DEF t
      <4> QED BY <1>3, <4>1
    <3> QED BY <3>1 DEF OpenAmount
  <2>2. Worth(q) = a
    BY <2>1 DEF Worth
  <2>3. CASE t = a
    <3>1. p = [q EXCEPT !.status = "CANCELLED"]
      BY <1>3, <2>3
    <3>2. p.status = "CANCELLED"
      BY <1>1, <3>1 DEF PayRows
    <3> QED BY <1>1, <2>2, <2>3, <3>2 DEF Worth
  <2>4. CASE t # a
    <3>1. p = [q EXCEPT !.amount = @ - t]
      BY <1>3, <2>4
    <3> HIDE DEF t, q
    <3>2. p.status = q.status /\ p.direction = q.direction /\ p.amount = q.amount - t
      BY <1>1, <3>1 DEF PayRows
    <3>3. Worth(p) = q.amount - t
      BY <2>1, <3>2 DEF Worth
    <3> QED BY <2>2, <3>3 DEF q, t
  <2> QED BY <2>3, <2>4
<1> QED BY <1>2, <1>3

\* What becomes of the payments of one employee.
AdjustedPays(n, e, pays) ==
  \A m \in Runs :
    pays[m] = IF m = n THEN IF Recovery(n, e) > 0
                              THEN [status |-> "PENDING", direction |-> "RECOVERY", amount |-> Recovery(n, e)]
                              ELSE Outbound(n, e)
              ELSE IF m \notin Before(n) \/ Taken(n, m, e) = 0 THEN pay[m][e]
              ELSE IF Taken(n, m, e) = pay[m][e].amount THEN [pay[m][e] EXCEPT !.status = "CANCELLED"]
              ELSE [pay[m][e] EXCEPT !.amount = @ - Taken(n, m, e)]

LEMMA AdjustmentBalances ==
  ASSUME PayrollTypeOK, NEW n \in Runs, NEW e \in Employees, pay[n][e] = Unpaid,
         NEW pays, AdjustedPays(n, e, pays), NEW worths, \A m \in Runs : worths[m] = Worth(pays[m])
  PROVE  SumFunctionOnSet(worths, Runs) = SumFunctionOnSet(Worths(e), Runs) + Net(n, e)
<1> DEFINE B == Before(n)
           d == Net(n, e)
           O == OpenOver(B, e)
           less == [m \in Runs |-> Worths(e)[m] - worths[m]]
           w == SumFunctionOnSet(Worths(e), Runs)
           v == SumFunctionOnSet(worths, Runs)
           t == SumFunctionOnSet(less, B)
<1>1. B \in SUBSET Runs /\ IsFiniteSet(B) /\ n \notin B /\ n \in Nat /\ IsFiniteSet(Runs)
  <2>1. B \in SUBSET Runs /\ n \in Nat
    BY RunsAreNumbers DEF Before, Chain
  <2>2. n \notin B
    BY <2>1 DEF Before
  <2> QED BY <2>1, <2>2, RunsAreNumbers, FS_Subset
<1>2. d \in Int /\ O \in Nat /\ Recovery(n, e) = AtLeastZero(-d - O)
  BY NetType, TakenType DEF Recovery
<1>3. ASSUME NEW m \in B PROVE worths[m] = Worth(pay[m][e]) - Taken(n, m, e)
  <2> DEFINE p == pays[m]
  <2>1. m \in Runs /\ m # n
    BY <1>1
  <2>2. p = IF Taken(n, m, e) = 0 THEN pay[m][e]
            ELSE IF Taken(n, m, e) = pay[m][e].amount THEN [pay[m][e] EXCEPT !.status = "CANCELLED"]
            ELSE [pay[m][e] EXCEPT !.amount = @ - Taken(n, m, e)]
    BY <2>1 DEF AdjustedPays
  <2>3. worths[m] = Worth(p)
    BY <2>1
  <2> HIDE DEF p
  <2>4. Worth(p) = Worth(pay[m][e]) - Taken(n, m, e)
    BY <2>1, <2>2, TakenWorth
  <2> QED BY <2>3, <2>4
<1>4. \A m \in Runs \ (B \cup {n}) : worths[m] = Worth(pay[m][e])
  BY DEF AdjustedPays
<1>5. /\ worths[n] \in Int
      /\ worths[n] = IF d >= 0 THEN d ELSE IF -d - O > 0 THEN -(-d - O) ELSE 0
  <2> DEFINE r == Recovery(n, e)
             asked == [status |-> "PENDING", direction |-> "RECOVERY", amount |-> r]
  <2>1. worths[n] = IF r > 0 THEN Worth(asked) ELSE Worth(Outbound(n, e))
    BY DEF AdjustedPays
  <2>2. Worth(asked) = -r
    BY DEF Worth
  <2>3. (d >= 0 => Worth(Outbound(n, e)) = d) /\ (d <= 0 => Worth(Outbound(n, e)) = 0)
    BY OutboundWorth, WorthType
  <2>4. r = AtLeastZero(-d - O)
    BY <1>2
  <2> HIDE DEF r, d, O, asked
  <2> QED BY <1>2, <2>1, <2>2, <2>3, <2>4 DEF AtLeastZero
<1>6. Worth(pay[n][e]) = 0
  BY WorthType
<1>7. \A m \in Runs : Worths(e)[m] \in Int /\ worths[m] \in Int /\ less[m] = Worths(e)[m] - worths[m] /\ less[m] \in Int
  <2> SUFFICES ASSUME NEW m \in Runs PROVE Worths(e)[m] \in Int /\ worths[m] \in Int
    OBVIOUS
  <2>1. Worths(e)[m] = Worth(pay[m][e]) /\ Worth(pay[m][e]) \in Int /\ Taken(n, m, e) \in Nat
    BY WorthType, TakenType DEF Worths
  <2>2. worths[m] \in Int
    <3>1. CASE m \in B
      BY <1>3, <2>1, <3>1
    <3>2. CASE m = n
      BY <1>5, <3>2
    <3>3. CASE m \notin B /\ m # n
      BY <1>4, <2>1, <3>3
    <3> QED BY <3>1, <3>2, <3>3
  <2> QED BY <2>1, <2>2
<1>8. SumFunctionOnSet(less, Runs) = w - v
  <2> HIDE DEF less
  <2> QED BY <1>1, <1>7, SumMinus
<1>9. SumFunctionOnSet(less, Runs) = t + less[n] /\ t \in Int
  <2>1. \A m \in Runs \ (B \cup {n}) : less[m] = 0
    <3> SUFFICES ASSUME NEW m \in Runs \ (B \cup {n}) PROVE less[m] = 0
      OBVIOUS
    <3>1. worths[m] = Worths(e)[m] /\ Worths(e)[m] \in Int
      BY <1>4, <1>7 DEF Worths
    <3> QED BY <3>1
  <2>2. \A m \in Runs : less[m] \in Int
    BY <1>7
  <2> HIDE DEF less, B
  <2>3. SumFunctionOnSet(less, Runs) = SumFunctionOnSet(less, B \cup {n})
    BY <1>1, <2>1, <2>2, SumOfOthers
  <2>4. SumFunctionOnSet(less, B \cup {n}) = SumFunctionOnSet(less, B) + less[n]
    BY <1>1, <2>2, SumAdded
  <2>5. SumFunctionOnSet(less, B) \in Int
    BY <1>1, <2>2, SumType
  <2> QED BY <2>3, <2>4, <2>5
<1>10. t = IF AtLeastZero(-d) <= O THEN AtLeastZero(-d) ELSE O
  <2>1. \A m \in B : less[m] = Taken(n, m, e)
    <3> SUFFICES ASSUME NEW m \in B PROVE less[m] = Taken(n, m, e)
      OBVIOUS
    <3>1. m \in Runs
      BY <1>1
    <3>2. Worths(e)[m] = Worth(pay[m][e]) /\ Worth(pay[m][e]) \in Int /\ Taken(n, m, e) \in Nat
      BY <3>1, WorthType, TakenType DEF Worths
    <3> QED BY <1>3, <3>1, <3>2
  <2> HIDE DEF less
  <2> QED BY <2>1, AllTaken
<1>11. less[n] = -worths[n]
  BY <1>5, <1>6 DEF Worths
<1>12. w \in Int /\ v \in Int
  <2> HIDE DEF w, v
  <2>1. SumFunctionOnSet(Worths(e), Runs) \in Int /\ SumFunctionOnSet(worths, Runs) \in Int
    BY <1>1, <1>7, SumType
  <2> QED BY <2>1 DEF w, v
<1> HIDE DEF B, d, O, less, w, v, t
<1>13. v = w + d
  <2>1. w - v = t - worths[n]
    BY <1>5, <1>8, <1>9, <1>11
  <2>2. t - worths[n] = -d
    BY <1>2, <1>5, <1>9, <1>10 DEF AtLeastZero
  <2> QED BY <1>2, <1>5, <1>9, <1>12, <2>1, <2>2
<1> QED BY <1>13 DEF v, w, d

LEMMA PostAdjustmentStep ==
  ASSUME PayrollIInv, PayrollTypeOK', NEW n \in Runs, PostAdjustment(n)
  PROVE  PayrollIInv'
<1>1. /\ PayrollTypeOK /\ RunsAreChained /\ RowsAreExact /\ PaymentsBalance
      /\ PaidMeansSettled /\ ClaimsCovered
  BY DEF PayrollIInv
<1>2. /\ run[n].status = "APPROVED" /\ run[n].of # Regular /\ Covered(n)
      /\ result' = result /\ claim' = claim
  BY DEF PostAdjustment
<1>3. /\ n \in Live /\ n \notin Rec /\ Rec \in SUBSET Runs /\ Rec \subseteq Live /\ Live \subseteq Runs
      /\ Before(n) = Rec /\ Chain(Root(n)) = Rec
  <2>1. n \in Live /\ n \notin Rec /\ Live \subseteq Runs
    BY <1>2 DEF Live, Rec, Unfinished, Recognized
  <2> QED BY <1>1, <2>1, Chained
<1>4. /\ run'[n].status = Posted(pay', n)
      /\ \A m \in Rec : run[m].status = "POSTED" => run'[m].status = Posted(pay', m)
      /\ \A m \in Runs : run'[m].of = run[m].of /\ run'[m].owed = run[m].owed
      /\ \A m \in Runs : m # n /\ ~(m \in Rec /\ run[m].status = "POSTED") => run'[m] = run[m]
  <2>1. \A m \in Runs : run[m] \in RunRows
    BY <1>1, PayrollShape
  <2>2. \A m \in Runs : run'[m] = IF m = n \/ (m \in Rec /\ run[m].status = "POSTED")
                                    THEN [run[m] EXCEPT !.status = Posted(pay', m)] ELSE run[m]
    BY <1>3 DEF PostAdjustment
  <2>3. ASSUME NEW m \in Runs
        PROVE  LET written == [run[m] EXCEPT !.status = Posted(pay', m)]
               IN  written.status = Posted(pay', m) /\ written.of = run[m].of /\ written.owed = run[m].owed
    BY <2>1 DEF RunRows
  <2> QED BY <1>3, <2>2, <2>3
<1>5. \A m \in Runs : m = n \/ (m \in Rec /\ run[m].status = "POSTED") =>
        run'[m].status \in Recognized /\ (run'[m].status = "POSTED" <=> Open(pay', m))
  BY <1>4, PostedStatus
<1>6. Rec' = Rec \cup {n} /\ Live' = Live
  <2>1. \A m \in Runs : run'[m].status \in Recognized <=> m \in Rec \cup {n}
    BY <1>3, <1>4, <1>5 DEF Rec
  <2>2. Rec' = Rec \cup {n}
    BY <1>3, <2>1 DEF Rec
  <2>3. \A m \in Runs : m \in Live' <=> m \in Live
    BY <1>3, <1>4, <1>5 DEF Live, Rec
  <2>4. Live' \subseteq Runs
    BY DEF Live
  <2> QED BY <1>3, <2>2, <2>3, <2>4
<1>7. RunsAreChained'
  <2>1. \A m \in Runs : run'[m].status = "NONE" \/ run[m].status = "NONE" => run'[m] = run[m]
    BY <1>2, <1>4, <1>5 DEF Recognized
  <2>2. Live' \subseteq Live /\ Rec \subseteq Rec' /\ \A m \in Runs : run'[m].of = run[m].of
    BY <1>4, <1>6
  <2> QED BY <1>1, <2>1, <2>2, ChainFrame
<1>8. RowsAreExact'
  <2>1. \A m \in Live' : Earlier(m)' = Earlier(m)
    <3> SUFFICES ASSUME NEW m \in Live PROVE Earlier(m)' = Earlier(m)
      BY <1>6
    <3>1. ~(n < m)
      BY <1>1, <1>3 DEF RunsAreChained
    <3> QED BY <1>6, <3>1 DEF Earlier
  <2>2. \A m \in Runs : run'[m].status \in {"NONE", "DRAFT"} => run[m].status \in {"NONE", "DRAFT"}
    BY <1>4, <1>5 DEF Recognized
  <2>3. \A m \in Live' : run'[m].status = "DRAFT" \/ (m \in Live /\ run[m].status # "DRAFT")
    <3> SUFFICES ASSUME NEW m \in Live PROVE run'[m].status = "DRAFT" \/ run[m].status # "DRAFT"
      BY <1>6
    <3>1. m \in Runs
      BY <1>3
    <3> QED BY <1>2, <1>4, <3>1
  <2> QED BY <1>1, <1>2, <2>1, <2>2, <2>3, RowsFrame
<1>9. \A e \in Employees : pay[n][e] = Unpaid /\ AdjustedPays(n, e, [m \in Runs |-> pay'[m][e]])
  BY <1>1, <1>3 DEF PostAdjustment, AdjustedPays, PaymentsBalance
<1>10. PaymentsBalance'
  <2>1. \A m \in Runs \ Rec', e \in Employees : pay'[m][e] = Unpaid
    BY <1>1, <1>3, <1>6 DEF PaymentsBalance, PostAdjustment
  <2>2. ASSUME NEW e \in Employees PROVE SumFunction(Worths(e))' = NetOver(Rec, e)'
    <3> DEFINE pays == [m \in Runs |-> pay'[m][e]]
               worths == Worths(e)'
    <3>1. \A m \in Runs : worths[m] = Worth(pays[m])
      BY DEF Worths
    <3>2. AdjustedPays(n, e, pays) /\ pay[n][e] = Unpaid
      BY <1>9
    <3>3. SumFunction(worths) = SumFunctionOnSet(worths, Runs) /\ SumFunction(Worths(e)) = SumFunctionOnSet(Worths(e), Runs)
      BY DEF SumFunction, Worths
    <3> HIDE DEF pays, worths
    <3>4. SumFunctionOnSet(worths, Runs) = SumFunctionOnSet(Worths(e), Runs) + Net(n, e)
      BY <1>1, <3>1, <3>2, AdjustmentBalances
    <3>5. SumFunctionOnSet(Nets(e), Rec \cup {n}) = SumFunctionOnSet(Nets(e), Rec) + Net(n, e)
      <4>1. \A m \in Rec \cup {n} : Nets(e)[m] \in Int
        BY <1>1, <1>3, NetType DEF Nets
      <4>2. IsFiniteSet(Rec)
        BY <1>3, RunsAreNumbers, FS_Subset
      <4>3. SumFunctionOnSet(Nets(e), Rec \cup {n}) = SumFunctionOnSet(Nets(e), Rec) + Nets(e)[n]
        BY <1>3, <4>1, <4>2, SumAdded
      <4> QED BY <4>3 DEF Nets
    <3>6. Nets(e)' = Nets(e)
      BY <1>2 DEF Nets, Net
    <3>7. SumFunction(Worths(e)) = SumFunctionOnSet(Nets(e), Rec)
      BY <1>1 DEF PaymentsBalance, NetOver
    <3>8. SumFunction(worths) = SumFunctionOnSet(Nets(e)', Rec')
      BY <1>6, <3>3, <3>4, <3>5, <3>6, <3>7
    <3> QED BY <3>8 DEF NetOver, worths
  <2> QED BY <2>1, <2>2 DEF PaymentsBalance
<1>11. PaidMeansSettled'
  <2> SUFFICES ASSUME NEW m \in Runs, run'[m].status \in Recognized
               PROVE  run'[m].status = "POSTED" <=> Open(pay', m)
    BY DEF PaidMeansSettled
  <2>1. CASE m = n \/ (m \in Rec /\ run[m].status = "POSTED")
    BY <1>5, <2>1
  \* Of a run that is paid there is nothing to take.
  <2>2. CASE m # n /\ ~(m \in Rec /\ run[m].status = "POSTED")
    <3>1. run'[m] = run[m] /\ run[m].status # "POSTED" /\ ~Open(pay, m)
      <4>1. run'[m] = run[m]
        BY <1>4, <2>2
      <4>2. m \in Rec
        BY <4>1 DEF Rec
      <4> QED BY <1>1, <2>2, <4>1, <4>2 DEF PaidMeansSettled
    <3>2. \A e \in Employees : Taken(n, m, e) = 0
      <4> SUFFICES ASSUME NEW e \in Employees PROVE Taken(n, m, e) = 0
        OBVIOUS
      <4>1. OpenAmount(m, e) = 0
        BY <3>1 DEF OpenAmount, Open
      <4>2. Taken(n, m, e) \in Nat /\ Taken(n, m, e) <= OpenAmount(m, e)
        BY <1>1, TakenType
      <4> QED BY <4>1, <4>2
    <3>3. \A e \in Employees : pay'[m][e] = pay[m][e]
      BY <2>2, <3>2 DEF PostAdjustment
    <3> QED BY <3>1, <3>3 DEF Open
  <2> QED BY <2>1, <2>2
<1>12. ClaimsCovered'
  <2>1. LiveClaims' = LiveClaims /\ Claimed' = Claimed
    BY <1>2 DEF LiveClaims, Claimed
  <2>2. Owed' = Owed
    BY <1>4 DEF Owed
  <2> DEFINE sum == SumFunctionOnSet(Claimed, LiveClaims)
             owed == OwedOver(Rec)
             more == run[n].owed
  <2>3. SumFunctionOnSet(Owed, Rec \cup {n}) = owed + more /\ owed \in Int /\ more \in Int
    <3>1. \A m \in Rec \cup {n} : Owed[m] \in Int
      BY <1>1, <1>3 DEF Owed, PayrollTypeOK
    <3>2. IsFiniteSet(Rec)
      BY <1>3, RunsAreNumbers, FS_Subset
    <3>3. SumFunctionOnSet(Owed, Rec \cup {n}) = SumFunctionOnSet(Owed, Rec) + Owed[n]
      BY <1>3, <3>1, <3>2, SumAdded
    <3>4. Owed[n] = more /\ Owed[n] \in Int
      BY <3>1 DEF Owed
    <3> QED BY <1>1, <1>3, <3>3, <3>4, OwedOverType DEF OwedOver
  <2>4. sum \in Int /\ sum <= owed
    <3>1. IsFiniteSet(LiveClaims) /\ \A c \in LiveClaims : Claimed[c] \in Int
      <4>1. LiveClaims \in SUBSET Claims /\ \A c \in Claims : Claimed[c] \in Int
        BY <1>1 DEF LiveClaims, Claimed, PayrollTypeOK
      <4> QED BY <4>1, PayrollAssumption, FS_Subset
    <3>2. SumFunctionOnSet(Claimed, LiveClaims) \in Int
      BY <3>1, SumType
    <3> QED BY <1>1, <3>2 DEF ClaimsCovered
  <2>5. Committed(Root(n), Claims) = sum
    <3>1. {c \in Claims : claim[c].status \in {"OPEN", "POSTED"} /\ claim[c].run \in Chain(Root(n))} = LiveClaims
      BY <1>1, <1>3 DEF ClaimsCovered, LiveClaims
    <3> QED BY <3>1 DEF Committed
  <2>6. more < 0 => -more <= AtLeastZero(owed - sum)
    BY <1>2, <1>3, <2>5 DEF Covered
  <2> HIDE DEF sum, owed, more
  <2>7. sum <= owed + more
    <3>1. CASE more < 0
      BY <2>3, <2>4, <2>6, <3>1 DEF AtLeastZero
    <3>2. CASE ~(more < 0)
      BY <2>3, <2>4, <3>2
    <3> QED BY <3>1, <3>2
  <2>8. SumFunctionOnSet(Claimed', LiveClaims') <= OwedOver(Rec)'
    BY <1>6, <2>1, <2>2, <2>3, <2>7 DEF OwedOver, sum
  <2>9. \A c \in LiveClaims' : claim'[c].run \in Rec'
    BY <1>1, <1>2, <1>6, <2>1 DEF ClaimsCovered
  <2>10. \A m \in Runs : run'[m].of = Regular => run'[m].owed >= 0
    BY <1>1, <1>4 DEF ClaimsCovered
  <2> QED BY <2>8, <2>9, <2>10 DEF ClaimsCovered
<1> QED BY <1>7, <1>8, <1>10, <1>11, <1>12 DEF PayrollIInv

-----------------------------------------------------------------------------
LEMMA PayrollStep == PayrollIInv /\ [PayrollNext]_payrollVars => PayrollIInv'
<1> SUFFICES ASSUME PayrollIInv, [PayrollNext]_payrollVars PROVE PayrollIInv'
  OBVIOUS
<1>1. PayrollTypeOK'
  BY PayrollTyped DEF PayrollIInv
<1>2. ASSUME run' = run, result' = result, pay' = pay, claim' = claim PROVE PayrollIInv'
  <2>1. ClaimsCovered
    BY DEF PayrollIInv
  <2>2. ClaimsCovered'
    BY <1>2, <2>1 DEF ClaimsCovered, LiveClaims, Claimed, OwedOver, Owed, Rec
  <2> QED BY <1>1, <1>2, <2>2, ClaimFrame
<1>3. CASE UNCHANGED payrollVars
  BY <1>2, <1>3 DEF payrollVars
<1>4. ASSUME NEW e \in Employees, NEW employed \in BOOLEAN, SetActive(e, employed) PROVE PayrollIInv'
  BY <1>2, <1>4 DEF SetActive
<1>5. ASSUME NEW n \in Runs, CreateRun(n) \/ \E s \in Runs : CreateAdjustmentRun(n, s) PROVE PayrollIInv'
  BY <1>1, <1>5, CreatedStep
<1>6. ASSUME NEW n \in Runs, CancelRun(n) \/ ApproveRun(n) PROVE PayrollIInv'
  BY <1>1, <1>6, DecidedStep
<1>7. ASSUME NEW n \in Runs, NEW target \in Targets, NEW owed \in 0..MaxOwed, CalculateRun(n, target, owed)
      PROVE  PayrollIInv'
  BY <1>1, <1>7, CalculatedStep
<1>8. ASSUME NEW n \in Runs, PostRegular(n) PROVE PayrollIInv'
  BY <1>1, <1>8, PostRegularStep
<1>9. ASSUME NEW n \in Runs, PostAdjustment(n) PROVE PayrollIInv'
  BY <1>1, <1>9, PostAdjustmentStep
<1>10. ASSUME NEW n \in Runs, NEW e \in Employees, SettlePayment(n, e) PROVE PayrollIInv'
  BY <1>1, <1>10, SettlePaymentStep
<1>11. ASSUME NEW c \in Claims, \/ \E n \in Runs, gross \in 1..MaxOwed : DraftClaim(c, n, gross)
                                \/ PostClaim(c) \/ CancelClaim(c)
       PROVE  PayrollIInv'
  BY <1>1, <1>11, ClaimStep
<1> QED BY <1>3, <1>4, <1>5, <1>6, <1>7, <1>8, <1>9, <1>10, <1>11 DEF PayrollNext

THEOREM PayrollInvariance == PayrollSpec => []PayrollIInv
BY PayrollStart, PayrollStep, PTL DEF PayrollSpec

(* What an employee is given, less what is asked back, is what the last     *)
(* posted calculation found, however often pay was corrected and whatever   *)
(* was paid by then (PayrollService.calculateRun, postAccounting).          *)
THEOREM PayCorrect == PayrollSpec => []PaidAsCalculated
<1>1. PayrollIInv => PaidAsCalculated
  <2> SUFFICES ASSUME PayrollIInv, NEW n \in Runs, NEW e \in Employees, run[n].status \in Recognized,
                      \A m \in Chain(Root(n)) : m <= n
               PROVE  Given(e, "OUTBOUND") - Given(e, "RECOVERY") = IF result[n][e] = NoRow THEN 0 ELSE result[n][e].target
    BY DEF PaidAsCalculated
  <2>1. PayrollTypeOK /\ RunsAreChained /\ RowsAreExact /\ PaymentsBalance
    BY DEF PayrollIInv
  <2>2. n \in Rec /\ n \in Live /\ Rec \in SUBSET Runs /\ Chain(Root(n)) = Rec /\ Earlier(n) \in SUBSET Runs
    <3>1. n \in Rec /\ n \in Live
      BY DEF Rec, Live
    <3> QED BY <2>1, <3>1, Chained
  <2>3. Rec = Earlier(n) \cup {n} /\ n \notin Earlier(n)
    <3>1. \A m \in Rec : m <= n /\ m \in Nat /\ n \in Nat
      BY <2>2, RunsAreNumbers
    <3>2. \A m \in Rec : m = n \/ m < n
      BY <3>1
    <3>3. ~(n < n)
      BY <2>2, RunsAreNumbers
    <3> QED BY <2>2, <3>2, <3>3 DEF Earlier
  <2> DEFINE g(direction) == [m \in Runs |-> IF pay[m][e].status # "CANCELLED" /\ pay[m][e].direction = direction
                                               THEN pay[m][e].amount ELSE 0]
             out == g("OUTBOUND")
             back == g("RECOVERY")
  <2>4. Given(e, "OUTBOUND") = SumFunctionOnSet(out, Runs) /\ Given(e, "RECOVERY") = SumFunctionOnSet(back, Runs)
    BY DEF Given, SumFunction
  <2>5. \A m \in Runs : out[m] \in Int /\ back[m] \in Int /\ Worths(e)[m] = out[m] - back[m]
    <3> SUFFICES ASSUME NEW m \in Runs PROVE out[m] \in Int /\ back[m] \in Int /\ Worths(e)[m] = out[m] - back[m]
      OBVIOUS
    <3>1. pay[m][e] \in PayRows
      BY <2>1, PayrollShape
    <3> DEFINE p == pay[m][e]
    <3>2. p.amount \in Nat /\ p.direction \in {"OUTBOUND", "RECOVERY"}
      BY <3>1 DEF PayRows
    <3>3. Worths(e)[m] = Worth(p)
      BY DEF Worths
    <3>4. /\ out[m] = IF p.status # "CANCELLED" /\ p.direction = "OUTBOUND" THEN p.amount ELSE 0
          /\ back[m] = IF p.status # "CANCELLED" /\ p.direction = "RECOVERY" THEN p.amount ELSE 0
      OBVIOUS
    <3> HIDE DEF p, out, back
    <3> QED BY <3>2, <3>3, <3>4 DEF Worth
  <2>6. Given(e, "OUTBOUND") - Given(e, "RECOVERY") = SumFunctionOnSet(Worths(e), Runs)
    <3> HIDE DEF out, back
    <3>1. SumFunctionOnSet(Worths(e), Runs) = SumFunctionOnSet(out, Runs) - SumFunctionOnSet(back, Runs)
      BY <2>5, RunsAreNumbers, SumMinus
    <3> QED BY <2>4, <3>1
  <2>7. SumFunctionOnSet(Worths(e), Runs) = NetOver(Earlier(n), e) + Net(n, e)
    <3>1. SumFunction(Worths(e)) = SumFunctionOnSet(Worths(e), Runs)
      BY DEF SumFunction, Worths
    <3>2. IsFiniteSet(Earlier(n)) /\ \A m \in Earlier(n) \cup {n} : Nets(e)[m] \in Int
      BY <2>1, <2>2, NetType, RunsAreNumbers, FS_Subset DEF Nets
    <3>3. SumFunctionOnSet(Nets(e), Earlier(n) \cup {n}) = SumFunctionOnSet(Nets(e), Earlier(n)) + Nets(e)[n]
      BY <2>3, <3>2, SumAdded
    <3>4. SumFunction(Worths(e)) = SumFunctionOnSet(Nets(e), Rec)
      BY <2>1 DEF PaymentsBalance, NetOver
    <3> QED BY <2>3, <3>1, <3>3, <3>4 DEF NetOver, Nets
  <2>8. NetOver(Earlier(n), e) \in Int
    BY <2>1, <2>2, NetOverType
  <2>9. CASE result[n][e] # NoRow
    <3>1. Net(n, e) = result[n][e].target - NetOver(Earlier(n), e) /\ result[n][e].target \in Nat
      BY <2>1, <2>2, <2>9, NetType DEF RowsAreExact
    <3> QED BY <2>6, <2>7, <2>8, <2>9, <3>1
  \* Nobody the earlier runs know is left out, so they have nothing for him.
  <2>10. CASE result[n][e] = NoRow
    <3>1. run[n].status # "DRAFT"
      BY DEF Recognized
    <3>2. \A m \in Earlier(n) : Nets(e)[m] = 0
      <4> SUFFICES ASSUME NEW m \in Earlier(n) PROVE Nets(e)[m] = 0
        OBVIOUS
      <4>1. Rows(m) \subseteq Rows(n) /\ m \in Runs
        BY <2>1, <2>2, <3>1 DEF RowsAreExact
      <4>2. result[m][e] = NoRow
        BY <2>10, <4>1 DEF Rows
      <4> QED BY <4>1, <4>2 DEF Nets, Net
    <3>3. IsFiniteSet(Earlier(n))
      BY <2>2, RunsAreNumbers, FS_Subset
    <3>4. SumFunctionOnSet(Nets(e), Earlier(n)) = 0
      BY <3>2, <3>3, SumOfZeros
    <3>5. Net(n, e) = 0
      BY <2>10 DEF Net
    <3> QED BY <2>6, <2>7, <2>10, <3>4, <3>5 DEF NetOver
  <2> QED BY <2>9, <2>10
<1> QED BY <1>1, PayrollInvariance, PTL

(* A run is PAID exactly when nothing of it is open, and what is claimed for *)
(* tax office and social security never exceeds what the runs withheld       *)
(* (postAccounting, payrollLiabilitySnapshot).                               *)
THEOREM LiabilitiesCorrect == PayrollSpec => []LiabilitiesSettle
<1>1. PayrollIInv => LiabilitiesSettle
  <2> SUFFICES ASSUME PayrollIInv, NEW n \in Runs, run[n].of = Regular
               PROVE  Committed(n, Claims) <= OwedOver(Chain(n))
    BY DEF PayrollIInv, LiabilitiesSettle, LiabilityCovered
  <2>1. PayrollTypeOK /\ RunsAreChained /\ ClaimsCovered
    BY DEF PayrollIInv
  <2>2. Root(n) = n
    BY DEF Root
  <2>3. Chain(n) = Rec \/ Chain(n) = {}
    <3>1. CASE n \in Live
      BY <2>1, <2>2, <3>1, Chained
    <3>2. CASE n \notin Live
      <4> SUFFICES ASSUME NEW m \in Chain(n) PROVE FALSE
        OBVIOUS
      <4>1. m \in Runs /\ Root(m) = n /\ m \in Live
        BY DEF Chain, Live
      <4> QED BY <2>1, <3>2, <4>1, Chained
    <3> QED BY <3>1, <3>2
  <2>4. CASE Chain(n) = Rec
    <3>1. {c \in Claims : claim[c].status \in {"OPEN", "POSTED"} /\ claim[c].run \in Chain(n)} = LiveClaims
      BY <2>1, <2>4 DEF ClaimsCovered, LiveClaims
    <3>2. Committed(n, Claims) = SumFunctionOnSet(Claimed, LiveClaims)
      BY <3>1 DEF Committed
    <3> QED BY <2>1, <2>4, <3>2 DEF ClaimsCovered
  <2>5. CASE Chain(n) = {}
    <3>1. {c \in Claims : claim[c].status \in {"OPEN", "POSTED"} /\ claim[c].run \in Chain(n)} = {}
      BY <2>5
    <3>2. Committed(n, Claims) = 0
      BY <3>1, SumEmpty DEF Committed
    <3>3. OwedOver(Chain(n)) = 0
      BY <2>1, <2>5, OwedOverType
    <3> QED BY <3>2, <3>3
  <2> QED BY <2>3, <2>4, <2>5
<1> QED BY <1>1, PayrollInvariance, PTL

-----------------------------------------------------------------------------
(* The back office as a whole.                                             *)

\* Each desk only sees its own steps.
THEOREM OfficeIsEach == OfficeSpec => PayrollSpec /\ AttendanceSpec /\ AssetsSpec /\ Spec
<1>1. OfficeInit => PayrollInit /\ AttendanceInit /\ AssetsInit /\ Init
  BY DEF OfficeInit
<1>2. [OfficeNext]_officeVars => /\ [PayrollNext]_payrollVars /\ [AttendanceNext]_attendanceVars
                                 /\ [AssetsNext]_assetVars /\ [Next]_vars
  BY DEF OfficeNext, officeVars, PayrollTurn, AttendanceTurn, AssetsTurn, NumbersTurn
<1> QED BY <1>1, <1>2, PTL DEF OfficeSpec, PayrollSpec, AttendanceSpec, AssetsSpec, Spec

(* The back office as a whole keeps the promises of its desks: pay,         *)
(* liabilities, times, books and numbers.                                   *)
THEOREM OfficeKeepsItsPromises ==
  OfficeSpec => [](PaidAsCalculated /\ LiabilitiesSettle /\ AttendanceIsTrue /\ AssetsReconcile /\ NumbersAreSound)
BY OfficeIsEach, PayCorrect, LiabilitiesCorrect, AttendanceCorrect, AssetsCorrect, NumbersSound, PTL
=============================================================================
