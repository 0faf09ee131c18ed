--------------------------- MODULE DocumentNumbers ---------------------------
(***************************************************************************)
(* nextDocumentNumber (common/numbering.ts): one NumberSequence row per    *)
(* company, branch and document type, read, then incremented by an         *)
(* updateMany guarded by the value that was read.  Most callers number     *)
(* inside the transaction that creates the document; Autocommit ones       *)
(* (payslips, sale returns, POS shipments) pass the bare client, so that   *)
(* every statement commits by itself.                                      *)
(***************************************************************************)
EXTENDS Naturals

CONSTANTS
  Callers,     \* requests that create a document of this type
  Autocommit,  \* those that number outside a transaction
  Resets,      \* resetPolicy is MONTHLY or YEARLY, not NEVER
  MaxPeriod,   \* bound on the calendar
  MaxNumber    \* bound on nextNumber

ASSUME NumbersAssumption ==
  /\ Autocommit \subseteq Callers
  /\ Resets \in BOOLEAN
  /\ MaxPeriod \in Nat /\ MaxNumber \in Nat

VARIABLES
  today,      \* the calendar period
  next,       \* committed NumberSequence.nextNumber, 0 while there is no row
  resetAt,    \* period of its lastResetAt
  lock,       \* callers whose open transaction has written the row
  at,         \* where each caller is
  now,        \* the period each caller took at its start
  seen,       \* the nextNumber it read
  current,    \* the number it is going to use
  documents,  \* committed documents, as <<period, number>>
  abandoned   \* numbers taken outside a transaction for a document that failed

vars == <<today, next, resetAt, lock, at, now, seen, current, documents, abandoned>>

Points == {"idle", "creating", "read", "bumped", "conflict"}

TypeOK ==
  /\ today \in Nat /\ next \in Nat /\ resetAt \in Nat
  /\ lock \subseteq Callers \ Autocommit
  /\ at \in [Callers -> Points]
  /\ now \in [Callers -> Nat]
  /\ seen \in [Callers -> Nat] /\ current \in [Callers -> Nat]
  /\ documents \subseteq Nat \X Nat /\ abandoned \subseteq Nat

Init ==
  /\ today = 0 /\ next = 0 /\ resetAt = 0 /\ lock = {}
  /\ at = [c \in Callers |-> "idle"]
  /\ now = [c \in Callers |-> 0]
  /\ seen = [c \in Callers |-> 0] /\ current = [c \in Callers |-> 0]
  /\ documents = {} /\ abandoned = {}

-----------------------------------------------------------------------------
\* A new period restarts at 1, whatever nextNumber is.
Proposed(period) == IF Resets /\ resetAt # period THEN 1 ELSE next

\* findFirst; a transaction that has no row to read goes on to create it.
Read(c) ==
  /\ at[c] \in {"idle", "conflict"}
  /\ next <= MaxNumber
  /\ now' = [now EXCEPT ![c] = today]
  /\ IF next = 0
       THEN at' = [at EXCEPT ![c] = "creating"] /\ UNCHANGED <<seen, current>>
       ELSE /\ at' = [at EXCEPT ![c] = "read"]
            /\ seen' = [seen EXCEPT ![c] = next]
            /\ current' = [current EXCEPT ![c] = Proposed(today)]
  /\ UNCHANGED <<today, next, resetAt, lock, documents, abandoned>>

\* create waits for an open writer of the same key; a row that is there by then
\* is a unique violation.
CreateRow(c) ==
  /\ at[c] = "creating" /\ lock = {}
  /\ IF next # 0
       THEN /\ at' = [at EXCEPT ![c] = "conflict"]
            /\ UNCHANGED <<next, resetAt, lock, seen, current>>
       ELSE /\ at' = [at EXCEPT ![c] = "read"]
            /\ seen' = [seen EXCEPT ![c] = 1]
            /\ current' = [current EXCEPT ![c] = 1]
            /\ IF c \in Autocommit
                 THEN next' = 1 /\ resetAt' = now[c] /\ UNCHANGED lock
                 ELSE lock' = {c} /\ UNCHANGED <<next, resetAt>>
  /\ UNCHANGED <<today, now, documents, abandoned>>

\* The updateMany waits for the row lock, re-reads the committed row, and takes
\* the number only if nextNumber still equals it.
Matches(c) == IF c \in lock THEN current[c] = 1 ELSE next = current[c]

\* Autocommit shows the increment at once, a transaction when it commits.
Increment(c) ==
  IF c \in Autocommit
    THEN next' = current[c] + 1 /\ resetAt' = now[c] /\ UNCHANGED lock
    ELSE lock' = {c} /\ UNCHANGED <<next, resetAt>>

\* Faulty variants: an update without the guard; an increment in a transaction
\* of its own, which the document's rollback does not undo.
BumpUnguarded(c) ==
  /\ at[c] = "read" /\ lock \subseteq {c}
  /\ Increment(c)
  /\ at' = [at EXCEPT ![c] = "bumped"]
  /\ UNCHANGED <<today, now, seen, current, documents, abandoned>>
BumpApart(c) ==
  /\ at[c] = "read" /\ lock \subseteq {c} /\ Matches(c)
  /\ next' = current[c] + 1 /\ resetAt' = now[c]
  /\ at' = [at EXCEPT ![c] = "bumped"]
  /\ UNCHANGED <<today, lock, now, seen, current, documents, abandoned>>

Bump(c) ==
  /\ at[c] = "read" /\ lock \subseteq {c}
  /\ IF Matches(c)
       THEN Increment(c) /\ at' = [at EXCEPT ![c] = "bumped"]
       ELSE at' = [at EXCEPT ![c] = "conflict"] /\ UNCHANGED <<next, resetAt, lock>>
  /\ UNCHANGED <<today, now, seen, current, documents, abandoned>>

\* The document is written with the number; a transaction commits both.
Commit(c) ==
  /\ at[c] = "bumped"
  /\ documents' = documents \cup {<<now[c], current[c]>>}
  /\ IF c \in Autocommit
       THEN UNCHANGED <<next, resetAt>>
       ELSE next' = current[c] + 1 /\ resetAt' = now[c]
  /\ lock' = lock \ {c}
  /\ at' = [at EXCEPT ![c] = "idle"]
  /\ UNCHANGED <<today, now, seen, current, abandoned>>

\* The request fails or the process stops: a transaction takes its writes back.
Fail(c) ==
  /\ at[c] \in {"creating", "read", "bumped"}
  /\ lock' = lock \ {c}
  /\ at' = [at EXCEPT ![c] = "idle"]
  /\ abandoned' = IF c \in Autocommit /\ at[c] = "bumped"
                    THEN abandoned \cup {current[c]} ELSE abandoned
  /\ UNCHANGED <<today, next, resetAt, now, seen, current, documents>>

NextPeriod ==
  /\ today < MaxPeriod
  /\ today' = today + 1
  /\ UNCHANGED <<next, resetAt, lock, at, now, seen, current, documents, abandoned>>

Next == NextPeriod \/ \E c \in Callers : \/ Read(c) \/ CreateRow(c) \/ Bump(c)
                                         \/ Commit(c) \/ Fail(c)

Spec == Init /\ [][Next]_vars
-----------------------------------------------------------------------------
(* A number in a caller's hands is on no document yet and in nobody else's *)
(* hands: no two documents of a type share a number, however requests,     *)
(* rollbacks and the first creation of the row interleave.                 *)
UniqueNumbers ==
  \A c \in Callers : at[c] = "bumped" =>
    /\ <<now[c], current[c]>> \notin documents
    /\ \A d \in Callers \ {c} : at[d] = "bumped" => <<now[d], current[d]>> # <<now[c], current[c]>>

(* A rollback returns the number: every number below nextNumber is on a    *)
(* document or was taken outside a transaction.                            *)
GapFree ==
  {n \in 1..next : n < next} =
    {d[2] : d \in documents} \cup abandoned
      \cup {current[c] : c \in {a \in Autocommit : at[a] = "bumped"}}

NumbersAreSound == UniqueNumbers /\ GapFree

(* numbering.ts:38-40: a caller fails at the compare-and-set only because  *)
(* another transaction changed nextNumber after it was read, so that       *)
(* repeating the transaction helps.                                        *)
ConflictMeansRace ==
  [][\A c \in Callers : at[c] = "read" /\ at'[c] = "conflict" => next # seen[c]]_vars
=============================================================================
