------------------------------- MODULE Books -------------------------------
(***************************************************************************)
(* Closing the books of a branch: fiscal periods, the close controls of    *)
(* the accounting core, the journal entries they freeze, and the           *)
(* reconciliation of bank statements with the journal.  The handlers of    *)
(* ExtensionsService and every caller of postOperationalEvent are          *)
(* serializable transactions, so each is one action.  Close controls are   *)
(* written by transactions of the default isolation, which serializable    *)
(* ones do not conflict with: a posting that found no closed control goes  *)
(* on when one is closed meanwhile.                                        *)
(***************************************************************************)
EXTENDS Integers, FiniteSetsExt

CONSTANTS
  LastDay,            \* bound: the days are 1..LastDay
  Spans,              \* ranges of days a fiscal period may cover
  Controlled, Reconciled,  \* those of close controls and of reconciliations
  Drafted, Direct, Adjustments,  \* journal entries: of a finance transaction,
                      \* of an event posted at once, of a payroll adjustment
  EntryDay, Amount,   \* of an entry: its day, what it adds to the bank account
  Lines,              \* lines of bank statements, numbered
  StatementOf, LineDay, LineAmount,
  Period, Closing,    \* of a statement: its days, the closing balance it states
  None

Entries == Drafted \cup Direct \cup Adjustments
BusinessDays == 1..LastDay
Statements == {StatementOf[l] : l \in Lines}

ASSUME BooksAssumption ==
  /\ LastDay \in Nat \ {0}
  /\ Spans \subseteq {s \in BusinessDays \X BusinessDays : s[1] <= s[2]} /\ Controlled \subseteq Spans
  /\ Reconciled \subseteq Spans
  /\ EntryDay \in [Entries -> BusinessDays] /\ Amount \in [Entries -> Int]
  /\ Lines \subseteq Nat /\ LineDay \in [Lines -> BusinessDays]
  /\ LineAmount \in [Lines -> Int \ {0}]
  /\ Period \in [Statements -> Spans] /\ Closing \in [Statements -> Int]
  /\ None \notin Entries \cup Int

Reconciliations == Statements \X Reconciled

VARIABLES
  fiscal,     \* status of the FiscalPeriods, by their span
  control,    \* status of the AccountingCloseControls, by their span
  asked,      \* spans whose control found no overlap and is about to be written
  entry,      \* status of each entry's document; POSTED: it is in the journal
  posting,    \* entries whose transaction has looked at the close controls
  statement,  \* what gives the balance of each BankStatement imported
  matchedTo,  \* the journal line of each statement line
  recon       \* the BankReconciliations

booksVars == <<fiscal, control, asked, entry, posting, statement, matchedTo, recon>>
calendar == <<fiscal, control, asked>>
bank == <<statement, matchedTo, recon>>

Put(f, x, v) == [y \in DOMAIN f \cup {x} |-> IF y = x THEN v ELSE f[y]]
Values(f) == {f[x] : x \in DOMAIN f}

BooksTypeOK ==
  /\ DOMAIN fiscal \subseteq Spans /\ Values(fiscal) \subseteq {"OPEN", "SOFT_CLOSED", "CLOSED"}
  /\ DOMAIN control \subseteq Controlled /\ Values(control) \subseteq {"OPEN", "CLOSED"}
  /\ asked \subseteq Controlled
  /\ entry \in [Entries -> {"NONE", "PENDING", "POSTED", "CANCELLED"}]
  /\ posting \subseteq Entries
  /\ DOMAIN statement \subseteq Statements /\ Values(statement) \subseteq {"CLOSING", "LINES"}
  /\ matchedTo \in [Lines -> Entries \cup {None}]
  /\ DOMAIN recon \subseteq Reconciliations
  /\ Values(recon) \subseteq [book : Int, bank : Int, done : BOOLEAN]

Nothing == [x \in {} |-> None]
BooksInit ==
  /\ fiscal = Nothing /\ control = Nothing /\ asked = {}
  /\ entry = [e \in Entries |-> "NONE"] /\ posting = {}
  /\ statement = Nothing /\ recon = Nothing
  /\ matchedTo = [l \in Lines |-> None]

-----------------------------------------------------------------------------
(* Fiscal periods *)

Within(d, s) == s[1] <= d /\ d <= s[2]

\* Faulty variant: a period may start on the day another one ends.
MeetInside(s, u) == s[1] < u[2] /\ u[1] < s[2]
Meet(s, u) == s[1] <= u[2] /\ u[1] <= s[2]

CreateFiscalPeriod(s) ==
  /\ \A u \in DOMAIN fiscal : ~Meet(s, u)
  /\ fiscal' = Put(fiscal, s, "OPEN")
  /\ UNCHANGED <<control, asked, entry, posting, bank>>

\* fiscalCloseBlockers: of its five counts only finance transactions nobody has
\* decided yet can be above zero, as event, journal and tax rows commit together.
Blocked(s) == \E e \in Drafted : entry[e] = "PENDING" /\ Within(EntryDay[e], s)

SetFiscal(s, from, to) ==
  /\ s \in DOMAIN fiscal /\ fiscal[s] = from
  /\ fiscal' = [fiscal EXCEPT ![s] = to]
  /\ UNCHANGED <<control, asked, entry, posting, bank>>
SoftCloseFiscalPeriod(s) == ~Blocked(s) /\ SetFiscal(s, "OPEN", "SOFT_CLOSED")
ReopenFiscalPeriod(s) == SetFiscal(s, "SOFT_CLOSED", "OPEN")
CloseFiscalPeriod(s) == ~Blocked(s) /\ SetFiscal(s, "SOFT_CLOSED", "CLOSED")

(* Close controls *)

\* Two that overlap may both pass this check before either is written.
CheckControl(s) ==
  /\ \A u \in DOMAIN control : ~Meet(s, u)
  /\ asked' = asked \cup {s}
  /\ UNCHANGED <<fiscal, control, entry, posting, bank>>

CreateControl(s) ==
  /\ s \in asked /\ s \notin DOMAIN control
  /\ asked' = asked \ {s}
  /\ control' = Put(control, s, "OPEN")
  /\ UNCHANGED <<fiscal, entry, posting, bank>>

SetControl(s, from, to) ==
  /\ s \in DOMAIN control /\ control[s] = from
  /\ control' = [control EXCEPT ![s] = to]
  /\ UNCHANGED <<fiscal, asked, entry, posting, bank>>
CloseControl(s) == SetControl(s, "OPEN", "CLOSED")
ReopenControl(s) == SetControl(s, "CLOSED", "OPEN")

-----------------------------------------------------------------------------
(* The journal *)

\* A finance transaction is created whatever the state of its period.
DraftEntry(e) ==
  /\ e \in Drafted /\ entry[e] = "NONE"
  /\ entry' = [entry EXCEPT ![e] = "PENDING"]
  /\ UNCHANGED <<calendar, posting, bank>>

CancelDraft(e) ==
  /\ entry[e] = "PENDING"
  /\ entry' = [entry EXCEPT ![e] = "CANCELLED"]
  /\ UNCHANGED <<calendar, posting, bank>>

Unposted(e) == entry[e] = IF e \in Drafted THEN "PENDING" ELSE "NONE"

\* postOperationalEvent reads the close controls first; an adjustment of payroll
\* writes its journal entry itself and does not look at them.
BeginPost(e) ==
  /\ Unposted(e)
  /\ e \notin Adjustments =>
       \A s \in DOMAIN control : Within(EntryDay[e], s) => control[s] # "CLOSED"
  /\ posting' = posting \cup {e}
  /\ UNCHANGED <<calendar, entry, bank>>

\* Faulty variant: a period that is closed only softly takes entries.
PeriodTakesSoft(d) == \A s \in DOMAIN fiscal : Within(d, s) => fiscal[s] # "CLOSED"
PeriodTakes(d) == \A s \in DOMAIN fiscal : Within(d, s) => fiscal[s] = "OPEN"

CommitPost(e) ==
  /\ e \in posting /\ Unposted(e) /\ PeriodTakes(EntryDay[e])
  /\ posting' = posting \ {e}
  /\ entry' = [entry EXCEPT ![e] = "POSTED"]
  /\ UNCHANGED <<calendar, bank>>

\* Refused, or rolled back.
GiveUpPost(e) ==
  /\ e \in posting
  /\ posting' = posting \ {e}
  /\ UNCHANGED <<calendar, entry, bank>>

-----------------------------------------------------------------------------
(* Bank statements and their reconciliation *)

\* The same file imported again returns the first import, or is refused when it
\* says something else.
ImportBankStatement(b, balance) ==
  /\ b \notin DOMAIN statement
  /\ statement' = Put(statement, b, balance)
  /\ UNCHANGED <<calendar, entry, posting, matchedTo, recon>>

LinesOf(r) == {l \in Lines : StatementOf[l] = r[1] /\ Within(LineDay[l], r[2])}

JournalBookBalance(day) ==
  MapThenSumSet(LAMBDA e : Amount[e],
                {e \in Entries : entry[e] = "POSTED" /\ EntryDay[e] <= day})

\* The closing balance, or what the lines of the range add to an opening of zero.
StatementBalance(r) ==
  IF statement[r[1]] = "CLOSING" THEN Closing[r[1]]
  ELSE MapThenSumSet(LAMBDA l : LineAmount[l], LinesOf(r))

Completed(r, book, balance, match) == book = balance /\ \A l \in LinesOf(r) : match[l] # None
Row(r, book, balance, match) ==
  [book |-> book, bank |-> balance, done |-> Completed(r, book, balance, match)]

CreateReconciliation(r) ==
  /\ r \notin DOMAIN recon /\ r[1] \in DOMAIN statement
  /\ Period[r[1]][1] <= r[2][1] /\ r[2][2] <= Period[r[1]][2]
  /\ LinesOf(r) # {}
  /\ recon' = Put(recon, r, Row(r, JournalBookBalance(r[2][2]), StatementBalance(r), matchedTo))
  /\ UNCHANGED <<calendar, entry, posting, statement, matchedTo>>

\* refreshReconciliation: of this reconciliation only.
Refresh(r, match) ==
  /\ matchedTo' = match
  /\ recon' = Put(recon, r, Row(r, recon[r].book, recon[r].bank, match))
  /\ UNCHANGED <<calendar, entry, posting, statement>>

Agrees(l, e) == LineAmount[l] = Amount[e]
InJournal(r, e) == entry[e] = "POSTED" /\ Within(EntryDay[e], r[2])
Used(match, ls) == {match[l] : l \in ls}

OpenLines(r) == {l \in LinesOf(r) : matchedTo[l] = None}

\* Faulty variant: what this call has matched can be matched again.
UsedBefore(new, l) == Used(matchedTo, Lines)
\* Lines are taken by date, then by identity.
UsedSoFar(new, l) ==
  Used(matchedTo, Lines) \cup
  Used(new, {k \in DOMAIN new : LineDay[k] < LineDay[l] \/ (LineDay[k] = LineDay[l] /\ k < l)})

Candidates(l, r, used) ==
  {e \in Entries : InJournal(r, e) /\ EntryDay[e] = LineDay[l] /\ Agrees(l, e) /\ e \notin used}

\* A single candidate is taken; of several one whose reference tells it apart, or
\* none.
Takes(fits) == IF Cardinality(fits) = 1 THEN fits
               ELSE {None} \cup fits

AutoMatch(r) ==
  /\ r \in DOMAIN recon
  /\ \E new \in [OpenLines(r) -> Entries \cup {None}] :
       /\ \A l \in OpenLines(r) : new[l] \in Takes(Candidates(l, r, UsedSoFar(new, l)))
       /\ Refresh(r, [l \in Lines |-> IF l \in OpenLines(r) THEN new[l] ELSE matchedTo[l]])

\* A line that is matched already may be given another journal line.
MatchReconciliation(r, l, e) ==
  /\ r \in DOMAIN recon /\ l \in LinesOf(r)
  /\ InJournal(r, e) /\ Agrees(l, e) /\ e \notin Used(matchedTo, Lines \ {l})
  /\ Refresh(r, [matchedTo EXCEPT ![l] = e])

UnmatchReconciliation(r, l) ==
  /\ r \in DOMAIN recon /\ l \in LinesOf(r) /\ matchedTo[l] # None
  /\ Refresh(r, [matchedTo EXCEPT ![l] = None])

CalendarStep ==
  \/ \E s \in Spans :
       \/ CreateFiscalPeriod(s) \/ SoftCloseFiscalPeriod(s)
       \/ ReopenFiscalPeriod(s) \/ CloseFiscalPeriod(s)
  \/ \E s \in Controlled : CheckControl(s) \/ CreateControl(s) \/ CloseControl(s) \/ ReopenControl(s)

JournalStep ==
  \E e \in Entries : DraftEntry(e) \/ CancelDraft(e) \/ BeginPost(e) \/ CommitPost(e) \/ GiveUpPost(e)

BankStep ==
  \/ \E b \in Statements, balance \in {"CLOSING", "LINES"} : ImportBankStatement(b, balance)
  \/ \E r \in Reconciliations :
       \/ CreateReconciliation(r) \/ AutoMatch(r)
       \/ \E l \in Lines : UnmatchReconciliation(r, l) \/ \E e \in Entries : MatchReconciliation(r, l, e)

BooksNext == CalendarStep \/ JournalStep \/ BankStep

BooksSpec == BooksInit /\ [][BooksNext]_booksVars

-----------------------------------------------------------------------------
(* What must hold *)

\* A day has one fiscal period, so that closing it closes the day.
PeriodsAreApart ==
  \A s, u \in DOMAIN fiscal : \A d \in BusinessDays : Within(d, s) /\ Within(d, u) => s = u

\* A matched line stands for one posted journal line of its amount and direction,
\* which no line of any statement shares.
MatchesAreTrue ==
  \A l \in Lines : matchedTo[l] # None =>
    /\ StatementOf[l] \in DOMAIN statement
    /\ entry[matchedTo[l]] = "POSTED" /\ Agrees(l, matchedTo[l])
    /\ \A k \in Lines \ {l} : matchedTo[k] # matchedTo[l]

\* No other reconciliation has one of its lines.
Alone(r) == \A q \in DOMAIN recon \ {r} : LinesOf(q) \cap LinesOf(r) = {}

\* A reconciliation is COMPLETED exactly when the balances it took agree and each
\* line has its match, as long as no other one matches the same lines.
CompletionIsTrue ==
  \A r \in DOMAIN recon :
    /\ recon[r].done => recon[r].book = recon[r].bank
    /\ Alone(r) => recon[r].done = Completed(r, recon[r].book, recon[r].bank, matchedTo)

\* The days of the branch fall in one period each, and what is reconciled is
\* reconciled with the journal.
BooksAreSound == PeriodsAreApart /\ MatchesAreTrue /\ CompletionIsTrue

\* While a period is closed, softly or for good, the journal of its days does not
\* change, whatever posting was under way; a final close is final, and no entry
\* leaves the journal.
ClosedBooksAreFinal ==
  [][/\ \A e \in Entries :
          IF entry[e] = "POSTED" THEN entry'[e] = "POSTED"
          ELSE entry'[e] = "POSTED" =>
                 \A s \in DOMAIN fiscal : Within(EntryDay[e], s) => fiscal[s] = "OPEN"
     /\ \A s \in DOMAIN fiscal : fiscal[s] = "CLOSED" => s \in DOMAIN fiscal' /\ fiscal'[s] = "CLOSED"]_booksVars
=============================================================================
