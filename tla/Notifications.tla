---------------------------- MODULE Notifications ----------------------------
(***************************************************************************)
(* The notification queue (apps/worker/src/index.ts, platform.service.ts): *)
(* rows queued by the API, leased by a worker, posted to a provider or     *)
(* printed to the console, acknowledged by id, cancelled and replayed by   *)
(* operators, whose requests read the row and write it later by id.  A row *)
(* of the employee portal mirrors the status.                              *)
(*                                                                         *)
(* The lease is the row's own scheduledAt: a claim moves it five minutes   *)
(* ahead and the row stays QUEUED.  fallen says that it is reached.        *)
(***************************************************************************)
EXTENDS Integers

CONSTANTS
  Notes,
  InApp,      \* those the console loop handles
  Senders,    \* worker processes
  Operators,  \* requests that may overlap
  MaxSends,   \* 8 in the code
  MaxTroubles, MaxAgain,   \* bounds: troubles, and requests of operators
  NoTask

\* The row in hand, how far the sender is, and the attempts it read with it.
Tasks == [at : {"read", "send", "accepted", "sent", "failed", "requeued"}, note : Notes, seen : Nat]
\* What an operator's request is about to write.
Requests == [to : {"CANCELLED", "QUEUED"}, note : Notes]

ASSUME NotificationsAssumption ==
  /\ InApp \subseteq Notes /\ NoTask \notin Tasks \cup Requests
  /\ MaxSends \in Nat \ {0} /\ MaxTroubles \in Nat /\ MaxAgain \in Nat

VARIABLES
  note,     \* notification.status
  sends,    \* notification.attempts
  fallen,   \* notifications whose scheduledAt is reached
  mirror,   \* employeeNotificationDelivery.status
  task,     \* what each sender has in hand, with the attempts it read
  told,     \* how often the provider accepted it since it was last queued
  asked,    \* requests of operators that have read their row and not written it
  again, troubles,
  troubled  \* notifications met by a trouble that the code does not exclude

noteRow == <<note, sends, fallen>>
notificationVars == <<noteRow, mirror, task, told, asked, again, troubles, troubled>>

NotificationsTypeOK ==
  /\ note \in [Notes -> {"NONE", "QUEUED", "SENT", "FAILED", "CANCELLED"}]
  /\ mirror \in [Notes -> {"NONE", "QUEUED", "SENT", "FAILED", "CANCELLED"}]
  /\ sends \in [Notes -> Nat] /\ told \in [Notes -> Nat]
  /\ fallen \subseteq Notes /\ troubled \subseteq Notes
  /\ task \in [Senders -> {NoTask} \cup Tasks]
  /\ asked \in [Operators -> {NoTask} \cup Requests]
  /\ again \in 0..MaxAgain /\ troubles \in 0..MaxTroubles

NotificationsInit ==
  /\ note = [n \in Notes |-> "NONE"] /\ mirror = [n \in Notes |-> "NONE"]
  /\ sends = [n \in Notes |-> 0] /\ told = [n \in Notes |-> 0]
  /\ fallen = {} /\ troubled = {}
  /\ task = [s \in Senders |-> NoTask]
  /\ asked = [o \in Operators |-> NoTask] /\ again = 0 /\ troubles = 0

At(s, place) == task[s] # NoTask /\ task[s].at = place
Goes(s, place) == task' = [task EXCEPT ![s].at = place]
Done(s) == task' = [task EXCEPT ![s] = NoTask]
InHand(n) == \E s \in Senders : task[s] # NoTask /\ task[s].note = n /\ task[s].at # "read"

Trouble(n) ==
  /\ troubles < MaxTroubles /\ troubles' = troubles + 1
  /\ troubled' = troubled \cup {n}
NoTrouble == UNCHANGED <<troubles, troubled>>

-----------------------------------------------------------------------------
Queue(n) ==
  /\ note[n] = "NONE"
  /\ note' = [note EXCEPT ![n] = "QUEUED"] /\ mirror' = [mirror EXCEPT ![n] = "QUEUED"]
  /\ fallen' = fallen \cup {n}
  /\ UNCHANGED <<sends, task, told, asked, again, troubles, troubled>>

\* The sender reads its batch, with the attempts of each row.
ReadNote(s, n) ==
  /\ task[s] = NoTask /\ note[n] = "QUEUED" /\ n \in fallen
  /\ task' = [task EXCEPT ![s] = [at |-> "read", note |-> n, seen |-> sends[n]]]
  /\ UNCHANGED <<noteRow, mirror, told, asked, again>> /\ NoTrouble

Claimable(n) == note[n] = "QUEUED" /\ n \in fallen
\* Faulty variant: the claim does not look at the lease again.
LeaseNoteAnyway(s) ==
  LET n == task[s].note IN
  /\ At(s, "read")
  /\ IF note[n] = "QUEUED" THEN fallen' = fallen \ {n} /\ Goes(s, "send") ELSE UNCHANGED fallen /\ Done(s)
  /\ UNCHANGED <<note, sends, mirror, told, asked, again>> /\ NoTrouble
LeaseNote(s) ==
  LET n == task[s].note IN
  /\ At(s, "read")
  /\ IF Claimable(n) THEN fallen' = fallen \ {n} /\ Goes(s, "send") ELSE UNCHANGED fallen /\ Done(s)
  /\ UNCHANGED <<note, sends, mirror, told, asked, again>> /\ NoTrouble

\* No integration, refused, unreachable, not 2xx; or accepted and the answer lost.
Send(s, accepted, answered) ==
  LET n == task[s].note IN
  /\ At(s, "send") /\ n \notin InApp /\ (answered => accepted)
  /\ told' = [told EXCEPT ![n] = IF accepted THEN @ + 1 ELSE @]
  /\ Goes(s, IF answered THEN "accepted" ELSE "failed")
  /\ IF accepted /\ ~answered THEN Trouble(n) ELSE NoTrouble
  /\ UNCHANGED <<noteRow, mirror, asked, again>>

\* The console loop prints and marks; it has no catch block and no mirror.
PrintToConsole(s) ==
  LET n == task[s].note IN
  /\ At(s, "send") /\ n \in InApp
  /\ told' = [told EXCEPT ![n] = @ + 1]
  /\ note' = [note EXCEPT ![n] = "SENT"] /\ sends' = [sends EXCEPT ![n] = @ + 1]
  /\ Done(s) /\ UNCHANGED <<fallen, mirror, asked, again>> /\ NoTrouble

\* By id, whatever the row's status has become.
MarkSent(s) ==
  LET n == task[s].note IN
  /\ At(s, "accepted")
  /\ note' = [note EXCEPT ![n] = "SENT"] /\ sends' = [sends EXCEPT ![n] = @ + 1]
  /\ Goes(s, "sent")
  /\ UNCHANGED <<fallen, mirror, told, asked, again>> /\ NoTrouble

\* Health of the integration, then the mirror: two more statements.
MarkMirror(s) ==
  /\ At(s, "sent")
  /\ mirror' = [mirror EXCEPT ![task[s].note] = "SENT"]
  /\ Done(s) /\ UNCHANGED <<noteRow, told, asked, again>> /\ NoTrouble

\* A statement after the post fails: the catch block treats the message as unsent.
BookkeepingFails(s) ==
  /\ At(s, "accepted") \/ At(s, "sent")
  /\ Goes(s, "failed") /\ Trouble(task[s].note)
  /\ UNCHANGED <<noteRow, mirror, told, asked, again>>

After(seen) == IF seen + 1 >= MaxSends THEN "FAILED" ELSE "QUEUED"
\* Faulty variant: the attempts are not counted, so none is the last.
RequeueUncounted(s) ==
  LET n == task[s].note IN
  /\ At(s, "failed")
  /\ note' = [note EXCEPT ![n] = "QUEUED"]
  /\ fallen' = fallen \ {n} /\ Goes(s, "requeued")
  /\ UNCHANGED <<sends, mirror, told, asked, again>> /\ NoTrouble
\* The catch block counts from the attempts of the batch.
Requeue(s) ==
  LET n == task[s].note IN
  /\ At(s, "failed")
  /\ note' = [note EXCEPT ![n] = After(task[s].seen)]
  /\ sends' = [sends EXCEPT ![n] = task[s].seen + 1]
  /\ fallen' = fallen \ {n} /\ Goes(s, "requeued")
  /\ UNCHANGED <<mirror, told, asked, again>> /\ NoTrouble

RequeueMirror(s) ==
  /\ At(s, "requeued")
  /\ mirror' = [mirror EXCEPT ![task[s].note] = After(task[s].seen)]
  /\ Done(s) /\ UNCHANGED <<noteRow, told, asked, again>> /\ NoTrouble

\* A backoff ends; or a lease, perhaps before its sender is done.
FallsDueAgain(n) ==
  /\ note[n] = "QUEUED" /\ n \notin fallen
  /\ fallen' = fallen \cup {n}
  /\ IF InHand(n) THEN Trouble(n) ELSE NoTrouble
  /\ UNCHANGED <<note, sends, mirror, task, told, asked, again>>

\* The sender dies, or its catch block fails too.
SenderDies(s) ==
  /\ task[s] # NoTask /\ task[s].at # "read"
  /\ Trouble(task[s].note) /\ Done(s)
  /\ UNCHANGED <<noteRow, mirror, told, asked, again>>

\* cancelNotification and replayNotification check the status they read ...
Permitted(to, n) == note[n] \in IF to = "CANCELLED" THEN {"QUEUED"} ELSE {"FAILED", "CANCELLED"}

\* Faulty variant: a message that was sent may be sent again.
PermittedLoosely(to, n) == note[n] \in IF to = "CANCELLED" THEN {"QUEUED"} ELSE {"FAILED", "CANCELLED", "SENT"}

AskNote(o, to, n) ==
  /\ again < MaxAgain /\ again' = again + 1
  /\ asked[o] = NoTask /\ Permitted(to, n)
  /\ asked' = [asked EXCEPT ![o] = [to |-> to, note |-> n]]
  /\ UNCHANGED <<noteRow, mirror, task, told>> /\ NoTrouble

\* ... and write by id: whatever the row has become, and whoever has it in hand.
Decide(o, to) ==
  LET n == asked[o].note IN
  /\ asked[o] # NoTask /\ asked[o].to = to
  /\ note' = [note EXCEPT ![n] = to] /\ mirror' = [mirror EXCEPT ![n] = to]
  /\ asked' = [asked EXCEPT ![o] = NoTask]
  /\ IF Permitted(to, n) /\ ~InHand(n) THEN NoTrouble ELSE Trouble(n)
  /\ UNCHANGED <<task, told, again>>
CancelNote(o) == Decide(o, "CANCELLED") /\ UNCHANGED <<sends, fallen>>
ReplayNote(o) ==
  /\ Decide(o, "QUEUED")
  /\ sends' = [sends EXCEPT ![asked[o].note] = 0] /\ fallen' = fallen \cup {asked[o].note}

SenderStep(s) ==
  \/ LeaseNote(s) \/ PrintToConsole(s) \/ MarkSent(s) \/ MarkMirror(s) \/ BookkeepingFails(s)
  \/ Requeue(s) \/ RequeueMirror(s)
  \/ \E accepted, answered \in BOOLEAN : Send(s, accepted, answered)

NotificationsNext ==
  \/ \E n \in Notes : Queue(n) \/ FallsDueAgain(n)
  \/ \E o \in Operators : \/ CancelNote(o) \/ ReplayNote(o)
                         \/ \E to \in {"CANCELLED", "QUEUED"}, n \in Notes : AskNote(o, to, n)
  \/ \E s \in Senders : SenderStep(s) \/ SenderDies(s) \/ \E n \in Notes : ReadNote(s, n)

\* Leases and backoffs end, a sender goes on with what it has in hand, and each
\* tick reads every due row (25 at a time, oldest first).
NotificationsFairness ==
  /\ \A s \in Senders : WF_notificationVars(SenderStep(s))
  /\ \A n \in Notes : /\ WF_notificationVars(FallsDueAgain(n))
                      /\ SF_notificationVars(\E s \in Senders : ReadNote(s, n))

NotificationsSpec == NotificationsInit /\ [][NotificationsNext]_notificationVars /\ NotificationsFairness
-----------------------------------------------------------------------------
(* A message reaches its provider once, and only one that did is SENT,     *)
(* however many workers poll the queue and however often it is retried,    *)
(* cancelled or replayed: unless a lease was outlived, an answer lost, the *)
(* sender died, the bookkeeping after the post failed, or an operator's    *)
(* request wrote over a row that was in hand by then or that its check     *)
(* would have refused.  The employee's view agrees once nobody has the     *)
(* message in hand; the console loop leaves it behind.                     *)
SentOnce ==
  \A n \in Notes \ troubled :
    /\ told[n] <= 1 /\ (note[n] = "SENT" => told[n] = 1)
    /\ told[n] = 1 => note[n] = "SENT" \/ InHand(n)
    /\ n \notin InApp /\ ~InHand(n) => mirror[n] = note[n]

(* Every queued message ends: sent, given up or cancelled, whatever the    *)
(* troubles (the lease is what a dead sender leaves behind).               *)
NotificationsSettle == \A n \in Notes : note[n] = "QUEUED" ~> note[n] \in {"SENT", "FAILED", "CANCELLED"}
=============================================================================
