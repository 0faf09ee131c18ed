---------------------------- MODULE EventDelivery ----------------------------
(***************************************************************************)
(* The outbox and its webhooks: a domain transaction writes an event,      *)
(* dispatchOutbox fans it out into one delivery per subscribed endpoint,   *)
(* sendWebhookDeliveries posts each one (apps/worker/src/index.ts), and    *)
(* operators replay what failed (platform.service.ts).                     *)
(*                                                                         *)
(* Each worker handles one item of its batch at a time.  It has read the   *)
(* item with the batch, claims it with a conditional update that also sets *)
(* a ten-minute lease, and writes its outcome by id, whatever happened     *)
(* since.  Clocks are flags: an item is ready when its availableAt or      *)
(* nextRetryAt is reached.  An operator's request reads the item, others   *)
(* may act on it, and it writes it by id.  An item is disturbed once a     *)
(* live worker outlived its lease on it, or such a write met it in the     *)
(* hands of a worker.                                                      *)
(***************************************************************************)
EXTENDS Naturals

CONSTANTS Events, Endpoints, Workers,
  MaxTries,               \* failures before FAILED: 10 in the code, of both rows
  MaxMishaps,             \* bound on replays and deactivations, and on crashes and
                          \* outlived leases, which count for two
  Idle                    \* a worker with nothing in hand

\* A delivery row is named by its event, its endpoint and the worker that
\* created it: a worker sees its own row and never creates a second one.
Rows == Events \X Endpoints \X Workers

ASSUME EventDeliveryAssumption ==
  /\ MaxTries \in Nat \ {0} /\ MaxMishaps \in Nat
  /\ Events \cap Rows = {}

VARIABLES
  event, tries,        \* status and attempts of each EventOutbox row
  delivery, attempts,  \* status and attempts of each WebhookDelivery row
  ready,               \* items whose time is reached
  active,              \* active subscribed endpoints
  received,            \* deliveries their endpoint has accepted, perhaps more than once
  job,                 \* what each worker has in hand
  replaying,           \* requests that have read each item and not yet written it
  mishaps, disturbed

items == <<event, tries, delivery, attempts, ready>>
luck == <<mishaps, disturbed>>
vars == <<items, active, received, job, replaying, luck>>

Dispatchable == {"PENDING", "PROCESSING"}
Sendable == {"PENDING", "RETRY", "PROCESSING"}
Settled == {"DELIVERED", "FAILED", "CANCELLED"}

Jobs ==
  [at : {"event"}, item : Events, seen : Nat]
    \cup [at : {"fanout"}, item : Events, seen : Nat, todo : SUBSET Endpoints]
    \cup [at : {"create"}, item : Events, seen : Nat, todo : SUBSET Endpoints, next : Endpoints]
    \cup [at : {"delivery", "send", "ack", "nack"}, item : Rows, seen : Nat]

\* The workers that claimed an item and have not finished with it.
Holds(w, i) == job[w] # Idle /\ job[w].item = i /\ job[w].at \notin {"event", "delivery"}

Held(i) == \E w \in Workers : Holds(w, i)

RowsFor(e, p) == {w \in Workers : delivery[<<e, p, w>>] # "NONE"}

TypeOK ==
  /\ event \in [Events -> {"NONE", "DISPATCHED", "FAILED"} \cup Dispatchable]
  /\ delivery \in [Rows -> {"NONE"} \cup Sendable \cup Settled]
  /\ tries \in [Events -> Nat] /\ attempts \in [Rows -> Nat]
  /\ ready \subseteq Events \cup Rows
  /\ active \subseteq Endpoints
  /\ received \subseteq Rows
  /\ job \in [Workers -> Jobs \cup {Idle}]
  /\ replaying \in [Events \cup Rows -> Nat]
  /\ mishaps \in 0 .. MaxMishaps
  /\ disturbed \subseteq Events \cup Rows

Init ==
  /\ event = [e \in Events |-> "NONE"] /\ tries = [e \in Events |-> 0]
  /\ delivery = [r \in Rows |-> "NONE"] /\ attempts = [r \in Rows |-> 0]
  /\ ready = {} /\ active = Endpoints
  /\ received = {}
  /\ job = [w \in Workers |-> Idle]
  /\ replaying = [i \in Events \cup Rows |-> 0]
  /\ mishaps = 0 /\ disturbed = {}

Mishap(n) == mishaps + n <= MaxMishaps /\ mishaps' = mishaps + n

Becomes(w, k) == job' = [job EXCEPT ![w] = k]
FanOut(j, endpoints) == [at |-> "fanout", item |-> j.item, seen |-> j.seen, todo |-> endpoints]
Sending(at, j) == [at |-> at, item |-> j.item, seen |-> j.seen]
-----------------------------------------------------------------------------
\* A domain transaction commits with its outbox row.
Publish(e) ==
  /\ event[e] = "NONE"
  /\ event' = [event EXCEPT ![e] = "PENDING"] /\ ready' = ready \cup {e}
  /\ UNCHANGED <<tries, delivery, attempts, active, received, job, replaying, luck>>

\* dispatchOutbox reads its batch.
ReadEvent(w, e) ==
  /\ job[w] = Idle /\ event[e] \in Dispatchable /\ e \in ready
  /\ Becomes(w, [at |-> "event", item |-> e, seen |-> tries[e]])
  /\ UNCHANGED <<items, active, received, replaying, luck>>

\* Faulty variant: the claim trusts the batch and does not look again.
ClaimEventUnchecked(w, j) ==
  /\ j.at = "event"
  /\ event' = [event EXCEPT ![j.item] = "PROCESSING"]
  /\ tries' = [tries EXCEPT ![j.item] = @ + 1]
  /\ ready' = ready \ {j.item}
  /\ Becomes(w, FanOut(j, active))
  /\ UNCHANGED <<delivery, attempts, active, received, replaying, luck>>

\* The conditional update: another worker may have been faster.  Before the
\* fan-out materializeBusinessRules upserts the event's automation jobs and
\* the active endpoints that want the event are read.
ClaimEvent(w, j) ==
  /\ j.at = "event"
  /\ \/ /\ event[j.item] \in Dispatchable /\ j.item \in ready
        /\ event' = [event EXCEPT ![j.item] = "PROCESSING"]
        /\ tries' = [tries EXCEPT ![j.item] = @ + 1]
        /\ ready' = ready \ {j.item}
        /\ Becomes(w, FanOut(j, active))
     \/ /\ ~(event[j.item] \in Dispatchable /\ j.item \in ready)
        /\ Becomes(w, Idle) /\ UNCHANGED <<event, tries, ready>>
  /\ UNCHANGED <<delivery, attempts, active, received, replaying, luck>>

\* findFirst: is there a delivery of this event for the endpoint?
FindDelivery(w, j, p) ==
  /\ j.at = "fanout" /\ p \in j.todo
  /\ IF RowsFor(j.item, p) # {}
     THEN Becomes(w, FanOut(j, j.todo \ {p}))
     ELSE Becomes(w, [at |-> "create", item |-> j.item, seen |-> j.seen,
                      todo |-> j.todo \ {p}, next |-> p])
  /\ UNCHANGED <<items, active, received, replaying, luck>>

\* create: there is no unique key on event and endpoint.
CreateDelivery(w, j) ==
  /\ j.at = "create"
  /\ LET r == <<j.item, j.next, w>> IN
     /\ delivery' = [delivery EXCEPT ![r] = "PENDING"]
     /\ ready' = ready \cup {r}
  /\ Becomes(w, FanOut(j, j.todo))
  /\ UNCHANGED <<event, tries, attempts, active, received, replaying, luck>>

\* Every endpoint was visited.
Dispatched(w, j) ==
  /\ j.at = "fanout" /\ j.todo = {}
  /\ event' = [event EXCEPT ![j.item] = "DISPATCHED"]
  /\ Becomes(w, Idle)
  /\ UNCHANGED <<tries, delivery, attempts, ready, active, received, replaying, luck>>

\* The catch block of the dispatch, which counts from the attempts of the batch.
DispatchFails(w, j) ==
  /\ j.at \in {"fanout", "create"}
  /\ event' = [event EXCEPT ![j.item] =
                 IF j.seen + 1 >= MaxTries THEN "FAILED" ELSE "PENDING"]
  /\ ready' = ready \ {j.item}
  /\ Becomes(w, Idle)
  /\ UNCHANGED <<tries, delivery, attempts, active, received, replaying, luck>>
-----------------------------------------------------------------------------
\* Faulty variant: only PENDING and RETRY rows are read.
ReadDeliveryWaiting(w, r) ==
  /\ job[w] = Idle /\ delivery[r] \in {"PENDING", "RETRY"} /\ r \in ready
  /\ Becomes(w, [at |-> "delivery", item |-> r, seen |-> attempts[r]])
  /\ UNCHANGED <<items, active, received, replaying, luck>>

\* sendWebhookDeliveries reads its batch.
ReadDelivery(w, r) ==
  /\ job[w] = Idle /\ delivery[r] \in Sendable /\ r \in ready
  /\ Becomes(w, [at |-> "delivery", item |-> r, seen |-> attempts[r]])
  /\ UNCHANGED <<items, active, received, replaying, luck>>

\* Faulty variant: only the clock is checked again, not the status.
ClaimDeliveryUnchecked(w, j) ==
  /\ j.at = "delivery"
  /\ delivery' = [delivery EXCEPT ![j.item] = "PROCESSING"] /\ ready' = ready \ {j.item}
  /\ Becomes(w, Sending("send", j))
  /\ UNCHANGED <<event, tries, attempts, active, received, replaying, luck>>

ClaimDelivery(w, j) ==
  /\ j.at = "delivery"
  /\ \/ /\ delivery[j.item] \in Sendable /\ j.item \in ready
        /\ delivery' = [delivery EXCEPT ![j.item] = "PROCESSING"] /\ ready' = ready \ {j.item}
        /\ Becomes(w, Sending("send", j))
     \/ /\ ~(delivery[j.item] \in Sendable /\ j.item \in ready)
        /\ Becomes(w, Idle) /\ UNCHANGED <<delivery, ready>>
  /\ UNCHANGED <<event, tries, attempts, active, received, replaying, luck>>

\* The endpoint was deactivated.
CancelDelivery(w, j) ==
  /\ j.at = "send" /\ j.item[2] \notin active
  /\ delivery' = [delivery EXCEPT ![j.item] = "CANCELLED"]
  /\ ready' = ready \cup {j.item}   \* nextRetryAt is null
  /\ Becomes(w, Idle)
  /\ UNCHANGED <<event, tries, attempts, active, received, replaying, luck>>

\* The POST: accepted and answered; accepted, but the answer is lost or too
\* late, or the database then refuses the acknowledgement; or not accepted
\* (unsafe target, refused, unreachable, not 2xx).
Post(w, j, accepted, answered) ==
  /\ j.at = "send" /\ j.item[2] \in active
  /\ answered => accepted
  /\ received' = IF accepted THEN received \cup {j.item} ELSE received
  /\ Becomes(w, Sending(IF answered THEN "ack" ELSE "nack", j))
  /\ UNCHANGED <<items, active, replaying, luck>>

Acknowledge(w, j) ==
  /\ j.at = "ack"
  /\ delivery' = [delivery EXCEPT ![j.item] = "DELIVERED"]
  /\ attempts' = [attempts EXCEPT ![j.item] = @ + 1]
  /\ ready' = ready \cup {j.item}
  /\ Becomes(w, Idle)
  /\ UNCHANGED <<event, tries, active, received, replaying, luck>>

\* The catch block of the delivery.
Retry(w, j) ==
  /\ j.at = "nack"
  /\ attempts' = [attempts EXCEPT ![j.item] = @ + 1]
  /\ \/ /\ j.seen + 1 >= MaxTries
        /\ delivery' = [delivery EXCEPT ![j.item] = "FAILED"]
        /\ ready' = ready \cup {j.item}
     \/ /\ j.seen + 1 < MaxTries
        /\ delivery' = [delivery EXCEPT ![j.item] = "RETRY"]
        /\ ready' = ready \ {j.item}
  /\ Becomes(w, Idle)
  /\ UNCHANGED <<event, tries, active, received, replaying, luck>>
-----------------------------------------------------------------------------
\* A retry time or a lease is reached: a lease, which counts from the start of
\* the batch, perhaps before its worker is done.
FallsDue(i) ==
  /\ i \notin ready
  /\ \/ i \in Events /\ event[i] \in Dispatchable
     \/ i \in Rows /\ delivery[i] \in Sendable
  /\ ready' = ready \cup {i}
  /\ \/ ~Held(i) /\ UNCHANGED luck
     \/ /\ Held(i) /\ Mishap(2) /\ disturbed' = disturbed \cup {i}
  /\ UNCHANGED <<event, tries, delivery, attempts, active, received, job, replaying>>

\* A worker dies and restarts with nothing in hand.
Crash(w) ==
  /\ job[w] # Idle /\ Mishap(2)
  /\ Becomes(w, Idle)
  /\ UNCHANGED <<items, active, received, replaying, disturbed>>

\* replayOutboxEvent and replayWebhookDelivery check the status they read ...
Replayable(i) ==
  \/ i \in Events /\ event[i] = "FAILED"
  \/ i \in Rows /\ delivery[i] \in {"FAILED", "CANCELLED"}

AskReplay(i) ==
  /\ Replayable(i) /\ Mishap(1)
  /\ replaying' = [replaying EXCEPT ![i] = @ + 1]
  /\ UNCHANGED <<items, active, received, job, disturbed>>

\* ... and write by id, whatever the item has become meanwhile.
Replay(i) ==
  /\ replaying[i] > 0 /\ replaying' = [replaying EXCEPT ![i] = @ - 1]
  /\ ready' = ready \cup {i}
  /\ disturbed' = IF Held(i) THEN disturbed \cup {i} ELSE disturbed
  /\ UNCHANGED <<active, received, job, mishaps>>

ReplayEvent(e) ==
  /\ Replay(e)
  /\ event' = [event EXCEPT ![e] = "PENDING"] /\ tries' = [tries EXCEPT ![e] = 0]
  /\ UNCHANGED <<delivery, attempts>>

ReplayDelivery(r) ==
  /\ Replay(r)
  /\ delivery' = [delivery EXCEPT ![r] = "PENDING"] /\ attempts' = [attempts EXCEPT ![r] = 0]
  /\ UNCHANGED <<event, tries>>

\* An endpoint is switched off in the database: no handler does, the worker obeys.
Deactivate(p) ==
  /\ p \in active /\ Mishap(1)
  /\ active' = active \ {p}
  /\ UNCHANGED <<items, received, job, replaying, disturbed>>

Proceed(w, j) ==
  \/ ClaimEvent(w, j) \/ \E p \in Endpoints : FindDelivery(w, j, p)
  \/ CreateDelivery(w, j) \/ Dispatched(w, j) \/ DispatchFails(w, j)
  \/ ClaimDelivery(w, j) \/ CancelDelivery(w, j)
  \/ \E accepted, answered \in BOOLEAN : Post(w, j, accepted, answered)
  \/ Acknowledge(w, j) \/ Retry(w, j)

Next ==
  \/ \E e \in Events : Publish(e) \/ ReplayEvent(e)
  \/ \E r \in Rows : ReplayDelivery(r)
  \/ \E i \in Events \cup Rows : AskReplay(i) \/ FallsDue(i)
  \/ \E p \in Endpoints : Deactivate(p)
  \/ \E w \in Workers :
       \/ job[w] # Idle /\ Proceed(w, job[w])
       \/ Crash(w)
       \/ \E e \in Events : ReadEvent(w, e)
       \/ \E r \in Rows : ReadDelivery(w, r)

\* A worker goes on with what it has in hand, clocks advance, and every tick
\* reads every due item (oldest first): one that keeps being due is read.
Fairness ==
  /\ \A w \in Workers : WF_vars(job[w] # Idle /\ Proceed(w, job[w]))
  /\ \A i \in Events \cup Rows : WF_vars(FallsDue(i))
  /\ \A e \in Events : SF_vars(\E w \in Workers : ReadEvent(w, e))
  /\ \A r \in Rows : SF_vars(\E w \in Workers : ReadDelivery(w, r))

Spec == Init /\ [][Next]_vars /\ Fairness
-----------------------------------------------------------------------------
(* Fan-out is complete, crashes, repeated dispatches and stale replays     *)
(* included: a DISPATCHED event has a delivery for every active endpoint,  *)
(* and only one unless a dispatcher outlived its lease or was overtaken by *)
(* a replay (dispatchOutbox looks before it creates, without a unique      *)
(* key).                                                                   *)
FanOutIsExact ==
  \A e \in Events, p \in Endpoints :
    /\ event[e] = "DISPATCHED" /\ p \in active => RowsFor(e, p) # {}
    /\ e \notin disturbed =>
         \A w1, w2 \in RowsFor(e, p) : w1 = w2

(* DELIVERED tells the truth and is final: no worker that read the row     *)
(* earlier takes it again, and no replay of it is accepted.  Unless two    *)
(* workers had it in hand, only a replay whose request had read the row    *)
(* before it was delivered takes it back (replayWebhookDelivery).          *)
DeliveredIsFinal ==
  [][\A r \in Rows : delivery[r] = "DELIVERED" =>
       /\ r \in received /\ replaying'[r] <= replaying[r]
       /\ r \notin disturbed /\ delivery'[r] # "DELIVERED" => replaying'[r] < replaying[r]]_vars

(* Every outbox event ends: FAILED for an operator to see, or dispatched   *)
(* with every delivery accepted, FAILED or cancelled.                      *)
EventsSettle ==
  \A e \in Events : event[e] = "PENDING" ~>
    \/ event[e] = "FAILED"
    \/ /\ event[e] = "DISPATCHED"
       /\ \A p \in Endpoints : \A w \in RowsFor(e, p) : delivery[<<e, p, w>>] \in Settled
=============================================================================
