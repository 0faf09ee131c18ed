------------------------- MODULE EventDelivery_proofs -------------------------
(***************************************************************************)
(* Fan-out is exact and DELIVERED final, for any events, endpoints and     *)
(* workers.  The argument is the lease: while it lasts and no replay       *)
(* writes over it, the item is PROCESSING and not ready, so that no second *)
(* claim succeeds, and the look before each creation cannot be overtaken.  *)
(***************************************************************************)
EXTENDS EventDelivery, TLAPS

Lease(i, working) ==
  i \notin disturbed =>
    /\ \A w \in Workers : Holds(w, i) => working /\ i \notin ready
    /\ \A w1, w2 \in Workers : Holds(w1, i) /\ Holds(w2, i) => w1 = w2

\* Only a claimed item is held, and by one worker.
EventLease == \A e \in Events : Lease(e, event[e] = "PROCESSING")
DeliveryLease == \A r \in Rows : Lease(r, delivery[r] = "PROCESSING")

Dispatches(w, e) ==
  job[w] # Idle /\ job[w].item = e /\ job[w].at \in {"fanout", "create"}

Creates(w, e, p) ==
  job[w] # Idle /\ job[w].item = e /\ job[w].at = "create" /\ job[w].next = p

\* A dispatcher that has visited an active endpoint left a row there.
VisitedHaveRows ==
  \A w \in Workers, e \in Events, p \in active :
    Dispatches(w, e) /\ p \notin job[w].todo /\ ~Creates(w, e, p) => RowsFor(e, p) # {}

\* What the look before the creation established still holds.
StillAbsent ==
  \A w \in Workers, e \in Events, p \in Endpoints :
    Creates(w, e, p) =>
      /\ delivery[<<e, p, w>>] = "NONE"
      /\ e \notin disturbed => RowsFor(e, p) = {}

\* Every delivery in the hands of a worker or an operator exists.
HandledExists ==
  /\ \A w \in Workers : job[w] # Idle /\ job[w].item \in Rows => delivery[job[w].item] # "NONE"
  /\ \A r \in Rows : replaying[r] > 0 => delivery[r] # "NONE"

\* What is about to be acknowledged, or was, has been received.
AnsweredWasReceived ==
  /\ \A w \in Workers : job[w] # Idle /\ job[w].at = "ack" => job[w].item \in received
  /\ \A r \in Rows : delivery[r] = "DELIVERED" => r \in received

IInv ==
  /\ TypeOK /\ EventLease /\ DeliveryLease /\ VisitedHaveRows /\ StillAbsent
  /\ HandledExists /\ AnsweredWasReceived /\ FanOutIsExact

(* Only the rows that exist matter to the fan-out, not their status.       *)
LEMMA RowsKept ==
  ASSUME \A r \in Rows : delivery'[r] = "NONE" <=> delivery[r] = "NONE"
  PROVE  \A e \in Events, p \in Endpoints : RowsFor(e, p)' = RowsFor(e, p)
BY DEF RowsFor, Rows

(* The inductive invariant holds when nothing was published yet.           *)
LEMMA InitIInv == Init => IInv
<1> SUFFICES ASSUME Init PROVE IInv
  OBVIOUS
<1> USE EventDeliveryAssumption DEF Init
<1>1. TypeOK
  BY DEF TypeOK, Dispatchable, Sendable, Settled
<1>2. EventLease /\ DeliveryLease
  BY DEF EventLease, DeliveryLease, Lease, Holds
<1>3. VisitedHaveRows /\ StillAbsent
  BY DEF VisitedHaveRows, StillAbsent, Dispatches, Creates
<1>4. HandledExists /\ AnsweredWasReceived
  BY DEF HandledExists, AnsweredWasReceived
<1>5. FanOutIsExact
  BY DEF FanOutIsExact, RowsFor, Rows
<1> QED BY <1>1, <1>2, <1>3, <1>4, <1>5 DEF IInv

LEMMA StepIInv == IInv /\ [Next]_vars => IInv'
<1> SUFFICES ASSUME IInv, [Next]_vars PROVE IInv'
  OBVIOUS
<1> USE EventDeliveryAssumption DEF IInv, items, luck, Dispatchable, Sendable, Settled
<1>1. ASSUME NEW e \in Events, Publish(e) PROVE IInv'
  <2> USE <1>1 DEF Publish
  <2>1. \A q \in Rows : delivery'[q] = "NONE" <=> delivery[q] = "NONE"
    BY DEF TypeOK, Jobs, HandledExists
  <2>2. \A f \in Events, q \in Endpoints : RowsFor(f, q)' = RowsFor(f, q)
    BY <2>1, RowsKept
  <2>3. TypeOK'
    BY DEF TypeOK, Jobs
  <2>4. EventLease'
    BY DEF TypeOK, Jobs, EventLease, Lease, Holds
  <2>5. DeliveryLease'
    BY DEF TypeOK, Jobs, DeliveryLease, Lease, Holds
  <2>6. VisitedHaveRows'
    BY <2>2 DEF TypeOK, Jobs, VisitedHaveRows, Dispatches, Creates
  <2>7. StillAbsent'
    BY <2>1, <2>2 DEF TypeOK, Jobs, StillAbsent, Creates, Rows
  <2>8. HandledExists'
    BY <2>1 DEF TypeOK, Jobs, HandledExists
  <2>9. AnsweredWasReceived'
    BY DEF TypeOK, Jobs, AnsweredWasReceived
  <2>10. FanOutIsExact'
    BY <2>2 DEF TypeOK, FanOutIsExact
  <2> QED BY <2>3, <2>4, <2>5, <2>6, <2>7, <2>8, <2>9, <2>10
<1>2. ASSUME NEW w \in Workers, NEW e \in Events, ReadEvent(w, e) PROVE IInv'
  <2> USE <1>2 DEF ReadEvent, Becomes
  <2>1. \A q \in Rows : delivery'[q] = "NONE" <=> delivery[q] = "NONE"
    BY DEF TypeOK, Jobs, HandledExists
  <2>2. \A f \in Events, q \in Endpoints : RowsFor(f, q)' = RowsFor(f, q)
    BY <2>1, RowsKept
  <2>3. TypeOK'
    BY DEF TypeOK, Jobs
  <2>4. EventLease'
    BY DEF TypeOK, Jobs, EventLease, Lease, Holds
  <2>5. DeliveryLease'
    BY DEF TypeOK, Jobs, DeliveryLease, Lease, Holds
  <2>6. VisitedHaveRows'
    BY <2>2 DEF TypeOK, Jobs, VisitedHaveRows, Dispatches, Creates
  <2>7. StillAbsent'
    BY <2>1, <2>2 DEF TypeOK, Jobs, StillAbsent, Creates, Rows
  <2>8. HandledExists'
    BY <2>1 DEF TypeOK, Jobs, HandledExists
  <2>9. AnsweredWasReceived'
    BY DEF TypeOK, Jobs, AnsweredWasReceived
  <2>10. FanOutIsExact'
    BY <2>2 DEF TypeOK, FanOutIsExact
  <2> QED BY <2>3, <2>4, <2>5, <2>6, <2>7, <2>8, <2>9, <2>10
<1>3. ASSUME NEW w \in Workers, NEW j, j = job[w], j # Idle, ClaimEvent(w, j) PROVE IInv'
  <2> USE <1>3 DEF ClaimEvent, Becomes, FanOut
  <2>1. \A q \in Rows : delivery'[q] = "NONE" <=> delivery[q] = "NONE"
    BY DEF TypeOK, Jobs, HandledExists
  <2>2. \A f \in Events, q \in Endpoints : RowsFor(f, q)' = RowsFor(f, q)
    BY <2>1, RowsKept
  <2>3. TypeOK'
    BY DEF TypeOK, Jobs
  <2>4. EventLease'
    BY DEF TypeOK, Jobs, EventLease, Lease, Holds
  <2>5. DeliveryLease'
    BY DEF TypeOK, Jobs, DeliveryLease, Lease, Holds
  <2>6. VisitedHaveRows'
    BY <2>2 DEF TypeOK, Jobs, VisitedHaveRows, Dispatches, Creates
  <2>7. StillAbsent'
    <3>1. \A v \in Workers, f \in Events, q \in Endpoints : Creates(v, f, q)' => Creates(v, f, q)
      BY DEF TypeOK, Creates
    <3> QED BY <2>1, <2>2, <3>1 DEF StillAbsent, Rows
  <2>8. HandledExists'
    BY <2>1 DEF TypeOK, Jobs, HandledExists
  <2>9. AnsweredWasReceived'
    BY DEF TypeOK, Jobs, AnsweredWasReceived
  <2>10. FanOutIsExact'
    BY <2>2 DEF TypeOK, FanOutIsExact
  <2> QED BY <2>3, <2>4, <2>5, <2>6, <2>7, <2>8, <2>9, <2>10
<1>4. ASSUME NEW w \in Workers, NEW j, j = job[w], j # Idle, NEW p \in Endpoints, FindDelivery(w, j, p) PROVE IInv'
  <2> USE <1>4 DEF FindDelivery, Becomes, FanOut
  <2>1. \A q \in Rows : delivery'[q] = "NONE" <=> delivery[q] = "NONE"
    BY DEF TypeOK, Jobs, HandledExists
  <2>2. \A f \in Events, q \in Endpoints : RowsFor(f, q)' = RowsFor(f, q)
    BY <2>1, RowsKept
  <2>3. TypeOK'
    BY DEF TypeOK, Jobs
  <2>4. EventLease'
    BY DEF TypeOK, Jobs, EventLease, Lease, Holds
  <2>5. DeliveryLease'
    BY DEF TypeOK, Jobs, DeliveryLease, Lease, Holds
  <2>6. VisitedHaveRows'
    BY <2>2 DEF TypeOK, Jobs, VisitedHaveRows, Dispatches, Creates
  <2>7. StillAbsent'
    <3>1. \A v \in Workers, f \in Events, q \in Endpoints :
            Creates(v, f, q)' => Creates(v, f, q) \/ (v = w /\ f = j.item /\ q = p /\ RowsFor(f, q) = {})
      BY DEF TypeOK, Creates
    <3>2. \A f \in Events, q \in Endpoints : RowsFor(f, q) = {} => delivery[<<f, q, w>>] = "NONE"
      BY DEF RowsFor
    <3> QED BY <2>1, <2>2, <3>1, <3>2 DEF StillAbsent, Rows
  <2>8. HandledExists'
    BY <2>1 DEF TypeOK, Jobs, HandledExists
  <2>9. AnsweredWasReceived'
    BY DEF TypeOK, Jobs, AnsweredWasReceived
  <2>10. FanOutIsExact'
    BY <2>2 DEF TypeOK, FanOutIsExact
  <2> QED BY <2>3, <2>4, <2>5, <2>6, <2>7, <2>8, <2>9, <2>10
<1>5. ASSUME NEW w \in Workers, NEW j, j = job[w], j # Idle, CreateDelivery(w, j) PROVE IInv'
  <2> USE <1>5 DEF CreateDelivery, Becomes, FanOut
  <2>1. j.item \in Events /\ j.next \in Endpoints /\ <<j.item, j.next, w>> \in Rows
    BY DEF TypeOK, Jobs, Rows
  <2>2. PICK r \in Rows : r = <<j.item, j.next, w>>
    BY <2>1
  <2>3. /\ delivery' = [delivery EXCEPT ![r] = "PENDING"] /\ ready' = ready \cup {r}
        /\ job' = [job EXCEPT ![w] = [at |-> "fanout", item |-> j.item, seen |-> j.seen, todo |-> j.todo]]
        /\ UNCHANGED <<event, tries, attempts, active, received, replaying, mishaps, disturbed>>
        /\ j.at = "create"
    BY <2>2
  <2>4. \A e \in Events, p \in Endpoints :
          RowsFor(e, p)' = IF e = j.item /\ p = j.next THEN RowsFor(e, p) \cup {w} ELSE RowsFor(e, p)
    BY <2>1, <2>2, <2>3 DEF RowsFor, TypeOK, Rows
  <2>5. delivery[r] = "NONE"
    BY <2>1, <2>2, <2>3 DEF StillAbsent, Creates
  <2> HIDE DEF CreateDelivery, Becomes, FanOut
  <2>6. TypeOK'
    BY <2>1, <2>3 DEF TypeOK, Jobs
  <2>7. EventLease'
    BY <2>1, <2>3 DEF TypeOK, EventLease, Lease, Holds
  <2>8. DeliveryLease'
    BY <2>1, <2>3, <2>5 DEF TypeOK, DeliveryLease, Lease, Holds
  <2>9. VisitedHaveRows'
    <3>1. \A v \in Workers, f \in Events : Dispatches(v, f)' => Dispatches(v, f)
      BY <2>3 DEF TypeOK, Dispatches
    <3>2. \A v \in Workers, f \in Events, q \in Endpoints :
            Creates(v, f, q) => Creates(v, f, q)' \/ (v = w /\ f = j.item /\ q = j.next)
      BY <2>3 DEF TypeOK, Creates
    <3>3. \A v \in Workers : job[v] # Idle /\ job'[v] # Idle => job'[v].todo = job[v].todo
      BY <2>3 DEF TypeOK
    <3>4. active \subseteq Endpoints /\ active' = active
      BY <2>3 DEF TypeOK
    <3> HIDE <1>5
    <3> QED BY <2>1, <2>4, <3>1, <3>2, <3>3, <3>4 DEF VisitedHaveRows, Dispatches
  <2>10. StillAbsent'
    <3>1. \A v \in Workers, f \in Events, q \in Endpoints :
            Creates(v, f, q)' => Creates(v, f, q) /\ v # w
      BY <2>3 DEF TypeOK, Creates
    <3>2. \A v \in Workers, f \in Events, q \in Endpoints :
            Creates(v, f, q) /\ v # w /\ f = j.item => f \in disturbed
      BY <2>3 DEF EventLease, Lease, Holds, Creates
    <3>3. \A v \in Workers, f \in Events, q \in Endpoints :
            v # w => delivery'[<<f, q, v>>] = delivery[<<f, q, v>>]
      BY <2>2, <2>3 DEF TypeOK, Rows
    <3>4. disturbed' = disturbed
      BY <2>3
    <3> HIDE <1>5
    <3> QED BY <2>1, <2>4, <3>1, <3>2, <3>3, <3>4 DEF StillAbsent
  <2>11. HandledExists'
    BY <2>1, <2>3 DEF TypeOK, HandledExists
  <2>12. AnsweredWasReceived'
    BY <2>1, <2>3 DEF TypeOK, AnsweredWasReceived
  <2>13. FanOutIsExact'
    <3>1. event' = event /\ active' = active /\ disturbed' = disturbed
      BY <2>3
    <3>2. ASSUME NEW e \in Events, NEW p \in Endpoints
          PROVE  /\ event[e] = "DISPATCHED" /\ p \in active => RowsFor(e, p)' # {}
                 /\ e \notin disturbed => \A w1, w2 \in RowsFor(e, p)' : w1 = w2
      <4>1. CASE e = j.item /\ p = j.next
        <5>1. RowsFor(e, p)' = RowsFor(e, p) \cup {w}
          BY <2>4, <4>1
        <5>2. Creates(w, e, p)
          BY <1>5, <2>3, <4>1 DEF Creates
        <5>3. e \notin disturbed => RowsFor(e, p) = {}
          BY <5>2 DEF StillAbsent
        <5> QED BY <5>1, <5>3
      <4>2. CASE ~(e = j.item /\ p = j.next)
        <5>1. RowsFor(e, p)' = RowsFor(e, p)
          BY <2>4, <4>2
        <5> QED BY <5>1 DEF FanOutIsExact
      <4> QED BY <4>1, <4>2
    <3> HIDE <1>5
    <3> QED BY <3>1, <3>2 DEF FanOutIsExact
  <2> QED BY <2>6, <2>7, <2>8, <2>9, <2>10, <2>11, <2>12, <2>13
<1>6. ASSUME NEW w \in Workers, NEW j, j = job[w], j # Idle, Dispatched(w, j) PROVE IInv'
  <2> USE <1>6 DEF Dispatched, Becomes
  <2>1. \A q \in Rows : delivery'[q] = "NONE" <=> delivery[q] = "NONE"
    BY DEF TypeOK, Jobs, HandledExists
  <2>2. \A f \in Events, q \in Endpoints : RowsFor(f, q)' = RowsFor(f, q)
    BY <2>1, RowsKept
  <2>3. TypeOK'
    BY DEF TypeOK, Jobs
  <2>4. EventLease'
    BY DEF TypeOK, Jobs, EventLease, Lease, Holds
  <2>5. DeliveryLease'
    BY DEF TypeOK, Jobs, DeliveryLease, Lease, Holds
  <2>6. VisitedHaveRows'
    BY <2>2 DEF TypeOK, Jobs, VisitedHaveRows, Dispatches, Creates
  <2>7. StillAbsent'
    BY <2>1, <2>2 DEF TypeOK, Jobs, StillAbsent, Creates, Rows
  <2>8. HandledExists'
    BY <2>1 DEF TypeOK, Jobs, HandledExists
  <2>9. AnsweredWasReceived'
    BY DEF TypeOK, Jobs, AnsweredWasReceived
  <2>10. FanOutIsExact'
    BY <2>2 DEF TypeOK, FanOutIsExact, Jobs, VisitedHaveRows, Dispatches, Creates
  <2> QED BY <2>3, <2>4, <2>5, <2>6, <2>7, <2>8, <2>9, <2>10
<1>7. ASSUME NEW w \in Workers, NEW j, j = job[w], j # Idle, DispatchFails(w, j) PROVE IInv'
  <2> USE <1>7 DEF DispatchFails, Becomes
  <2>1. \A q \in Rows : delivery'[q] = "NONE" <=> delivery[q] = "NONE"
    BY DEF TypeOK, Jobs, HandledExists
  <2>2. \A f \in Events, q \in Endpoints : RowsFor(f, q)' = RowsFor(f, q)
    BY <2>1, RowsKept
  <2>3. TypeOK'
    BY DEF TypeOK, Jobs
  <2>4. EventLease'
    BY DEF TypeOK, Jobs, EventLease, Lease, Holds
  <2>5. DeliveryLease'
    BY DEF TypeOK, Jobs, DeliveryLease, Lease, Holds
  <2>6. VisitedHaveRows'
    BY <2>2 DEF TypeOK, Jobs, VisitedHaveRows, Dispatches, Creates
  <2>7. StillAbsent'
    BY <2>1, <2>2 DEF TypeOK, Jobs, StillAbsent, Creates, Rows
  <2>8. HandledExists'
    BY <2>1 DEF TypeOK, Jobs, HandledExists
  <2>9. AnsweredWasReceived'
    BY DEF TypeOK, Jobs, AnsweredWasReceived
  <2>10. FanOutIsExact'
    BY <2>2 DEF TypeOK, FanOutIsExact
  <2> QED BY <2>3, <2>4, <2>5, <2>6, <2>7, <2>8, <2>9, <2>10
<1>8. ASSUME NEW w \in Workers, NEW r \in Rows, ReadDelivery(w, r) PROVE IInv'
  <2> USE <1>8 DEF ReadDelivery, Becomes
  <2>1. \A q \in Rows : delivery'[q] = "NONE" <=> delivery[q] = "NONE"
    BY DEF TypeOK, Jobs, HandledExists
  <2>2. \A f \in Events, q \in Endpoints : RowsFor(f, q)' = RowsFor(f, q)
    BY <2>1, RowsKept
  <2>3. TypeOK'
    BY DEF TypeOK, Jobs
  <2>4. EventLease'
    BY DEF TypeOK, Jobs, EventLease, Lease, Holds
  <2>5. DeliveryLease'
    BY DEF TypeOK, Jobs, DeliveryLease, Lease, Holds
  <2>6. VisitedHaveRows'
    BY <2>2 DEF TypeOK, Jobs, VisitedHaveRows, Dispatches, Creates
  <2>7. StillAbsent'
    BY <2>1, <2>2 DEF TypeOK, Jobs, StillAbsent, Creates, Rows
  <2>8. HandledExists'
    BY <2>1 DEF TypeOK, Jobs, HandledExists
  <2>9. AnsweredWasReceived'
    BY DEF TypeOK, Jobs, AnsweredWasReceived
  <2>10. FanOutIsExact'
    BY <2>2 DEF TypeOK, FanOutIsExact
  <2> QED BY <2>3, <2>4, <2>5, <2>6, <2>7, <2>8, <2>9, <2>10
<1>9. ASSUME NEW w \in Workers, NEW j, j = job[w], j # Idle, ClaimDelivery(w, j) PROVE IInv'
  <2> USE <1>9 DEF ClaimDelivery, Becomes, Sending
  <2>1. \A q \in Rows : delivery'[q] = "NONE" <=> delivery[q] = "NONE"
    BY DEF TypeOK, Jobs, HandledExists
  <2>2. \A f \in Events, q \in Endpoints : RowsFor(f, q)' = RowsFor(f, q)
    BY <2>1, RowsKept
  <2>3. TypeOK'
    BY DEF TypeOK, Jobs
  <2>4. EventLease'
    BY DEF TypeOK, Jobs, EventLease, Lease, Holds
  <2>5. DeliveryLease'
    BY DEF TypeOK, Jobs, DeliveryLease, Lease, Holds
  <2>6. VisitedHaveRows'
    BY <2>2 DEF TypeOK, Jobs, VisitedHaveRows, Dispatches, Creates
  <2>7. StillAbsent'
    BY <2>1, <2>2 DEF TypeOK, Jobs, StillAbsent, Creates, Rows
  <2>8. HandledExists'
    BY <2>1 DEF TypeOK, Jobs, HandledExists
  <2>9. AnsweredWasReceived'
    BY DEF TypeOK, Jobs, AnsweredWasReceived
  <2>10. FanOutIsExact'
    BY <2>2 DEF TypeOK, FanOutIsExact
  <2> QED BY <2>3, <2>4, <2>5, <2>6, <2>7, <2>8, <2>9, <2>10
<1>10. ASSUME NEW w \in Workers, NEW j, j = job[w], j # Idle, CancelDelivery(w, j) PROVE IInv'
  <2> USE <1>10 DEF CancelDelivery, Becomes
  <2>1. \A q \in Rows : delivery'[q] = "NONE" <=> delivery[q] = "NONE"
    BY DEF TypeOK, Jobs, HandledExists
  <2>2. \A f \in Events, q \in Endpoints : RowsFor(f, q)' = RowsFor(f, q)
    BY <2>1, RowsKept
  <2>3. TypeOK'
    BY DEF TypeOK, Jobs
  <2>4. EventLease'
    BY DEF TypeOK, Jobs, EventLease, Lease, Holds
  <2>5. DeliveryLease'
    BY DEF TypeOK, Jobs, DeliveryLease, Lease, Holds
  <2>6. VisitedHaveRows'
    BY <2>2 DEF TypeOK, Jobs, VisitedHaveRows, Dispatches, Creates
  <2>7. StillAbsent'
    BY <2>1, <2>2 DEF TypeOK, Jobs, StillAbsent, Creates, Rows
  <2>8. HandledExists'
    BY <2>1 DEF TypeOK, Jobs, HandledExists
  <2>9. AnsweredWasReceived'
    BY DEF TypeOK, Jobs, AnsweredWasReceived
  <2>10. FanOutIsExact'
    BY <2>2 DEF TypeOK, FanOutIsExact
  <2> QED BY <2>3, <2>4, <2>5, <2>6, <2>7, <2>8, <2>9, <2>10
<1>11. ASSUME NEW w \in Workers, NEW j, j = job[w], j # Idle, NEW accepted \in BOOLEAN, NEW answered \in BOOLEAN, Post(w, j, accepted, answered) PROVE IInv'
  <2> USE <1>11 DEF Post, Becomes, Sending
  <2>1. \A q \in Rows : delivery'[q] = "NONE" <=> delivery[q] = "NONE"
    BY DEF TypeOK, Jobs, HandledExists
  <2>2. \A f \in Events, q \in Endpoints : RowsFor(f, q)' = RowsFor(f, q)
    BY <2>1, RowsKept
  <2>3. TypeOK'
    BY DEF TypeOK, Jobs
  <2>4. EventLease'
    BY DEF TypeOK, Jobs, EventLease, Lease, Holds
  <2>5. DeliveryLease'
    BY DEF TypeOK, Jobs, DeliveryLease, Lease, Holds
  <2>6. VisitedHaveRows'
    BY <2>2 DEF TypeOK, Jobs, VisitedHaveRows, Dispatches, Creates
  <2>7. StillAbsent'
    BY <2>1, <2>2 DEF TypeOK, Jobs, StillAbsent, Creates, Rows
  <2>8. HandledExists'
    BY <2>1 DEF TypeOK, Jobs, HandledExists
  <2>9. AnsweredWasReceived'
    BY DEF TypeOK, Jobs, AnsweredWasReceived
  <2>10. FanOutIsExact'
    BY <2>2 DEF TypeOK, FanOutIsExact
  <2> QED BY <2>3, <2>4, <2>5, <2>6, <2>7, <2>8, <2>9, <2>10
<1>12. ASSUME NEW w \in Workers, NEW j, j = job[w], j # Idle, Acknowledge(w, j) PROVE IInv'
  <2> USE <1>12 DEF Acknowledge, Becomes
  <2>1. \A q \in Rows : delivery'[q] = "NONE" <=> delivery[q] = "NONE"
    BY DEF TypeOK, Jobs, HandledExists
  <2>2. \A f \in Events, q \in Endpoints : RowsFor(f, q)' = RowsFor(f, q)
    BY <2>1, RowsKept
  <2>3. TypeOK'
    BY DEF TypeOK, Jobs
  <2>4. EventLease'
    BY DEF TypeOK, Jobs, EventLease, Lease, Holds
  <2>5. DeliveryLease'
    BY DEF TypeOK, Jobs, DeliveryLease, Lease, Holds
  <2>6. VisitedHaveRows'
    BY <2>2 DEF TypeOK, Jobs, VisitedHaveRows, Dispatches, Creates
  <2>7. StillAbsent'
    BY <2>1, <2>2 DEF TypeOK, Jobs, StillAbsent, Creates, Rows
  <2>8. HandledExists'
    BY <2>1 DEF TypeOK, Jobs, HandledExists
  <2>9. AnsweredWasReceived'
    BY DEF TypeOK, Jobs, AnsweredWasReceived
  <2>10. FanOutIsExact'
    BY <2>2 DEF TypeOK, FanOutIsExact
  <2> QED BY <2>3, <2>4, <2>5, <2>6, <2>7, <2>8, <2>9, <2>10
<1>13. ASSUME NEW w \in Workers, NEW j, j = job[w], j # Idle, Retry(w, j) PROVE IInv'
  <2> USE <1>13 DEF Retry, Becomes
  <2>1. \A q \in Rows : delivery'[q] = "NONE" <=> delivery[q] = "NONE"
    BY DEF TypeOK, Jobs, HandledExists
  <2>2. \A f \in Events, q \in Endpoints : RowsFor(f, q)' = RowsFor(f, q)
    BY <2>1, RowsKept
  <2>3. TypeOK'
    BY DEF TypeOK, Jobs
  <2>4. EventLease'
    BY DEF TypeOK, Jobs, EventLease, Lease, Holds
  <2>5. DeliveryLease'
    BY DEF TypeOK, Jobs, DeliveryLease, Lease, Holds
  <2>6. VisitedHaveRows'
    BY <2>2 DEF TypeOK, Jobs, VisitedHaveRows, Dispatches, Creates
  <2>7. StillAbsent'
    BY <2>1, <2>2 DEF TypeOK, Jobs, StillAbsent, Creates, Rows
  <2>8. HandledExists'
    BY <2>1 DEF TypeOK, Jobs, HandledExists
  <2>9. AnsweredWasReceived'
    BY DEF TypeOK, Jobs, AnsweredWasReceived
  <2>10. FanOutIsExact'
    BY <2>2 DEF TypeOK, FanOutIsExact
  <2> QED BY <2>3, <2>4, <2>5, <2>6, <2>7, <2>8, <2>9, <2>10
<1>14. ASSUME NEW i \in Events \cup Rows, FallsDue(i) PROVE IInv'
  <2> USE <1>14 DEF FallsDue, Mishap, Held
  <2>1. \A q \in Rows : delivery'[q] = "NONE" <=> delivery[q] = "NONE"
    BY DEF TypeOK, Jobs, HandledExists
  <2>2. \A f \in Events, q \in Endpoints : RowsFor(f, q)' = RowsFor(f, q)
    BY <2>1, RowsKept
  <2>3. TypeOK'
    BY DEF TypeOK, Jobs
  <2>4. EventLease'
    BY DEF TypeOK, Jobs, EventLease, Lease, Holds
  <2>5. DeliveryLease'
    BY DEF TypeOK, Jobs, DeliveryLease, Lease, Holds
  <2>6. VisitedHaveRows'
    BY <2>2 DEF TypeOK, Jobs, VisitedHaveRows, Dispatches, Creates
  <2>7. StillAbsent'
    BY <2>1, <2>2 DEF TypeOK, Jobs, StillAbsent, Creates, Rows
  <2>8. HandledExists'
    BY <2>1 DEF TypeOK, Jobs, HandledExists
  <2>9. AnsweredWasReceived'
    BY DEF TypeOK, Jobs, AnsweredWasReceived
  <2>10. FanOutIsExact'
    BY <2>2 DEF TypeOK, FanOutIsExact
  <2> QED BY <2>3, <2>4, <2>5, <2>6, <2>7, <2>8, <2>9, <2>10
<1>15. ASSUME NEW w \in Workers, Crash(w) PROVE IInv'
  <2> USE <1>15 DEF Crash, Becomes, Mishap
  <2>1. \A q \in Rows : delivery'[q] = "NONE" <=> delivery[q] = "NONE"
    BY DEF TypeOK, Jobs, HandledExists
  <2>2. \A f \in Events, q \in Endpoints : RowsFor(f, q)' = RowsFor(f, q)
    BY <2>1, RowsKept
  <2>3. TypeOK'
    BY DEF TypeOK, Jobs
  <2>4. EventLease'
    BY DEF TypeOK, Jobs, EventLease, Lease, Holds
  <2>5. DeliveryLease'
    BY DEF TypeOK, Jobs, DeliveryLease, Lease, Holds
  <2>6. VisitedHaveRows'
    BY <2>2 DEF TypeOK, Jobs, VisitedHaveRows, Dispatches, Creates
  <2>7. StillAbsent'
    BY <2>1, <2>2 DEF TypeOK, Jobs, StillAbsent, Creates, Rows
  <2>8. HandledExists'
    BY <2>1 DEF TypeOK, Jobs, HandledExists
  <2>9. AnsweredWasReceived'
    BY DEF TypeOK, Jobs, AnsweredWasReceived
  <2>10. FanOutIsExact'
    BY <2>2 DEF TypeOK, FanOutIsExact
  <2> QED BY <2>3, <2>4, <2>5, <2>6, <2>7, <2>8, <2>9, <2>10
<1>16. ASSUME NEW e \in Events, ReplayEvent(e) PROVE IInv'
  <2> USE <1>16 DEF ReplayEvent, Replay, Held
  <2>1. \A q \in Rows : delivery'[q] = "NONE" <=> delivery[q] = "NONE"
    BY DEF TypeOK, Jobs, HandledExists
  <2>2. \A f \in Events, q \in Endpoints : RowsFor(f, q)' = RowsFor(f, q)
    BY <2>1, RowsKept
  <2>3. TypeOK'
    BY DEF TypeOK, Jobs
  <2>4. EventLease'
    BY DEF TypeOK, Jobs, EventLease, Lease, Holds
  <2>5. DeliveryLease'
    BY DEF TypeOK, Jobs, DeliveryLease, Lease, Holds
  <2>6. VisitedHaveRows'
    BY <2>2 DEF TypeOK, Jobs, VisitedHaveRows, Dispatches, Creates
  <2>7. StillAbsent'
    BY <2>1, <2>2 DEF TypeOK, Jobs, StillAbsent, Creates, Rows
  <2>8. HandledExists'
    BY <2>1 DEF TypeOK, Jobs, HandledExists
  <2>9. AnsweredWasReceived'
    BY DEF TypeOK, Jobs, AnsweredWasReceived
  <2>10. FanOutIsExact'
    BY <2>2 DEF TypeOK, FanOutIsExact
  <2> QED BY <2>3, <2>4, <2>5, <2>6, <2>7, <2>8, <2>9, <2>10
<1>17. ASSUME NEW r \in Rows, ReplayDelivery(r) PROVE IInv'
  <2> USE <1>17 DEF ReplayDelivery, Replay, Held
  <2>1. \A q \in Rows : delivery'[q] = "NONE" <=> delivery[q] = "NONE"
    BY DEF TypeOK, Jobs, HandledExists
  <2>2. \A f \in Events, q \in Endpoints : RowsFor(f, q)' = RowsFor(f, q)
    BY <2>1, RowsKept
  <2>3. TypeOK'
    BY DEF TypeOK, Jobs
  <2>4. EventLease'
    BY DEF TypeOK, Jobs, EventLease, Lease, Holds
  <2>5. DeliveryLease'
    BY DEF TypeOK, Jobs, DeliveryLease, Lease, Holds
  <2>6. VisitedHaveRows'
    BY <2>2 DEF TypeOK, Jobs, VisitedHaveRows, Dispatches, Creates
  <2>7. StillAbsent'
    BY <2>1, <2>2 DEF TypeOK, Jobs, StillAbsent, Creates, Rows
  <2>8. HandledExists'
    BY <2>1 DEF TypeOK, Jobs, HandledExists
  <2>9. AnsweredWasReceived'
    BY DEF TypeOK, Jobs, AnsweredWasReceived
  <2>10. FanOutIsExact'
    BY <2>2 DEF TypeOK, FanOutIsExact
  <2> QED BY <2>3, <2>4, <2>5, <2>6, <2>7, <2>8, <2>9, <2>10
<1>18. ASSUME NEW p \in Endpoints, Deactivate(p) PROVE IInv'
  <2> USE <1>18 DEF Deactivate, Mishap
  <2>1. \A q \in Rows : delivery'[q] = "NONE" <=> delivery[q] = "NONE"
    BY DEF TypeOK, Jobs, HandledExists
  <2>2. \A f \in Events, q \in Endpoints : RowsFor(f, q)' = RowsFor(f, q)
    BY <2>1, RowsKept
  <2>3. TypeOK'
    BY DEF TypeOK, Jobs
  <2>4. EventLease'
    BY DEF TypeOK, Jobs, EventLease, Lease, Holds
  <2>5. DeliveryLease'
    BY DEF TypeOK, Jobs, DeliveryLease, Lease, Holds
  <2>6. VisitedHaveRows'
    BY <2>2 DEF TypeOK, Jobs, VisitedHaveRows, Dispatches, Creates
  <2>7. StillAbsent'
    BY <2>1, <2>2 DEF TypeOK, Jobs, StillAbsent, Creates, Rows
  <2>8. HandledExists'
    BY <2>1 DEF TypeOK, Jobs, HandledExists
  <2>9. AnsweredWasReceived'
    BY DEF TypeOK, Jobs, AnsweredWasReceived
  <2>10. FanOutIsExact'
    BY <2>2 DEF TypeOK, FanOutIsExact
  <2> QED BY <2>3, <2>4, <2>5, <2>6, <2>7, <2>8, <2>9, <2>10
<1>19. ASSUME NEW i \in Events \cup Rows, AskReplay(i) PROVE IInv'
  <2> USE <1>19 DEF AskReplay, Replayable, Mishap
  <2>1. \A q \in Rows : delivery'[q] = "NONE" <=> delivery[q] = "NONE"
    BY DEF TypeOK, Jobs, HandledExists
  <2>2. \A f \in Events, q \in Endpoints : RowsFor(f, q)' = RowsFor(f, q)
    BY <2>1, RowsKept
  <2>3. TypeOK'
    BY DEF TypeOK, Jobs
  <2>4. EventLease'
    BY DEF TypeOK, Jobs, EventLease, Lease, Holds
  <2>5. DeliveryLease'
    BY DEF TypeOK, Jobs, DeliveryLease, Lease, Holds
  <2>6. VisitedHaveRows'
    BY <2>2 DEF TypeOK, Jobs, VisitedHaveRows, Dispatches, Creates
  <2>7. StillAbsent'
    BY <2>1, <2>2 DEF TypeOK, Jobs, StillAbsent, Creates, Rows
  <2>8. HandledExists'
    BY <2>1 DEF TypeOK, Jobs, HandledExists
  <2>9. AnsweredWasReceived'
    BY DEF TypeOK, Jobs, AnsweredWasReceived
  <2>10. FanOutIsExact'
    BY <2>2 DEF TypeOK, FanOutIsExact
  <2> QED BY <2>3, <2>4, <2>5, <2>6, <2>7, <2>8, <2>9, <2>10
<1>20. CASE UNCHANGED vars
  <2> USE <1>20 DEF vars
  <2>1. \A q \in Rows : delivery'[q] = "NONE" <=> delivery[q] = "NONE"
    BY DEF TypeOK, Jobs, HandledExists
  <2>2. \A f \in Events, q \in Endpoints : RowsFor(f, q)' = RowsFor(f, q)
    BY <2>1, RowsKept
  <2>3. TypeOK'
    BY DEF TypeOK, Jobs
  <2>4. EventLease'
    BY DEF TypeOK, Jobs, EventLease, Lease, Holds
  <2>5. DeliveryLease'
    BY DEF TypeOK, Jobs, DeliveryLease, Lease, Holds
  <2>6. VisitedHaveRows'
    BY <2>2 DEF TypeOK, Jobs, VisitedHaveRows, Dispatches, Creates
  <2>7. StillAbsent'
    BY <2>1, <2>2 DEF TypeOK, Jobs, StillAbsent, Creates, Rows
  <2>8. HandledExists'
    BY <2>1 DEF TypeOK, Jobs, HandledExists
  <2>9. AnsweredWasReceived'
    BY DEF TypeOK, Jobs, AnsweredWasReceived
  <2>10. FanOutIsExact'
    BY <2>2 DEF TypeOK, FanOutIsExact
  <2> QED BY <2>3, <2>4, <2>5, <2>6, <2>7, <2>8, <2>9, <2>10
<1> QED
  BY <1>1, <1>2, <1>3, <1>4, <1>5, <1>6, <1>7, <1>8, <1>9, <1>10, <1>11, <1>12, <1>13, <1>14, <1>15, <1>16, <1>17, <1>18, <1>19, <1>20 DEF Next, Proceed

(* The inductive invariant holds throughout every behaviour.               *)
THEOREM Invariance == Spec => []IInv
BY InitIInv, StepIInv, PTL DEF Spec

(* Statuses, clocks and what the workers have in hand stay in range.       *)
THEOREM TypeCorrect == Spec => []TypeOK
<1>1. IInv => TypeOK
  BY DEF IInv
<1> QED BY <1>1, Invariance, PTL

(* dispatchOutbox leaves one delivery for every active endpoint.           *)
THEOREM FanOutCorrect == Spec => []FanOutIsExact
<1>1. IInv => FanOutIsExact
  BY DEF IInv
<1> QED BY <1>1, Invariance, PTL

(* A delivered webhook is not taken again while leases are kept, but by a  *)
(* replay that read its row before it was delivered.                       *)
THEOREM DeliveredFinal == Spec => DeliveredIsFinal
<1>1. IInv /\ [Next]_vars =>
        [\A r \in Rows : delivery[r] = "DELIVERED" =>
           /\ r \in received /\ replaying'[r] <= replaying[r]
           /\ r \notin disturbed /\ delivery'[r] # "DELIVERED" => replaying'[r] < replaying[r]]_vars
  <2> SUFFICES ASSUME IInv, Next, NEW r \in Rows, delivery[r] = "DELIVERED"
               PROVE  /\ replaying'[r] <= replaying[r]
                      /\ r \notin disturbed => delivery'[r] = "DELIVERED" \/ replaying'[r] < replaying[r]
    BY DEF IInv, AnsweredWasReceived
  <2> USE DEF IInv, Sendable, Settled, Dispatchable, luck, items
  <2> DEFINE Kept == replaying' = replaying /\ (r \notin disturbed => delivery'[r] = "DELIVERED")
  <2>0. r \notin Events /\ replaying[r] \in Nat
    BY EventDeliveryAssumption DEF TypeOK
  <2>1. r \notin disturbed => \A w \in Workers : ~Holds(w, r)
    BY DEF DeliveryLease, Lease
  <2>2. ASSUME NEW w \in Workers, NEW j, j = job[w], j # Idle, Proceed(w, j)
        PROVE  Kept
    <3>1. CASE ClaimEvent(w, j) \/ Dispatched(w, j) \/ DispatchFails(w, j)
               \/ (\E p \in Endpoints : FindDelivery(w, j, p))
               \/ (\E accepted, answered \in BOOLEAN : Post(w, j, accepted, answered))
      BY <3>1 DEF ClaimEvent, Dispatched, DispatchFails, FindDelivery, Post
    <3>2. CASE CreateDelivery(w, j)
      <4>1. delivery[<<j.item, j.next, w>>] = "NONE"
        BY <2>2, <3>2 DEF CreateDelivery, StillAbsent, Creates, TypeOK, Jobs
      <4> QED BY <3>2, <4>1 DEF CreateDelivery, TypeOK
    <3>3. CASE ClaimDelivery(w, j)
      BY <3>3 DEF ClaimDelivery, TypeOK
    <3>4. CASE CancelDelivery(w, j) \/ Acknowledge(w, j) \/ Retry(w, j)
      <4>1. r \notin disturbed => j.item # r
        BY <2>1, <2>2, <3>4 DEF CancelDelivery, Acknowledge, Retry, Holds
      <4> QED BY <3>4, <4>1 DEF CancelDelivery, Acknowledge, Retry, TypeOK
    <3> QED BY <2>2, <3>1, <3>2, <3>3, <3>4 DEF Proceed
  <2>3. ASSUME NEW q \in Rows, ReplayDelivery(q)
        PROVE  /\ replaying'[r] <= replaying[r]
               /\ delivery'[r] = "DELIVERED" \/ replaying'[r] < replaying[r]
    BY <2>0, <2>3 DEF ReplayDelivery, Replay, TypeOK
  <2>4. ASSUME NEW e \in Events, ReplayEvent(e)
        PROVE  replaying'[r] = replaying[r] /\ delivery' = delivery
    BY <2>0, <2>4 DEF ReplayEvent, Replay, TypeOK
  <2>5. ASSUME NEW i \in Events \cup Rows, AskReplay(i)
        PROVE  replaying'[r] = replaying[r] /\ delivery' = delivery
    BY <2>0, <2>5 DEF AskReplay, Replayable, TypeOK
  <2>6. ASSUME NEW w \in Workers, Crash(w) \/ (\E e \in Events : ReadEvent(w, e))
                                  \/ (\E q \in Rows : ReadDelivery(w, q))
        PROVE  Kept
    BY <2>6 DEF Crash, ReadEvent, ReadDelivery
  <2>7. ASSUME \/ \E e \in Events : Publish(e)
               \/ \E p \in Endpoints : Deactivate(p)
               \/ \E i \in Events \cup Rows : FallsDue(i)
        PROVE  Kept
    BY <2>7 DEF Publish, Deactivate, FallsDue
  <2>8. Kept \/ (\E q \in Rows : ReplayDelivery(q)) \/ (\E e \in Events : ReplayEvent(e))
             \/ \E i \in Events \cup Rows : AskReplay(i)
    BY <2>2, <2>6, <2>7 DEF Next
  <2> QED BY <2>0, <2>3, <2>4, <2>5, <2>8
<1> QED BY <1>1, Invariance, PTL DEF Spec, DeliveredIsFinal
=============================================================================
