--------------------------- MODULE ShopFloor_proofs ---------------------------
(***************************************************************************)
(* What the serials of outbound shipments keep for any number of orders,   *)
(* serials and overlapping warehouse requests, with or without the scan    *)
(* policy.                                                                 *)
(***************************************************************************)
EXTENDS ShopFloor, SumTheorems, FiniteSetTheorems, WellFoundedInduction, TLAPS

(* A sold serial is held by a shipped order, so neither a scan nor a       *)
(* cancellation can reach it.                                              *)
SoldWithOrder == \A s \in sold : holder[s] \in Orders /\ order[holder[s]] = "SHIPPED"

(* A completion cannot write back more scans than are expected.            *)
CountsInRange ==
  \A p \in Operators : request[p] # Idle /\ request[p].op = "complete" =>
    request[p].scanned <= Wanted[request[p].order]

IInv == InspectionTypeOK /\ CountsInRange /\ SoldWithOrder /\ SoldMatchesShipped

LEMMA Start == InspectionInit => IInv
<1> SUFFICES ASSUME InspectionInit PROVE IInv
  OBVIOUS
<1> USE InspectionAssumption
<1>1. InspectionTypeOK
  BY DEF InspectionInit, InspectionTypeOK, Final, Verdicts
<1>2. CountsInRange /\ SoldWithOrder
  BY DEF InspectionInit, CountsInRange, SoldWithOrder
<1>3. SoldMatchesShipped
  BY FS_EmptySet DEF InspectionInit, SoldMatchesShipped
<1> QED BY <1>1, <1>2, <1>3 DEF IInv

(* Steps that move no serial and no order leave the sale of serials alone. *)
LEMMA SerialsUntouched ==
  ASSUME IInv, UNCHANGED <<order, holder, sold>>
  PROVE  SoldWithOrder' /\ SoldMatchesShipped'
BY DEF IInv, SoldWithOrder, SoldMatchesShipped, HeldFor

LEMMA Step == IInv /\ [InspectionNext]_inspectionVars => IInv'
<1> SUFFICES ASSUME IInv, [InspectionNext]_inspectionVars PROVE IInv'
  OBVIOUS
<1> USE InspectionAssumption
<1>1. ASSUME NEW p \in Operators, NEW r \in Requests, Begin(p, r),
             r.op = "complete" => r.scanned <= Wanted[r.order]
      PROVE  IInv'
  <2>1. InspectionTypeOK'
    BY <1>1 DEF IInv, InspectionTypeOK, Begin
  <2>2. CountsInRange'
    BY <1>1 DEF IInv, InspectionTypeOK, CountsInRange, Begin
  <2>3. SoldWithOrder' /\ SoldMatchesShipped'
    BY <1>1, SerialsUntouched DEF Begin
  <2> QED BY <2>1, <2>2, <2>3 DEF IInv
<1>2. ASSUME NEW p \in Operators, NEW o \in Orders, NEW s \in Serials, BeginScan(p, o, s)
      PROVE  IInv'
  <2>1. [op |-> "scan", order |-> o, serial |-> s] \in Requests
    BY DEF Requests
  <2> QED BY <1>1, <1>2, <2>1 DEF BeginScan
<1>3. ASSUME NEW p \in Operators, NEW o \in Orders, BeginComplete(p, o) PROVE IInv'
  <2>1. [op |-> "complete", order |-> o, scanned |-> scanned[o]] \in Requests
    BY DEF IInv, InspectionTypeOK, Requests
  <2> QED BY <1>1, <1>3, <2>1 DEF BeginComplete, IInv, InspectionTypeOK
<1>4. ASSUME NEW p \in Operators, NEW o \in Orders, BeginApprove(p, o) PROVE IInv'
  <2>1. [op |-> "approve", order |-> o, verdict |-> inspection[o]] \in Requests
    BY <1>4 DEF BeginApprove, Requests
  <2> QED BY <1>1, <1>4, <2>1 DEF BeginApprove
<1>5. ASSUME NEW p \in Operators, GiveUp(p) PROVE IInv'
  <2>1. InspectionTypeOK' /\ CountsInRange'
    BY <1>5 DEF GiveUp, Answered, IInv, InspectionTypeOK, CountsInRange
  <2> QED BY <1>5, <2>1, SerialsUntouched DEF GiveUp, IInv
<1>6. ASSUME NEW p \in Operators, request[p] # Idle, Scan(p, request[p]) PROVE IInv'
  <2> DEFINE r == request[p]
  <2>1. r \in Requests /\ r.op = "scan" /\ r.order \in Orders /\ r.serial \in Serials
    BY <1>6 DEF Scan, IInv, InspectionTypeOK, Requests
  <2>2. InspectionTypeOK'
    <3>1. request' \in [Operators -> Requests \cup {Idle}]
      BY <1>6 DEF Scan, Answered, IInv, InspectionTypeOK
    <3>2. holder' \in [Serials -> Orders \cup {Free}]
      BY <1>6, <2>1 DEF Scan, IInv, InspectionTypeOK
    <3>3. scanned' \in [Orders -> Nat] /\ \A o \in Orders : scanned'[o] <= Wanted[o]
      BY <1>6, <2>1 DEF Scan, IInv, InspectionTypeOK
    <3> QED BY <1>6, <3>1, <3>2, <3>3 DEF Scan, IInv, InspectionTypeOK
  <2>3. CountsInRange'
    BY <1>6 DEF Scan, Answered, IInv, InspectionTypeOK, CountsInRange
  <2>4. r.serial \notin sold
    BY <1>6 DEF Scan, IInv, SoldWithOrder
  <2>5. \A s \in sold : holder'[s] = holder[s]
    BY <1>6, <2>1, <2>4 DEF Scan, IInv, InspectionTypeOK
  <2>6. SoldWithOrder'
    BY <1>6, <2>5 DEF Scan, IInv, SoldWithOrder
  <2>7. \A o \in Orders : (sold \cap HeldFor(o))' = sold \cap HeldFor(o)
    BY <1>6, <2>5 DEF Scan, HeldFor
  <2>8. SoldMatchesShipped'
    BY <1>6, <2>7 DEF Scan, IInv, SoldMatchesShipped
  <2> QED BY <2>2, <2>3, <2>6, <2>8 DEF IInv
<1>7. ASSUME NEW p \in Operators, request[p] # Idle, NEW verdict \in Verdicts,
             Complete(p, request[p], verdict)
      PROVE  IInv'
  <2> DEFINE r == request[p]
  <2>1. r \in Requests /\ r.op = "complete" /\ r.order \in Orders /\ r.scanned \in Nat
        /\ r.scanned <= Wanted[r.order]
    BY <1>7 DEF Complete, IInv, InspectionTypeOK, Requests, CountsInRange
  <2>2. inspection' \in [Orders -> {"IN_PROGRESS"} \cup Verdicts \cup Final]
    BY <1>7 DEF Complete, IInv, InspectionTypeOK
  <2>3. scanned' \in [Orders -> Nat] /\ \A o \in Orders : scanned'[o] <= Wanted[o]
    BY <1>7, <2>1 DEF Complete, IInv, InspectionTypeOK
  <2>4. blocking' \subseteq Orders
    BY <1>7, <2>1 DEF Complete, IInv, InspectionTypeOK
  <2>5. request' \in [Operators -> Requests \cup {Idle}]
    BY <1>7 DEF Complete, Answered, IInv, InspectionTypeOK
  <2>6. InspectionTypeOK'
    BY <1>7, <2>2, <2>3, <2>4, <2>5 DEF Complete, IInv, InspectionTypeOK
  <2>7. CountsInRange'
    BY <1>7 DEF Complete, Answered, IInv, InspectionTypeOK, CountsInRange
  <2> QED BY <1>7, <2>6, <2>7, SerialsUntouched DEF Complete, IInv
<1>8. ASSUME NEW p \in Operators, request[p] # Idle, Approve(p, request[p]) PROVE IInv'
  <2>1. InspectionTypeOK'
    BY <1>8 DEF Approve, Answered, IInv, InspectionTypeOK, Final
  <2>2. CountsInRange'
    BY <1>8 DEF Approve, Answered, IInv, InspectionTypeOK, CountsInRange
  <2> QED BY <1>8, <2>1, <2>2, SerialsUntouched DEF Approve, IInv
<1>9. ASSUME NEW o \in Orders, Pack(o) PROVE IInv'
  <2>1. InspectionTypeOK' /\ CountsInRange'
    BY <1>9 DEF Pack, IInv, InspectionTypeOK, CountsInRange
  <2>2. \A i \in Orders : (order'[i] = "SHIPPED") <=> (order[i] = "SHIPPED")
    BY <1>9 DEF Pack, IInv, InspectionTypeOK
  <2>3. SoldWithOrder' /\ SoldMatchesShipped'
    BY <1>9, <2>2 DEF Pack, IInv, SoldWithOrder, SoldMatchesShipped, HeldFor
  <2> QED BY <2>1, <2>3 DEF IInv
<1>10. ASSUME NEW o \in Orders, Ship(o) PROVE IInv'
  <2>1. InspectionTypeOK' /\ CountsInRange'
    BY <1>10 DEF Ship, HeldFor, IInv, InspectionTypeOK, CountsInRange
  <2>2. order' = [order EXCEPT ![o] = "SHIPPED"] /\ holder' = holder
        /\ sold' = sold \cup HeldFor(o)
    BY <1>10 DEF Ship
  <2>3. SoldWithOrder'
    BY <2>2 DEF IInv, InspectionTypeOK, SoldWithOrder, HeldFor
  <2>4. (sold \cap HeldFor(o))' = HeldFor(o) /\ order'[o] = "SHIPPED"
    BY <2>2 DEF IInv, InspectionTypeOK, HeldFor
  <2>5. \A i \in Orders \ {o} : (sold \cap HeldFor(i))' = sold \cap HeldFor(i)
                                /\ order'[i] = order[i]
    BY <2>2 DEF IInv, InspectionTypeOK, HeldFor
  <2>6. SoldMatchesShipped'
    BY <1>10, <2>4, <2>5 DEF Ship, IInv, SoldMatchesShipped
  <2> QED BY <2>1, <2>3, <2>6 DEF IInv
<1>11. ASSUME NEW o \in Orders, Cancel(o) PROVE IInv'
  <2>1. InspectionTypeOK' /\ CountsInRange'
    BY <1>11 DEF Cancel, HeldFor, Final, IInv, InspectionTypeOK, CountsInRange
  <2>2. \A i \in Orders : (order'[i] = "SHIPPED") <=> (order[i] = "SHIPPED")
    BY <1>11 DEF Cancel, IInv, InspectionTypeOK
  <2>3. \A s \in sold : holder'[s] = holder[s]
    BY <1>11 DEF Cancel, HeldFor, IInv, InspectionTypeOK, SoldWithOrder
  <2>4. SoldWithOrder'
    BY <1>11, <2>2, <2>3 DEF Cancel, IInv, SoldWithOrder
  <2>5. \A i \in Orders : (sold \cap HeldFor(i))' = sold \cap HeldFor(i)
    BY <1>11, <2>3 DEF Cancel, HeldFor
  <2>6. SoldMatchesShipped'
    BY <2>2, <2>5 DEF IInv, SoldMatchesShipped
  <2> QED BY <2>1, <2>4, <2>6 DEF IInv
<1>12. CASE UNCHANGED inspectionVars
  <2>1. InspectionTypeOK' /\ CountsInRange'
    BY <1>12 DEF inspectionVars, IInv, InspectionTypeOK, CountsInRange
  <2> QED BY <1>12, <2>1, SerialsUntouched DEF inspectionVars, IInv
<1> QED BY <1>2, <1>3, <1>4, <1>5, <1>6, <1>7, <1>8, <1>9, <1>10, <1>11, <1>12 DEF InspectionNext

THEOREM Invariance == InspectionSpec => []IInv
BY Start, Step, PTL DEF InspectionSpec

(* Type correctness; in particular no product row counts more scans than   *)
(* were ordered, even when a completion writes back an old count.          *)
THEOREM TypeCorrect == InspectionSpec => []InspectionTypeOK
<1>1. IInv => InspectionTypeOK
  BY DEF IInv
<1> QED BY <1>1, Invariance, PTL

(* A shipped order took exactly the serials it ordered, any other took none.*)
THEOREM SalesCorrect == InspectionSpec => []SoldMatchesShipped
<1>1. IInv => SoldMatchesShipped
  BY DEF IInv
<1> QED BY <1>1, Invariance, PTL

(* Scans, cancellations and shipments never take a serial away from the    *)
(* shipment that reserved it, except by cancelling that shipment's order.  *)
THEOREM NotStolen == InspectionSpec => SerialsAreNotStolen
<1> DEFINE Kept == \A s \in Serials : holder[s] # Free /\ holder'[s] # holder[s] =>
                     /\ holder'[s] = Free /\ s \notin sold
                     /\ order'[holder[s]] = "CANCELLED"
<1>1. IInv /\ [InspectionNext]_inspectionVars => [Kept]_inspectionVars
  <2> SUFFICES ASSUME IInv, InspectionNext, NEW s \in Serials, holder[s] # Free, holder'[s] # holder[s]
               PROVE  /\ holder'[s] = Free /\ s \notin sold
                      /\ order'[holder[s]] = "CANCELLED"
    BY DEF inspectionVars
  <2>1. ASSUME NEW p \in Operators, request[p] # Idle, Scan(p, request[p]) PROVE FALSE
    BY <2>1 DEF Scan, IInv, InspectionTypeOK
  <2>2. PICK o \in Orders : Cancel(o)
    BY <2>1 DEF InspectionNext, Begin, BeginScan, BeginComplete, BeginApprove, GiveUp, Complete, Approve,
                Pack, Ship
  <2>3. holder[s] = o /\ holder'[s] = Free
    BY <2>2 DEF Cancel, HeldFor
  <2>4. order'[o] = "CANCELLED" /\ order[o] # "SHIPPED"
    BY <2>2 DEF Cancel, IInv, InspectionTypeOK
  <2> QED BY <2>3, <2>4 DEF IInv, SoldWithOrder
<1> QED BY <1>1, Invariance, PTL DEF InspectionSpec, SerialsAreNotStolen
-----------------------------------------------------------------------------
(* With the scan policy nothing is decided about an inspection, and no     *)
(* request is under way that will decide, before every unit was scanned;   *)
(* from then on no step changes the count.                                 *)
EvidenceFirst ==
  RequireScan =>
    /\ \A o \in Orders :
         inspection[o] \in Verdicts \cup {"APPROVED", "REJECTED"} \/ order[o] = "PACKED"
         => scanned[o] = Wanted[o]
    /\ \A p \in Operators : request[p] # Idle =>
         /\ request[p].op \in {"complete", "approve"}
            => scanned[request[p].order] = Wanted[request[p].order]
         /\ request[p].op = "complete" => request[p].scanned = Wanted[request[p].order]

CountInv == IInv /\ EvidenceFirst /\ ScanCountTruthful

LEMMA CountStart == InspectionInit => CountInv
<1>1. ASSUME InspectionInit PROVE EvidenceFirst
  BY <1>1 DEF InspectionInit, EvidenceFirst, Verdicts
<1>2. ASSUME InspectionInit PROVE ScanCountTruthful
  <2>1. \A o \in Orders : HeldFor(o) = {}
    BY <1>2, InspectionAssumption DEF InspectionInit, HeldFor
  <2> QED BY <1>2, <2>1, FS_EmptySet DEF InspectionInit, ScanCountTruthful
<1> QED BY <1>1, <1>2, Start DEF CountInv

(* A scan adds one serial to its own shipment and one to its own count.    *)
LEMMA ScanCounts ==
  ASSUME CountInv, NEW p \in Operators, request[p] # Idle, Scan(p, request[p])
  PROVE  EvidenceFirst' /\ ScanCountTruthful'
<1> USE InspectionAssumption
<1>1. PICK ord \in Orders, ser \in Serials :
        request[p] = [op |-> "scan", order |-> ord, serial |-> ser]
  BY DEF Scan, CountInv, IInv, InspectionTypeOK, Requests
<1>2. holder[ser] = Free /\ scanned[ord] < Wanted[ord]
  BY <1>1 DEF Scan
<1>3. scanned' = [scanned EXCEPT ![ord] = @ + 1]
      /\ holder' = [holder EXCEPT ![ser] = ord] /\ order' = order
  BY <1>1 DEF Scan
<1>4. EvidenceFirst'
  BY <1>1, <1>2, <1>3 DEF Scan, Answered, CountInv, IInv, InspectionTypeOK, EvidenceFirst
<1>5. \A o \in Orders \ {ord} : HeldFor(o)' = HeldFor(o) /\ scanned'[o] = scanned[o]
  BY <1>2, <1>3 DEF HeldFor, CountInv, IInv, InspectionTypeOK
<1>6. HeldFor(ord)' = HeldFor(ord) \cup {ser} /\ ser \notin HeldFor(ord)
  BY <1>2, <1>3 DEF HeldFor, CountInv, IInv, InspectionTypeOK
<1>7. IsFiniteSet(HeldFor(ord))
  BY FS_Subset DEF HeldFor
<1>8. Cardinality(HeldFor(ord)') = Cardinality(HeldFor(ord)) + 1
  BY <1>6, <1>7, FS_AddElement
<1>9. scanned'[ord] = scanned[ord] + 1
  BY <1>3 DEF CountInv, IInv, InspectionTypeOK
<1>10. ScanCountTruthful'
  <2> SUFFICES ASSUME RequireScan, NEW o \in Orders, order'[o] # "CANCELLED"
               PROVE  scanned'[o] = Cardinality(HeldFor(o)')
    BY DEF ScanCountTruthful
  <2>1. scanned[o] = Cardinality(HeldFor(o))
    BY <1>3 DEF CountInv, ScanCountTruthful
  <2>2. CASE o = ord
    BY <2>1, <2>2, <1>8, <1>9
  <2>3. CASE o # ord
    BY <2>1, <2>3, <1>5
  <2> QED BY <2>2, <2>3
<1> QED BY <1>4, <1>10

LEMMA CountStep == CountInv /\ [InspectionNext]_inspectionVars => CountInv'
<1> SUFFICES ASSUME CountInv, [InspectionNext]_inspectionVars
             PROVE  EvidenceFirst' /\ ScanCountTruthful'
  BY Step DEF CountInv
<1> USE InspectionAssumption
<1>1. ASSUME scanned' = scanned, holder' = holder,
             \A o \in Orders : order[o] = "CANCELLED" => order'[o] = "CANCELLED"
      PROVE  ScanCountTruthful'
  <2>1. \A o \in Orders : HeldFor(o)' = HeldFor(o)
    BY <1>1 DEF HeldFor
  <2> QED BY <1>1, <2>1 DEF CountInv, ScanCountTruthful
<1>2. ASSUME NEW p \in Operators, NEW o \in Orders,
             \/ \E s \in Serials : BeginScan(p, o, s)
             \/ BeginComplete(p, o) \/ BeginApprove(p, o)
      PROVE  EvidenceFirst' /\ ScanCountTruthful'
  <2>1. EvidenceFirst'
    <3>1. CASE \E s \in Serials : BeginScan(p, o, s)
      BY <3>1 DEF BeginScan, Begin, CountInv, IInv, InspectionTypeOK, EvidenceFirst
    <3>2. CASE BeginComplete(p, o)
      <4>1. RequireScan => scanned[o] = Wanted[o]
        BY <3>2 DEF BeginComplete, CountInv, IInv, InspectionTypeOK
      <4> QED BY <3>2, <4>1 DEF BeginComplete, Begin, CountInv, IInv, InspectionTypeOK, EvidenceFirst
    <3>3. CASE BeginApprove(p, o)
      <4>1. RequireScan => scanned[o] = Wanted[o]
        BY <3>3 DEF BeginApprove, CountInv, EvidenceFirst
      <4> QED BY <3>3, <4>1 DEF BeginApprove, Begin, CountInv, IInv, InspectionTypeOK, EvidenceFirst
    <3> QED BY <1>2, <3>1, <3>2, <3>3
  <2> QED BY <1>1, <1>2, <2>1 DEF BeginScan, BeginComplete, BeginApprove, Begin
<1>3. ASSUME NEW p \in Operators, GiveUp(p) PROVE EvidenceFirst' /\ ScanCountTruthful'
  <2>1. EvidenceFirst'
    BY <1>3 DEF GiveUp, Answered, CountInv, IInv, InspectionTypeOK, EvidenceFirst
  <2> QED BY <1>1, <1>3, <2>1 DEF GiveUp
<1>4. ASSUME NEW p \in Operators, request[p] # Idle, NEW verdict \in Verdicts,
             Complete(p, request[p], verdict)
      PROVE  EvidenceFirst' /\ ScanCountTruthful'
  <2>1. request[p] \in Requests /\ request[p].order \in Orders
    BY <1>4 DEF Complete, CountInv, IInv, InspectionTypeOK, Requests
  <2>2. RequireScan => scanned' = scanned /\ scanned[request[p].order] = Wanted[request[p].order]
    BY <1>4, <2>1 DEF Complete, CountInv, IInv, InspectionTypeOK, EvidenceFirst
  <2>3. EvidenceFirst'
    BY <1>4, <2>1, <2>2 DEF Complete, Answered, CountInv, IInv, InspectionTypeOK, EvidenceFirst
  <2>4. CASE RequireScan
    BY <1>1, <1>4, <2>2, <2>3, <2>4 DEF Complete
  <2> QED BY <2>3, <2>4 DEF ScanCountTruthful
<1>5. ASSUME NEW p \in Operators, request[p] # Idle, Approve(p, request[p])
      PROVE  EvidenceFirst' /\ ScanCountTruthful'
  <2>1. RequireScan => scanned[request[p].order] = Wanted[request[p].order]
    BY <1>5 DEF Approve, CountInv, EvidenceFirst
  <2>2. EvidenceFirst'
    BY <1>5, <2>1 DEF Approve, Answered, CountInv, IInv, InspectionTypeOK, EvidenceFirst
  <2> QED BY <1>1, <1>5, <2>2 DEF Approve
<1>6. ASSUME NEW o \in Orders, Pack(o) \/ Ship(o) PROVE EvidenceFirst' /\ ScanCountTruthful'
  <2>1. EvidenceFirst'
    BY <1>6 DEF Pack, Ship, CountInv, IInv, InspectionTypeOK, EvidenceFirst
  <2> QED BY <1>1, <1>6, <2>1 DEF Pack, Ship, CountInv, IInv, InspectionTypeOK
<1>7. ASSUME NEW o \in Orders, Cancel(o) PROVE EvidenceFirst' /\ ScanCountTruthful'
  <2>1. EvidenceFirst'
    BY <1>7 DEF Cancel, Final, Verdicts, CountInv, IInv, InspectionTypeOK, EvidenceFirst
  <2>2. \A i \in Orders \ {o} : HeldFor(i)' = HeldFor(i) /\ order'[i] = order[i]
    BY <1>7 DEF Cancel, HeldFor, CountInv, IInv, InspectionTypeOK
  <2>3. order'[o] = "CANCELLED" /\ scanned' = scanned
    BY <1>7 DEF Cancel, CountInv, IInv, InspectionTypeOK
  <2> QED BY <2>1, <2>2, <2>3 DEF CountInv, ScanCountTruthful
<1>8. CASE UNCHANGED inspectionVars
  <2>1. EvidenceFirst'
    BY <1>8 DEF inspectionVars, CountInv, EvidenceFirst
  <2> QED BY <1>1, <1>8, <2>1 DEF inspectionVars
<1> QED BY ScanCounts, <1>2, <1>3, <1>4, <1>5, <1>6, <1>7, <1>8 DEF InspectionNext

THEOREM CountInvariance == InspectionSpec => []CountInv
BY CountStart, CountStep, PTL DEF InspectionSpec

(* The count of an order that was not cancelled is the number of serials   *)
(* reserved for its shipment, an order that could be packed holds exactly  *)
(* the serials ship asks for, and what ships is exactly what was ordered.  *)
THEOREM SerialsCounted == InspectionSpec => []SerialsAreCounted
<1>1. CountInv => PackedCanShip
  BY DEF CountInv, EvidenceFirst, ScanCountTruthful, PackedCanShip
<1>2. CountInv => SoldMatchesShipped /\ ScanCountTruthful
  BY DEF CountInv, IInv
<1> QED BY <1>1, <1>2, CountInvariance, PTL DEF SerialsAreCounted

-----------------------------------------------------------------------------
(* The till.  A sale has been begun, in a shift that was opened, before it *)
(* is posted, queued or replayed; what the queue and the replays know of   *)
(* it only lags behind; and a replay has the earlier sales of the queue    *)
(* before it in its batch, or they are sold, refused or lost.              *)

Begun == {s \in Sales : shiftOf[s] # 0}
Queued(copy) == {s \in Sales : copy[s] # "NONE"}
Working(r) == replay[r].at \in {"claim", "create", "mark"}

BegunFirst ==
  /\ posting \cup offline \cup ({paying.sale} \ {None}) \subseteq Begun
  /\ \A s \in Begun : shift[shiftOf[s]].status # "NONE"
  /\ drawer # 0 => shift[drawer].status # "NONE"

QueuedFirst ==
  /\ Queued(queue) \cup Queued(paying.seen) \cup Queued(syncing.seen) \subseteq offline
  /\ \A r \in Replays : replay[r].batch \subseteq offline /\ (Working(r) => replay[r].batch # {})
  /\ \A s \in Sales : receipt[s].status # "NONE" => s \in offline

\* What is to be marked is there.
MarkedIsSold == \A r \in Replays : replay[r].at = "mark" => rows[Item(r)] = 1

ConflictIsRefused ==
  \A s \in Sales :
    (\/ queue[s] = "CONFLICT" \/ paying.seen[s] = "CONFLICT" \/ syncing.seen[s] = "CONFLICT"
     \/ \E r \in Replays : replay[r].result[s] = "CONFLICT") => s \in refused

\* A sale of an earlier shift that was given up will never be queued.
GivenUp(s) == /\ shiftOf[s] \notin {0, drawer} /\ shift[shiftOf[s]].status # "NONE"
              /\ paying.sale # s
BegunInOrder ==
  \A s \in Sales, t \in Begun : s < t => s \in offline \/ rows[s] = 1 \/ GivenUp(s)

Settles(s) == rows[s] = 1 \/ s \in refused \cup overwritten
BatchInOrder ==
  \A r \in Replays : \A t \in replay[r].batch, s \in offline :
    s < t => s \in replay[r].batch \/ Settles(s)

SalesIInv ==
  /\ SalesTypeOK /\ BegunFirst /\ QueuedFirst
  /\ SalesAreKept /\ MarkedIsSold /\ ConflictIsRefused
  /\ BegunInOrder /\ BatchInOrder /\ SoldInSequence
  /\ ClosedShiftIsComplete

\* The state of a replay request.
ReplayRows == [at : {"idle", "claim", "create", "mark", "answer"}, batch : SUBSET Sales,
               attempts : 0..MaxAttempts, result : [Sales -> Results]]

LEMMA LeastIsFirst ==
  ASSUME NEW S \in SUBSET Nat, S # {}
  PROVE  Min(S) \in S /\ \A x \in S : Min(S) <= x
<1>1. PICK m \in S : \A x \in S : ~ (<<x, m>> \in OpToRel(<, Nat))
  BY NatLessThanWellFounded, WFMin
<1>2. ASSUME NEW x \in S PROVE m <= x
  <2>1. <<x, m>> \in Nat \X Nat
    OBVIOUS
  <2>2. ~ (x < m)
    BY <1>1, <2>1, Zenon DEF OpToRel
  <2> QED BY <2>2
<1> QED BY <1>2 DEF Min

LEMMA ItemIsFirst ==
  ASSUME SalesTypeOK, NEW r \in Replays, replay[r].batch # {}
  PROVE  Item(r) \in replay[r].batch /\ Item(r) \in Sales /\ \A s \in replay[r].batch : Item(r) <= s
<1>1. replay[r].batch \in SUBSET Nat /\ replay[r].batch \subseteq Sales
  BY PointOfSaleAssumption DEF SalesTypeOK, Sales
<1> QED BY <1>1, LeastIsFirst DEF Item

LEMMA AppliedRow ==
  ASSUME SalesTypeOK, NEW r \in Replays, replay[r].batch # {}
  PROVE  /\ Applied(r) \in ReplayRows
         /\ Applied(r).batch = replay[r].batch \ {Item(r)}
         /\ Applied(r).at = IF replay[r].batch = {Item(r)} THEN "answer" ELSE "claim"
         /\ Applied(r).result = [replay[r].result EXCEPT ![Item(r)] = "APPLIED"]
<1>1. replay[r] \in ReplayRows
  BY DEF SalesTypeOK, ReplayRows
<1>2. 0 \in 0..MaxAttempts
  BY PointOfSaleAssumption
<1>3. [replay[r].result EXCEPT ![Item(r)] = "APPLIED"] \in [Sales -> Results]
  BY <1>1 DEF ReplayRows, Results
<1> QED BY <1>1, <1>2, <1>3 DEF Applied, ReplayRows

LEMMA BlockedRow ==
  ASSUME SalesTypeOK, NEW r \in Replays, replay[r].batch # {}, NEW outcome \in Results
  PROVE  /\ Blocked(r, outcome) \in ReplayRows
         /\ Blocked(r, outcome).batch = {} /\ Blocked(r, outcome).at = "answer"
         /\ Blocked(r, outcome).result =
              [s \in Sales |-> IF s = Item(r) THEN outcome
                               ELSE IF s \in replay[r].batch THEN "PENDING" ELSE replay[r].result[s]]
<1>1. replay[r] \in ReplayRows
  BY DEF SalesTypeOK, ReplayRows
<1>2. 0 \in 0..MaxAttempts
  BY PointOfSaleAssumption
<1>3. [s \in Sales |-> IF s = Item(r) THEN outcome
                       ELSE IF s \in replay[r].batch THEN "PENDING" ELSE replay[r].result[s]] \in [Sales -> Results]
  BY <1>1 DEF ReplayRows, Results
<1> QED BY <1>1, <1>2, <1>3 DEF Blocked, ReplayRows

LEMMA NoReplayRow ==
  NoReplay \in ReplayRows /\ NoResults \in Queues /\ NoResults \in [Sales -> Results]
BY PointOfSaleAssumption DEF NoReplay, NoResults, Queues, Results, ReplayRows

\* A request that nobody hears goes on with what it was doing, or is over.
LEMMA UnheardRow ==
  ASSUME NEW row \in ReplayRows
  PROVE  /\ Unheard(row) \in ReplayRows
         /\ \/ Unheard(row).at = row.at /\ Unheard(row).batch = row.batch
            \/ row.at = "answer" /\ Unheard(row).at = "idle" /\ Unheard(row).batch = {}
         /\ \A s \in Sales : Unheard(row).result[s] = "NONE"
<1>1. CASE row.at = "answer"
  <2>1. Unheard(row) = NoReplay
    BY <1>1 DEF Unheard
  <2> QED BY <1>1, <2>1, NoReplayRow DEF NoReplay, NoResults
<1>2. CASE row.at # "answer"
  <2> DEFINE silent == [row EXCEPT !.result = NoResults]
  <2>1. Unheard(row) = silent
    BY <1>2 DEF Unheard
  <2>2. silent \in ReplayRows /\ silent.at = row.at /\ silent.batch = row.batch /\ silent.result = NoResults
    BY NoReplayRow DEF ReplayRows
  <2> HIDE DEF silent
  <2> QED BY <2>1, <2>2 DEF NoResults
<1> QED BY <1>1, <1>2

LEMMA HeardRow ==
  ASSUME NEW r \in Replays, NEW row \in ReplayRows
  PROVE  /\ Heard(r, row) \in ReplayRows
         /\ \/ Heard(r, row).at = row.at /\ Heard(r, row).batch = row.batch
            \/ row.at = "answer" /\ Heard(r, row).at = "idle" /\ Heard(r, row).batch = {}
         /\ \A s \in Sales : Heard(r, row).result[s] \in {row.result[s], "NONE"}
<1>1. CASE syncing.request = r
  BY <1>1 DEF Heard
<1>2. CASE syncing.request # r
  <2>1. Heard(r, row) = Unheard(row)
    BY <1>2 DEF Heard
  <2> QED BY <2>1, UnheardRow
<1> QED BY <1>1, <1>2

LEMMA FirstSales == SalesInit => SalesIInv
<1> SUFFICES ASSUME SalesInit PROVE SalesIInv
  OBVIOUS
<1> USE PointOfSaleAssumption, NoReplayRow DEF SalesInit
<1>1. SalesTypeOK
  BY DEF SalesTypeOK, ReplayRows, Results
<1>2. BegunFirst /\ QueuedFirst
  BY DEF BegunFirst, QueuedFirst, Begun, Queued, Working, NoReplay, NoResults
<1>3. SalesAreKept /\ MarkedIsSold /\ ConflictIsRefused
  BY DEF SalesAreKept, SoldOnce, AppliedIsSold, MarkedIsSold, ConflictIsRefused, NoReplay, NoResults
<1>4. BegunInOrder /\ BatchInOrder /\ SoldInSequence
  BY DEF BegunInOrder, BatchInOrder, SoldInSequence, NoReplay, Begun
<1> QED BY <1>1, <1>2, <1>3, <1>4 DEF SalesIInv, ClosedShiftIsComplete

LEMMA SalesAreFinite == \A k \in Shifts : IsFiniteSet(SalesOf(k)) /\ SalesOf(k) \subseteq Sales
<1>1. IsFiniteSet(Sales)
  BY PointOfSaleAssumption, FS_Interval DEF Sales
<1> QED BY <1>1, FS_Subset DEF SalesOf

LEMMA CashIsCounted == ASSUME SalesTypeOK, NEW k \in Shifts PROVE CashOf(k) \in Nat
<1>1. SumFunctionOnSet(rows, SalesOf(k)) \in Nat
  BY SalesAreFinite, SumNat DEF SalesTypeOK
<1> QED BY <1>1 DEF CashOf, SalesTypeOK

Receipts == [status : {"NONE", "PROCESSING", "APPLIED", "CONFLICT", "FAILED", "DEAD_LETTER"},
             attempts : 0..MaxAttempts, lease : BOOLEAN]

\* A receipt is written only while the item is PROCESSING.
LEMMA WrittenReceipt ==
  ASSUME SalesTypeOK, NEW s \in Sales, NEW status \in {"APPLIED", "CONFLICT", "FAILED", "DEAD_LETTER"},
         Write(s, status)
  PROVE  /\ receipt' \in [Sales -> Receipts]
         /\ \A p \in Sales : \/ receipt'[p] = receipt[p]
                             \/ p = s /\ receipt[p].status = "PROCESSING" /\ receipt'[p].status = status
<1>1. receipt \in [Sales -> Receipts]
  BY DEF SalesTypeOK, Receipts
<1>2. CASE receipt[s].status = "PROCESSING"
  <2> DEFINE row == [receipt[s] EXCEPT !.status = status, !.lease = FALSE]
  <2>1. row \in Receipts /\ row.status = status
    BY <1>1 DEF Receipts
  <2>2. receipt' = [receipt EXCEPT ![s] = row]
    BY <1>1, <1>2 DEF Write
  <2> HIDE DEF row
  <2> QED BY <1>1, <1>2, <2>1, <2>2
<1>3. CASE receipt[s].status # "PROCESSING"
  BY <1>1, <1>3 DEF Write
<1> QED BY <1>2, <1>3


\* A sale is created once, in an open shift.
LEMMA CreatedSale ==
  ASSUME SalesTypeOK, SoldOnce, BegunFirst, NEW s \in Begun, CreateSale(s)
  PROVE  /\ rows' \in [Sales -> Nat]
         /\ \A p \in Sales : \/ rows'[p] = rows[p]
                             \/ p = s /\ rows[p] = 0 /\ rows'[p] = 1 /\ shift[shiftOf[p]].status = "OPEN"
         /\ \A p \in Sales : rows[p] = 1 => rows'[p] = 1
<1>1. s \in Sales /\ rows \in [Sales -> Nat]
  BY DEF SalesTypeOK, Begun
<1> QED BY <1>1 DEF CreateSale, Creates, SoldOnce

LEMMA AttemptsAreCapped ==
  ASSUME NEW a \in 0..MaxAttempts
  PROVE  Min({a + 1, MaxAttempts}) \in 0..MaxAttempts
<1>1. {a + 1, MaxAttempts} \in SUBSET Nat
  BY PointOfSaleAssumption
<1>2. Min({a + 1, MaxAttempts}) \in {a + 1, MaxAttempts} /\ Min({a + 1, MaxAttempts}) <= MaxAttempts
  BY <1>1, LeastIsFirst
<1> QED BY <1>2, PointOfSaleAssumption

\* What moves neither shifts nor sales leaves the counted shifts alone.
LEMMA CountIsKept ==
  ASSUME ClosedShiftIsComplete, UNCHANGED <<shift, rows, shiftOf>>
  PROVE  ClosedShiftIsComplete'
BY DEF ClosedShiftIsComplete, CashOf, SalesOf

\* Nor does a sale that is created.
LEMMA CreationKeepsCount ==
  ASSUME SalesIInv, NEW s \in Begun, CreateSale(s), UNCHANGED <<shift, shiftOf>>
  PROVE  ClosedShiftIsComplete'
<1>1. SalesTypeOK /\ SoldOnce /\ BegunFirst /\ ClosedShiftIsComplete
  BY DEF SalesIInv, SalesAreKept
<1>2. ASSUME NEW k \in Shifts, shift[k].status = "CLOSED" PROVE CashOf(k)' = CashOf(k)
  <2>1. \A p \in SalesOf(k) : rows[p] = rows'[p]
    BY <1>1, <1>2, CreatedSale DEF SalesOf
  <2>2. SumFunctionOnSet(rows, SalesOf(k)) = SumFunctionOnSet(rows', SalesOf(k))
    BY <2>1, SalesAreFinite, SumAgree
  <2>3. SalesOf(k)' = SalesOf(k)
    BY DEF SalesOf
  <2> QED BY <2>2, <2>3 DEF CashOf
<1> QED BY <1>1, <1>2 DEF ClosedShiftIsComplete

\* A sale that is begun brings no cash to the shift the terminal believes open.
LEMMA StampKeepsCount ==
  ASSUME SalesIInv, NEW s \in Sales, Ready(s), Stamp(s), UNCHANGED <<shift, rows>>
  PROVE  ClosedShiftIsComplete'
<1>1. SalesTypeOK /\ ClosedShiftIsComplete
  BY DEF SalesIInv
<1>2. rows[s] = 0 /\ \A p \in Sales : rows[p] \in Int
  BY <1>1 DEF Ready, SalesTypeOK
<1>3. ASSUME NEW k \in Shifts PROVE CashOf(k)' = CashOf(k)
  <2>1. SalesOf(k)' = SalesOf(k) \/ (s \notin SalesOf(k) /\ SalesOf(k)' = SalesOf(k) \cup {s})
    <3>1. shiftOf \in [Sales -> Shifts \cup {0}] /\ 0 \notin Shifts
      BY <1>1, PointOfSaleAssumption DEF SalesTypeOK, Shifts
    <3>2. \A p \in Sales : shiftOf'[p] = IF p = s /\ shiftOf[s] = 0 THEN drawer ELSE shiftOf[p]
      BY <3>1 DEF Stamp
    <3>3. CASE shiftOf[s] = 0 /\ drawer = k
      BY <3>1, <3>2, <3>3 DEF SalesOf
    <3>4. CASE ~(shiftOf[s] = 0 /\ drawer = k)
      <4>1. \A p \in Sales : shiftOf'[p] = k <=> shiftOf[p] = k
        BY <3>1, <3>2, <3>4
      <4> QED BY <4>1 DEF SalesOf
    <3> QED BY <3>3, <3>4
  <2>2. SumFunctionOnSet(rows, SalesOf(k)') = SumFunctionOnSet(rows, SalesOf(k))
    <3>1. CASE SalesOf(k)' = SalesOf(k)
      BY <3>1
    <3>2. CASE s \notin SalesOf(k) /\ SalesOf(k)' = SalesOf(k) \cup {s}
      <4> DEFINE P == SalesOf(k)
      <4>1. IsFiniteSet(P) /\ P \subseteq Sales /\ s \notin P
        BY <3>2, SalesAreFinite
      <4>2. SumFunctionOnSet(rows, P) \in Int
        BY <1>2, <4>1, SumType
      <4> HIDE DEF P
      <4>3. SumFunctionOnSet(rows, P \cup {s}) = SumFunctionOnSet(rows, P) + rows[s]
        BY <1>2, <4>1, SumAdded
      <4>4. SumFunctionOnSet(rows, P \cup {s}) = SumFunctionOnSet(rows, P)
        BY <1>2, <4>2, <4>3
      <4> QED BY <3>2, <4>4 DEF P
    <3> QED BY <2>1, <3>1, <3>2
  <2> QED BY <2>2 DEF CashOf
<1> QED BY <1>1, <1>3 DEF ClosedShiftIsComplete

\* What may become of a request's row: it goes on with what is left of its
\* batch, and reports sold what is sold and conflicts that are noted.
RowMoves(r, row) ==
  /\ row \in ReplayRows /\ replay' = [replay EXCEPT ![r] = row]
  /\ row.at \in {"claim", "create"} => row.batch # {}
  /\ row.at = "mark" => replay[r].at = "mark" /\ row.batch = replay[r].batch
  /\ \/ row.batch \in {{}, replay[r].batch}
     \/ row.batch = replay[r].batch \ {Item(r)} /\ rows[Item(r)] = 1
  /\ \A s \in Sales : \/ row.result[s] \in {"NONE", "PENDING", replay[r].result[s]}
                      \/ row.result[s] = "APPLIED" /\ rows[s] = 1
                      \/ row.result[s] = "CONFLICT" /\ s \in refused'

\* A receipt says APPLIED only of the first sale of a batch, and of one there is.
ReceiptsMove ==
  /\ receipt' \in [Sales -> Receipts]
  /\ \A s \in Sales : receipt'[s].status # "NONE" => s \in offline
  /\ \A s \in Sales : receipt'[s].status = "APPLIED" =>
       \/ receipt[s].status = "APPLIED"
       \/ rows[s] = 1 /\ \E q \in Replays : s \in replay[q].batch /\ \A p \in replay[q].batch : s <= p

RowStep(r, row) ==
  /\ RowMoves(r, row) /\ ReceiptsMove
  /\ refused \subseteq refused' /\ refused' \subseteq Sales
  /\ syncing' \in {syncing, [request |-> None, seen |-> NoResults]}
  /\ UNCHANGED <<shift, rows, posting, drawer, shiftOf, queue, paying, offline, overwritten>>

LEMMA RowStepKeeps ==
  ASSUME SalesIInv, NEW r \in Replays, NEW row, RowStep(r, row)
  PROVE  SalesIInv'
<1> USE PointOfSaleAssumption
<1>1. /\ SalesTypeOK /\ BegunFirst /\ QueuedFirst /\ SalesAreKept /\ MarkedIsSold /\ ConflictIsRefused
      /\ BegunInOrder /\ BatchInOrder /\ SoldInSequence /\ ClosedShiftIsComplete
  BY DEF SalesIInv
<1>2. /\ UNCHANGED <<shift, rows, posting, drawer, shiftOf, queue, paying, offline, overwritten>>
      /\ refused \subseteq refused' /\ refused' \subseteq Sales
      /\ syncing' \in {syncing, [request |-> None, seen |-> NoResults]}
  BY DEF RowStep
<1>3. /\ row \in ReplayRows /\ replay' = [replay EXCEPT ![r] = row]
      /\ row.at \in {"claim", "create"} => row.batch # {}
      /\ row.at = "mark" => replay[r].at = "mark" /\ row.batch = replay[r].batch
  BY DEF RowStep, RowMoves
<1>4. replay \in [Replays -> ReplayRows] /\ offline \subseteq Sales /\ Sales \subseteq Nat
  BY <1>1 DEF SalesTypeOK, ReplayRows, Sales
<1>5. replay' \in [Replays -> ReplayRows] /\ replay'[r] = row /\ \A q \in Replays \ {r} : replay'[q] = replay[q]
  BY <1>3, <1>4
<1>6. /\ receipt' \in [Sales -> Receipts]
      /\ \A s \in Sales : receipt'[s].status # "NONE" => s \in offline
  BY DEF RowStep, ReceiptsMove
<1>7. /\ paying' = paying
      /\ \A s \in Sales : syncing'.seen[s] = "NONE" \/ syncing'.seen[s] = syncing.seen[s]
  <2>1. \A s \in Sales : [request |-> None, seen |-> NoResults].seen[s] = "NONE"
    BY DEF NoResults
  <2> QED BY <1>2, <2>1
<1>8. SalesTypeOK'
  <2>1. syncing' \in [request : Replays \cup {None}, seen : Queues]
    BY <1>1, <1>2, NoReplayRow DEF SalesTypeOK
  <2>2. UNCHANGED <<shift, rows, posting, drawer, shiftOf, queue, paying, offline, overwritten>>
    BY <1>2
  <2> QED BY <1>1, <1>2, <1>5, <1>6, <2>1, <2>2 DEF SalesTypeOK, ReplayRows, Receipts
<1>9. BegunFirst'
  BY <1>1, <1>2 DEF BegunFirst, Begun
<1>10. QueuedFirst'
  <2>1. Queued(queue)' \cup Queued(paying.seen)' \cup Queued(syncing.seen)' \subseteq offline'
    BY <1>1, <1>2, <1>7 DEF QueuedFirst, Queued
  <2>2. row.batch \subseteq replay[r].batch
    BY DEF RowStep, RowMoves
  <2>3. ASSUME NEW q \in Replays
        PROVE  replay'[q].batch \subseteq offline' /\ (Working(q)' => replay'[q].batch # {})
    <3>1. CASE q = r
      BY <1>1, <1>2, <1>3, <1>5, <2>2, <3>1 DEF QueuedFirst, Working
    <3>2. CASE q # r
      <4>1. replay'[q] = replay[q] /\ offline' = offline
        BY <1>2, <1>5, <3>2
      <4> QED BY <1>1, <4>1 DEF QueuedFirst, Working
    <3> QED BY <3>1, <3>2
  <2> QED BY <1>2, <1>6, <2>1, <2>3 DEF QueuedFirst
<1>11. ASSUME NEW s \in Sales, NEW q \in Replays, replay'[q].result[s] = "APPLIED" PROVE rows[s] = 1
  <2>1. \A k \in Replays : replay[k].result[s] = "APPLIED" => rows[s] = 1
    BY <1>1 DEF SalesAreKept, AppliedIsSold
  <2>2. row.result[s] = "APPLIED" => replay[r].result[s] = "APPLIED" \/ rows[s] = 1
    BY DEF RowStep, RowMoves
  <2>3. replay'[q] = row \/ replay'[q] = replay[q]
    BY <1>5
  <2> QED BY <1>11, <2>1, <2>2, <2>3
<1>12. ASSUME NEW s \in Sales, receipt'[s].status = "APPLIED" PROVE rows[s] = 1
  BY <1>1, <1>12 DEF RowStep, ReceiptsMove, SalesAreKept, AppliedIsSold
<1>13. SalesAreKept'
  <2>1. UNCHANGED <<rows, queue, offline, overwritten>>
    BY <1>2
  <2> QED BY <1>1, <1>11, <1>12, <2>1 DEF SalesAreKept, SoldOnce, AppliedIsSold
<1>14. MarkedIsSold'
  <2> SUFFICES ASSUME NEW q \in Replays, replay'[q].at = "mark" PROVE rows'[Item(q)'] = 1
    BY DEF MarkedIsSold
  <2>1. replay[q].at = "mark" /\ replay'[q].batch = replay[q].batch
    BY <1>3, <1>5
  <2>2. Item(q)' = Item(q)
    BY <2>1 DEF Item
  <2> QED BY <1>1, <1>2, <2>1, <2>2 DEF MarkedIsSold
<1>15. ConflictIsRefused'
  <2> SUFFICES ASSUME NEW s \in Sales,
                      \/ queue'[s] = "CONFLICT" \/ paying'.seen[s] = "CONFLICT" \/ syncing'.seen[s] = "CONFLICT"
                      \/ \E q \in Replays : replay'[q].result[s] = "CONFLICT"
               PROVE  s \in refused'
    BY DEF ConflictIsRefused
  <2>1. CASE queue'[s] = "CONFLICT" \/ paying'.seen[s] = "CONFLICT" \/ syncing'.seen[s] = "CONFLICT"
    <3>1. queue[s] = "CONFLICT" \/ paying.seen[s] = "CONFLICT" \/ syncing.seen[s] = "CONFLICT"
      BY <1>2, <1>7, <2>1
    <3> QED BY <1>1, <1>2, <3>1 DEF ConflictIsRefused
  <2>2. ASSUME NEW q \in Replays, replay'[q].result[s] = "CONFLICT" PROVE s \in refused'
    <3>1. (\E k \in Replays : replay[k].result[s] = "CONFLICT") => s \in refused
      BY <1>1 DEF ConflictIsRefused
    <3>2. row.result[s] = "CONFLICT" => replay[r].result[s] = "CONFLICT" \/ s \in refused'
      BY DEF RowStep, RowMoves
    <3>3. replay'[q] = row \/ replay'[q] = replay[q]
      BY <1>5
    <3> QED BY <1>2, <2>2, <3>1, <3>2, <3>3
  <2> QED BY <2>1, <2>2
<1>16. BegunInOrder'
  BY <1>1, <1>2 DEF BegunInOrder, GivenUp, Begun
<1>17. BatchInOrder'
  <2> SUFFICES ASSUME NEW q \in Replays, NEW b \in replay'[q].batch, NEW s \in offline, s < b,
                      s \notin replay'[q].batch
               PROVE  Settles(s)'
    BY <1>2 DEF BatchInOrder
  <2>1. \A k \in Replays : b \in replay[k].batch => s \in replay[k].batch \/ Settles(s)
    BY <1>1 DEF BatchInOrder
  <2>2. Settles(s) => Settles(s)'
    BY <1>2 DEF Settles
  <2>3. CASE q # r
    BY <1>5, <2>1, <2>2, <2>3
  <2>4. CASE q = r
    <3>1. replay'[q] = row
      BY <1>5, <2>4
    <3>2. b \in replay[r].batch /\ (s \in replay[r].batch => s = Item(r) /\ rows[s] = 1)
      BY <3>1 DEF RowStep, RowMoves
    <3>3. rows[s] = 1 => Settles(s)
      BY DEF Settles
    <3> QED BY <2>1, <2>2, <3>2, <3>3
  <2> QED BY <2>3, <2>4
<1>18. SoldInSequence'
  <2> SUFFICES ASSUME NEW s \in offline, NEW u \in offline, s < u, receipt'[u].status = "APPLIED"
               PROVE  Settles(s)
    BY <1>2 DEF SoldInSequence, Settles
  <2>1. s \in Sales /\ u \in Sales /\ s \in Nat /\ u \in Nat
    BY <1>4, Zenon
  <2>2. CASE receipt[u].status = "APPLIED"
    BY <1>1, <2>2 DEF SoldInSequence, Settles
  <2>3. ASSUME NEW q \in Replays, u \in replay[q].batch, \A v \in replay[q].batch : u <= v PROVE Settles(s)
    <3>1. s \notin replay[q].batch
      BY <2>1, <2>3
    <3> QED BY <1>1, <2>3, <3>1 DEF BatchInOrder
  <2> QED BY <2>1, <2>2, <2>3 DEF RowStep, ReceiptsMove
<1>19. ClosedShiftIsComplete'
  BY <1>1, <1>2, CountIsKept
<1> QED BY <1>8, <1>9, <1>10, <1>13, <1>14, <1>15, <1>16, <1>17, <1>18, <1>19 DEF SalesIInv

\* The first sale of what a working request has left.
LEMMA WorkingItem ==
  ASSUME SalesIInv, NEW r \in Replays, Working(r)
  PROVE  /\ replay[r].batch # {} /\ Item(r) \in replay[r].batch /\ Item(r) \in Sales
         /\ \A s \in replay[r].batch : Item(r) <= s
         /\ Item(r) \in offline
<1>1. SalesTypeOK /\ QueuedFirst
  BY DEF SalesIInv
<1>2. replay[r].batch # {} /\ replay[r].batch \subseteq offline
  BY <1>1 DEF QueuedFirst
<1> QED BY <1>1, <1>2, ItemIsFirst

\* The two ways a working request is done with its first sale.
LEMMA AppliedMoves ==
  ASSUME SalesIInv, NEW r \in Replays, Working(r), rows[Item(r)] = 1,
         replay' = [replay EXCEPT ![r] = Heard(r, Applied(r))]
  PROVE  RowMoves(r, Heard(r, Applied(r)))
<1> DEFINE row == Heard(r, Applied(r))
<1>1. SalesTypeOK /\ Item(r) \in replay[r].batch /\ Item(r) \in Sales
  BY WorkingItem DEF SalesIInv
<1>2. /\ Applied(r) \in ReplayRows /\ Applied(r).batch = replay[r].batch \ {Item(r)}
      /\ Applied(r).at = IF replay[r].batch = {Item(r)} THEN "answer" ELSE "claim"
      /\ Applied(r).result = [replay[r].result EXCEPT ![Item(r)] = "APPLIED"]
  BY <1>1, AppliedRow
<1>3. replay[r].result \in [Sales -> Results]
  BY <1>1 DEF SalesTypeOK
<1>4. /\ row \in ReplayRows /\ row.batch = replay[r].batch \ {Item(r)}
      /\ row.at \in {"answer", "idle"} \/ (row.at = "claim" /\ row.batch # {})
  <2>1. replay[r].batch # {Item(r)} => replay[r].batch \ {Item(r)} # {}
    BY <1>1
  <2> QED BY <1>2, <2>1, HeardRow
<1>5. \A s \in Sales : row.result[s] \in {"NONE", replay[r].result[s]} \/ (row.result[s] = "APPLIED" /\ rows[s] = 1)
  <2>1. \A s \in Sales : row.result[s] \in {Applied(r).result[s], "NONE"}
    BY <1>2, HeardRow
  <2>2. \A s \in Sales : Applied(r).result[s] = IF s = Item(r) THEN "APPLIED" ELSE replay[r].result[s]
    BY <1>1, <1>2, <1>3
  <2> QED BY <2>1, <2>2
<1>6. replay' = [replay EXCEPT ![r] = row]
  OBVIOUS
<1> HIDE DEF row
<1>7. RowMoves(r, row)
  BY <1>4, <1>5, <1>6 DEF RowMoves
<1> QED BY <1>7 DEF row

LEMMA BlockedMoves ==
  ASSUME SalesIInv, NEW r \in Replays, Working(r), NEW outcome \in {"PENDING", "CONFLICT"},
         outcome = "CONFLICT" => Item(r) \in refused',
         replay' = [replay EXCEPT ![r] = Heard(r, Blocked(r, outcome))]
  PROVE  RowMoves(r, Heard(r, Blocked(r, outcome)))
<1> DEFINE row == Heard(r, Blocked(r, outcome))
<1>1. SalesTypeOK /\ replay[r].batch # {} /\ outcome \in Results
  BY WorkingItem DEF SalesIInv, Results
<1>2. /\ Blocked(r, outcome) \in ReplayRows /\ Blocked(r, outcome).batch = {}
      /\ Blocked(r, outcome).at = "answer"
      /\ Blocked(r, outcome).result =
           [s \in Sales |-> IF s = Item(r) THEN outcome
                            ELSE IF s \in replay[r].batch THEN "PENDING" ELSE replay[r].result[s]]
  BY <1>1, BlockedRow
<1>3. row \in ReplayRows /\ row.batch = {} /\ row.at \in {"answer", "idle"}
  BY <1>2, HeardRow
<1>4. \A s \in Sales : \/ row.result[s] \in {"NONE", "PENDING", replay[r].result[s]}
                       \/ row.result[s] = "CONFLICT" /\ s \in refused'
  <2>1. \A s \in Sales : row.result[s] \in {Blocked(r, outcome).result[s], "NONE"}
    BY <1>2, HeardRow
  <2>2. \A s \in Sales : Blocked(r, outcome).result[s] \in {"PENDING", replay[r].result[s]}
                         \/ (Blocked(r, outcome).result[s] = "CONFLICT" /\ s \in refused')
    BY <1>2
  <2> QED BY <2>1, <2>2
<1>5. replay' = [replay EXCEPT ![r] = row]
  OBVIOUS
<1> HIDE DEF row
<1>6. RowMoves(r, row)
  BY <1>3, <1>4, <1>5 DEF RowMoves
<1> QED BY <1>6 DEF row

\* A sale that is stamped with the drawer's shift joins those that are begun.
LEMMA StampedIsBegun ==
  ASSUME SalesTypeOK, BegunFirst, UNCHANGED <<shift, drawer>>,
         \A p \in Sales : shiftOf'[p] = shiftOf[p] \/ (drawer # 0 /\ shiftOf'[p] = drawer),
         posting' \cup offline' \cup ({paying'.sale} \ {None}) \subseteq Begun'
  PROVE  BegunFirst'
<1>1. \A p \in Begun' : shift[shiftOf'[p]].status # "NONE"
  <2> SUFFICES ASSUME NEW p \in Sales, shiftOf'[p] # 0 PROVE shift[shiftOf'[p]].status # "NONE"
    BY DEF Begun
  <2>1. shiftOf[p] # 0 => shift[shiftOf[p]].status # "NONE"
    BY DEF BegunFirst, Begun
  <2>2. drawer # 0 => shift[drawer].status # "NONE"
    BY DEF BegunFirst
  <2> QED BY <2>1, <2>2
<1>2. drawer # 0 => shift[drawer].status # "NONE"
  BY DEF BegunFirst
<1> QED BY <1>1, <1>2 DEF BegunFirst

LEMMA SalesStep == SalesIInv /\ [SalesNext]_saleVars => SalesIInv'
<1> SUFFICES ASSUME SalesIInv, [SalesNext]_saleVars PROVE SalesIInv'
  OBVIOUS
<1> USE PointOfSaleAssumption
<1>0. /\ SalesTypeOK /\ BegunFirst /\ QueuedFirst /\ SalesAreKept /\ MarkedIsSold /\ ConflictIsRefused
      /\ BegunInOrder /\ BatchInOrder /\ SoldInSequence /\ ClosedShiftIsComplete
  BY DEF SalesIInv
<1>a. /\ None \notin Sales /\ 0 \notin Shifts /\ Sales \subseteq Nat /\ offline \subseteq Sales
      /\ drawer # 0 => drawer \in Shifts
      /\ \A s \in Sales : shiftOf[s] # 0 => shiftOf[s] \in Shifts
  <2>1. None \notin Sales /\ 0 \notin Shifts /\ Sales \subseteq Nat
    BY DEF Sales, Shifts
  <2>2. /\ offline \subseteq Sales
        /\ drawer # 0 => drawer \in Shifts
        /\ \A s \in Sales : shiftOf[s] # 0 => shiftOf[s] \in Shifts
    BY <1>0 DEF SalesTypeOK
  <2> QED BY <2>1, <2>2
<1>1. ASSUME NEW k \in Shifts, OpenShift(k) PROVE SalesIInv'
  <2>0. UNCHANGED <<rows, receipt, replay, posting, shiftOf, queue, paying, syncing, offline, refused, overwritten>>
    BY <1>1 DEF OpenShift, serverVars, terminalVars
  <2>1. /\ shift' \in [Shifts -> [status : {"NONE", "OPEN", "CLOSED"}, moved : Nat, expected : Nat]]
        /\ \A j \in Shifts \ {k} : shift'[j] = shift[j]
        /\ shift'[k].status = "OPEN" /\ shift'[k].moved = shift[k].moved /\ shift'[k].expected = shift[k].expected
    BY <1>0, <1>1 DEF OpenShift, SalesTypeOK
  <2>2. drawer' = k /\ shift[k].status = "NONE"
    BY <1>1 DEF OpenShift
  <2>3. SalesTypeOK'
    BY <1>0, <1>a, <2>0, <2>1, <2>2 DEF SalesTypeOK, ReplayRows, Receipts
  <2>4. BegunFirst'
    BY <1>0, <1>a, <2>0, <2>1, <2>2 DEF BegunFirst, Begun, SalesTypeOK
  <2>5. QueuedFirst'
    BY <1>0, <2>0 DEF QueuedFirst, Queued, Working
  <2>6. SalesAreKept'
    BY <1>0, <2>0 DEF SalesAreKept, SoldOnce, AppliedIsSold
  <2>7. MarkedIsSold'
    BY <1>0, <2>0 DEF MarkedIsSold, Item
  <2>8. ConflictIsRefused'
    BY <1>0, <2>0 DEF ConflictIsRefused
  <2>9. BegunInOrder'
    BY <1>0, <1>a, <2>0, <2>1, <2>2 DEF BegunInOrder, GivenUp, Begun, SalesTypeOK
  <2>10. BatchInOrder'
    BY <1>0, <2>0 DEF BatchInOrder, Settles
  <2>11. SoldInSequence'
    BY <1>0, <2>0 DEF SoldInSequence
  <2>12. ClosedShiftIsComplete'
    BY <1>0, <2>0, <2>1, <2>2 DEF ClosedShiftIsComplete, CashOf, SalesOf
  <2> QED BY <2>3, <2>4, <2>5, <2>6, <2>7, <2>8, <2>9, <2>10, <2>11, <2>12 DEF SalesIInv
<1>2. ASSUME NEW k \in Shifts, RecordCashMovement(k) PROVE SalesIInv'
  <2>0. UNCHANGED <<rows, receipt, replay, posting, drawer, shiftOf, queue, paying, syncing, offline, refused, overwritten>>
    BY <1>2 DEF RecordCashMovement, serverVars, terminalVars
  <2>1. /\ shift' \in [Shifts -> [status : {"NONE", "OPEN", "CLOSED"}, moved : Nat, expected : Nat]]
        /\ \A j \in Shifts \ {k} : shift'[j] = shift[j]
        /\ shift'[k].status = "OPEN" /\ shift'[k].moved = 1 /\ shift'[k].expected = shift[k].expected
    <3>1. shift' = [shift EXCEPT ![k].moved = 1] /\ shift[k].status = "OPEN"
      BY <1>2 DEF RecordCashMovement
    <3>2. shift \in [Shifts -> [status : {"NONE", "OPEN", "CLOSED"}, moved : Nat, expected : Nat]]
      BY <1>0 DEF SalesTypeOK
    <3> QED BY <3>1, <3>2
  <2>2. shift[k].status = "OPEN"
    BY <1>2 DEF RecordCashMovement
  <2>3. SalesTypeOK'
    BY <1>0, <1>a, <2>0, <2>1, <2>2 DEF SalesTypeOK, ReplayRows, Receipts
  <2>4. BegunFirst'
    BY <1>0, <1>a, <2>0, <2>1, <2>2 DEF BegunFirst, Begun, SalesTypeOK
  <2>5. QueuedFirst'
    BY <1>0, <2>0 DEF QueuedFirst, Queued, Working
  <2>6. SalesAreKept'
    BY <1>0, <2>0 DEF SalesAreKept, SoldOnce, AppliedIsSold
  <2>7. MarkedIsSold'
    BY <1>0, <2>0 DEF MarkedIsSold, Item
  <2>8. ConflictIsRefused'
    BY <1>0, <2>0 DEF ConflictIsRefused
  <2>9. BegunInOrder'
    BY <1>0, <1>a, <2>0, <2>1, <2>2 DEF BegunInOrder, GivenUp, Begun, SalesTypeOK
  <2>10. BatchInOrder'
    BY <1>0, <2>0 DEF BatchInOrder, Settles
  <2>11. SoldInSequence'
    BY <1>0, <2>0 DEF SoldInSequence
  <2>12. ClosedShiftIsComplete'
    BY <1>0, <1>a, <2>0, <2>1, <2>2 DEF ClosedShiftIsComplete, CashOf, SalesOf, SalesTypeOK
  <2> QED BY <2>3, <2>4, <2>5, <2>6, <2>7, <2>8, <2>9, <2>10, <2>11, <2>12 DEF SalesIInv
<1>3. ASSUME NEW k \in Shifts, CloseShift(k), drawer' \in {0, drawer} PROVE SalesIInv'
  <2>0. UNCHANGED <<rows, receipt, replay, posting, shiftOf, queue, paying, syncing, offline, refused, overwritten>>
    BY <1>3 DEF CloseShift
  <2>1. /\ shift' \in [Shifts -> [status : {"NONE", "OPEN", "CLOSED"}, moved : Nat, expected : Nat]]
        /\ \A j \in Shifts \ {k} : shift'[j] = shift[j]
        /\ shift'[k].status = "CLOSED" /\ shift'[k].moved = shift[k].moved /\ shift'[k].expected = CashOf(k)
    <3> DEFINE row == [shift[k] EXCEPT !.status = "CLOSED", !.expected = CashOf(k)]
    <3>1. shift' = [shift EXCEPT ![k] = row]
      BY <1>0, <1>3 DEF CloseShift, SalesTypeOK
    <3>2. /\ row \in [status : {"NONE", "OPEN", "CLOSED"}, moved : Nat, expected : Nat]
          /\ row.status = "CLOSED" /\ row.moved = shift[k].moved /\ row.expected = CashOf(k)
      <4>1. shift[k] \in [status : {"NONE", "OPEN", "CLOSED"}, moved : Nat, expected : Nat] /\ CashOf(k) \in Nat
        BY <1>0, CashIsCounted DEF SalesTypeOK
      <4> QED BY <4>1
    <3> HIDE DEF row
    <3> QED BY <1>0, <3>1, <3>2 DEF SalesTypeOK
  <2>2. drawer' \in {0, drawer} /\ shift[k].status = "OPEN"
    BY <1>3 DEF CloseShift
  <2>3. SalesTypeOK'
    BY <1>0, <1>a, <2>0, <2>1, <2>2 DEF SalesTypeOK, ReplayRows, Receipts
  <2>4. BegunFirst'
    <3>1. \A j \in Shifts : shift'[j].status = "NONE" => shift[j].status = "NONE"
      BY <2>1
    <3> QED BY <1>0, <1>a, <2>0, <2>2, <3>1 DEF BegunFirst, Begun
  <2>5. QueuedFirst'
    BY <1>0, <2>0 DEF QueuedFirst, Queued, Working
  <2>6. SalesAreKept'
    BY <1>0, <2>0 DEF SalesAreKept, SoldOnce, AppliedIsSold
  <2>7. MarkedIsSold'
    BY <1>0, <2>0 DEF MarkedIsSold, Item
  <2>8. ConflictIsRefused'
    BY <1>0, <2>0 DEF ConflictIsRefused
  <2>9. BegunInOrder'
    BY <1>0, <1>a, <2>0, <2>1, <2>2 DEF BegunInOrder, GivenUp, Begun, SalesTypeOK
  <2>10. BatchInOrder'
    BY <1>0, <2>0 DEF BatchInOrder, Settles
  <2>11. SoldInSequence'
    BY <1>0, <2>0 DEF SoldInSequence
  <2>12. ClosedShiftIsComplete'
    <3>1. \A j \in Shifts : CashOf(j)' = CashOf(j)
      BY <2>0, <2>1 DEF CashOf, SalesOf
    <3> QED BY <1>0, <2>1, <3>1 DEF ClosedShiftIsComplete
  <2> QED BY <2>3, <2>4, <2>5, <2>6, <2>7, <2>8, <2>9, <2>10, <2>11, <2>12 DEF SalesIInv
<1>4. ASSUME RefreshDrawer PROVE SalesIInv'
  <2>0. UNCHANGED <<shift, rows, receipt, replay, posting, shiftOf, queue, paying, syncing, offline, refused, overwritten>>
    BY <1>4 DEF RefreshDrawer, serverVars, terminalVars
  <2>1. drawer' = 0
    BY <1>4 DEF RefreshDrawer
  <2>2. SalesTypeOK'
    BY <1>0, <1>a, <2>0, <2>1 DEF SalesTypeOK, ReplayRows, Receipts
  <2>3. BegunFirst'
    BY <1>0, <1>a, <2>0, <2>1 DEF BegunFirst, Begun, SalesTypeOK
  <2>4. QueuedFirst'
    BY <1>0, <2>0 DEF QueuedFirst, Queued, Working
  <2>5. SalesAreKept'
    BY <1>0, <2>0 DEF SalesAreKept, SoldOnce, AppliedIsSold
  <2>6. MarkedIsSold'
    BY <1>0, <2>0 DEF MarkedIsSold, Item
  <2>7. ConflictIsRefused'
    BY <1>0, <2>0 DEF ConflictIsRefused
  <2>8. BegunInOrder'
    BY <1>0, <1>a, <2>0, <2>1 DEF BegunInOrder, GivenUp, Begun, SalesTypeOK
  <2>9. BatchInOrder'
    BY <1>0, <2>0 DEF BatchInOrder, Settles
  <2>10. SoldInSequence'
    BY <1>0, <2>0 DEF SoldInSequence
  <2>11. ClosedShiftIsComplete'
    BY <1>0, <2>0 DEF ClosedShiftIsComplete, CashOf, SalesOf
  <2> QED BY <2>2, <2>3, <2>4, <2>5, <2>6, <2>7, <2>8, <2>9, <2>10, <2>11 DEF SalesIInv
<1>5. ASSUME NEW s \in Sales, ServeSale(s) PROVE SalesIInv'
  <2>0. UNCHANGED <<shift, receipt, replay, drawer, shiftOf, queue, paying, syncing, offline, refused, overwritten>>
    BY <1>5 DEF ServeSale, serverVars, terminalVars
  <2>1. s \in Begun /\ posting' = posting \ {s}
    BY <1>0, <1>5 DEF ServeSale, BegunFirst
  <2>2. /\ rows' \in [Sales -> Nat]
        /\ \A p \in Sales : (rows[p] = 1 => rows'[p] = 1) /\ rows'[p] <= 1
    BY <1>0, <1>5, <2>1, CreatedSale DEF ServeSale, SalesAreKept, SoldOnce
  <2>3. SalesTypeOK'
    BY <1>0, <1>a, <2>0, <2>1, <2>2 DEF SalesTypeOK, ReplayRows, Receipts
  <2>4. BegunFirst'
    BY <1>0, <1>a, <2>0, <2>1, <2>2 DEF BegunFirst, Begun, SalesTypeOK
  <2>5. QueuedFirst'
    BY <1>0, <2>0 DEF QueuedFirst, Queued, Working
  <2>6. SalesAreKept'
    <3>1. SoldOnce'
      BY <1>0, <2>0, <2>1, <2>2 DEF SalesAreKept, SoldOnce
    <3>2. \A p \in Sales : receipt'[p].status = "APPLIED" => rows'[p] = 1
      BY <1>0, <2>0, <2>1, <2>2 DEF SalesAreKept, AppliedIsSold
    <3>3. ASSUME NEW q \in Replays, NEW p \in Sales, replay'[q].result[p] = "APPLIED" PROVE rows'[p] = 1
      <4>1. replay[q].result[p] = "APPLIED" => rows'[p] = 1
        BY <1>0, <2>0, <2>1, <2>2 DEF SalesAreKept, AppliedIsSold
      <4> QED BY <1>0, <3>3, <4>1, <2>0, <2>1, <2>2 DEF SalesTypeOK
    <3>4. \A p \in offline' \ overwritten' : queue'[p] # "NONE" \/ rows'[p] = 1
      BY <1>0, <1>a, <2>0, <2>1, <2>2 DEF SalesAreKept, SoldOnce, AppliedIsSold, SalesTypeOK, Settled
    <3> QED BY <3>1, <3>2, <3>3, <3>4 DEF SalesAreKept, AppliedIsSold
  <2>7. MarkedIsSold'
    <3> SUFFICES ASSUME NEW r \in Replays, replay[r].at = "mark" PROVE rows'[Item(r)] = 1
      BY <2>0 DEF MarkedIsSold, Item
    <3>1. Item(r) \in Sales
      BY <1>0, ItemIsFirst DEF QueuedFirst, Working
    <3> QED BY <1>0, <2>2, <3>1 DEF MarkedIsSold
  <2>8. ConflictIsRefused'
    BY <1>0, <2>0 DEF ConflictIsRefused
  <2>9. BegunInOrder'
    BY <1>0, <1>a, <2>0, <2>1, <2>2 DEF BegunInOrder, GivenUp, Begun, SalesTypeOK
  <2>10. BatchInOrder'
    BY <1>0, <1>a, <2>0, <2>1, <2>2 DEF BatchInOrder, Settles, SalesTypeOK
  <2>11. SoldInSequence'
    BY <1>0, <1>a, <2>0, <2>1, <2>2 DEF SoldInSequence, SalesTypeOK
  <2>12. ClosedShiftIsComplete'
    BY <1>5, <2>0, <2>1, CreationKeepsCount DEF ServeSale
  <2> QED BY <2>3, <2>4, <2>5, <2>6, <2>7, <2>8, <2>9, <2>10, <2>11, <2>12 DEF SalesIInv
<1>6. ASSUME NEW s \in Sales, Pay(s) PROVE SalesIInv'
  <2>0. UNCHANGED <<shift, rows, receipt, replay, drawer, queue, syncing, offline, refused, overwritten>>
    BY <1>6 DEF Pay, serverVars, terminalVars
  <2>1. /\ paying' = [sale |-> s, seen |-> queue] /\ posting' = posting \cup {s}
        /\ paying.sale = None /\ drawer # 0 /\ s \notin offline /\ rows[s] = 0 /\ shiftOf[s] \in {0, drawer}
        /\ \A p \in Sales : p < s => p \in offline \/ rows[p] > 0 \/ shiftOf[p] \notin {0, drawer}
    BY <1>6 DEF Pay, Ready
  <2>2. /\ shiftOf' \in [Sales -> Shifts \cup {0}] /\ shiftOf'[s] = drawer
        /\ \A p \in Sales \ {s} : shiftOf'[p] = shiftOf[p]
    BY <1>0, <1>6, <2>1 DEF Pay, Stamp, SalesTypeOK
  <2>3. SalesTypeOK'
    BY <1>0, <1>a, <2>0, <2>1, <2>2 DEF SalesTypeOK, ReplayRows, Receipts
  <2>4. BegunFirst'
    <3>1. Begun' = Begun \cup {s} /\ posting \cup offline \subseteq Begun
      <4>1. drawer # 0
        BY <2>1
      <4>2. Begun' = Begun \cup {s}
        BY <2>2, <4>1 DEF Begun
      <4>3. posting \cup offline \subseteq Begun
        BY <1>0 DEF BegunFirst
      <4> QED BY <4>2, <4>3
    <3>2. \A p \in Sales : shiftOf'[p] = shiftOf[p] \/ (drawer # 0 /\ shiftOf'[p] = drawer)
      BY <2>1, <2>2
    <3>3. posting' \cup offline' \cup ({paying'.sale} \ {None}) \subseteq Begun'
      BY <2>0, <2>1, <3>1
    <3> QED BY <1>0, <2>0, <3>2, <3>3, StampedIsBegun
  <2>5. QueuedFirst'
    BY <1>0, <1>a, <2>0, <2>1, <2>2 DEF QueuedFirst, Queued, Working, SalesTypeOK
  <2>6. SalesAreKept'
    BY <1>0, <2>0 DEF SalesAreKept, SoldOnce, AppliedIsSold
  <2>7. MarkedIsSold'
    BY <1>0, <2>0 DEF MarkedIsSold, Item
  <2>8. ConflictIsRefused'
    BY <1>0, <1>a, <2>0, <2>1, <2>2 DEF ConflictIsRefused, SalesTypeOK
  <2>9. BegunInOrder'
    BY <1>0, <1>a, <2>0, <2>1, <2>2 DEF BegunInOrder, GivenUp, Begun, SalesTypeOK, BegunFirst, SalesAreKept, SoldOnce
  <2>10. BatchInOrder'
    BY <1>0, <2>0 DEF BatchInOrder, Settles
  <2>11. SoldInSequence'
    BY <1>0, <2>0 DEF SoldInSequence
  <2>12. ClosedShiftIsComplete'
    BY <1>6, <2>0, StampKeepsCount DEF Pay
  <2> QED BY <2>3, <2>4, <2>5, <2>6, <2>7, <2>8, <2>9, <2>10, <2>11, <2>12 DEF SalesIInv
<1>7. ASSUME PayAnswered PROVE SalesIInv'
  <2>0. UNCHANGED <<shift, rows, receipt, replay, posting, drawer, shiftOf, queue, syncing, offline, refused, overwritten>>
    BY <1>7 DEF PayAnswered, serverVars, terminalVars
  <2>1. paying' = [sale |-> None, seen |-> NoResults]
    BY <1>7 DEF PayAnswered
  <2>2. NoResults \in Queues /\ \A s \in Sales : NoResults[s] = "NONE"
    BY NoReplayRow DEF NoResults
  <2>3. SalesTypeOK'
    BY <1>0, <1>a, <2>0, <2>1, <2>2 DEF SalesTypeOK, ReplayRows, Receipts
  <2>4. BegunFirst'
    BY <1>0, <1>a, <2>0, <2>1, <2>2 DEF BegunFirst, Begun, SalesTypeOK
  <2>5. QueuedFirst'
    BY <1>0, <1>a, <2>0, <2>1, <2>2 DEF QueuedFirst, Queued, Working, SalesTypeOK
  <2>6. SalesAreKept'
    BY <1>0, <2>0 DEF SalesAreKept, SoldOnce, AppliedIsSold
  <2>7. MarkedIsSold'
    BY <1>0, <2>0 DEF MarkedIsSold, Item
  <2>8. ConflictIsRefused'
    BY <1>0, <1>a, <2>0, <2>1, <2>2 DEF ConflictIsRefused, SalesTypeOK
  <2>9. BegunInOrder'
    BY <1>0, <1>a, <2>0, <2>1, <2>2 DEF BegunInOrder, GivenUp, Begun, SalesTypeOK, Sales
  <2>10. BatchInOrder'
    BY <1>0, <2>0 DEF BatchInOrder, Settles
  <2>11. SoldInSequence'
    BY <1>0, <2>0 DEF SoldInSequence
  <2>12. ClosedShiftIsComplete'
    BY <1>0, <2>0 DEF ClosedShiftIsComplete, CashOf, SalesOf
  <2> QED BY <2>3, <2>4, <2>5, <2>6, <2>7, <2>8, <2>9, <2>10, <2>11, <2>12 DEF SalesIInv
<1>8. ASSUME PayUnanswered PROVE SalesIInv'
  <2>0. UNCHANGED <<shift, rows, receipt, replay, posting, drawer, shiftOf, syncing, refused>>
    BY <1>8 DEF PayUnanswered, serverVars, terminalVars
  <2> DEFINE s == paying.sale
  <2>1. /\ s \in Sales
        /\ queue' \in Queues /\ queue'[s] = "PENDING" /\ \A p \in Sales \ {s} : queue'[p] = paying.seen[p]
        /\ offline' = offline \cup {s}
        /\ overwritten' = overwritten \cup {p \in Sales : queue[p] # "NONE" /\ queue'[p] = "NONE"}
    BY <1>0, <1>8 DEF PayUnanswered, Enqueue, SalesTypeOK, Queues
  <2>2. paying' = [sale |-> None, seen |-> NoResults]
    BY <1>8 DEF PayUnanswered
  <2>3. NoResults \in Queues /\ \A p \in Sales : NoResults[p] = "NONE"
    BY NoReplayRow DEF NoResults
  <2>4. SalesTypeOK'
    BY <1>0, <1>a, <2>0, <2>1, <2>2, <2>3 DEF SalesTypeOK, ReplayRows, Receipts
  <2>5. BegunFirst'
    BY <1>0, <1>a, <2>0, <2>1, <2>2, <2>3 DEF BegunFirst, Begun, SalesTypeOK
  <2>6. QueuedFirst'
    BY <1>0, <1>a, <2>0, <2>1, <2>2, <2>3 DEF QueuedFirst, Queued, Working, SalesTypeOK
  <2>7. SalesAreKept'
    <3>1. SoldOnce'
      BY <1>0, <2>0, <2>1, <2>2, <2>3 DEF SalesAreKept, SoldOnce
    <3>2. \A p \in Sales : receipt'[p].status = "APPLIED" => rows'[p] = 1
      BY <1>0, <2>0, <2>1, <2>2, <2>3 DEF SalesAreKept, AppliedIsSold
    <3>3. ASSUME NEW q \in Replays, NEW p \in Sales, replay'[q].result[p] = "APPLIED" PROVE rows'[p] = 1
      <4>1. replay[q].result[p] = "APPLIED" => rows'[p] = 1
        BY <1>0, <2>0, <2>1, <2>2, <2>3 DEF SalesAreKept, AppliedIsSold
      <4> QED BY <1>0, <3>3, <4>1, <2>0, <2>1, <2>2, <2>3 DEF SalesTypeOK
    <3>4. \A p \in offline' \ overwritten' : queue'[p] # "NONE" \/ rows'[p] = 1
      BY <1>0, <1>a, <2>0, <2>1, <2>2, <2>3 DEF SalesAreKept, SoldOnce, AppliedIsSold, SalesTypeOK, Settled
    <3> QED BY <3>1, <3>2, <3>3, <3>4 DEF SalesAreKept, AppliedIsSold
  <2>8. MarkedIsSold'
    BY <1>0, <2>0 DEF MarkedIsSold, Item
  <2>9. ConflictIsRefused'
    BY <1>0, <1>a, <2>0, <2>1, <2>2, <2>3 DEF ConflictIsRefused, SalesTypeOK
  <2>10. BegunInOrder'
    BY <1>0, <1>a, <2>0, <2>1, <2>2, <2>3 DEF BegunInOrder, GivenUp, Begun, SalesTypeOK, BegunFirst
  <2>11. BatchInOrder'
    BY <1>0, <1>a, <2>0, <2>1, <2>2, <2>3 DEF BatchInOrder, Settles, SalesTypeOK, BegunInOrder, GivenUp, QueuedFirst, BegunFirst, Begun
  <2>12. SoldInSequence'
    BY <1>0, <1>a, <2>0, <2>1, <2>2, <2>3 DEF SoldInSequence, SalesTypeOK, QueuedFirst, BegunInOrder, GivenUp, BegunFirst, Begun
  <2>13. ClosedShiftIsComplete'
    BY <1>0, <2>0 DEF ClosedShiftIsComplete, CashOf, SalesOf
  <2> QED BY <2>4, <2>5, <2>6, <2>7, <2>8, <2>9, <2>10, <2>11, <2>12, <2>13 DEF SalesIInv
<1>9. ASSUME NEW s \in Sales, PayOffline(s) PROVE SalesIInv'
  <2>0. UNCHANGED <<shift, rows, receipt, replay, posting, drawer, paying, syncing, refused>>
    BY <1>9 DEF PayOffline, serverVars, terminalVars
  <2>1. /\ queue' \in Queues /\ queue'[s] = "PENDING" /\ \A p \in Sales \ {s} : queue'[p] = queue[p]
        /\ offline' = offline \cup {s}
        /\ overwritten' = overwritten \cup {p \in Sales : queue[p] # "NONE" /\ queue'[p] = "NONE"}
    BY <1>0, <1>9 DEF PayOffline, Enqueue, SalesTypeOK, Queues
  <2>2. /\ paying.sale = None /\ drawer # 0 /\ s \notin offline /\ rows[s] = 0 /\ shiftOf[s] \in {0, drawer}
        /\ \A p \in Sales : p < s => p \in offline \/ rows[p] > 0 \/ shiftOf[p] \notin {0, drawer}
    BY <1>9 DEF PayOffline, Ready
  <2>3. /\ shiftOf' \in [Sales -> Shifts \cup {0}] /\ shiftOf'[s] = drawer
        /\ \A p \in Sales \ {s} : shiftOf'[p] = shiftOf[p]
    BY <1>0, <1>9, <2>2 DEF PayOffline, Stamp, SalesTypeOK
  <2>4. SalesTypeOK'
    BY <1>0, <1>a, <2>0, <2>1, <2>2, <2>3 DEF SalesTypeOK, ReplayRows, Receipts
  <2>5. BegunFirst'
    <3>1. Begun' = Begun \cup {s} /\ posting \cup offline \subseteq Begun
      <4>1. drawer # 0
        BY <2>2
      <4>2. Begun' = Begun \cup {s}
        BY <2>3, <4>1 DEF Begun
      <4>3. posting \cup offline \subseteq Begun
        BY <1>0 DEF BegunFirst
      <4> QED BY <4>2, <4>3
    <3>2. \A p \in Sales : shiftOf'[p] = shiftOf[p] \/ (drawer # 0 /\ shiftOf'[p] = drawer)
      BY <2>2, <2>3
    <3>3. posting' \cup offline' \cup ({paying'.sale} \ {None}) \subseteq Begun'
      BY <2>0, <2>1, <2>2, <3>1
    <3> QED BY <1>0, <2>0, <3>2, <3>3, StampedIsBegun
  <2>6. QueuedFirst'
    BY <1>0, <1>a, <2>0, <2>1, <2>2, <2>3 DEF QueuedFirst, Queued, Working, SalesTypeOK
  <2>7. SalesAreKept'
    <3>1. SoldOnce'
      BY <1>0, <2>0, <2>1, <2>2, <2>3 DEF SalesAreKept, SoldOnce
    <3>2. \A p \in Sales : receipt'[p].status = "APPLIED" => rows'[p] = 1
      BY <1>0, <2>0, <2>1, <2>2, <2>3 DEF SalesAreKept, AppliedIsSold
    <3>3. ASSUME NEW q \in Replays, NEW p \in Sales, replay'[q].result[p] = "APPLIED" PROVE rows'[p] = 1
      <4>1. replay[q].result[p] = "APPLIED" => rows'[p] = 1
        BY <1>0, <2>0, <2>1, <2>2, <2>3 DEF SalesAreKept, AppliedIsSold
      <4> QED BY <1>0, <3>3, <4>1, <2>0, <2>1, <2>2, <2>3 DEF SalesTypeOK
    <3>4. \A p \in offline' \ overwritten' : queue'[p] # "NONE" \/ rows'[p] = 1
      BY <1>0, <1>a, <2>0, <2>1, <2>2, <2>3 DEF SalesAreKept, SoldOnce, AppliedIsSold, SalesTypeOK, Settled
    <3> QED BY <3>1, <3>2, <3>3, <3>4 DEF SalesAreKept, AppliedIsSold
  <2>8. MarkedIsSold'
    BY <1>0, <2>0 DEF MarkedIsSold, Item
  <2>9. ConflictIsRefused'
    BY <1>0, <1>a, <2>0, <2>1, <2>2, <2>3 DEF ConflictIsRefused, SalesTypeOK
  <2>10. BegunInOrder'
    BY <1>0, <1>a, <2>0, <2>1, <2>2, <2>3 DEF BegunInOrder, GivenUp, Begun, SalesTypeOK, BegunFirst, SalesAreKept, SoldOnce
  <2>11. BatchInOrder'
    BY <1>0, <1>a, <2>0, <2>1, <2>2, <2>3 DEF BatchInOrder, Settles, SalesTypeOK, BegunInOrder, GivenUp, QueuedFirst, BegunFirst, Begun
  <2>12. SoldInSequence'
    BY <1>0, <1>a, <2>0, <2>1, <2>2, <2>3 DEF SoldInSequence, SalesTypeOK, QueuedFirst, BegunInOrder, GivenUp, BegunFirst, Begun
  <2>13. ClosedShiftIsComplete'
    BY <1>9, <2>0, StampKeepsCount DEF PayOffline
  <2> QED BY <2>4, <2>5, <2>6, <2>7, <2>8, <2>9, <2>10, <2>11, <2>12, <2>13 DEF SalesIInv
<1>10. ASSUME NEW r \in Replays, NEW withConflicts \in BOOLEAN, StartSync(r, withConflicts) PROVE SalesIInv'
  <2>0. UNCHANGED <<shift, rows, receipt, posting, drawer, shiftOf, queue, paying, offline, refused, overwritten>>
    BY <1>10 DEF StartSync, serverVars, terminalVars
  <2>1. PICK batch \in SUBSET Sales :
          /\ batch # {} /\ batch \subseteq Queued(queue)
          /\ \A s \in Sales : queue[s] = "PENDING" => s \in batch
          /\ syncing' = [request |-> r, seen |-> queue]
          /\ replay' = [replay EXCEPT ![r] = [NoReplay EXCEPT !.at = "claim", !.batch = batch]]
    BY <1>10 DEF StartSync, Queued
  <2> DEFINE row == [NoReplay EXCEPT !.at = "claim", !.batch = batch]
  <2>2. /\ row \in ReplayRows /\ row.at = "claim" /\ row.batch = batch
        /\ \A s \in Sales : row.result[s] = "NONE"
    BY NoReplayRow DEF NoReplay, NoResults, ReplayRows, Results
  <2>3. replay' = [replay EXCEPT ![r] = row] /\ syncing' = [request |-> r, seen |-> queue]
    BY <2>1
  <2>4. /\ batch # {} /\ batch \subseteq Queued(queue)
        /\ \A s \in Sales : queue[s] = "PENDING" => s \in batch
    BY <2>1
  <2> HIDE DEF row
  <2>5. SalesTypeOK'
    BY <1>0, <1>a, <2>0, <2>2, <2>3, <2>4 DEF SalesTypeOK, ReplayRows, Receipts
  <2>6. BegunFirst'
    BY <1>0, <2>0 DEF BegunFirst, Begun
  <2>7. QueuedFirst'
    BY <1>0, <1>a, <2>0, <2>2, <2>3, <2>4 DEF QueuedFirst, Queued, Working, SalesTypeOK
  <2>8. SalesAreKept'
    <3>1. SoldOnce'
      BY <1>0, <2>0, <2>2, <2>3, <2>4 DEF SalesAreKept, SoldOnce
    <3>2. \A p \in Sales : receipt'[p].status = "APPLIED" => rows'[p] = 1
      BY <1>0, <2>0, <2>2, <2>3, <2>4 DEF SalesAreKept, AppliedIsSold
    <3>3. ASSUME NEW q \in Replays, NEW p \in Sales, replay'[q].result[p] = "APPLIED" PROVE rows'[p] = 1
      <4>1. replay[q].result[p] = "APPLIED" => rows'[p] = 1
        BY <1>0, <2>0, <2>2, <2>3, <2>4 DEF SalesAreKept, AppliedIsSold
      <4> QED BY <1>0, <3>3, <4>1, <2>0, <2>2, <2>3, <2>4 DEF SalesTypeOK
    <3>4. \A p \in offline' \ overwritten' : queue'[p] # "NONE" \/ rows'[p] = 1
      BY <1>0, <1>a, <2>0, <2>2, <2>3, <2>4 DEF SalesAreKept, SoldOnce, AppliedIsSold, SalesTypeOK, Settled
    <3> QED BY <3>1, <3>2, <3>3, <3>4 DEF SalesAreKept, AppliedIsSold
  <2>9. MarkedIsSold'
    BY <1>0, <1>a, <2>0, <2>2, <2>3, <2>4 DEF MarkedIsSold, Item, SalesTypeOK
  <2>10. ConflictIsRefused'
    BY <1>0, <1>a, <2>0, <2>2, <2>3, <2>4 DEF ConflictIsRefused, SalesTypeOK
  <2>11. BegunInOrder'
    BY <1>0, <2>0 DEF BegunInOrder, GivenUp, Begun
  <2>12. BatchInOrder'
    BY <1>0, <1>a, <2>0, <2>2, <2>3, <2>4 DEF BatchInOrder, Settles, SalesTypeOK, QueuedFirst, Queued, ConflictIsRefused, SalesAreKept, AppliedIsSold, Queues
  <2>13. SoldInSequence'
    BY <1>0, <2>0 DEF SoldInSequence
  <2>14. ClosedShiftIsComplete'
    BY <1>0, <2>0 DEF ClosedShiftIsComplete, CashOf, SalesOf
  <2> QED BY <2>5, <2>6, <2>7, <2>8, <2>9, <2>10, <2>11, <2>12, <2>13, <2>14 DEF SalesIInv
<1>11. ASSUME NEW r \in Replays, SyncAnswered(r) PROVE SalesIInv'
  <2>0. UNCHANGED <<shift, rows, receipt, posting, drawer, shiftOf, paying, offline, refused>>
    BY <1>11 DEF SyncAnswered, serverVars, terminalVars
  <2>1. /\ queue' \in Queues
        /\ \A s \in Sales : queue'[s] = Settled(syncing.seen[s], replay[r].result[s])
    BY <1>0, <1>11 DEF SyncAnswered, SalesTypeOK, Queues, Settled, Results
  <2>2. /\ overwritten' = overwritten \cup {s \in Sales : queue[s] # "NONE" /\ syncing.seen[s] = "NONE"}
        /\ syncing' = [request |-> None, seen |-> NoResults]
        /\ replay' = [replay EXCEPT ![r] = NoReplay]
    BY <1>11 DEF SyncAnswered
  <2>3. /\ NoReplay \in ReplayRows /\ NoReplay.at = "idle" /\ NoReplay.batch = {}
        /\ NoResults \in Queues /\ \A s \in Sales : NoResults[s] = "NONE" /\ NoReplay.result[s] = "NONE"
    BY NoReplayRow DEF NoReplay, NoResults
  <2>4. SalesTypeOK'
    BY <1>0, <1>a, <2>0, <2>1, <2>2, <2>3 DEF SalesTypeOK, ReplayRows, Receipts
  <2>5. BegunFirst'
    BY <1>0, <2>0 DEF BegunFirst, Begun
  <2>6. QueuedFirst'
    BY <1>0, <1>a, <2>0, <2>1, <2>2, <2>3 DEF QueuedFirst, Queued, Working, SalesTypeOK, Settled
  <2>7. SalesAreKept'
    <3>1. SoldOnce'
      BY <1>0, <2>0, <2>1, <2>2, <2>3 DEF SalesAreKept, SoldOnce
    <3>2. \A p \in Sales : receipt'[p].status = "APPLIED" => rows'[p] = 1
      BY <1>0, <2>0, <2>1, <2>2, <2>3 DEF SalesAreKept, AppliedIsSold
    <3>3. ASSUME NEW q \in Replays, NEW p \in Sales, replay'[q].result[p] = "APPLIED" PROVE rows'[p] = 1
      <4>1. replay[q].result[p] = "APPLIED" => rows'[p] = 1
        BY <1>0, <2>0, <2>1, <2>2, <2>3 DEF SalesAreKept, AppliedIsSold
      <4> QED BY <1>0, <3>3, <4>1, <2>0, <2>1, <2>2, <2>3 DEF SalesTypeOK
    <3>4. \A p \in offline' \ overwritten' : queue'[p] # "NONE" \/ rows'[p] = 1
      <4> TAKE p \in offline' \ overwritten'
      <4>1. p \in Sales /\ p \in offline \ overwritten
        BY <1>a, <2>0, <2>2
      <4>2. queue[p] # "NONE" \/ rows[p] = 1
        BY <1>0, <4>1 DEF SalesAreKept, AppliedIsSold
      <4>3. queue[p] # "NONE" => syncing.seen[p] # "NONE"
        BY <2>2, <4>1
      <4>4. queue'[p] = Settled(syncing.seen[p], replay[r].result[p])
        BY <2>1, <4>1
      <4>5. replay[r].result[p] = "APPLIED" => rows[p] = 1
        BY <1>0, <1>11, <4>1 DEF SalesAreKept, AppliedIsSold
      <4> QED BY <2>0, <4>2, <4>3, <4>4, <4>5 DEF Settled
    <3> QED BY <3>1, <3>2, <3>3, <3>4 DEF SalesAreKept, AppliedIsSold
  <2>8. MarkedIsSold'
    BY <1>0, <1>a, <2>0, <2>1, <2>2, <2>3 DEF MarkedIsSold, Item, SalesTypeOK
  <2>9. ConflictIsRefused'
    BY <1>0, <1>a, <2>0, <2>1, <2>2, <2>3 DEF ConflictIsRefused, SalesTypeOK, Settled
  <2>10. BegunInOrder'
    BY <1>0, <2>0 DEF BegunInOrder, GivenUp, Begun
  <2>11. BatchInOrder'
    BY <1>0, <1>a, <2>0, <2>1, <2>2, <2>3 DEF BatchInOrder, Settles, SalesTypeOK
  <2>12. SoldInSequence'
    BY <1>0, <1>a, <2>0, <2>1, <2>2, <2>3 DEF SoldInSequence, SalesTypeOK
  <2>13. ClosedShiftIsComplete'
    BY <1>0, <2>0 DEF ClosedShiftIsComplete, CashOf, SalesOf
  <2> QED BY <2>4, <2>5, <2>6, <2>7, <2>8, <2>9, <2>10, <2>11, <2>12, <2>13 DEF SalesIInv
<1>12. ASSUME SyncUnanswered PROVE SalesIInv'
  <2>1. PICK r \in Replays : replay' = [replay EXCEPT ![r] = Unheard(replay[r])]
    <3>1. syncing.request \in Replays
      BY <1>0, <1>12 DEF SyncUnanswered, SalesTypeOK
    <3> QED BY <1>12, <3>1 DEF SyncUnanswered
  <2>2. replay[r] \in ReplayRows
    BY <1>0 DEF SalesTypeOK, ReplayRows
  <2> DEFINE row == Unheard(replay[r])
  <2>3. /\ row \in ReplayRows
        /\ (row.at = replay[r].at /\ row.batch = replay[r].batch) \/ (row.at = "idle" /\ row.batch = {})
        /\ \A s \in Sales : row.result[s] = "NONE"
    BY <2>2, UnheardRow
  <2>4. replay' = [replay EXCEPT ![r] = row]
    BY <2>1
  <2> HIDE DEF row
  <2>5. row.at \in {"claim", "create"} => row.batch # {}
    BY <1>0, <2>3 DEF QueuedFirst, Working
  <2>6. RowMoves(r, row)
    BY <2>3, <2>4, <2>5 DEF RowMoves
  <2>7. receipt' = receipt
    BY <1>12 DEF SyncUnanswered
  <2>8. ReceiptsMove
    BY <1>0, <2>7 DEF ReceiptsMove, SalesTypeOK, Receipts, QueuedFirst
  <2>9. RowStep(r, row)
    BY <1>0, <1>12, <2>6, <2>8 DEF RowStep, SyncUnanswered, SalesTypeOK
  <2> QED BY <2>9, RowStepKeeps
<1>13. ASSUME NEW r \in Replays, ClaimItem(r) PROVE SalesIInv'
  <2>1. Working(r)
    BY <1>13 DEF ClaimItem, Working
  <2>2. Item(r) \in replay[r].batch /\ Item(r) \in Sales /\ Item(r) \in offline /\ replay[r].batch # {}
    BY <2>1, WorkingItem
  <2> DEFINE attempts == Min({receipt[Item(r)].attempts + 1, MaxAttempts})
  <2>3. attempts \in 0..MaxAttempts
    BY <1>0, <2>2, AttemptsAreCapped DEF SalesTypeOK
  <2>4. /\ \/ receipt' = receipt
           \/ receipt' = [receipt EXCEPT ![Item(r)] = [status |-> "PROCESSING", attempts |-> attempts, lease |-> TRUE]]
        /\ \/ receipt[Item(r)].status = "APPLIED" /\ replay' = [replay EXCEPT ![r] = Heard(r, Applied(r))]
           \/ replay' = [replay EXCEPT ![r] = Heard(r, Blocked(r, "PENDING"))]
           \/ replay' = [replay EXCEPT ![r].at = "create", ![r].attempts = attempts]
    BY <1>13 DEF ClaimItem
  <2> HIDE DEF attempts
  <2>5. ReceiptsMove
    <3> DEFINE taken == [status |-> "PROCESSING", attempts |-> attempts, lease |-> TRUE]
    <3>1. taken \in Receipts /\ taken.status = "PROCESSING"
      BY <2>3 DEF Receipts
    <3>2. receipt' = receipt \/ receipt' = [receipt EXCEPT ![Item(r)] = taken]
      BY <2>4
    <3> HIDE DEF taken
    <3>3. receipt \in [Sales -> Receipts] /\ \A s \in Sales : receipt[s].status # "NONE" => s \in offline
      BY <1>0 DEF SalesTypeOK, Receipts, QueuedFirst
    <3>4. /\ receipt' \in [Sales -> Receipts]
          /\ \A p \in Sales : receipt'[p] = receipt[p] \/ (p = Item(r) /\ receipt'[p].status = "PROCESSING")
      BY <2>2, <3>1, <3>2, <3>3
    <3> QED BY <2>2, <3>3, <3>4 DEF ReceiptsMove
  <2>6. \E row : RowMoves(r, row)
    <3>1. CASE receipt[Item(r)].status = "APPLIED" /\ replay' = [replay EXCEPT ![r] = Heard(r, Applied(r))]
      <4>1. rows[Item(r)] = 1
        BY <1>0, <2>2, <3>1 DEF SalesAreKept, AppliedIsSold
      <4> QED BY <2>1, <3>1, <4>1, AppliedMoves
    <3>2. CASE replay' = [replay EXCEPT ![r] = Heard(r, Blocked(r, "PENDING"))]
      BY <2>1, <3>2, BlockedMoves
    <3>3. CASE replay' = [replay EXCEPT ![r].at = "create", ![r].attempts = attempts]
      <4> DEFINE row == [replay[r] EXCEPT !.at = "create", !.attempts = attempts]
      <4>1. replay[r] \in ReplayRows /\ replay' = [replay EXCEPT ![r] = row]
        BY <1>0, <3>3 DEF SalesTypeOK, ReplayRows
      <4>2. row \in ReplayRows /\ row.at = "create" /\ row.batch = replay[r].batch /\ row.result = replay[r].result
        BY <2>3, <4>1 DEF ReplayRows
      <4> HIDE DEF row
      <4>3. RowMoves(r, row)
        BY <2>2, <4>1, <4>2 DEF RowMoves
      <4> QED BY <4>3
    <3> QED BY <2>4, <3>1, <3>2, <3>3
  <2>7. PICK row : RowMoves(r, row)
    BY <2>6
  <2>8. RowStep(r, row)
    BY <1>0, <1>13, <2>5, <2>7 DEF RowStep, ClaimItem, serverVars, terminalVars, SalesTypeOK
  <2> QED BY <2>8, RowStepKeeps
<1>14. ASSUME NEW r \in Replays, RefuseItem(r) PROVE SalesIInv'
  <2>1. Working(r)
    BY <1>14 DEF RefuseItem, Working
  <2>2. Item(r) \in Sales
    BY <2>1, WorkingItem
  <2>3. /\ refused' = refused \cup {Item(r)} /\ Write(Item(r), "CONFLICT")
        /\ replay' = [replay EXCEPT ![r] = Heard(r, Blocked(r, "CONFLICT"))]
    BY <1>14 DEF RefuseItem
  <2>4. RowMoves(r, Heard(r, Blocked(r, "CONFLICT")))
    BY <2>1, <2>3, BlockedMoves
  <2>5. ReceiptsMove
    BY <1>0, <2>2, <2>3, WrittenReceipt DEF ReceiptsMove, QueuedFirst
  <2>6. RowStep(r, Heard(r, Blocked(r, "CONFLICT")))
    BY <1>0, <1>14, <2>2, <2>3, <2>4, <2>5 DEF RowStep, RefuseItem, serverVars, terminalVars, SalesTypeOK
  <2> QED BY <2>6, RowStepKeeps
<1>15. ASSUME NEW r \in Replays, CreateItem(r) PROVE SalesIInv'
  <2>0. UNCHANGED <<shift, receipt, posting, drawer, shiftOf, queue, paying, syncing, offline, refused, overwritten>>
    BY <1>15 DEF CreateItem, serverVars, terminalVars
  <2>1. /\ replay[r].batch # {} /\ Item(r) \in replay[r].batch /\ Item(r) \in Sales
        /\ \A s \in replay[r].batch : Item(r) <= s
        /\ Item(r) \in offline /\ replay[r].batch \subseteq Sales
    <3>1. replay[r].batch # {} /\ replay[r].batch \subseteq offline /\ offline \subseteq Sales
      BY <1>0, <1>15 DEF CreateItem, QueuedFirst, Working, SalesTypeOK
    <3> QED BY <1>0, <3>1, ItemIsFirst
  <2> DEFINE row == [replay[r] EXCEPT !.at = "mark"]
  <2>2. Item(r) \in Begun
    BY <1>0, <2>1 DEF BegunFirst
  <2>3. /\ rows' \in [Sales -> Nat]
        /\ \A p \in Sales : (rows[p] = 1 => rows'[p] = 1) /\ rows'[p] <= 1
    BY <1>0, <1>15, <2>2, CreatedSale DEF CreateItem, SalesAreKept, SoldOnce
  <2>4. rows'[Item(r)] = 1
    <3>1. CASE Creates(Item(r))
      BY <1>0, <1>15, <2>1, <3>1 DEF CreateItem, CreateSale, SalesTypeOK, Creates
    <3>2. CASE ~Creates(Item(r))
      BY <1>0, <1>15, <2>1, <2>3, <3>2 DEF CreateItem, SalesTypeOK, SalesAreKept, SoldOnce
    <3> QED BY <3>1, <3>2
  <2>5. replay' = [replay EXCEPT ![r] = row]
    BY <1>0, <1>15 DEF CreateItem, SalesTypeOK
  <2>6. replay[r] \in ReplayRows
    BY <1>0 DEF SalesTypeOK, ReplayRows
  <2>7. row \in ReplayRows /\ row.at = "mark" /\ row.batch = replay[r].batch /\ row.result = replay[r].result
    BY <2>6 DEF ReplayRows
  <2> HIDE DEF row
  <2>8. SalesTypeOK'
    BY <1>0, <1>a, <2>0, <2>1, <2>3, <2>5, <2>7 DEF SalesTypeOK, ReplayRows, Receipts
  <2>9. BegunFirst'
    BY <1>0, <2>0 DEF BegunFirst, Begun
  <2>10. QueuedFirst'
    BY <1>0, <1>a, <2>0, <2>1, <2>3, <2>5, <2>7 DEF QueuedFirst, Queued, Working, SalesTypeOK
  <2>11. SalesAreKept'
    <3>1. SoldOnce'
      BY <1>0, <2>0, <2>1, <2>3, <2>5, <2>7 DEF SalesAreKept, SoldOnce
    <3>2. \A p \in Sales : receipt'[p].status = "APPLIED" => rows'[p] = 1
      BY <1>0, <2>0, <2>1, <2>3, <2>5, <2>7 DEF SalesAreKept, AppliedIsSold
    <3>3. ASSUME NEW q \in Replays, NEW p \in Sales, replay'[q].result[p] = "APPLIED" PROVE rows'[p] = 1
      <4>1. replay[q].result[p] = "APPLIED" => rows'[p] = 1
        BY <1>0, <2>0, <2>1, <2>3, <2>5, <2>7 DEF SalesAreKept, AppliedIsSold
      <4> QED BY <1>0, <3>3, <4>1, <2>0, <2>1, <2>3, <2>5, <2>7 DEF SalesTypeOK
    <3>4. \A p \in offline' \ overwritten' : queue'[p] # "NONE" \/ rows'[p] = 1
      BY <1>0, <1>a, <2>0, <2>1, <2>3, <2>5, <2>7 DEF SalesAreKept, SoldOnce, AppliedIsSold, SalesTypeOK, Settled
    <3> QED BY <3>1, <3>2, <3>3, <3>4 DEF SalesAreKept, AppliedIsSold
  <2>12. MarkedIsSold'
    <3> SUFFICES ASSUME NEW q \in Replays, replay'[q].at = "mark" PROVE rows'[Item(q)'] = 1
      BY DEF MarkedIsSold
    <3>1. replay'[q].batch = replay[q].batch /\ Item(q)' = Item(q)
      BY <1>0, <2>5, <2>7 DEF SalesTypeOK, Item
    <3>2. CASE q = r
      BY <2>4, <3>1, <3>2
    <3>3. CASE q # r
      <4>1. replay[q].at = "mark"
        BY <1>0, <2>5, <3>3 DEF SalesTypeOK
      <4>2. Item(q) \in Sales /\ rows[Item(q)] = 1
        BY <1>0, <4>1, ItemIsFirst DEF QueuedFirst, Working, MarkedIsSold
      <4> QED BY <2>3, <3>1, <4>2
    <3> QED BY <3>2, <3>3
  <2>13. ConflictIsRefused'
    BY <1>0, <1>a, <2>0, <2>1, <2>3, <2>5, <2>7 DEF ConflictIsRefused, SalesTypeOK
  <2>14. BegunInOrder'
    BY <1>0, <1>a, <2>0, <2>1, <2>3, <2>5, <2>7 DEF BegunInOrder, GivenUp, Begun, SalesTypeOK
  <2>15. BatchInOrder'
    BY <1>0, <1>a, <2>0, <2>1, <2>3, <2>5, <2>7 DEF BatchInOrder, Settles, SalesTypeOK
  <2>16. SoldInSequence'
    BY <1>0, <1>a, <2>0, <2>1, <2>3, <2>5, <2>7 DEF SoldInSequence, SalesTypeOK
  <2>17. ClosedShiftIsComplete'
    BY <1>15, <2>0, <2>2, CreationKeepsCount DEF CreateItem
  <2> QED BY <2>8, <2>9, <2>10, <2>11, <2>12, <2>13, <2>14, <2>15, <2>16, <2>17 DEF SalesIInv
<1>16. ASSUME NEW r \in Replays, MarkApplied(r) PROVE SalesIInv'
  <2>1. Working(r)
    BY <1>16 DEF MarkApplied, Working
  <2>2. /\ Item(r) \in Sales /\ Item(r) \in replay[r].batch
        /\ \A p \in replay[r].batch : Item(r) <= p
    BY <2>1, WorkingItem
  <2>3. /\ rows[Item(r)] = 1 /\ Write(Item(r), "APPLIED")
        /\ replay' = [replay EXCEPT ![r] = Heard(r, Applied(r))]
    BY <1>0, <1>16 DEF MarkApplied, MarkedIsSold
  <2>4. RowMoves(r, Heard(r, Applied(r)))
    BY <2>1, <2>3, AppliedMoves
  <2>5. ReceiptsMove
    BY <1>0, <2>2, <2>3, WrittenReceipt DEF ReceiptsMove, QueuedFirst
  <2>6. RowStep(r, Heard(r, Applied(r)))
    BY <1>0, <1>16, <2>4, <2>5 DEF RowStep, MarkApplied, serverVars, terminalVars, SalesTypeOK
  <2> QED BY <2>6, RowStepKeeps
<1>17. ASSUME NEW r \in Replays, MarkFailed(r) PROVE SalesIInv'
  <2>1. Working(r)
    BY <1>17 DEF MarkFailed, Working
  <2>2. Item(r) \in Sales
    BY <2>1, WorkingItem
  <2>3. PICK status \in {"FAILED", "DEAD_LETTER"} : Write(Item(r), status)
    BY <1>17 DEF MarkFailed
  <2>4. replay' = [replay EXCEPT ![r] = Heard(r, Blocked(r, "PENDING"))]
    BY <1>17 DEF MarkFailed
  <2>5. RowMoves(r, Heard(r, Blocked(r, "PENDING")))
    BY <2>1, <2>4, BlockedMoves
  <2>6. ReceiptsMove
    BY <1>0, <2>2, <2>3, WrittenReceipt DEF ReceiptsMove, QueuedFirst
  <2>7. RowStep(r, Heard(r, Blocked(r, "PENDING")))
    BY <1>0, <1>17, <2>5, <2>6 DEF RowStep, MarkFailed, serverVars, terminalVars, SalesTypeOK
  <2> QED BY <2>7, RowStepKeeps
<1>18. ASSUME NEW s \in Sales, LeaseExpires(s) PROVE SalesIInv'
  <2>0. UNCHANGED <<shift, rows, replay, posting, drawer, shiftOf, queue, paying, syncing, offline, refused, overwritten>>
    BY <1>18 DEF LeaseExpires, serverVars, terminalVars
  <2>1. /\ receipt' \in [Sales -> Receipts]
        /\ \A p \in Sales : receipt'[p].status = receipt[p].status
    <3> DEFINE row == [receipt[s] EXCEPT !.lease = FALSE]
    <3>1. receipt' = [receipt EXCEPT ![s] = row] /\ receipt \in [Sales -> Receipts]
      BY <1>0, <1>18 DEF LeaseExpires, SalesTypeOK, Receipts
    <3>2. row \in Receipts /\ row.status = receipt[s].status
      BY <3>1 DEF Receipts
    <3> HIDE DEF row
    <3> QED BY <3>1, <3>2
  <2>2. SalesTypeOK'
    BY <1>0, <1>a, <2>0, <2>1 DEF SalesTypeOK, ReplayRows, Receipts
  <2>3. BegunFirst'
    BY <1>0, <2>0 DEF BegunFirst, Begun
  <2>4. QueuedFirst'
    BY <1>0, <1>a, <2>0, <2>1 DEF QueuedFirst, Queued, Working, SalesTypeOK
  <2>5. SalesAreKept'
    <3>1. SoldOnce'
      BY <1>0, <2>0, <2>1 DEF SalesAreKept, SoldOnce
    <3>2. \A p \in Sales : receipt'[p].status = "APPLIED" => rows'[p] = 1
      BY <1>0, <2>0, <2>1 DEF SalesAreKept, AppliedIsSold
    <3>3. ASSUME NEW q \in Replays, NEW p \in Sales, replay'[q].result[p] = "APPLIED" PROVE rows'[p] = 1
      <4>1. replay[q].result[p] = "APPLIED" => rows'[p] = 1
        BY <1>0, <2>0, <2>1 DEF SalesAreKept, AppliedIsSold
      <4> QED BY <1>0, <3>3, <4>1, <2>0, <2>1 DEF SalesTypeOK
    <3>4. \A p \in offline' \ overwritten' : queue'[p] # "NONE" \/ rows'[p] = 1
      BY <1>0, <1>a, <2>0, <2>1 DEF SalesAreKept, SoldOnce, AppliedIsSold, SalesTypeOK, Settled
    <3> QED BY <3>1, <3>2, <3>3, <3>4 DEF SalesAreKept, AppliedIsSold
  <2>6. MarkedIsSold'
    BY <1>0, <2>0 DEF MarkedIsSold, Item
  <2>7. ConflictIsRefused'
    BY <1>0, <2>0 DEF ConflictIsRefused
  <2>8. BegunInOrder'
    BY <1>0, <2>0 DEF BegunInOrder, GivenUp, Begun
  <2>9. BatchInOrder'
    BY <1>0, <2>0 DEF BatchInOrder, Settles
  <2>10. SoldInSequence'
    BY <1>0, <1>a, <2>0, <2>1 DEF SoldInSequence, SalesTypeOK
  <2>11. ClosedShiftIsComplete'
    BY <1>0, <2>0 DEF ClosedShiftIsComplete, CashOf, SalesOf
  <2> QED BY <2>2, <2>3, <2>4, <2>5, <2>6, <2>7, <2>8, <2>9, <2>10, <2>11 DEF SalesIInv
<1>19. ASSUME NEW r \in Replays, RequestEnds(r) PROVE SalesIInv'
  <2>1. replay' = [replay EXCEPT ![r] = NoReplay]
    BY <1>19 DEF RequestEnds
  <2>2. /\ NoReplay \in ReplayRows /\ NoReplay.at = "idle" /\ NoReplay.batch = {}
        /\ \A s \in Sales : NoReplay.result[s] = "NONE"
    BY NoReplayRow DEF NoReplay, NoResults
  <2>3. RowMoves(r, NoReplay)
    BY <2>1, <2>2 DEF RowMoves
  <2>4. receipt' = receipt
    BY <1>19 DEF RequestEnds
  <2>5. ReceiptsMove
    BY <1>0, <2>4 DEF ReceiptsMove, SalesTypeOK, Receipts, QueuedFirst
  <2>6. RowStep(r, NoReplay)
    BY <1>0, <1>19, <2>3, <2>5 DEF RowStep, RequestEnds, serverVars, terminalVars, SalesTypeOK
  <2> QED BY <2>6, RowStepKeeps
<1>20. CASE UNCHANGED saleVars
  <2>0. UNCHANGED <<shift, rows, receipt, replay, posting, drawer, shiftOf, queue, paying, syncing, offline, refused, overwritten>>
    BY <1>20 DEF saleVars
  <2>1. SalesTypeOK'
    BY <1>0, <2>0 DEF SalesTypeOK
  <2>2. BegunFirst'
    BY <1>0, <2>0 DEF BegunFirst, Begun
  <2>3. QueuedFirst'
    BY <1>0, <2>0 DEF QueuedFirst, Queued, Working
  <2>4. SalesAreKept'
    BY <1>0, <2>0 DEF SalesAreKept, SoldOnce, AppliedIsSold
  <2>5. MarkedIsSold'
    BY <1>0, <2>0 DEF MarkedIsSold, Item
  <2>6. ConflictIsRefused'
    BY <1>0, <2>0 DEF ConflictIsRefused
  <2>7. BegunInOrder'
    BY <1>0, <2>0 DEF BegunInOrder, GivenUp, Begun
  <2>8. BatchInOrder'
    BY <1>0, <2>0 DEF BatchInOrder, Settles
  <2>9. SoldInSequence'
    BY <1>0, <2>0 DEF SoldInSequence
  <2>10. ClosedShiftIsComplete'
    BY <1>0, <2>0 DEF ClosedShiftIsComplete, CashOf, SalesOf
  <2> QED BY <2>1, <2>2, <2>3, <2>4, <2>5, <2>6, <2>7, <2>8, <2>9, <2>10 DEF SalesIInv
<1> QED
  BY <1>1, <1>2, <1>3, <1>4, <1>5, <1>6, <1>7, <1>8, <1>9, <1>10, <1>11, <1>12, <1>13, <1>14, <1>15, <1>16, <1>17, <1>18, <1>19, <1>20 DEF SalesNext, CloseShiftHere, CloseShiftElsewhere

LEMMA SalesInvariance == SalesSpec => []SalesIInv
BY FirstSales, SalesStep, PTL DEF SalesSpec

(* The rows of the till, its requests and its queue stay in their ranges.  *)
THEOREM SalesTyped == SalesSpec => []SalesTypeOK
<1>1. SalesIInv => SalesTypeOK
  BY DEF SalesIInv
<1> QED BY <1>1, SalesInvariance, PTL

(* A sale is created once, and nothing is reported APPLIED, or leaves the  *)
(* queue, that was not: for any number of sales, shifts, replays and lost  *)
(* answers.                                                                *)
THEOREM SalesKept == SalesSpec => []SalesAreKept
<1>1. SalesIInv => SalesAreKept
  BY DEF SalesIInv
<1> QED BY <1>1, SalesInvariance, PTL

(* An offline sale is applied before a later one, unless it was refused or *)
(* lost from the queue.                                                    *)
THEOREM SequenceKept == SalesSpec => []SoldInSequence
<1>1. SalesIInv => SoldInSequence
  BY DEF SalesIInv
<1> QED BY <1>1, SalesInvariance, PTL

(* A shift that was counted stays counted: no late post and no replay adds *)
(* cash to it.                                                             *)
THEOREM ShiftsComplete == SalesSpec => []ClosedShiftIsComplete
<1>1. SalesIInv => ClosedShiftIsComplete
  BY DEF SalesIInv
<1> QED BY <1>1, SalesInvariance, PTL

-----------------------------------------------------------------------------
(* A behaviour of the shop floor is one of the inspection and one of the   *)
(* till, of which one stands still: what is proved of each holds of both.  *)
THEOREM FloorIsBoth == FloorSpec => InspectionSpec /\ SalesSpec
<1>1. FloorInit => InspectionInit /\ SalesInit
  BY DEF FloorInit
<1>2. [FloorNext]_floorVars => [InspectionNext]_inspectionVars /\ [SalesNext]_saleVars
  BY DEF FloorNext, InspectionTurn, TillTurn, floorVars
<1> QED BY <1>1, <1>2, PTL DEF FloorSpec, InspectionSpec, SalesSpec

FloorPart == part \in {"inspection", "till"}

LEMMA PartsAreNamed == FloorSpec => []FloorPart
<1>1. FloorInit => FloorPart
  BY DEF FloorInit, FloorPart
<1>2. FloorPart /\ [FloorNext]_floorVars => FloorPart'
  BY DEF FloorNext, floorVars, FloorPart
<1> QED BY <1>1, <1>2, PTL DEF FloorSpec

(* Every variable of the shop floor stays in its range. *)
THEOREM FloorTyped == FloorSpec => []ShopFloorTypeOK
<1>1. FloorPart /\ InspectionTypeOK /\ SalesTypeOK => ShopFloorTypeOK
  BY DEF ShopFloorTypeOK, FloorPart
<1> QED BY <1>1, PartsAreNamed, FloorIsBoth, TypeCorrect, SalesTyped, PTL
=============================================================================
