----------------------------- MODULE Deliveries -----------------------------
(***************************************************************************)
(* Delivery trips of the own fleet (FleetService): vehicle, stops with cash *)
(* on delivery, loaded goods and the shipment rows, which the handlers of   *)
(* the storefront orders write as well.  All handlers are serializable      *)
(* transactions.  The inspections a trip needs are answered from outside;   *)
(* a manifest item is loaded, delivered and brought back as a whole.        *)
(***************************************************************************)
EXTENDS Naturals, FiniteSets, Functions

CONSTANTS
  Vehicles, Trips,
  Stops, ShipmentOf, CodExpected,  \* delivery stops, the shipment and the cash of each
  Items, ShipmentOfItem,           \* manifest items
  Shipments,                       \* each of one order
  MaxOdometer,                     \* bound on odometer readings
  Absent                           \* no vehicle, no trip, no stop

ASSUME DeliveriesAssumption ==
  /\ ShipmentOf \in [Stops -> Shipments] /\ ShipmentOfItem \in [Items -> Shipments]
  /\ CodExpected \in [Stops -> Nat]
  /\ MaxOdometer \in Nat /\ IsFiniteSet(Stops)
  /\ Absent \notin Vehicles \cup Trips \cup Stops

VARIABLES
  vehicle,    \* status and currentOdometer
  trip,       \* status, vehicle, codCollected, startOdometer
  stop,       \* status, trip, codCollected
  item,       \* status, trip, stop
  gatePass,   \* status of each trip's outbound gate pass
  shipment,   \* Shipment.status
  sold        \* status of the shipment's order

deliveryVars == <<vehicle, trip, stop, item, gatePass, shipment, sold>>

Odometer == 0..MaxOdometer
Loading == {"DRAFT"}
UnderWay == {"DISPATCHED"}
Settled == {"DELIVERED", "PARTIALLY_DELIVERED"}
Undelivered == {"FAILED", "PARTIAL", "RETURNED"}
NoTrip == [status |-> "NONE", vehicle |-> Absent, cod |-> 0, start |-> 0]

DeliveriesTypeOK ==
  /\ vehicle \in [Vehicles -> [status : {"AVAILABLE", "ASSIGNED", "ON_TRIP", "MAINTENANCE"}, odometer : Odometer]]
  /\ trip \in [Trips -> [status : {"NONE", "DRAFT", "READY_TO_DISPATCH", "DISPATCHED", "CLOSED"} \cup Settled,
                         vehicle : Vehicles \cup {Absent}, cod : Nat, start : Odometer]]
  /\ stop \in [Stops -> [status : {"PENDING", "DELIVERED"} \cup Undelivered, trip : Trips \cup {Absent}, cod : Nat]]
  /\ item \in [Items -> [status : {"PENDING", "LOADED", "DELIVERED", "RETURN_PENDING", "RETURNED"},
                         trip : Trips \cup {Absent}, stop : Stops \cup {Absent}]]
  /\ gatePass \in [Trips -> {"NONE", "DRAFT", "APPROVED", "EXITED"}]
  /\ shipment \in [Shipments -> {"READY", "IN_TRANSIT", "DELIVERED", "FAILED", "RETURNED", "CANCELLED"}]
  /\ sold \in [Shipments -> {"PACKED", "SHIPPED", "COMPLETED", "CANCELLED"}]

\* The orders are packed, the vehicles ready.
DeliveriesInit ==
  /\ vehicle = [v \in Vehicles |-> [status |-> "AVAILABLE", odometer |-> 0]]
  /\ trip = [t \in Trips |-> NoTrip]
  /\ stop = [s \in Stops |-> [status |-> "PENDING", trip |-> Absent, cod |-> 0]]
  /\ item = [i \in Items |-> [status |-> "PENDING", trip |-> Absent, stop |-> Absent]]
  /\ gatePass = [t \in Trips |-> "NONE"]
  /\ shipment = [h \in Shipments |-> "READY"]
  /\ sold = [h \in Shipments |-> "PACKED"]

StopsOf(t) == {s \in Stops : stop[s].trip = t}
ItemsOf(t) == {i \in Items : item[i].trip = t}

-----------------------------------------------------------------------------
\* Faulty variant: the vehicle is not looked at.
BookableAny(v) == vehicle[v].status # "MAINTENANCE"
Bookable(v) == vehicle[v].status = "AVAILABLE"

\* Whether a shipment already rides on another trip is not asked; an item may
\* name no stop.
CreateTrip(t, v, start, stops, items, place) ==
  /\ trip[t].status = "NONE" /\ Bookable(v) /\ start >= vehicle[v].odometer
  /\ stops # {} /\ items # {} /\ stops \subseteq StopsOf(Absent) /\ items \subseteq ItemsOf(Absent)
  /\ place \in [items -> stops \cup {Absent}]
  /\ trip' = [trip EXCEPT ![t] = [status |-> "DRAFT", vehicle |-> v, cod |-> 0, start |-> start]]
  /\ stop' = [s \in Stops |-> IF s \in stops THEN [stop[s] EXCEPT !.trip = t] ELSE stop[s]]
  /\ item' = [i \in Items |-> IF i \in items THEN [item[i] EXCEPT !.trip = t, !.stop = place[i]] ELSE item[i]]
  /\ vehicle' = [vehicle EXCEPT ![v].status = "ASSIGNED"]
  /\ UNCHANGED <<gatePass, shipment, sold>>

\* It commits only when everything was scanned undamaged.
ConfirmLoading(t) ==
  /\ trip[t].status \in Loading
  /\ trip' = [trip EXCEPT ![t].status = "READY_TO_DISPATCH"]
  /\ item' = [i \in Items |-> IF i \in ItemsOf(t) THEN [item[i] EXCEPT !.status = "LOADED"] ELSE item[i]]
  /\ UNCHANGED <<vehicle, stop, gatePass, shipment, sold>>

Gate(t, to) ==
  /\ trip[t].status # "NONE"
  /\ gatePass' = [gatePass EXCEPT ![t] = to]
  /\ UNCHANGED <<vehicle, trip, stop, item, shipment, sold>>

CreateGatePass(t) == gatePass[t] = "NONE" /\ Gate(t, "DRAFT")
\* Whatever its status.
ApproveGatePass(t) == gatePass[t] # "NONE" /\ Gate(t, "APPROVED")
RecordGateMovement(t) == gatePass[t] = "APPROVED" /\ Gate(t, "EXITED")

\* The odometer of the moment is not compared with the vehicle's, nor the
\* shipments with their orders.
Dispatch(t, start) ==
  LET v == trip[t].vehicle
  IN  /\ trip[t].status = "READY_TO_DISPATCH" /\ gatePass[t] = "APPROVED"
      /\ shipment' = [h \in Shipments |-> IF \E i \in ItemsOf(t) : ShipmentOfItem[i] = h
                                            THEN "IN_TRANSIT" ELSE shipment[h]]
      /\ vehicle' = [vehicle EXCEPT ![v] = [status |-> "ON_TRIP", odometer |-> start]]
      /\ gatePass' = [gatePass EXCEPT ![t] = "EXITED"]
      /\ trip' = [trip EXCEPT ![t].status = "DISPATCHED", ![t].start = start]
      /\ UNCHANGED <<stop, item, sold>>

\* Faulty variant: goods that were taken in part pass for delivered.
AtStopAny(status) == IF status \in {"DELIVERED", "PARTIAL"} THEN "DELIVERED" ELSE "FAILED"
AtStop(status) == IF status = "DELIVERED" THEN "DELIVERED" ELSE "FAILED"

TotalCod(t, s, cod) == SumFunctionOnSet([r \in Stops |-> IF r = s THEN cod ELSE stop[r].cod], StopsOf(t))

CompleteStop(s, status, cod) ==
  LET t == stop[s].trip
      after(r) == IF r = s THEN status ELSE stop[r].status
  IN  /\ t # Absent /\ trip[t].status \in {"DISPATCHED", "PARTIALLY_DELIVERED"}
      /\ stop[s].status = "PENDING"
      /\ cod <= CodExpected[s] /\ (status \notin {"DELIVERED", "PARTIAL"} => cod = 0)
      /\ stop' = [stop EXCEPT ![s].status = status, ![s].cod = cod]
      /\ item' = [i \in Items |->
           IF item[i].stop = s
             THEN [item[i] EXCEPT !.status = IF status = "DELIVERED" THEN "DELIVERED" ELSE "RETURN_PENDING"]
             ELSE item[i]]
      /\ shipment' = [shipment EXCEPT ![ShipmentOf[s]] = AtStop(status)]
      /\ trip' = [trip EXCEPT ![t].cod = TotalCod(t, s, cod),
                    ![t].status = IF \E r \in StopsOf(t) : after(r) = "PENDING" THEN @
                                  ELSE IF \E r \in StopsOf(t) : after(r) \in Undelivered
                                    THEN "PARTIALLY_DELIVERED" ELSE "DELIVERED"]
      /\ UNCHANGED <<vehicle, gatePass, sold>>

\* Fuel bought meanwhile may have raised the vehicle's odometer: the end is
\* compared with the start of the trip only.
CloseTrip(t, end, condition) ==
  LET v == trip[t].vehicle
      back == {s \in StopsOf(t) : stop[s].status \in Undelivered}
  IN  /\ trip[t].status \in Settled /\ end >= trip[t].start
      /\ stop' = [s \in Stops |-> IF s \in back THEN [stop[s] EXCEPT !.status = "RETURNED"] ELSE stop[s]]
      /\ item' = [i \in Items |-> IF item[i].stop \in back THEN [item[i] EXCEPT !.status = "RETURNED"] ELSE item[i]]
      /\ shipment' = [h \in Shipments |-> IF \E s \in back : ShipmentOf[s] = h THEN "RETURNED" ELSE shipment[h]]
      /\ vehicle' = [vehicle EXCEPT ![v] =
                       [status |-> IF condition = "PARTIAL" THEN "MAINTENANCE" ELSE "AVAILABLE", odometer |-> end]]
      /\ trip' = [trip EXCEPT ![t].status = "CLOSED"]
      /\ UNCHANGED <<gatePass, sold>>

RecordFuel(v, odometer) ==
  /\ odometer > vehicle[v].odometer
  /\ vehicle' = [vehicle EXCEPT ![v].odometer = odometer]
  /\ UNCHANGED <<trip, stop, item, gatePass, shipment, sold>>

-----------------------------------------------------------------------------
(* What ship, deliver and cancel of the order do to the shipment row. *)

OrderMoves(h, order, row) ==
  /\ sold' = [sold EXCEPT ![h] = order]
  /\ shipment' = [shipment EXCEPT ![h] = row]
  /\ UNCHANGED <<vehicle, trip, stop, item, gatePass>>

ShipOrder(h) == sold[h] = "PACKED" /\ shipment[h] = "READY" /\ OrderMoves(h, "SHIPPED", "IN_TRANSIT")
DeliverOrder(h) == sold[h] = "SHIPPED" /\ shipment[h] = "IN_TRANSIT" /\ OrderMoves(h, "COMPLETED", "DELIVERED")
CancelOrder(h) == sold[h] = "PACKED" /\ OrderMoves(h, "CANCELLED", "CANCELLED")

DeliveriesNext ==
  \/ \E t \in Trips : \/ ConfirmLoading(t) \/ CreateGatePass(t) \/ ApproveGatePass(t) \/ RecordGateMovement(t)
                      \/ \E start \in Odometer : Dispatch(t, start)
                      \/ \E end \in Odometer, condition \in {"PASSED", "PARTIAL"} : CloseTrip(t, end, condition)
                      \/ \E v \in Vehicles, start \in Odometer, stops \in SUBSET Stops, items \in SUBSET Items :
                           \E place \in [items -> stops \cup {Absent}] : CreateTrip(t, v, start, stops, items, place)
  \/ \E s \in Stops, status \in {"DELIVERED"} \cup Undelivered : \E cod \in 0..CodExpected[s] :
       CompleteStop(s, status, cod)
  \/ \E v \in Vehicles, odometer \in Odometer : RecordFuel(v, odometer)
  \/ \E h \in Shipments : ShipOrder(h) \/ DeliverOrder(h) \/ CancelOrder(h)

DeliveriesSpec == DeliveriesInit /\ [][DeliveriesNext]_deliveryVars

-----------------------------------------------------------------------------
OpenTrip(t) == trip[t].status \notin {"NONE", "CLOSED"}
Away == UnderWay \cup Settled

(* A vehicle makes one trip at a time and says so: it is assigned while the *)
(* trip is prepared, away from dispatch to the closing, and free after it   *)
(* (createTrip, dispatch, closeTrip).                                       *)
OneTripPerVehicle ==
  \A v \in Vehicles :
    LET trips == {t \in Trips : trip[t].vehicle = v /\ OpenTrip(t)}
    IN  /\ \A t, u \in trips : t = u
        /\ (vehicle[v].status = "ON_TRIP") <=> \E t \in trips : trip[t].status \in Away
        /\ (vehicle[v].status = "ASSIGNED") <=> \E t \in trips : trip[t].status \notin Away

CashTaken == [s \in Stops |-> stop[s].cod]
CashDue == [s \in Stops |-> IF stop[s].status \in {"DELIVERED", "PARTIAL", "RETURNED"} THEN CodExpected[s] ELSE 0]

(* When a trip ends, every item that was meant for a stop was delivered     *)
(* there or is back, and the driver owes the cash of the stops that took    *)
(* goods, no more than expected (completeStop, closeTrip).                  *)
TripsAccount ==
  \A t \in Trips :
    /\ trip[t].cod = SumFunctionOnSet(CashTaken, StopsOf(t))
    /\ trip[t].cod <= SumFunctionOnSet(CashDue, StopsOf(t))
    /\ trip[t].status = "CLOSED" => \A i \in ItemsOf(t) :
         item[i].stop # Absent =>
           IF stop[item[i].stop].status = "DELIVERED" THEN item[i].status = "DELIVERED"
           ELSE stop[item[i].stop].status = "RETURNED" /\ item[i].status = "RETURNED"

Carried(h) == \E i \in Items : /\ ShipmentOfItem[i] = h /\ item[i].trip # Absent
                               /\ trip[item[i].trip].status \in {"CLOSED"} \cup UnderWay \cup Settled
Ended(h, statuses) == \E s \in Stops : ShipmentOf[s] = h /\ stop[s].status \in statuses

(* The shipment row is written by trips and by order handlers that do not   *)
(* look at each other.  Whoever wrote last, what it says has happened: it   *)
(* left on a trip or with its order, was handed over, failed or came back   *)
(* at a stop, or was cancelled with its order.                              *)
ShipmentIsExplained ==
  \A h \in Shipments :
    CASE shipment[h] = "READY"      -> sold[h] = "PACKED" /\ ~Carried(h)
      [] shipment[h] = "IN_TRANSIT" -> sold[h] = "SHIPPED" \/ Carried(h)
      [] shipment[h] = "DELIVERED"  -> sold[h] = "COMPLETED" \/ Ended(h, {"DELIVERED"})
      [] shipment[h] = "FAILED"     -> Ended(h, Undelivered)
      [] shipment[h] = "RETURNED"   -> Ended(h, {"RETURNED"})
      [] shipment[h] = "CANCELLED"  -> sold[h] = "CANCELLED"

(* ASSET-FLEET-OPERATIONS.md:60 and :73: the odometer of a vehicle does not *)
(* go back.                                                                 *)
OdometerAdvances == [][\A v \in Vehicles : vehicle'[v].odometer >= vehicle[v].odometer]_deliveryVars
=============================================================================
