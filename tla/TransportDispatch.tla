-------------------------- MODULE TransportDispatch --------------------------
(***************************************************************************)
(* The trip of a transport booking: an admin assigns a driver              *)
(* (app/api/v1/admin/transport_bookings.py), the driver acknowledges or    *)
(* declines it and takes it from step to step                              *)
(* (app/services/driver_trip_service.py, driver_trip_repository.py), the   *)
(* desk and the customer change the booking's status                       *)
(* (app/services/transport_service.py), and a payment confirms it          *)
(* (app/payments/service.py).                                              *)
(*                                                                         *)
(* None of them locks the row.  A request reads it, checks what it read,   *)
(* and its commit writes the columns it changed, whatever the row has      *)
(* become since: Store is the UPDATE that SQLAlchemy issues.               *)
(***************************************************************************)
EXTENDS Naturals, FiniteSets

CONSTANTS
    Trips,      \* transport bookings
    Drivers,
    NoDriver,   \* driver_id is NULL
    Requests,   \* handlers that may run at the same time
    Idle,       \* a handler that serves nobody
    DeskTargets,\* the booking statuses the desk may set
    MaxBarred   \* bound on the drivers who are not approved at a time

ASSUME DriverAssumption == NoDriver \notin Drivers

VARIABLES
    row,            \* transport_bookings: the columns the handlers decide on
    approved,       \* drivers whose status is approved
    declines,       \* trip_decline_reasons
    request,        \* what each handler is serving
    passed,         \* history: the assignment statuses each trip has had since it was given to a driver
    given,          \* history: trips that were ever given to a driver
    accepted,       \* history: the driver of each trip's last acknowledgement
    overwritten,    \* history: trips committed over a change that the writer had not read
    outdated,       \* history: requests whose trip was given to a driver since they read it
    displaced       \* history: trips whose present course an outdated driver's call, or the
                    \* step of the driver before, has got into

history == <<passed, given, accepted, overwritten, outdated, displaced>>
vars == <<row, approved, declines, request, history>>

BookingStatus == {"pending", "confirmed", "in_progress", "completed", "cancelled"}

\* AssignmentStatus also has "declined", which no handler writes.
AssignmentStatus ==
    {"unassigned", "assigned", "acknowledged", "en_route", "arrived", "in_progress", "completed"}

\* Faulty: a cancelled booking may be confirmed again.
ReopeningTransitions == { <<"pending", "confirmed">>, <<"pending", "cancelled">>,
    <<"confirmed", "completed">>, <<"confirmed", "cancelled">>, <<"cancelled", "completed">> }

AllowedTransportTransitions ==
    { <<"pending", "confirmed">>, <<"pending", "cancelled">>,
      <<"confirmed", "in_progress">>, <<"confirmed", "completed">>, <<"confirmed", "cancelled">>,
      <<"in_progress", "completed">>, <<"in_progress", "cancelled">> }

\* Faulty: a driver may set out without having acknowledged the trip.
HastyTransitions == { <<"assigned", "en_route">>, <<"en_route", "arrived">>,
    <<"arrived", "in_progress">>, <<"in_progress", "completed">> }

AllowedTransitions ==
    { <<"acknowledged", "en_route">>, <<"en_route", "arrived">>,
      <<"arrived", "in_progress">>, <<"in_progress", "completed">> }

CustomerCancelBlocked == {"en_route", "arrived", "in_progress", "completed"}

Rows == [booking: BookingStatus, driver: Drivers \cup {NoDriver}, assignment: AssignmentStatus]

NewBooking == [booking |-> "pending", driver |-> NoDriver, assignment |-> "unassigned"]

Serving == [op: {"assign", "acknowledge", "decline", "progress", "status", "cancel", "pay"},
            trip: Trips, driver: Drivers \cup {NoDriver}, to: AssignmentStatus \cup BookingStatus,
            read: Rows]

ASSUME IdleAssumption == Idle \notin Serving

Init ==
    /\ row = [t \in Trips |-> NewBooking]
    /\ approved \in {a \in SUBSET Drivers : Cardinality(Drivers \ a) <= MaxBarred}
    /\ declines = {}
    /\ request = [c \in Requests |-> Idle]
    /\ passed = [t \in Trips |-> {"unassigned"}]
    /\ given = {} /\ outdated = {} /\ displaced = {}
    /\ accepted = [t \in Trips |-> NoDriver]
    /\ overwritten = {}

-----------------------------------------------------------------------------
(* A handler reads the trip and the driver's account and checks them.  The  *)
(* two are read one after the other; a step of its own for each would add   *)
(* no outcome, for an account decides nothing but these checks.             *)

Serve(c, op, t, d, s) ==
    /\ request[c] = Idle
    /\ request' = [request EXCEPT ![c] = [op |-> op, trip |-> t, driver |-> d, to |-> s, read |-> row[t]]]
    /\ UNCHANGED <<row, approved, declines, history>>

\* assign_driver_to_booking: any booking may be given a driver, and a driver may be replaced.
ReadForAssign(c, t, d) ==
    /\ d \in approved
    /\ Serve(c, "assign", t, d, "assigned")

\* _resolve_driver and get_driver_trip_by_id, with which every driver's call starts
ResolveTrip(t, d) == d \in approved /\ row[t].driver = d

\* acknowledge_trip
ReadForAcknowledge(c, t, d) ==
    /\ ResolveTrip(t, d)
    /\ row[t].assignment = "assigned"
    /\ Serve(c, "acknowledge", t, d, "acknowledged")

\* decline_trip
ReadForDecline(c, t, d) ==
    /\ ResolveTrip(t, d)
    /\ row[t].assignment = "assigned"
    /\ Serve(c, "decline", t, d, "unassigned")

\* update_trip_status: the booking's own status is not looked at
ReadForProgress(c, t, d, s) ==
    /\ ResolveTrip(t, d)
    /\ <<row[t].assignment, s>> \in AllowedTransitions
    /\ Serve(c, "progress", t, d, s)

\* TransportService.update_booking_status; the same status again is not written, and a refusal
\* writes nothing (it answers 500, for the module never imports HTTPException)
ReadForStatus(c, t, s) ==
    /\ <<row[t].booking, s>> \in AllowedTransportTransitions
    /\ Serve(c, "status", t, NoDriver, s)

MayCancel(r) ==
    /\ r.assignment \notin CustomerCancelBlocked
    /\ r.booking \notin {"completed", "in_progress"}

\* cancel_for_customer, which ends in update_booking_status
ReadForCancel(c, t) ==
    /\ MayCancel(row[t])
    /\ <<row[t].booking, "cancelled">> \in AllowedTransportTransitions
    /\ Serve(c, "cancel", t, NoDriver, "cancelled")

\* apply_status of a successful payment: any other booking only has its payment_status changed
Confirms(r) == r.booking = "pending"

ReadForPayment(c, t) == Confirms(row[t]) /\ Serve(c, "pay", t, NoDriver, "confirmed")

\* The request dies before its commit: nothing is written.
Abandon(c) ==
    /\ request[c] # Idle
    /\ request' = [request EXCEPT ![c] = Idle]
    /\ outdated' = outdated \ {c}
    /\ UNCHANGED <<row, approved, declines, passed, given, accepted, overwritten, displaced>>

-----------------------------------------------------------------------------
(* The commits. *)

\* A column is in the UPDATE when its value differs from the one that was read.
Store(now, read, new) ==
    [booking |-> IF new.booking = read.booking THEN now.booking ELSE new.booking,
     driver |-> IF new.driver = read.driver THEN now.driver ELSE new.driver,
     assignment |-> IF new.assignment = read.assignment THEN now.assignment ELSE new.assignment]

Ready(c, op) == request[c] # Idle /\ request[c].op = op

Commit(c, new) ==
    LET q == request[c]
        t == q.trip
    IN  /\ row' = [row EXCEPT ![t] = Store(row[t], q.read, new)]
        /\ request' = [request EXCEPT ![c] = Idle]
        /\ overwritten' = IF row[t] = q.read THEN overwritten ELSE overwritten \cup {t}
        /\ UNCHANGED approved

\* The trip goes on with its driver.
Continue(c) ==
    LET q == request[c]
        t == q.trip
    IN  /\ passed' = [passed EXCEPT ![t] = @ \cup {row'[t].assignment}]
        /\ outdated' = outdated \ {c}
        /\ displaced' = displaced \cup
                {u \in {t} : c \in outdated /\ q.op \in {"acknowledge", "progress"}}
        /\ UNCHANGED given

\* Its course starts again: whoever has read it before is out of date.
StartAgain(c) ==
    LET t == request[c].trip
    IN  /\ passed' = [passed EXCEPT ![t] = {row'[t].assignment}]
        /\ outdated' = (outdated \ {c}) \cup
                {e \in Requests \ {c} : request[e] # Idle /\ request[e].trip = t}
        /\ displaced' = (displaced \ {t}) \cup {u \in {t} : row'[u].assignment # "assigned"}
        /\ given' = given \cup {t}

\* Faulty: the new driver takes over the old one's progress.
TakenOver(q) == [q.read EXCEPT !.driver = q.driver,
                               !.assignment = IF @ = "unassigned" THEN "assigned" ELSE @]

Assigned(q) == [q.read EXCEPT !.driver = q.driver, !.assignment = "assigned"]

Assign(c) ==
    /\ Ready(c, "assign")
    /\ Commit(c, Assigned(request[c])) /\ StartAgain(c)
    /\ UNCHANGED <<declines, accepted>>

\* update_assignment_status; a trip that is completed completes its booking
Progressed(q) ==
    [q.read EXCEPT !.assignment = q.to,
                   !.booking = IF q.to = "completed" THEN "completed" ELSE @]

Acknowledge(c) ==
    /\ Ready(c, "acknowledge")
    /\ Commit(c, Progressed(request[c])) /\ Continue(c)
    /\ accepted' = [accepted EXCEPT ![request[c].trip] = request[c].driver]
    /\ UNCHANGED declines

Progress(c) ==
    /\ Ready(c, "progress")
    /\ Commit(c, Progressed(request[c])) /\ Continue(c)
    /\ UNCHANGED <<declines, accepted>>

\* Faulty: the status that the enumeration has for a declined trip is stored.
MarkedDeclined(q) == [q.read EXCEPT !.driver = NoDriver, !.assignment = "declined"]

Declined(q) == [q.read EXCEPT !.driver = NoDriver, !.assignment = "unassigned"]

Decline(c) ==
    /\ Ready(c, "decline")
    /\ Commit(c, Declined(request[c])) /\ Continue(c)
    /\ declines' = declines \cup {<<request[c].trip, request[c].driver>>}
    /\ UNCHANGED accepted

StatusSet(q) == [q.read EXCEPT !.booking = q.to]

UpdateBookingStatus(c) ==
    /\ Ready(c, "status")
    /\ Commit(c, StatusSet(request[c])) /\ Continue(c)
    /\ UNCHANGED <<declines, accepted>>

CancelForCustomer(c) ==
    /\ Ready(c, "cancel")
    /\ Commit(c, StatusSet(request[c])) /\ Continue(c)
    /\ UNCHANGED <<declines, accepted>>

RecordPayment(c) ==
    /\ Ready(c, "pay")
    /\ Commit(c, StatusSet(request[c])) /\ Continue(c)
    /\ UNCHANGED <<declines, accepted>>

\* An admin approves, rejects or suspends a driver, who keeps the trips given to him.
UpdateDriverStatus(d) ==
    /\ \/ approved' = approved \cup {d}
       \/ approved' = approved \ {d} /\ Cardinality(Drivers \ approved') <= MaxBarred
    /\ UNCHANGED <<row, declines, request, history>>

Read(c) ==
    \E t \in Trips :
        \/ \E d \in Drivers :
             \/ ReadForAssign(c, t, d) \/ ReadForAcknowledge(c, t, d) \/ ReadForDecline(c, t, d)
             \/ \E s \in AssignmentStatus : ReadForProgress(c, t, d, s)
        \/ \E s \in DeskTargets : ReadForStatus(c, t, s)
        \/ ReadForCancel(c, t)
        \/ ReadForPayment(c, t)

Finish(c) ==
    \/ Assign(c) \/ Acknowledge(c) \/ Decline(c) \/ Progress(c)
    \/ UpdateBookingStatus(c) \/ CancelForCustomer(c) \/ RecordPayment(c)
    \/ Abandon(c)

Next ==
    \/ \E c \in Requests : Read(c) \/ Finish(c)
    \/ \E d \in Drivers : UpdateDriverStatus(d)

Spec == Init /\ [][Next]_vars

-----------------------------------------------------------------------------
\* The columns, the requests and the history have the values that the code writes: no trip is
\* ever stored as "declined".
TypeOK ==
    /\ row \in [Trips -> Rows]
    /\ approved \subseteq Drivers
    /\ declines \subseteq Trips \X Drivers
    /\ request \in [Requests -> Serving \cup {Idle}]
    /\ passed \in [Trips -> SUBSET AssignmentStatus]
    /\ accepted \in [Trips -> Drivers \cup {NoDriver}]
    /\ given \subseteq Trips /\ overwritten \subseteq Trips /\ displaced \subseteq Trips
    /\ outdated \subseteq Requests

DriverIffAssigned(t) == row[t].driver = NoDriver <=> row[t].assignment = "unassigned"

AcceptedByItsDriver(t) ==
    row[t].assignment \in AssignmentStatus \ {"unassigned", "assigned"} => accepted[t] = row[t].driver

LeftOnlyByDecline(t) ==
    row[t].driver = NoDriver /\ t \in given => \E d \in Drivers : <<t, d>> \in declines

CompletedWithItsBooking(t) == row[t].assignment = "completed" => row[t].booking = "completed"

\* Lost updates are the only thing that can make a trip inconsistent: as long as no commit went
\* over a change its request had not read, the trip has a driver exactly when it is assigned,
\* whoever drives it is the one who acknowledged it, it lost its driver only to a recorded
\* decline, and a completed trip has a completed booking.  Any number of requests overlap on it.
UndisturbedTripsAgree ==
    \A t \in Trips \ overwritten :
        DriverIffAssigned(t) /\ AcceptedByItsDriver(t) /\ LeftOnlyByDecline(t) /\ CompletedWithItsBooking(t)

\* The documented course of a trip
StepsBefore ==
    { <<"assigned", "acknowledged">>, <<"acknowledged", "en_route">>, <<"en_route", "arrived">>,
      <<"arrived", "in_progress">>, <<"in_progress", "completed">> }

\* A driver takes a trip step by step: whatever status it has had since it was last given to
\* a driver, it has had every status before that one since then, also where the driver's calls
\* overlap each other and those of the desk, the customer and the gateway.  The exceptions are
\* trips where a driver's call that was read before the trip was last given away is committed
\* after that, and those given away by an admin whose page still showed them as assigned.
StepsInOrder ==
    \A t \in Trips \ displaced : \A s \in StepsBefore : s[2] \in passed[t] => s[1] \in passed[t]

\* A booking that is cancelled or completed stays so, with one exception: the driver of a
\* cancelled booking may still complete the trip, for nothing in update_trip_status looks at the
\* booking.  A payment, the desk and the customer cannot reopen it.
ClosedBookingsStay ==
    [][\A t \in Trips \ overwritten' :
         row[t].booking \in {"completed", "cancelled"} /\ row'[t].booking # row[t].booking =>
             row'[t].booking = "completed" /\ row'[t].assignment = "completed"]_vars

-----------------------------------------------------------------------------
(* What the documents say, and the code does not keep.                      *)

\* "Advance trip progress sequentially" (driver_trips.py:95), of any trip.
StepsAlwaysInOrder ==
    \A t \in Trips : \A s \in StepsBefore : s[2] \in passed[t] => s[1] \in passed[t]
=============================================================================
