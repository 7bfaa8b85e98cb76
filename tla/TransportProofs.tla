-------------------------- MODULE TransportProofs ---------------------------
(***************************************************************************)
(* Theorems about the transport modules: TransportDispatch, for any trips, *)
(* drivers and handlers, and TransportFares (F), for any categories,       *)
(* cards, routes, distances and requests that FaresConstants allows.       *)
(*                                                                         *)
(* What a request has read is out of date by the time it commits, so the   *)
(* invariant keeps, for each request, what its checks established of the   *)
(* row AS IT WAS READ (RequestsChecked). A commit over an unchanged row    *)
(* then starts from a row that passed the checks; any other commit puts    *)
(* the trip in overwritten. Of the course of a trip, each request that is  *)
(* not outdated read a step that the trip has had since it was given.      *)
(***************************************************************************)
EXTENDS TransportDispatch, Integers, Sequences, TLAPS

Checked(q) ==
    /\ q.op \in {"assign", "acknowledge", "decline", "progress"} => q.driver \in Drivers
    /\ q.op \in {"acknowledge", "decline"} =>
         q.read.driver = q.driver /\ q.read.assignment = "assigned"
    /\ q.op = "acknowledge" => q.to = "acknowledged"
    /\ q.op = "progress" =>
         q.read.driver = q.driver /\ <<q.read.assignment, q.to>> \in AllowedTransitions
    /\ q.op \in {"status", "cancel", "pay"} => <<q.read.booking, q.to>> \in AllowedTransportTransitions

\* What a request read, it had checked, and unless it is outdated the trip has had that status
\* with its present driver.
RequestsChecked ==
    \A c \in Requests : request[c] # Idle =>
        /\ Checked(request[c])
        /\ c \notin outdated => request[c].read.assignment \in passed[request[c].trip]

PresentPassed == \A t \in Trips : row[t].assignment \in passed[t]

DispatchInv == TypeOK /\ RequestsChecked /\ PresentPassed /\ StepsInOrder

\* The steps before the status a request writes have been taken, or it writes none.
Follows(c, new) ==
    \/ new.assignment = request[c].read.assignment
    \/ c \notin outdated =>
            \A s \in StepsBefore : s[2] = new.assignment => s[1] \in passed[request[c].trip]
    \/ request[c].op = "decline"

\* The history of a commit: the course goes on, or starts again.
Recorded(c) ==
    \/ Continue(c)
    \/ StartAgain(c)

-----------------------------------------------------------------------------
(* One commit. *)

LEMMA StoreType ==
    ASSUME NEW now \in Rows, NEW read \in Rows, NEW new \in Rows
    PROVE  /\ Store(now, read, new) \in Rows
           /\ Store(now, read, new).assignment \in {now.assignment, new.assignment}
           /\ new.assignment = read.assignment => Store(now, read, new).assignment = now.assignment
           /\ now = read => Store(now, read, new) = new
  BY DEF Store, Rows

LEMMA CommitType ==
    ASSUME TypeOK, NEW c \in Requests, request[c] # Idle, NEW new \in Rows, Commit(c, new),
           Recorded(c)
    PROVE  LET q == request[c]
               t == q.trip
           IN  /\ q \in Serving /\ t \in Trips
               /\ row' \in [Trips -> Rows]
               /\ row'[t].assignment \in {row[t].assignment, new.assignment}
               /\ new.assignment = q.read.assignment => row'[t].assignment = row[t].assignment
               /\ \A u \in Trips \ {t} : row'[u] = row[u] /\ passed'[u] = passed[u]
               /\ \A u \in Trips \ {t} : u \in given' <=> u \in given
               /\ \A u \in Trips \ {t} : u \in displaced' <=> u \in displaced
               /\ row'[t].assignment \in passed'[t]
               /\ given' \subseteq Trips /\ displaced' \subseteq Trips /\ outdated' \subseteq Requests
               /\ passed' \in [Trips -> SUBSET AssignmentStatus]
               /\ request' \in [Requests -> Serving \cup {Idle}]
               /\ request' = [request EXCEPT ![c] = Idle]
               /\ overwritten \subseteq overwritten' /\ overwritten' \subseteq Trips
               /\ t \notin overwritten' => row[t] = q.read /\ row'[t] = new
  <1> DEFINE q == request[c]
             t == q.trip
  <1>1. q \in Serving /\ t \in Trips /\ q.read \in Rows /\ row[t] \in Rows
    BY DEF TypeOK, Serving
  <1>2. row' = [row EXCEPT ![t] = Store(row[t], q.read, new)]
    BY DEF Commit
  <1>3. /\ Store(row[t], q.read, new) \in Rows
        /\ Store(row[t], q.read, new).assignment \in {row[t].assignment, new.assignment}
        /\ new.assignment = q.read.assignment =>
                Store(row[t], q.read, new).assignment = row[t].assignment
        /\ row[t] = q.read => Store(row[t], q.read, new) = new
    BY <1>1, StoreType
  <1>4. /\ row' \in [Trips -> Rows]
        /\ row'[t] = Store(row[t], q.read, new)
        /\ \A u \in Trips \ {t} : row'[u] = row[u]
    BY <1>1, <1>2, <1>3 DEF TypeOK
  <1>5. row'[t].assignment \in AssignmentStatus
    BY <1>1, <1>4 DEF Rows
  <1>6. /\ passed' \in {[passed EXCEPT ![t] = passed[t] \cup {row'[t].assignment}],
                       [passed EXCEPT ![t] = {row'[t].assignment}]}
        /\ given' \in {given, given \cup {t}}
        /\ displaced' \subseteq displaced \cup {t} /\ displaced \subseteq displaced' \cup {t}
        /\ outdated' \subseteq outdated \cup Requests
    BY DEF Recorded, Continue, StartAgain
  <1>7. /\ passed' \in [Trips -> SUBSET AssignmentStatus]
        /\ row'[t].assignment \in passed'[t]
        /\ \A u \in Trips \ {t} : passed'[u] = passed[u]
    BY <1>1, <1>5, <1>6 DEF TypeOK
  <1>8. /\ request' = [request EXCEPT ![c] = Idle]
        /\ request' \in [Requests -> Serving \cup {Idle}]
    BY DEF Commit, TypeOK
  <1>9. overwritten' = IF row[t] = q.read THEN overwritten ELSE overwritten \cup {t}
    BY DEF Commit
  <1>10. overwritten \subseteq overwritten' /\ overwritten' \subseteq Trips
    BY <1>1, <1>9 DEF TypeOK
  <1>11. t \notin overwritten' => row[t] = q.read
    BY <1>9
  <1>12. /\ given' \subseteq Trips /\ displaced' \subseteq Trips /\ outdated' \subseteq Requests
         /\ \A u \in Trips \ {t} : u \in given' <=> u \in given
         /\ \A u \in Trips \ {t} : u \in displaced' <=> u \in displaced
    BY <1>1, <1>6 DEF TypeOK
  <1> QED
    BY <1>12, <1>1, <1>3, <1>4, <1>7, <1>8, <1>10, <1>11

LEMMA CommitKeeps ==
    ASSUME DispatchInv, NEW c \in Requests, request[c] # Idle, NEW new \in Rows,
           Commit(c, new), \/ Continue(c) /\ Follows(c, new) /\ request[c].op # "assign"
                           \/ StartAgain(c),
           \/ request[c].op \in {"acknowledge", "progress", "assign", "decline"}
           \/ new.assignment = request[c].read.assignment,
           request[c].op = "decline" => new.assignment = "unassigned"
    PROVE  RequestsChecked' /\ PresentPassed' /\ StepsInOrder'
  <1> DEFINE t == request[c].trip
  <1>1. TypeOK /\ RequestsChecked /\ PresentPassed /\ StepsInOrder
    BY DEF DispatchInv
  <1>2. /\ t \in Trips
        /\ row'[t].assignment \in {row[t].assignment, new.assignment}
        /\ new.assignment = request[c].read.assignment => row'[t].assignment = row[t].assignment
        /\ \A u \in Trips \ {t} : row'[u] = row[u] /\ passed'[u] = passed[u]
        /\ \A u \in Trips \ {t} : u \in displaced' <=> u \in displaced
        /\ row'[t].assignment \in passed'[t]
        /\ request' = [request EXCEPT ![c] = Idle]
    BY <1>1, CommitType DEF Recorded
  <1>3. CASE Continue(c) /\ Follows(c, new) /\ request[c].op # "assign"
    <2>1. /\ passed'[t] = passed[t] \cup {row'[t].assignment}
          /\ outdated' = outdated \ {c} /\ displaced \subseteq displaced'
          /\ c \in outdated /\ request[c].op \in {"acknowledge", "progress"} => t \in displaced'
      BY <1>1, <1>2, <1>3 DEF Continue, TypeOK
    <2>2. RequestsChecked'
      <3> SUFFICES ASSUME NEW d \in Requests, request'[d] # Idle
                   PROVE  /\ Checked(request'[d])
                          /\ d \notin outdated' =>
                                request'[d].read.assignment \in passed'[request'[d].trip]
        BY DEF RequestsChecked, Checked
      <3>1. request'[d] = request[d] /\ request[d] # Idle /\ d # c
        BY <1>1, <1>2 DEF TypeOK
      <3>2. request[d].trip \in Trips
        BY <1>1, <3>1 DEF TypeOK, Serving
      <3>3. \A u \in Trips : passed[u] \subseteq passed'[u]
        BY <1>2, <2>1
      <3> QED
        BY <1>1, <2>1, <3>1, <3>2, <3>3 DEF RequestsChecked
    <2>3. StepsInOrder'
      <3> SUFFICES ASSUME NEW u \in Trips \ displaced', NEW s \in StepsBefore, s[2] \in passed'[u]
                   PROVE  s[1] \in passed'[u]
        BY DEF StepsInOrder, StepsBefore
      <3>1. CASE u # t
        BY <1>1, <1>2, <3>1 DEF StepsInOrder
      <3>2. CASE u = t
        <4>1. u \notin displaced
          BY <2>1
        <4>2. CASE s[2] \in passed[t]
          BY <1>1, <2>1, <3>2, <4>1, <4>2 DEF StepsInOrder
        <4>3. CASE s[2] \notin passed[t]
          <5>1. s[2] = row'[t].assignment /\ row'[t].assignment # row[t].assignment
            BY <1>1, <1>2, <2>1, <3>2, <4>3 DEF PresentPassed
          <5>2. row'[t].assignment = new.assignment
                /\ new.assignment # request[c].read.assignment
            BY <1>2, <5>1
          <5>3. s[2] # "unassigned"
            BY DEF StepsBefore
          <5>4. request[c].op \in {"acknowledge", "progress"}
            BY <1>2, <1>3, <5>1, <5>2, <5>3
          <5> QED
            BY <1>3, <2>1, <3>2, <5>1, <5>2, <5>4 DEF Follows
        <4> QED
          BY <4>2, <4>3
      <3> QED
        BY <3>1, <3>2
    <2>4. PresentPassed'
      BY <1>1, <1>2 DEF PresentPassed
    <2> QED
      BY <2>2, <2>3, <2>4
  <1>4. CASE StartAgain(c)
    <2>1. /\ passed'[t] = {row'[t].assignment}
          /\ t \notin displaced' => row'[t].assignment = "assigned"
          /\ \A d \in Requests \ {c} : request[d] # Idle /\ request[d].trip = t => d \in outdated'
          /\ \A d \in Requests \ {c} : d \notin outdated' => d \notin outdated
      BY <1>1, <1>2, <1>4 DEF StartAgain, TypeOK
    <2>2. RequestsChecked'
      <3> SUFFICES ASSUME NEW d \in Requests, request'[d] # Idle
                   PROVE  /\ Checked(request'[d])
                          /\ d \notin outdated' =>
                                request'[d].read.assignment \in passed'[request'[d].trip]
        BY DEF RequestsChecked, Checked
      <3>1. request'[d] = request[d] /\ request[d] # Idle /\ d # c
        BY <1>1, <1>2 DEF TypeOK
      <3>2. request[d].trip \in Trips
        BY <1>1, <3>1 DEF TypeOK, Serving
      <3> QED
        BY <1>1, <1>2, <2>1, <3>1, <3>2 DEF RequestsChecked
    <2>3. StepsInOrder'
      <3> SUFFICES ASSUME NEW u \in Trips \ displaced', NEW s \in StepsBefore, s[2] \in passed'[u]
                   PROVE  s[1] \in passed'[u]
        BY DEF StepsInOrder, StepsBefore
      <3>1. CASE u # t
        BY <1>1, <1>2, <3>1 DEF StepsInOrder
      <3>2. CASE u = t
        BY <2>1, <3>2 DEF StepsBefore
      <3> QED
        BY <3>1, <3>2
    <2>4. PresentPassed'
      BY <1>1, <1>2 DEF PresentPassed
    <2> QED
      BY <2>2, <2>3, <2>4
  <1> QED
    BY <1>3, <1>4

-----------------------------------------------------------------------------
(* What each operation writes. *)

LEMMA CheckedTypes ==
    ASSUME DispatchInv, NEW c \in Requests, request[c] # Idle
    PROVE  /\ request[c] \in Serving
           /\ request[c].read \in Rows
           /\ request[c].trip \in Trips
           /\ Checked(request[c])
           /\ c \notin outdated => request[c].read.assignment \in passed[request[c].trip]
  BY DEF DispatchInv, TypeOK, RequestsChecked, Serving

LEMMA AssignedWrites ==
    ASSUME DispatchInv, NEW c \in Requests, Ready(c, "assign")
    PROVE  Assigned(request[c]) \in Rows /\ Assigned(request[c]).assignment = "assigned"
  <1>1. request[c].read \in Rows /\ request[c].driver \in Drivers
    BY CheckedTypes DEF Ready, Checked
  <1>2. Assigned(request[c]) \in Rows /\ Assigned(request[c]).assignment = "assigned"
    BY <1>1 DEF Assigned, Rows, AssignmentStatus
  <1> QED
    BY <1>2

LEMMA ProgressedWrites ==
    ASSUME DispatchInv, NEW c \in Requests, Ready(c, "acknowledge") \/ Ready(c, "progress")
    PROVE  /\ Progressed(request[c]) \in Rows
           /\ Follows(c, Progressed(request[c]))
           /\ Progressed(request[c]).driver = request[c].read.driver
           /\ Progressed(request[c]).assignment = request[c].to
           /\ Progressed(request[c]).booking =
                IF request[c].to = "completed" THEN "completed" ELSE request[c].read.booking
  <1> DEFINE q == request[c]
  <1>1. /\ q.read \in Rows
        /\ c \notin outdated => q.read.assignment \in passed[q.trip]
        /\ \/ q.read.assignment = "assigned" /\ q.to = "acknowledged"
           \/ <<q.read.assignment, q.to>> \in AllowedTransitions
    BY CheckedTypes DEF Ready, Checked
  <1>2. q.to \in AssignmentStatus
    BY <1>1 DEF AllowedTransitions, AssignmentStatus
  <1>3. /\ Progressed(q) \in Rows /\ Progressed(q).assignment = q.to
        /\ Progressed(q).driver = q.read.driver
        /\ Progressed(q).booking = IF q.to = "completed" THEN "completed" ELSE q.read.booking
    BY <1>1, <1>2 DEF Progressed, Rows, BookingStatus
  <1>4. \A s \in StepsBefore : s[2] = q.to => s[1] = q.read.assignment
    BY <1>1 DEF StepsBefore, AllowedTransitions
  <1> QED
    BY <1>1, <1>3, <1>4 DEF Follows

LEMMA DeclinedWrites ==
    ASSUME DispatchInv, NEW c \in Requests, Ready(c, "decline")
    PROVE  /\ Declined(request[c]) \in Rows /\ Follows(c, Declined(request[c]))
           /\ Declined(request[c]).assignment = "unassigned"
  <1>1. request[c].read \in Rows
    BY CheckedTypes DEF Ready
  <1>2. Declined(request[c]) \in Rows /\ Declined(request[c]).assignment = "unassigned"
    BY <1>1 DEF Declined, Rows, AssignmentStatus
  <1> QED
    BY <1>2 DEF Follows, Ready

\* The desk, the customer and the gateway write no step.
LEMMA StatusWrites ==
    ASSUME DispatchInv, NEW c \in Requests,
           Ready(c, "status") \/ Ready(c, "cancel") \/ Ready(c, "pay")
    PROVE  /\ StatusSet(request[c]) \in Rows /\ Follows(c, StatusSet(request[c]))
           /\ StatusSet(request[c]).assignment = request[c].read.assignment
  <1> DEFINE q == request[c]
  <1>1. /\ q.read \in Rows
        /\ <<q.read.booking, q.to>> \in AllowedTransportTransitions
    BY CheckedTypes DEF Ready, Checked
  <1>2. q.to \in BookingStatus
    BY <1>1 DEF AllowedTransportTransitions, BookingStatus
  <1>3. StatusSet(q) \in Rows /\ StatusSet(q).assignment = q.read.assignment
    BY <1>1, <1>2 DEF StatusSet, Rows
  <1> QED
    BY <1>3 DEF Follows

-----------------------------------------------------------------------------
(* The invariant. *)

LEMMA DispatchInit == Init => DispatchInv
  BY DriverAssumption
  DEF Init, DispatchInv, TypeOK, RequestsChecked, PresentPassed, StepsInOrder, StepsBefore, NewBooking, Rows,
      BookingStatus, AssignmentStatus

Asks(op, t, d, s) == [op |-> op, trip |-> t, driver |-> d, to |-> s, read |-> row[t]]

LEMMA ServeKeeps ==
    ASSUME DispatchInv, NEW c \in Requests, NEW op, NEW t \in Trips, NEW d, NEW s,
           Serve(c, op, t, d, s), Asks(op, t, d, s) \in Serving, Checked(Asks(op, t, d, s))
    PROVE  DispatchInv'
  <1> DEFINE q == Asks(op, t, d, s)
  <1>1. TypeOK /\ RequestsChecked /\ PresentPassed /\ StepsInOrder
    BY DEF DispatchInv
  <1>2. /\ request' = [request EXCEPT ![c] = q]
        /\ UNCHANGED <<row, approved, declines, history>>
    BY DEF Serve, Asks
  <1>3. TypeOK'
    BY <1>1, <1>2 DEF TypeOK, history
  <1>4. StepsInOrder' /\ PresentPassed'
    BY <1>1, <1>2 DEF StepsInOrder, PresentPassed, history
  <1>5. RequestsChecked'
    <2> SUFFICES ASSUME NEW e \in Requests, request'[e] # Idle
                 PROVE  /\ Checked(request'[e])
                        /\ e \notin outdated' =>
                                request'[e].read.assignment \in passed'[request'[e].trip]
      BY DEF RequestsChecked, Checked
    <2>1. CASE e = c
      <3>1. request'[e] = q
        BY <1>1, <1>2, <2>1 DEF TypeOK
      <3>2. row[t].assignment \in passed'[t]
        BY <1>1, <1>2 DEF PresentPassed, history
      <3>3. q.trip = t /\ q.read = row[t]
        BY DEF Asks
      <3> QED
        BY <3>1, <3>2, <3>3
    <2>2. CASE e # c
      BY <1>1, <1>2, <2>2 DEF TypeOK, RequestsChecked, history
    <2> QED
      BY <2>1, <2>2
  <1> QED
    BY <1>3, <1>4, <1>5 DEF DispatchInv

LEMMA ReadKeeps ==
    ASSUME DispatchInv, NEW c \in Requests, Read(c)
    PROVE  DispatchInv'
  <1>1. PICK t \in Trips :
          \/ \E d \in Drivers :
               \/ ReadForAssign(c, t, d) \/ ReadForAcknowledge(c, t, d) \/ ReadForDecline(c, t, d)
               \/ \E s \in AssignmentStatus : ReadForProgress(c, t, d, s)
          \/ \E s \in DeskTargets : ReadForStatus(c, t, s)
          \/ ReadForCancel(c, t)
          \/ ReadForPayment(c, t)
    BY DEF Read
  <1>2. row[t] \in Rows
    BY DEF DispatchInv, TypeOK
  <1>3. ASSUME NEW d \in Drivers, ReadForAssign(c, t, d)
        PROVE  DispatchInv'
    <2>1. Asks("assign", t, d, "assigned") \in Serving
      BY <1>2 DEF Asks, Serving, AssignmentStatus
    <2>2. Checked(Asks("assign", t, d, "assigned"))
      BY DEF Asks, Checked
    <2> QED
      BY <1>3, <2>1, <2>2, ServeKeeps DEF ReadForAssign
  <1>4. ASSUME NEW d \in Drivers, ReadForAcknowledge(c, t, d)
        PROVE  DispatchInv'
    <2>1. Asks("acknowledge", t, d, "acknowledged") \in Serving
      BY <1>2 DEF Asks, Serving, AssignmentStatus
    <2>2. Checked(Asks("acknowledge", t, d, "acknowledged"))
      BY <1>4 DEF ReadForAcknowledge, ResolveTrip, Asks, Checked
    <2> QED
      BY <1>4, <2>1, <2>2, ServeKeeps DEF ReadForAcknowledge
  <1>5. ASSUME NEW d \in Drivers, ReadForDecline(c, t, d)
        PROVE  DispatchInv'
    <2>1. Asks("decline", t, d, "unassigned") \in Serving
      BY <1>2 DEF Asks, Serving, AssignmentStatus
    <2>2. Checked(Asks("decline", t, d, "unassigned"))
      BY <1>5 DEF ReadForDecline, ResolveTrip, Asks, Checked
    <2> QED
      BY <1>5, <2>1, <2>2, ServeKeeps DEF ReadForDecline
  <1>6. ASSUME NEW d \in Drivers, NEW s \in AssignmentStatus, ReadForProgress(c, t, d, s)
        PROVE  DispatchInv'
    <2>1. Asks("progress", t, d, s) \in Serving
      BY <1>2 DEF Asks, Serving
    <2>2. Checked(Asks("progress", t, d, s))
      BY <1>6 DEF ReadForProgress, ResolveTrip, Asks, Checked
    <2> QED
      BY <1>6, <2>1, <2>2, ServeKeeps DEF ReadForProgress
  <1>7. ASSUME NEW op \in {"status", "cancel", "pay"}, NEW s, Serve(c, op, t, NoDriver, s),
               <<row[t].booking, s>> \in AllowedTransportTransitions
        PROVE  DispatchInv'
    <2>1. s \in BookingStatus
      BY <1>7 DEF AllowedTransportTransitions, BookingStatus
    <2>2. Asks(op, t, NoDriver, s) \in Serving
      BY <1>2, <2>1 DEF Asks, Serving
    <2>3. Checked(Asks(op, t, NoDriver, s))
      BY <1>7 DEF Asks, Checked
    <2> QED
      BY <1>7, <2>2, <2>3, ServeKeeps
  <1>8. ASSUME NEW s \in DeskTargets, ReadForStatus(c, t, s)
        PROVE  DispatchInv'
    BY <1>7, <1>8 DEF ReadForStatus
  <1>9. CASE ReadForCancel(c, t)
    BY <1>7, <1>9 DEF ReadForCancel
  <1>10. CASE ReadForPayment(c, t)
    BY <1>7, <1>10 DEF ReadForPayment, Confirms, AllowedTransportTransitions
  <1> QED
    BY <1>1, <1>3, <1>4, <1>5, <1>6, <1>8, <1>9, <1>10

LEMMA FinishKeeps ==
    ASSUME DispatchInv, NEW c \in Requests, Finish(c)
    PROVE  DispatchInv'
  <1> DEFINE q == request[c]
  <1>1. TypeOK /\ RequestsChecked /\ PresentPassed /\ StepsInOrder
    BY DEF DispatchInv
  <1>2. q # Idle /\ q \in Serving /\ q.trip \in Trips
    <2>1. q # Idle
      BY DEF Finish, Assign, Acknowledge, Decline, Progress, UpdateBookingStatus,
             CancelForCustomer, RecordPayment, Abandon, Ready
    <2> QED
      BY <2>1, CheckedTypes
  <1>3. ASSUME NEW new \in Rows, Commit(c, new),
               \/ Continue(c) /\ Follows(c, new) /\ q.op # "assign"
               \/ StartAgain(c),
               \/ q.op \in {"acknowledge", "progress", "assign", "decline"}
               \/ new.assignment = q.read.assignment,
               q.op = "decline" => new.assignment = "unassigned",
               declines' \subseteq Trips \X Drivers, accepted' \in [Trips -> Drivers \cup {NoDriver}]
        PROVE  DispatchInv'
    <2>1. RequestsChecked' /\ PresentPassed' /\ StepsInOrder'
      BY <1>2, <1>3, CommitKeeps
    <2>2. Recorded(c)
      BY <1>3 DEF Recorded
    <2>3. TypeOK'
      BY <1>1, <1>2, <1>3, <2>2, CommitType DEF TypeOK, Commit
    <2> QED
      BY <2>1, <2>3 DEF DispatchInv
  <1>4. CASE Assign(c)
    BY <1>1, <1>3, <1>4, AssignedWrites DEF Assign, Ready, TypeOK
  <1>5. CASE Acknowledge(c)
    <2>1. q.driver \in Drivers
      BY <1>2, <1>5, CheckedTypes DEF Acknowledge, Ready, Checked
    <2>2. accepted' \in [Trips -> Drivers \cup {NoDriver}]
      BY <1>1, <1>2, <1>5, <2>1 DEF Acknowledge, TypeOK
    <2> QED
      BY <1>1, <1>3, <1>5, <2>2, ProgressedWrites DEF Acknowledge, Ready, TypeOK
  <1>6. CASE Decline(c)
    <2>1. q.driver \in Drivers
      BY <1>2, <1>6, CheckedTypes DEF Decline, Ready, Checked
    <2>2. declines' \subseteq Trips \X Drivers
      BY <1>1, <1>2, <1>6, <2>1 DEF Decline, TypeOK
    <2> QED
      BY <1>1, <1>3, <1>6, <2>2, DeclinedWrites DEF Decline, Ready, TypeOK
  <1>7. CASE Progress(c)
    BY <1>1, <1>3, <1>7, ProgressedWrites DEF Progress, Ready, TypeOK
  <1>8. CASE UpdateBookingStatus(c)
    BY <1>1, <1>3, <1>8, StatusWrites DEF UpdateBookingStatus, Ready, TypeOK
  <1>9. CASE CancelForCustomer(c)
    BY <1>1, <1>3, <1>9, StatusWrites DEF CancelForCustomer, Ready, TypeOK
  <1>10. CASE RecordPayment(c)
    BY <1>1, <1>3, <1>10, StatusWrites DEF RecordPayment, Ready, TypeOK
  <1>11. CASE Abandon(c)
    <2>1. /\ request' = [request EXCEPT ![c] = Idle]
          /\ outdated' = outdated \ {c}
          /\ UNCHANGED <<row, approved, declines, passed, given, accepted, overwritten, displaced>>
      BY <1>11 DEF Abandon
    <2>2. \A e \in Requests : request'[e] # Idle => request'[e] = request[e] /\ e # c
      BY <1>1, <2>1 DEF TypeOK
    <2>3. RequestsChecked'
      BY <1>1, <2>1, <2>2 DEF RequestsChecked
    <2> QED
      BY <1>1, <2>1, <2>3 DEF DispatchInv, TypeOK, PresentPassed, StepsInOrder
  <1> QED
    BY <1>4, <1>5, <1>6, <1>7, <1>8, <1>9, <1>10, <1>11 DEF Finish

LEMMA DispatchStep == DispatchInv /\ [Next]_vars => DispatchInv'
  <1> SUFFICES ASSUME DispatchInv, [Next]_vars
               PROVE  DispatchInv'
    OBVIOUS
  <1>1. CASE \E c \in Requests : Read(c) \/ Finish(c)
    BY <1>1, ReadKeeps, FinishKeeps
  <1>2. CASE \E d \in Drivers : UpdateDriverStatus(d)
    BY <1>2 DEF UpdateDriverStatus, DispatchInv, TypeOK, RequestsChecked, PresentPassed, StepsInOrder, history
  <1>3. CASE UNCHANGED vars
    BY <1>3 DEF vars, DispatchInv, TypeOK, RequestsChecked, PresentPassed, StepsInOrder, history
  <1> QED
    BY <1>1, <1>2, <1>3 DEF Next

\* Every reachable state is well typed: whatever requests overlap on a trip, its columns hold
\* values that the handlers write.
THEOREM TypeCorrect == Spec => []TypeOK
  <1>1. DispatchInv => TypeOK
    BY DEF DispatchInv
  <1> QED
    BY <1>1, DispatchInit, DispatchStep, PTL DEF Spec

\* Since it was last given to a driver a trip has skipped no step, whatever requests overlap on
\* it, if no call of the driver before was under way when it was given.
THEOREM NoStepIsSkipped == Spec => []StepsInOrder
  <1>1. DispatchInv => StepsInOrder
    BY DEF DispatchInv
  <1> QED
    BY <1>1, DispatchInit, DispatchStep, PTL DEF Spec

-----------------------------------------------------------------------------
(* Trips no stale commit has gone over. *)

TripAgrees(t) ==
    DriverIffAssigned(t) /\ AcceptedByItsDriver(t) /\ LeftOnlyByDecline(t) /\ CompletedWithItsBooking(t)

\* A trip that a step leaves alone goes on agreeing; the record of declines only grows.
LEMMA UntouchedAgrees ==
    ASSUME NEW u \in Trips, TripAgrees(u), row'[u] = row[u], u \in given' => u \in given,
           accepted'[u] = accepted[u], declines \subseteq declines'
    PROVE  TripAgrees(u)'
  BY DEF TripAgrees, DriverIffAssigned, AcceptedByItsDriver, LeftOnlyByDecline, CompletedWithItsBooking

\* The trip of an undisturbed commit: the request read the row as it is, and its checks hold of it.
LEMMA CommitAgrees ==
    ASSUME DispatchInv, NEW c \in Requests, Finish(c), ~Abandon(c),
           NEW t \in Trips, t = request[c].trip, t \notin overwritten', TripAgrees(t)
    PROVE  TripAgrees(t)'
  <1> DEFINE q == request[c]
  <1>1. TypeOK
    BY DEF DispatchInv
  <1>2. q # Idle
    BY DEF Finish, Assign, Acknowledge, Decline, Progress, UpdateBookingStatus, CancelForCustomer,
           RecordPayment, Ready
  <1>3. /\ q \in Serving /\ t \in Trips /\ q.read \in Rows
        /\ Checked(q)
        /\ q.trip = t
    BY <1>2, CheckedTypes
  <1>0. Recorded(c)
    BY DEF Recorded, Finish, Assign, Acknowledge, Decline, Progress, UpdateBookingStatus,
           CancelForCustomer, RecordPayment
  <1>4. ASSUME NEW new \in Rows, Commit(c, new)
        PROVE  row[t] = q.read /\ row'[t] = new
    BY <1>0, <1>1, <1>2, <1>3, <1>4, CommitType
  <1>5. CASE Assign(c)
    <2>1. Assigned(q) \in Rows /\ Commit(c, Assigned(q))
      BY <1>5, AssignedWrites DEF Assign
    <2>2. /\ row'[t].driver = q.driver /\ row'[t].assignment = "assigned"
          /\ row'[t].booking = q.read.booking
      BY <1>3, <1>4, <2>1 DEF Assigned, Rows
    <2>3. q.driver \in Drivers /\ q.driver # NoDriver
      BY <1>3, <1>5, DriverAssumption DEF Assign, Ready, Checked
    <2> QED
      BY <2>2, <2>3
      DEF TripAgrees, DriverIffAssigned, AcceptedByItsDriver, LeftOnlyByDecline, CompletedWithItsBooking
  <1>6. CASE Acknowledge(c) \/ Progress(c)
    <2>1. Progressed(q) \in Rows /\ Commit(c, Progressed(q))
      BY <1>6, ProgressedWrites DEF Acknowledge, Progress
    <2>2. /\ row[t] = q.read
          /\ row'[t].driver = q.read.driver /\ row'[t].assignment = q.to
          /\ row'[t].booking = IF q.to = "completed" THEN "completed" ELSE q.read.booking
      BY <1>4, <1>6, <2>1, ProgressedWrites DEF Acknowledge, Progress
    <2>3. q.driver \in Drivers /\ q.driver # NoDriver /\ q.read.driver = q.driver
      BY <1>3, <1>6, DriverAssumption DEF Acknowledge, Progress, Ready, Checked
    <2>4. q.to # "unassigned"
      BY <1>3, <1>6 DEF Acknowledge, Progress, Ready, Checked, AllowedTransitions
    <2>5. accepted'[t] = q.driver
      <3>1. CASE Acknowledge(c)
        BY <1>1, <1>3, <3>1 DEF Acknowledge, TypeOK
      <3>2. CASE Progress(c)
        <4>1. q.read.assignment \in AssignmentStatus \ {"unassigned", "assigned"}
          BY <1>3, <3>2 DEF Progress, Ready, Checked, AllowedTransitions, AssignmentStatus
        <4> QED
          BY <2>2, <2>3, <3>2, <4>1 DEF Progress, TripAgrees, AcceptedByItsDriver
      <3> QED
        BY <1>6, <3>1, <3>2
    <2> QED
      BY <2>2, <2>3, <2>4, <2>5
      DEF TripAgrees, DriverIffAssigned, AcceptedByItsDriver, LeftOnlyByDecline, CompletedWithItsBooking
  <1>7. CASE Decline(c)
    <2>1. Declined(q) \in Rows /\ Commit(c, Declined(q))
      BY <1>7, DeclinedWrites DEF Decline
    <2>2. row'[t].driver = NoDriver /\ row'[t].assignment = "unassigned"
      BY <1>3, <1>4, <2>1 DEF Declined, Rows
    <2>3. q.driver \in Drivers /\ <<t, q.driver>> \in declines'
      BY <1>3, <1>7 DEF Decline, Ready, Checked
    <2> QED
      BY <2>2, <2>3
      DEF TripAgrees, DriverIffAssigned, AcceptedByItsDriver, LeftOnlyByDecline, CompletedWithItsBooking
  <1>8. CASE UpdateBookingStatus(c) \/ CancelForCustomer(c) \/ RecordPayment(c)
    <2>1. StatusSet(q) \in Rows /\ Commit(c, StatusSet(q))
      BY <1>8, StatusWrites DEF UpdateBookingStatus, CancelForCustomer, RecordPayment
    <2>2. /\ row[t] = q.read
          /\ row'[t].driver = q.read.driver /\ row'[t].assignment = q.read.assignment
      BY <1>3, <1>4, <2>1 DEF StatusSet, Rows
    <2>3. given' = given
      BY <1>8 DEF UpdateBookingStatus, CancelForCustomer, RecordPayment, Continue
    <2>4. q.read.booking # "completed"
      BY <1>3, <1>8 DEF UpdateBookingStatus, CancelForCustomer, RecordPayment, Ready, Checked,
                        AllowedTransportTransitions
    <2>5. accepted'[t] = accepted[t] /\ declines' = declines
      BY <1>8 DEF UpdateBookingStatus, CancelForCustomer, RecordPayment
    <2> QED
      BY <2>2, <2>3, <2>4, <2>5
      DEF TripAgrees, DriverIffAssigned, AcceptedByItsDriver, LeftOnlyByDecline, CompletedWithItsBooking
  <1> QED
    BY <1>5, <1>6, <1>7, <1>8 DEF Finish

LEMMA AgreeStep == DispatchInv /\ UndisturbedTripsAgree /\ [Next]_vars => UndisturbedTripsAgree'
  <1> SUFFICES ASSUME DispatchInv, UndisturbedTripsAgree, [Next]_vars,
                      NEW u \in Trips \ overwritten'
               PROVE  TripAgrees(u)'
    BY DEF UndisturbedTripsAgree, TripAgrees
  <1>1. TypeOK
    BY DEF DispatchInv
  <1>2. ASSUME UNCHANGED <<row, declines, given, accepted, overwritten>>
        PROVE  TripAgrees(u)'
    BY <1>2, UntouchedAgrees DEF UndisturbedTripsAgree, TripAgrees
  <1>3. ASSUME NEW c \in Requests, Read(c)
        PROVE  TripAgrees(u)'
    BY <1>2, <1>3 DEF Read, ReadForAssign, ReadForAcknowledge, ReadForDecline, ReadForProgress,
                      ReadForStatus, ReadForCancel, ReadForPayment, Serve, history
  <1>4. ASSUME NEW c \in Requests, Finish(c), ~Abandon(c)
        PROVE  TripAgrees(u)'
    <2> DEFINE t == request[c].trip
    <2>1. /\ request[c] # Idle
          /\ Recorded(c) /\ \E new \in Rows : Commit(c, new)
          /\ declines \subseteq declines'
          /\ \A v \in Trips \ {t} : accepted'[v] = accepted[v]
      BY <1>1, <1>4, AssignedWrites, ProgressedWrites, DeclinedWrites, StatusWrites
      DEF Finish, Assign, Acknowledge, Decline, Progress, UpdateBookingStatus, CancelForCustomer,
          RecordPayment, Ready, TypeOK, Recorded
    <2>2. /\ t \in Trips
          /\ \A v \in Trips \ {t} : row'[v] = row[v] /\ (v \in given' <=> v \in given)
          /\ overwritten \subseteq overwritten'
      BY <1>1, <2>1, CommitType
    <2>3. TripAgrees(u)
      BY <2>2 DEF UndisturbedTripsAgree, TripAgrees
    <2>4. CASE u = t
      BY <1>4, <2>3, <2>4, CommitAgrees
    <2>5. CASE u # t
      BY <2>1, <2>2, <2>3, <2>5, UntouchedAgrees
    <2> QED
      BY <2>4, <2>5
  <1>5. ASSUME NEW c \in Requests, Abandon(c)
        PROVE  TripAgrees(u)'
    BY <1>2, <1>5 DEF Abandon
  <1>6. ASSUME NEW d \in Drivers, UpdateDriverStatus(d)
        PROVE  TripAgrees(u)'
    BY <1>2, <1>6 DEF UpdateDriverStatus, history
  <1>7. CASE UNCHANGED vars
    BY <1>2, <1>7 DEF vars, history
  <1> QED
    BY <1>3, <1>4, <1>5, <1>6, <1>7 DEF Next

\* A trip agrees with its booking, its driver and the record of declines for as long as no commit
\* goes over a change its request had not read: a version check at the commit is all the handlers
\* would need.
THEOREM OnlyLostUpdatesDisturb == Spec => []UndisturbedTripsAgree
  <1>1. Init => UndisturbedTripsAgree
    BY DEF Init, UndisturbedTripsAgree, NewBooking, DriverIffAssigned, AcceptedByItsDriver,
           LeftOnlyByDecline, CompletedWithItsBooking, AssignmentStatus
  <1> QED
    BY <1>1, DispatchInit, DispatchStep, AgreeStep, PTL DEF Spec

\* Without a lost update, nothing but the completion of its trip changes a closed booking.
THEOREM ClosedBookingsAreFinal == Spec => ClosedBookingsStay
  <1>1. ASSUME DispatchInv, Next, NEW u \in Trips \ overwritten'
        PROVE  row[u].booking \in {"completed", "cancelled"} /\ row'[u].booking # row[u].booking =>
                   row'[u].booking = "completed" /\ row'[u].assignment = "completed"
    <2>1. TypeOK
      BY <1>1 DEF DispatchInv
    <2>2. CASE row'[u] = row[u]
      BY <2>2
    <2>3. CASE row'[u] # row[u]
      <3>1. PICK c \in Requests : Finish(c) /\ ~Abandon(c)
        <4>1. ASSUME NEW c \in Requests, Read(c) \/ Abandon(c)
              PROVE  row' = row
          <5>1. CASE Read(c)
            BY <5>1 DEF Read, ReadForAssign, ReadForAcknowledge, ReadForDecline, ReadForProgress,
                        ReadForStatus, ReadForCancel, ReadForPayment, Serve
          <5>2. CASE Abandon(c)
            BY <5>2 DEF Abandon
          <5> QED
            BY <4>1, <5>1, <5>2
        <4>2. \A d \in Drivers : UpdateDriverStatus(d) => row' = row
          BY DEF UpdateDriverStatus
        <4> QED
          BY <1>1, <2>3, <4>1, <4>2 DEF Next
      <3> DEFINE q == request[c]
      <3>2. q # Idle
        BY <3>1 DEF Finish, Assign, Acknowledge, Decline, Progress, UpdateBookingStatus,
           CancelForCustomer, RecordPayment, Ready
      <3>3. q.read \in Rows /\ Checked(q)
        BY <1>1, <3>2, CheckedTypes
      <3>4. ASSUME NEW new \in Rows, Commit(c, new)
            PROVE  row[u] = q.read /\ row'[u] = new
        <4>1. Recorded(c)
          BY <3>1 DEF Recorded, Finish, Assign, Acknowledge, Decline, Progress,
                      UpdateBookingStatus, CancelForCustomer, RecordPayment
        <4> QED
          BY <1>1, <2>1, <2>3, <3>2, <3>4, <4>1, CommitType
      <3>5. CASE Assign(c)
        <4>1. row[u] = q.read /\ row'[u] = Assigned(q)
          BY <1>1, <3>4, <3>5, AssignedWrites DEF Assign
        <4>2. Assigned(q).booking = q.read.booking
          BY <3>3 DEF Assigned, Rows
        <4> QED
          BY <4>1, <4>2
      <3>6. CASE Acknowledge(c) \/ Progress(c)
        <4>1. /\ row[u] = q.read /\ row'[u] = Progressed(q)
              /\ Progressed(q).assignment = q.to
              /\ Progressed(q).booking = IF q.to = "completed" THEN "completed" ELSE q.read.booking
          BY <1>1, <3>4, <3>6, ProgressedWrites DEF Acknowledge, Progress
        <4> QED
          BY <4>1
      <3>7. CASE Decline(c)
        <4>1. row[u] = q.read /\ row'[u] = Declined(q)
          BY <1>1, <3>4, <3>7, DeclinedWrites DEF Decline
        <4>2. Declined(q).booking = q.read.booking
          BY <3>3 DEF Declined, Rows
        <4> QED
          BY <4>1, <4>2
      <3>8. CASE UpdateBookingStatus(c) \/ CancelForCustomer(c) \/ RecordPayment(c)
        <4>1. q.read.booking \notin {"completed", "cancelled"}
          BY <3>3, <3>8 DEF UpdateBookingStatus, CancelForCustomer, RecordPayment, Ready, Checked,
                            AllowedTransportTransitions
        <4>2. row[u] = q.read
          BY <1>1, <3>4, <3>8, StatusWrites DEF UpdateBookingStatus, CancelForCustomer, RecordPayment
        <4> QED
          BY <4>1, <4>2
      <3> QED
        BY <3>1, <3>5, <3>6, <3>7, <3>8 DEF Finish
    <2> QED
      BY <2>2, <2>3
  <1>2. DispatchInv /\ [Next]_vars =>
            [\A t \in Trips \ overwritten' :
                row[t].booking \in {"completed", "cancelled"} /\ row'[t].booking # row[t].booking =>
                    row'[t].booking = "completed" /\ row'[t].assignment = "completed"]_vars
    BY <1>1
  <1> QED
    BY <1>2, DispatchInit, DispatchStep, PTL DEF Spec, ClosedBookingsStay

-----------------------------------------------------------------------------
(***************************************************************************)
(* TransportFares: a booking is charged right because of where its row     *)
(* comes from. The invariant keeps, with the types, that every quote has   *)
(* the fare of its card (QuotesPriced) and that every row was made by one  *)
(* of the two ways of booking out of a quote that was given (RowsMade).    *)
(***************************************************************************)

CONSTANTS Categories, Routes, Answers, Cards, Extras, Prices, Estimates, Bookings, NoEstimate, None
VARIABLES card, cached, estimate, quotes, booking

F == INSTANCE TransportFares WITH Requests <- Estimates, Idle <- NoEstimate, request <- estimate

QuotesPriced == \A q \in quotes : q.price = F!Fare(q.card, q.metres)

RowsMade ==
    \A b \in Bookings : booking[b] # None =>
        \E q \in quotes, rate \in Cards, extra \in Extras, total \in Nat :
            booking[b] \in {F!BookedRow(q, rate, extra), F!ProvisionedRow(q, rate, total)}

FaresInv == F!TypeOK /\ QuotesPriced /\ RowsMade

-----------------------------------------------------------------------------
(* Arithmetic of fares. *)

LEMMA FareIsNat ==
    ASSUME F!FaresConstants, NEW rate \in Cards, NEW metres \in Nat
    PROVE  /\ F!Fare(rate, metres) \in Nat
           /\ rate.base \in Nat /\ rate.perKm \in Nat /\ rate.minimum \in Nat
  <1>1. rate.base \in Nat /\ rate.perKm \in Nat /\ rate.minimum \in Nat
    BY DEF F!FaresConstants
  <1>2. \A x, y \in Nat : x * y \in Nat
    OBVIOUS
  <1>3. metres * rate.perKm \in Nat
    BY <1>1, <1>2
  <1> QED
    BY <1>1, <1>3 DEF F!Fare, F!Larger

LEMMA StraightLineIsNat ==
    ASSUME F!FaresConstants
    PROVE  Answers \cup {F!StraightLine(a) : a \in Answers} \subseteq Nat
  <1>1. \A a \in Nat : F!StraightLine(a) \in Nat
    BY DEF F!StraightLine, F!Larger
  <1> QED
    BY <1>1 DEF F!FaresConstants

\* Rounding to a cent moves an amount by half a cent at most, and whole cents not at all.
LEMMA CentsIsNear ==
    ASSUME NEW x \in Nat
    PROVE  /\ F!Cents(x) \in Nat
           /\ 1000 * F!Cents(x) - x \in -500 .. 500
           /\ \A n \in Nat : F!Cents(x + 1000 * n) = F!Cents(x) + n
  BY DEF F!Cents

LEMMA RowTypes ==
    ASSUME F!FaresConstants, NEW q \in F!Quote, NEW rate \in Cards, NEW extra \in Extras, NEW total \in Nat
    PROVE  F!BookedRow(q, rate, extra) \in F!Booking /\ F!ProvisionedRow(q, rate, total) \in F!Booking
  <1>1. q.metres \in Nat /\ q.price \in Nat /\ extra \in Nat
    BY DEF F!Quote, F!FaresConstants
  <1>2. F!Fare(rate, q.metres) \in Nat /\ rate.base \in Nat
    BY <1>1, FareIsNat
  <1>3. F!Cents(F!Fare(rate, q.metres)) \in Nat
    BY <1>2, CentsIsNear
  <1>4. F!Cents(F!Fare(rate, q.metres) + 1000 * extra) = F!Cents(F!Fare(rate, q.metres)) + extra
    BY <1>1, <1>2, CentsIsNear
  <1>5. F!Larger(total - rate.base, 0) \in Nat
    BY <1>2 DEF F!Larger
  <1>6. F!BookedRow(q, rate, extra) \in F!Booking
    BY <1>1, <1>2, <1>3, <1>4 DEF F!BookedRow, F!Booking
  <1>7. F!ProvisionedRow(q, rate, total) \in F!Booking
    BY <1>2, <1>5 DEF F!ProvisionedRow, F!Booking
  <1> QED
    BY <1>6, <1>7

\* Either way of booking a quote that has the fare of its card.
LEMMA RowFigures ==
    ASSUME F!FaresConstants, NEW q \in F!Quote, NEW rate \in Cards, NEW extra \in Extras, NEW total \in Nat,
           q.price = F!Fare(q.card, q.metres)
    PROVE  /\ F!PaidAsQuoted(F!BookedRow(q, rate, extra)) /\ F!AddsUp(F!BookedRow(q, rate, extra))
           /\ F!PaidAsQuoted(F!ProvisionedRow(q, rate, total)) /\ F!AddsUp(F!ProvisionedRow(q, rate, total))
  <1>1. q.metres \in Nat /\ q.price \in Nat /\ extra \in Nat
    BY DEF F!Quote, F!FaresConstants
  <1>2. F!Fare(rate, q.metres) \in Nat /\ rate.base \in Nat
    BY <1>1, FareIsNat
  <1>3. /\ F!Cents(F!Fare(rate, q.metres)) \in Nat
        /\ 1000 * F!Cents(F!Fare(rate, q.metres)) - F!Fare(rate, q.metres) \in -500 .. 500
    BY <1>2, CentsIsNear
  <1>4. F!Cents(F!Fare(rate, q.metres) + 1000 * extra) = F!Cents(F!Fare(rate, q.metres)) + extra
    BY <1>1, <1>2, CentsIsNear
  <1>5. F!PaidAsQuoted(F!BookedRow(q, rate, extra))
    <2>1. SUFFICES ASSUME rate = q.card
          PROVE  1000 * F!Cents(F!Fare(rate, q.metres) + 1000 * extra) - q.price - 1000 * extra \in -500 .. 500
      BY DEF F!PaidAsQuoted, F!Off, F!BookedRow
    <2> QED
      BY <1>1, <1>2, <1>3, <1>4, <2>1
  <1>6. F!AddsUp(F!BookedRow(q, rate, extra))
    BY <1>4 DEF F!AddsUp, F!BookedRow
  <1>7. F!PaidAsQuoted(F!ProvisionedRow(q, rate, total))
    BY DEF F!PaidAsQuoted, F!ProvisionedRow
  <1>8. F!AddsUp(F!ProvisionedRow(q, rate, total))
    <2>1. rate.base <= total => rate.base + F!Larger(total - rate.base, 0) = total
      BY <1>2 DEF F!Larger
    <2> QED
      BY <2>1 DEF F!AddsUp, F!ProvisionedRow
  <1> QED
    BY <1>5, <1>6, <1>7, <1>8

-----------------------------------------------------------------------------
(* The invariant. *)

LEMMA FaresInit == ASSUME F!FaresConstants PROVE F!Init => FaresInv
  BY DEF F!Init, FaresInv, F!TypeOK, QuotesPriced, RowsMade, F!FaresConstants

LEMMA CardsType ==
    ASSUME F!FaresConstants, FaresInv, NEW k \in Categories, NEW new \in Cards, F!SetCard(k, new)
    PROVE  FaresInv'
  BY DEF FaresInv, F!TypeOK, QuotesPriced, RowsMade, F!SetCard

\* A request of an estimate moves, and the cache may get a row.
LEMMA EstimateMoves ==
    ASSUME F!FaresConstants, FaresInv, NEW c \in Estimates, NEW r \in F!Request \cup {NoEstimate},
           F!Goes(c, r), cached' \in [Routes -> Seq(Nat)], UNCHANGED <<card, quotes, booking>>
    PROVE  FaresInv'
  BY DEF FaresInv, F!TypeOK, QuotesPriced, RowsMade, F!Goes

LEMMA PriceStep ==
    ASSUME F!FaresConstants, FaresInv, NEW c \in Estimates, F!PriceEstimate(c)
    PROVE  FaresInv'
  <1> USE DEF FaresInv
  <1> DEFINE offered == {F!QuoteOf(k, estimate[c].route, estimate[c].metres) :
                           k \in {x \in Categories : F!Exists(x) /\ card[x].active}}
  <1>1. estimate[c] \in F!Request
    BY DEF F!PriceEstimate, F!Stage, F!TypeOK
  <1>2. ASSUME NEW k \in Categories, F!Exists(k)
        PROVE  /\ F!QuoteOf(k, estimate[c].route, estimate[c].metres) \in F!Quote
               /\ F!QuoteOf(k, estimate[c].route, estimate[c].metres).price =
                    F!Fare(F!QuoteOf(k, estimate[c].route, estimate[c].metres).card,
                         F!QuoteOf(k, estimate[c].route, estimate[c].metres).metres)
    <2>1. card[k] \in Cards
      BY <1>2 DEF F!Exists, F!TypeOK
    <2>2. estimate[c].route \in Routes /\ estimate[c].metres \in Nat
      BY <1>1 DEF F!Request
    <2>3. F!Fare(card[k], estimate[c].metres) \in Nat
      BY <2>1, <2>2, FareIsNat
    <2> QED
      BY <2>1, <2>2, <2>3 DEF F!QuoteOf, F!Quote
  <1>3. offered \subseteq F!Quote /\ \A q \in offered : q.price = F!Fare(q.card, q.metres)
    BY <1>2
  <1>4. quotes' = quotes \cup offered /\ estimate' = [estimate EXCEPT ![c] = NoEstimate]
        /\ UNCHANGED <<card, cached, booking>>
    BY DEF F!PriceEstimate, F!Goes
  <1> HIDE DEF offered
  <1>5. F!TypeOK'
    BY <1>3, <1>4 DEF F!TypeOK
  <1>6. QuotesPriced'
    BY <1>3, <1>4 DEF QuotesPriced
  <1>7. RowsMade'
    BY <1>4 DEF RowsMade
  <1> QED
    BY <1>5, <1>6, <1>7

LEMMA StoreStep ==
    ASSUME F!FaresConstants, FaresInv, NEW b \in Bookings, NEW q \in quotes, NEW rate \in Cards,
           NEW extra \in Extras, NEW total \in Nat,
           NEW stored \in {F!BookedRow(q, rate, extra), F!ProvisionedRow(q, rate, total)},
           F!Store(b, stored)
    PROVE  FaresInv'
  <1>1. stored \in F!Booking
    BY RowTypes DEF FaresInv, F!TypeOK
  <1>2. booking' = [booking EXCEPT ![b] = stored] /\ UNCHANGED <<card, cached, estimate, quotes>>
    BY DEF F!Store
  <1>3. F!TypeOK'
    BY <1>1, <1>2 DEF FaresInv, F!TypeOK
  <1>4. QuotesPriced'
    BY <1>2 DEF FaresInv, QuotesPriced
  <1>5. booking \in [Bookings -> F!Booking \cup {None}]
    BY DEF FaresInv, F!TypeOK
  <1>6. RowsMade'
    BY <1>2, <1>5 DEF FaresInv, RowsMade
  <1> QED
    BY <1>3, <1>4, <1>6 DEF FaresInv

\* A provisioned row adds no extras and a booked one has no total of its own: any stands for none.
LEMMA FaresStep ==
    ASSUME F!FaresConstants, Extras # {}, FaresInv, [F!Next]_F!vars
    PROVE  FaresInv'
  <1>1. ASSUME NEW k \in Categories, F!CreateCategory(k) \/ F!UpdateCategory(k) \/ F!DeleteCategory(k)
        PROVE  FaresInv'
    BY <1>1, CardsType DEF F!CreateCategory, F!UpdateCategory, F!DeleteCategory
  <1>2. ASSUME NEW c \in Estimates, NEW r \in Routes, F!FindCached(c, r)
        PROVE  FaresInv'
    <2>1. cached[r] \in Seq(Nat) /\ Len(cached[r]) \in 1 .. Len(cached[r])
      BY <1>2 DEF FaresInv, F!TypeOK, F!FindCached
    <2>2. cached[r][Len(cached[r])] \in Nat
      BY <2>1
    <2>3. [stage |-> "pricing", route |-> r, metres |-> cached[r][Len(cached[r])]] \in F!Request
      BY <2>2 DEF F!Request
    <2>4. cached' \in [Routes -> Seq(Nat)]
      BY <1>2 DEF FaresInv, F!TypeOK, F!FindCached
    <2> QED
      BY <1>2, <2>3, <2>4, EstimateMoves DEF F!FindCached
  <1>3. ASSUME NEW c \in Estimates, NEW r \in Routes, F!MissCached(c, r) \/ F!FailCached(c, r) \/ F!EstimateByName(c, r)
        PROVE  FaresInv'
    <2>1. /\ [stage |-> "asking", route |-> r, metres |-> 0] \in F!Request
          /\ [stage |-> "reasking", route |-> r, metres |-> 0] \in F!Request
          /\ [stage |-> "naming", route |-> r, metres |-> 0] \in F!Request
      BY DEF F!Request
    <2>2. cached' \in [Routes -> Seq(Nat)]
      BY <1>3 DEF FaresInv, F!TypeOK, F!MissCached, F!FailCached, F!EstimateByName
    <2> QED
      BY <1>3, <2>1, <2>2, EstimateMoves DEF F!MissCached, F!FailCached, F!EstimateByName
  <1>4. ASSUME NEW c \in Estimates, F!ProviderAnswers(c)
        PROVE  FaresInv'
    <2>1. estimate[c] \in F!Request
      BY <1>4 DEF F!ProviderAnswers, F!AsksProvider, F!Stage, FaresInv, F!TypeOK
    <2>2. PICK m \in Answers :
            /\ F!Goes(c, [estimate[c] EXCEPT !.stage = "pricing", !.metres = m])
            /\ \/ cached' = [cached EXCEPT ![estimate[c].route] = Append(@, F!Cached(m))]
               \/ UNCHANGED cached
      BY <1>4 DEF F!ProviderAnswers
    <2>3. m \in Nat /\ F!Cached(m) \in Nat
      BY DEF F!FaresConstants, F!Cached
    <2>4. [estimate[c] EXCEPT !.stage = "pricing", !.metres = m] \in F!Request
      BY <2>1, <2>3 DEF F!Request
    <2>5. estimate[c].route \in Routes
      BY <2>1 DEF F!Request
    <2>6. cached[estimate[c].route] \in Seq(Nat)
      BY <2>5 DEF FaresInv, F!TypeOK
    <2>7. Append(cached[estimate[c].route], F!Cached(m)) \in Seq(Nat)
      BY <2>3, <2>6
    <2>8. cached' \in [Routes -> Seq(Nat)]
      BY <2>2, <2>5, <2>7 DEF FaresInv, F!TypeOK
    <2> QED
      BY <1>4, <2>2, <2>4, <2>8, EstimateMoves DEF F!ProviderAnswers
  <1>5. ASSUME NEW c \in Estimates, F!ProviderFails(c) \/ F!FallbackAnswers(c)
        PROVE  FaresInv'
    <2>1. estimate[c] \in F!Request
      BY <1>5 DEF F!ProviderFails, F!FallbackAnswers, F!AsksProvider, F!Stage, FaresInv, F!TypeOK
    <2>2. /\ [estimate[c] EXCEPT !.stage = "naming"] \in F!Request
          /\ \A m \in Answers \cup {F!StraightLine(a) : a \in Answers} :
               [estimate[c] EXCEPT !.stage = "pricing", !.metres = m] \in F!Request
      BY <2>1, StraightLineIsNat DEF F!Request
    <2>3. cached' \in [Routes -> Seq(Nat)]
      BY <1>5 DEF FaresInv, F!TypeOK, F!ProviderFails, F!FallbackAnswers
    <2> QED
      BY <1>5, <2>2, <2>3, EstimateMoves DEF F!ProviderFails, F!FallbackAnswers
  <1>6. ASSUME NEW c \in Estimates, F!FailEstimate(c)
        PROVE  FaresInv'
    <2>1. cached' \in [Routes -> Seq(Nat)]
      BY <1>6 DEF FaresInv, F!TypeOK, F!FailEstimate
    <2> QED
      BY <1>6, <2>1, EstimateMoves DEF F!FailEstimate
  <1>7. ASSUME NEW b \in Bookings, NEW q \in quotes, F!CreateBooking(b, q) \/ F!ProvisionBooking(b, q)
        PROVE  FaresInv'
    <2>1. q.category \in Categories
      BY DEF FaresInv, F!TypeOK, F!Quote
    <2>2. card[q.category] \in Cards
      BY <1>7, <2>1 DEF F!CreateBooking, F!ProvisionBooking, F!Exists, FaresInv, F!TypeOK
    <2>3. CASE F!CreateBooking(b, q)
      <3>1. PICK extra \in Extras : F!Store(b, F!BookedRow(q, card[q.category], extra))
        BY <2>3 DEF F!CreateBooking
      <3> QED
        BY <2>2, <3>1, 0 \in Nat, StoreStep
    <2>4. CASE F!ProvisionBooking(b, q)
      <3>1. q.price \in Nat
        BY DEF FaresInv, F!TypeOK, F!Quote
      <3>2. F!Cents(q.price) \in Nat
        <4>1. \A price \in Nat : F!Cents(price) \in Nat
          BY CentsIsNear
        <4> QED
          BY <3>1, <4>1
      <3>3. PICK total \in Prices \cup {F!Cents(q.price)} : F!Store(b, F!ProvisionedRow(q, card[q.category], total))
        BY <2>4 DEF F!ProvisionBooking
      <3>4. total \in Nat /\ \E extra \in Extras : TRUE
        BY <3>2 DEF F!FaresConstants
      <3> QED
        BY <2>2, <3>3, <3>4, StoreStep
    <2> QED
      BY <1>7, <2>3, <2>4
  <1>8. CASE UNCHANGED F!vars
    BY <1>8 DEF F!vars, FaresInv, F!TypeOK, QuotesPriced, RowsMade
  <1> QED
    BY <1>1, <1>2, <1>3, <1>4, <1>5, <1>6, <1>7, <1>8, PriceStep DEF F!Next

\* Types and where every quote and every row come from.
THEOREM FaresInvariant ==
    ASSUME F!FaresConstants, Extras # {}
    PROVE  F!Spec => []FaresInv
  <1>1. F!Init => FaresInv
    BY FaresInit
  <1>2. FaresInv /\ [F!Next]_F!vars => FaresInv'
    BY FaresStep
  <1> QED
    BY <1>1, <1>2, PTL DEF F!Spec

-----------------------------------------------------------------------------
(* What it is for. *)

LEMMA RowsOfAState ==
    ASSUME F!FaresConstants, FaresInv
    PROVE  F!ChargedAsQuoted /\ F!FiguresAddUp
  <1>1. SUFFICES ASSUME NEW b \in Bookings, booking[b] # None
        PROVE  F!PaidAsQuoted(booking[b]) /\ F!AddsUp(booking[b])
    BY DEF F!ChargedAsQuoted, F!FiguresAddUp
  <1>2. PICK q \in quotes, rate \in Cards, extra \in Extras, total \in Nat :
          booking[b] \in {F!BookedRow(q, rate, extra), F!ProvisionedRow(q, rate, total)}
    BY <1>1 DEF FaresInv, RowsMade
  <1>3. q \in F!Quote /\ q.price = F!Fare(q.card, q.metres)
    BY DEF FaresInv, F!TypeOK, QuotesPriced
  <1> QED
    BY <1>2, <1>3, RowFigures

\* Whoever books a quote directly, by the card it was made with, pays the quoted fare to half a cent,
\* whatever happened to cards, cache and other estimates since.
THEOREM QuotedFareIsCharged ==
    ASSUME F!FaresConstants, Extras # {}
    PROVE  F!Spec => []F!ChargedAsQuoted
  <1>1. FaresInv => F!ChargedAsQuoted
    BY RowsOfAState
  <1> QED
    BY <1>1, FaresInvariant, PTL

\* The columns of every stored fare add up, in the way of whoever stored it.
THEOREM StoredFiguresAddUp ==
    ASSUME F!FaresConstants, Extras # {}
    PROVE  F!Spec => []F!FiguresAddUp
  <1>1. FaresInv => F!FiguresAddUp
    BY RowsOfAState
  <1> QED
    BY <1>1, FaresInvariant, PTL

\* A settled route after a step: its distance is the same, and only a lookup that failed asks for it.
StaysSettled(r) == cached'[r] = cached[r] /\ (F!Settled(r) \/ F!AskingAnew(r))'

LEMMA SettledStep ==
    ASSUME F!FaresConstants, FaresInv, [F!Next]_F!vars, NEW r \in Routes, F!Settled(r)
    PROVE  StaysSettled(r)
  <1>1. cached[r] # <<>> /\ \A c \in Estimates : ~(F!AsksProvider(c) /\ estimate[c].route = r)
    BY DEF F!Settled, F!Asking
  <1>2. ASSUME NEW c \in Estimates, NEW q \in F!Request \cup {NoEstimate}, F!Goes(c, q),
               q # NoEstimate => q.stage \in {"naming", "pricing"}, cached'[r] = cached[r]
        PROVE  StaysSettled(r)
    <2>1. \A d \in Estimates : estimate'[d] = IF d = c THEN q ELSE estimate[d]
      BY <1>2 DEF F!Goes, FaresInv, F!TypeOK
    <2>2. \A d \in Estimates : ~(F!AsksProvider(d) /\ estimate[d].route = r)'
      BY <1>1, <1>2, <2>1 DEF F!AsksProvider, F!Stage
    <2> QED
      BY <1>1, <1>2, <2>2 DEF StaysSettled, F!Settled, F!Asking
  <1>3. ASSUME UNCHANGED <<cached, estimate>>
        PROVE  StaysSettled(r)
    BY <1>3 DEF StaysSettled, F!Settled, F!Asking, F!AsksProvider, F!Stage
  <1>4. ASSUME NEW k \in Categories, F!CreateCategory(k) \/ F!UpdateCategory(k) \/ F!DeleteCategory(k)
        PROVE  UNCHANGED <<cached, estimate>>
    BY <1>4 DEF F!CreateCategory, F!UpdateCategory, F!DeleteCategory, F!SetCard
  <1>5. ASSUME NEW c \in Estimates, NEW s \in Routes, F!FindCached(c, s) \/ F!EstimateByName(c, s)
        PROVE  StaysSettled(r)
    <2>1. cached[s] \in Seq(Nat)
      BY DEF FaresInv, F!TypeOK
    <2>2. CASE F!FindCached(c, s)
      <3>1. cached[s][Len(cached[s])] \in Nat
        BY <2>1, <2>2 DEF F!FindCached
      <3>2. [stage |-> "pricing", route |-> s, metres |-> cached[s][Len(cached[s])]] \in F!Request
        BY <3>1 DEF F!Request
      <3> QED
        BY <2>2, <3>2, <1>2 DEF F!FindCached
    <2>3. CASE F!EstimateByName(c, s)
      <3>1. [stage |-> "naming", route |-> s, metres |-> 0] \in F!Request
        BY DEF F!Request
      <3> QED
        BY <2>3, <3>1, <1>2 DEF F!EstimateByName
    <2> QED
      BY <1>5, <2>2, <2>3
  <1>6. ASSUME NEW c \in Estimates, NEW s \in Routes, F!MissCached(c, s)
        PROVE  StaysSettled(r)
    <2>1. s # r /\ cached' = cached
      BY <1>1, <1>6 DEF F!MissCached, F!Misses
    <2>2. \A d \in Estimates : estimate'[d] =
            IF d = c THEN [stage |-> "asking", route |-> s, metres |-> 0] ELSE estimate[d]
      BY <1>6 DEF F!MissCached, F!Goes, FaresInv, F!TypeOK
    <2>3. \A d \in Estimates : ~(F!AsksProvider(d) /\ estimate[d].route = r)'
      <3>1. ASSUME NEW d \in Estimates, d # c
            PROVE  ~(F!AsksProvider(d) /\ estimate[d].route = r)'
        BY <1>1, <2>2, <3>1 DEF F!AsksProvider, F!Stage
      <3>2. (estimate[c].route # r)'
        BY <2>1, <2>2
      <3> QED
        BY <3>1, <3>2
    <2> QED
      BY <1>1, <2>1, <2>3 DEF StaysSettled, F!Settled, F!Asking
  <1>7. ASSUME NEW c \in Estimates, F!ProviderAnswers(c)
        PROVE  StaysSettled(r)
    <2>1. estimate[c] \in F!Request /\ estimate[c].route # r
      BY <1>1, <1>7 DEF F!ProviderAnswers, F!AsksProvider, F!Stage, FaresInv, F!TypeOK
    <2>2. PICK m \in Answers :
            /\ F!Goes(c, [estimate[c] EXCEPT !.stage = "pricing", !.metres = m])
            /\ \/ cached' = [cached EXCEPT ![estimate[c].route] = Append(@, F!Cached(m))]
               \/ UNCHANGED cached
      BY <1>7 DEF F!ProviderAnswers
    <2>3. cached'[r] = cached[r]
      BY <2>1, <2>2 DEF FaresInv, F!TypeOK
    <2>4. [estimate[c] EXCEPT !.stage = "pricing", !.metres = m] \in F!Request
      BY <2>1 DEF F!Request, F!FaresConstants
    <2>5. [estimate[c] EXCEPT !.stage = "pricing", !.metres = m].stage = "pricing"
      BY <2>1 DEF F!Request
    <2> QED
      BY <2>2, <2>3, <2>4, <2>5, <1>2
  <1>8. ASSUME NEW c \in Estimates,
               F!ProviderFails(c) \/ F!FallbackAnswers(c) \/ F!FailEstimate(c) \/ F!PriceEstimate(c)
        PROVE  StaysSettled(r)
    <2>1. estimate[c] \in F!Request
      BY <1>8 DEF F!ProviderFails, F!FallbackAnswers, F!FailEstimate, F!PriceEstimate, F!AsksProvider, F!Stage, FaresInv, F!TypeOK
    <2>2. PICK q \in F!Request \cup {NoEstimate} : F!Goes(c, q) /\ (q # NoEstimate => q.stage \in {"naming", "pricing"})
      <3>1. /\ [estimate[c] EXCEPT !.stage = "naming"] \in F!Request
            /\ [estimate[c] EXCEPT !.stage = "naming"].stage = "naming"
        BY <2>1 DEF F!Request
      <3>2. \A m \in Answers \cup {F!StraightLine(a) : a \in Answers} :
              /\ [estimate[c] EXCEPT !.stage = "pricing", !.metres = m] \in F!Request
              /\ [estimate[c] EXCEPT !.stage = "pricing", !.metres = m].stage = "pricing"
        BY <2>1, StraightLineIsNat DEF F!Request
      <3> QED
        BY <1>8, <3>1, <3>2 DEF F!ProviderFails, F!FallbackAnswers, F!FailEstimate, F!PriceEstimate
    <2>3. cached' = cached
      BY <1>8 DEF F!ProviderFails, F!FallbackAnswers, F!FailEstimate, F!PriceEstimate
    <2> QED
      BY <2>2, <2>3, <1>2
  <1>9. ASSUME NEW b \in Bookings, NEW q \in quotes, F!CreateBooking(b, q) \/ F!ProvisionBooking(b, q)
        PROVE  UNCHANGED <<cached, estimate>>
    BY <1>9 DEF F!CreateBooking, F!ProvisionBooking, F!Store
  <1>10. ASSUME NEW c \in Estimates, NEW s \in Routes, F!FailCached(c, s)
         PROVE  StaysSettled(r)
    <2>1. \A d \in Estimates : estimate'[d] =
            IF d = c THEN [stage |-> "reasking", route |-> s, metres |-> 0] ELSE estimate[d]
      BY <1>10 DEF F!FailCached, F!Goes, FaresInv, F!TypeOK
    <2>2. [stage |-> "reasking", route |-> s, metres |-> 0] \in F!Request
      BY DEF F!Request
    <2>3. CASE s = r
      <3>1. estimate'[c] = [stage |-> "reasking", route |-> r, metres |-> 0]
        BY <2>1, <2>3
      <3>2. estimate'[c] # NoEstimate
        BY <2>2, <2>3, <3>1 DEF F!FaresConstants
      <3>3. (F!Stage(c, "reasking") /\ estimate[c].route = r)'
        BY <3>1, <3>2 DEF F!Stage
      <3>4. F!AskingAnew(r)'
        BY <3>3 DEF F!AskingAnew
      <3> QED
        BY <1>10, <3>4 DEF StaysSettled, F!FailCached
    <2>4. CASE s # r
      <3>1. \A d \in Estimates : ~(F!AsksProvider(d) /\ estimate[d].route = r)'
        <4>1. ASSUME NEW d \in Estimates, d # c
              PROVE  ~(F!AsksProvider(d) /\ estimate[d].route = r)'
          BY <1>1, <2>1, <4>1 DEF F!AsksProvider, F!Stage
        <4>2. (estimate[c].route # r)'
          BY <2>1, <2>4
        <4> QED
          BY <4>1, <4>2
      <3> QED
        BY <1>1, <1>10, <3>1 DEF StaysSettled, F!Settled, F!Asking, F!FailCached
    <2> QED
      BY <2>3, <2>4
  <1>11. CASE UNCHANGED F!vars
    BY <1>3, <1>11 DEF F!vars
  <1> QED
    BY <1>3, <1>4, <1>5, <1>6, <1>7, <1>8, <1>9, <1>10, <1>11 DEF F!Next

\* A route whose distance is known, with nobody still asking for it, keeps that distance until a
\* lookup in the cache fails, which is the only reason to ask for it again.
THEOREM SettledForGood ==
    ASSUME F!FaresConstants, Extras # {}
    PROVE  F!Spec => F!DistancesSettle
  <1>1. FaresInv /\ [F!Next]_F!vars =>
          [\A r \in Routes : F!Settled(r) => cached'[r] = cached[r] /\ (F!Settled(r) \/ F!AskingAnew(r))']_F!vars
    BY SettledStep DEF StaysSettled
  <1> QED
    BY <1>1, FaresInvariant, PTL DEF F!Spec, F!DistancesSettle

-----------------------------------------------------------------------------
(* A driver's earnings, for every trip and every day. *)

\* Whatever the page of today counts, the pages of the week and the month count as well.
THEOREM TodayIsInTheWeek ==
    ASSUME NEW t \in F!Trip, NEW today \in F!Day, NEW days \in Nat \ {0}, F!CountedToday(t, today)
    PROVE  F!CountedSince(t, today, days)
  BY DEF F!Trip, F!Day, F!CountedToday, F!CountedSince, F!Start

\* Every trip that is counted has one bar of the chart, so the bars add up to the total.
THEOREM EveryTripHasADay ==
    ASSUME NEW t \in F!Trip, NEW today \in F!Day, NEW days \in Nat \ {0}
    PROVE  F!Bucket(t, today, days) \in F!Start(today, days) .. today
  BY DEF F!Trip, F!Day, F!Bucket, F!Start
=============================================================================
