----------------------------- MODULE Assignments -----------------------------
(***************************************************************************)
(* Drivers and guides of booking requests: the rows of inquiry_assignments *)
(* and the routes that make and cancel them                                *)
(* (app/api/v1/admin/assignments.py, app/models/inquiryAssignment.py),     *)
(* beside the changes of the requests and drivers they are for.            *)
(*                                                                         *)
(* The routes are plain functions served by threads: create_assignment     *)
(* judges the request, the driver and the other rows by what it reads, and *)
(* its row is seen by others when it commits; nothing is locked and no     *)
(* constraint forbids two rows of one driver.  Notes and the names of      *)
(* guides are not represented; a row is a member of Rows.                  *)
(***************************************************************************)
EXTENDS Integers

CONSTANTS
    Inquiries,
    Transfers,      \* the requests whose cart holds transfers only
    Drivers,
    Guide,          \* what stands for the driver in a row of a guide
    Rows,
    Requests,
    None

VARIABLES
    inquiry,        \* the status of each request; "deleted" without a row
    driver,         \* the status of each driver
    rows,           \* inquiry_assignments
    request,        \* the requests in flight
    once,           \* history: requests and drivers that were approved at some time
    overlapped      \* history: pairs that two requests in flight were about to join

vars == <<inquiry, driver, rows, request, once, overlapped>>

InquiryStatus == {"pending_contact", "contacted", "quoted", "converted_to_booking", "cancelled", "deleted"}

\* What the office or the portal may make of a request, and the desk of a stay whatever it was.
Moves(s) ==
    {"quoted", "pending_contact", "cancelled"} \cup
    CASE s \in {"pending_contact", "contacted"} -> {"contacted", "converted_to_booking"}
      [] s = "quoted" -> {"converted_to_booking"}
      [] OTHER -> {}

Assignable == {"quoted", "converted_to_booking"}

DriverStatus == {"pending_review", "approved", "rejected", "suspended"}

Row == [inquiry: Inquiries, who: Drivers \cup {Guide}, status: {"assigned", "cancelled"}]

\* add: a create_assignment that has passed its checks; drop: an unassign that has found its row.
Request == [op: {"add"}, inquiry: Inquiries, who: Drivers \cup {Guide}] \cup [op: {"drop"}, row: Rows]

Init ==
    /\ inquiry \in [Inquiries -> {"pending_contact", "quoted"}]
    /\ driver \in [Drivers -> {"pending_review", "approved"}]
    /\ rows = [k \in Rows |-> None]
    /\ request = [r \in Requests |-> None]
    /\ once = {i \in Inquiries : inquiry[i] = "quoted"} \cup {d \in Drivers : driver[d] = "approved"}
    /\ overlapped = {}

Goes(r, q) == request' = [request EXCEPT ![r] = q]

-----------------------------------------------------------------------------
(* Requests and drivers change meanwhile: no row of an assignment is
   touched when a request is cancelled or a driver suspended.              *)

ChangeInquiry(i) ==
    /\ inquiry[i] # "deleted"
    /\ \E s \in Moves(inquiry[i]) :
           /\ inquiry' = [inquiry EXCEPT ![i] = s]
           /\ once' = IF s \in Assignable THEN once \cup {i} ELSE once
    /\ UNCHANGED <<driver, rows, request, overlapped>>

\* The rows of a request go with it.
DeleteInquiry(i) ==
    /\ inquiry[i] # "deleted"
    /\ inquiry' = [inquiry EXCEPT ![i] = "deleted"]
    /\ rows' = [k \in Rows |-> IF rows[k] # None /\ rows[k].inquiry = i THEN None ELSE rows[k]]
    /\ UNCHANGED <<driver, request, once, overlapped>>

DecideDriver(d) ==
    /\ \E s \in DriverStatus :
           /\ driver' = [driver EXCEPT ![d] = s]
           /\ once' = IF s = "approved" THEN once \cup {d} ELSE once
    /\ UNCHANGED <<inquiry, rows, request, overlapped>>

-----------------------------------------------------------------------------
(* Assigning *)

\* Faulty: the row of a driver who was taken off the request counts as well, and no other.
StruckOff(i, d) == \E k \in Rows : rows[k] # None /\ rows[k].inquiry = i /\ rows[k].who = d /\ rows[k].status = "cancelled"

Already(i, d) ==
    \E k \in Rows : rows[k] # None /\ rows[k].inquiry = i /\ rows[k].who = d /\ rows[k].status = "assigned"

\* Faulty: the driver's own status is not looked at.
AnyDriver(d) == d \in Drivers

MayDrive(d) == driver[d] = "approved"

IsTransferOnly(i) == i \in Transfers

Joins(r, i, w) == request[r] # None /\ request[r].op = "add" /\ request[r].inquiry = i /\ request[r].who = w

StartAssign(r, i, w) ==
    /\ request[r] = None
    /\ inquiry[i] \in Assignable /\ ~IsTransferOnly(i)
    /\ w # Guide => MayDrive(w) /\ ~Already(i, w)
    /\ Goes(r, [op |-> "add", inquiry |-> i, who |-> w])
    /\ overlapped' = IF \E s \in Requests : Joins(s, i, w) THEN overlapped \cup {<<i, w>>} ELSE overlapped
    /\ UNCHANGED <<inquiry, driver, rows, once>>

\* A key that no row has, nor had when a request in flight found it.
Fresh(k) == rows[k] = None /\ \A r \in Requests : request[r] # None /\ request[r].op = "drop" => request[r].row # k

\* The foreign key refuses a row of a request that was deleted.
CreateAssignment(r) ==
    LET q == request[r]
    IN  /\ q # None /\ q.op = "add"
        /\ inquiry[q.inquiry] # "deleted"
        /\ \E k \in Rows :
               /\ Fresh(k)
               /\ rows' = [rows EXCEPT ![k] = [inquiry |-> q.inquiry, who |-> q.who, status |-> "assigned"]]
        /\ Goes(r, None)
        /\ UNCHANGED <<inquiry, driver, once, overlapped>>

StartUnassign(r, k) ==
    /\ request[r] = None /\ rows[k] # None
    /\ Goes(r, [op |-> "drop", row |-> k])
    /\ UNCHANGED <<inquiry, driver, rows, once, overlapped>>

\* The row is kept as a record; the update finds none if the request was deleted, and fails.
Unassign(r) ==
    LET q == request[r]
    IN  /\ q # None /\ q.op = "drop"
        /\ rows[q.row] # None
        /\ rows' = [rows EXCEPT ![q.row].status = "cancelled"]
        /\ Goes(r, None)
        /\ UNCHANGED <<inquiry, driver, once, overlapped>>

Abort(r) ==
    /\ request[r] # None
    /\ Goes(r, None)
    /\ UNCHANGED <<inquiry, driver, rows, once, overlapped>>

-----------------------------------------------------------------------------
Next ==
    \/ \E i \in Inquiries : ChangeInquiry(i) \/ DeleteInquiry(i)
    \/ \E d \in Drivers : DecideDriver(d)
    \/ \E r \in Requests :
           \/ CreateAssignment(r) \/ Unassign(r) \/ Abort(r)
           \/ \E i \in Inquiries, w \in Drivers \cup {Guide} : StartAssign(r, i, w)
           \/ \E k \in Rows : StartUnassign(r, k)

Spec == Init /\ [][Next]_vars

-----------------------------------------------------------------------------
(* Properties *)

TypeOK ==
    /\ inquiry \in [Inquiries -> InquiryStatus] /\ driver \in [Drivers -> DriverStatus]
    /\ rows \in [Rows -> Row \cup {None}] /\ request \in [Requests -> Request \cup {None}]
    /\ once \subseteq Inquiries \cup Drivers
    /\ overlapped \subseteq Inquiries \X (Drivers \cup {Guide})

\* A driver is assigned to a request once at most, unless two assignments of the driver overlapped:
\* the search for another row and the insertion are not one step.
AssignedOnce ==
    \A i \in Inquiries, d \in Drivers : <<i, d>> \notin overlapped =>
        \A k, l \in Rows :
            /\ rows[k] # None /\ rows[k].inquiry = i /\ rows[k].who = d /\ rows[k].status = "assigned"
            /\ rows[l] # None /\ rows[l].inquiry = i /\ rows[l].who = d /\ rows[l].status = "assigned"
            => k = l

\* Whoever stands in a row was approved once, and so was the request, which is no transfer: a stale
\* read may come too late, but it makes nothing up.
AssignedAfterApproval ==
    \A k \in Rows : rows[k] # None =>
        /\ rows[k].inquiry \in once \ Transfers
        /\ rows[k].who # Guide => rows[k].who \in once
=============================================================================
