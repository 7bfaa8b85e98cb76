-------------------------- MODULE InquiryLifecycle --------------------------
(***************************************************************************)
(* One booking inquiry from creation to its end: its status, the parent    *)
(* Booking and the stay bookings that hold rooms for it, and the requests  *)
(* that change them (app/services/booking_inquiry_service.py and the stay  *)
(* desk of app/api/v1/vendor_stays.py).                                    *)
(*                                                                         *)
(* Requests run in the server's thread pool and read the inquiry without a *)
(* lock.  A change of status commits first; rooms are provisioned or       *)
(* released in transactions of their own afterwards, whose failures are    *)
(* logged and swallowed.  Allocation itself is in StayInventory.           *)
(***************************************************************************)
EXTENDS Naturals, Sequences, FiniteSets

CONSTANTS
    Requests,       \* requests, each made at most once
    Cart,           \* the cart lines that are provisioned, in order
    StayLines,      \* those that are stays; the others reserve a variant's capacity
    MaxRows,        \* bound: stay bookings made for one line
    MaxInFlight     \* bound: requests that run at once

ASSUME LifecycleAssumption ==
    /\ Cart \in Seq({Cart[i] : i \in DOMAIN Cart})
    /\ MaxRows \in Nat \ {0}
    /\ MaxInFlight \in Nat \ {0}

VARIABLES
    status,     \* booking_inquiries.status; "deleted" is no row
    parent,     \* the Booking whose reference is the inquiry's, "none" before it exists
    stays,      \* for each line, its stay bookings in the order they were made
    reserved,   \* for each line, how often its capacity was reserved
    request,    \* the requests in flight: what each has read and has left to do
    approved,   \* history: staff approved the inquiry, or the desk confirmed a stay
    mishaps,    \* history: what went wrong, or ran beside another request: see Mishaps
    outrun      \* history: requests that found their line free, which then got a row

vars == <<status, parent, stays, reserved, request, approved, mishaps, outrun>>

InquiryStatus == {"pending_contact", "contacted", "quoted", "converted_to_booking", "cancelled"}

ParentStatus == {"none", "pending", "confirmed", "cancelled"}

Positions == 1 .. Len(Cart)

Lines == {Cart[i] : i \in Positions}

StayStatus == {"pending", "confirmed", "cancelled"}

\* step: what the request does next; "idle" and "done" are outside the server.
Steps == {"idle", "decided", "look", "provision", "release", "done"}

RequestStates == [step: Steps, guest: BOOLEAN, target: InquiryStatus, confirm: BOOLEAN,
                  pos: 0 .. Len(Cart) + 1, seen: 0 .. MaxRows, seenPending: BOOLEAN,
                  seenParent: ParentStatus, seenStatus: InquiryStatus]

Idle == [step |-> "idle", guest |-> FALSE, target |-> "pending_contact", confirm |-> FALSE,
         pos |-> 0, seen |-> 0, seenPending |-> FALSE,
         seenParent |-> "none", seenStatus |-> "pending_contact"]

Done == [Idle EXCEPT !.step = "done"]

InFlight == {q \in Requests : request[q].step \notin {"idle", "done"}}

\* A cancellation, or a change by the desk, that ran beside another request; a release
\* that was cut off; an approval of which a line failed or that was cut off.
Mishaps == {"cancelled beside", "desk beside", "release cut", "approval cut"}

TypeOK ==
    /\ status \in InquiryStatus \cup {"deleted"}
    /\ parent \in ParentStatus
    /\ DOMAIN stays = Lines
    /\ \A l \in Lines : stays[l] \in Seq(StayStatus) /\ Len(stays[l]) <= MaxRows
    /\ \A l \in Lines : stays[l] # <<>> => l \in StayLines /\ parent # "none"
    /\ reserved \in [Lines -> Nat]
    /\ request \in [Requests -> RequestStates]
    /\ approved \in BOOLEAN
    /\ mishaps \subseteq Mishaps
    /\ outrun \subseteq Requests

\* create_inquiry has committed the inquiry; one request still provisions for it.
Init ==
    /\ status = "pending_contact"
    /\ parent = "none"
    /\ stays = [l \in Lines |-> <<>>]
    /\ reserved = [l \in Lines |-> 0]
    /\ \E creator \in Requests :
        request = [q \in Requests |->
            IF q = creator THEN [Idle EXCEPT !.step = "look", !.pos = 1] ELSE Idle]
    /\ approved = FALSE
    /\ mishaps = {}
    /\ outrun = {}

-----------------------------------------------------------------------------
(* transition_status: staff, vendors and the customer's cancellation.      *)

AllowedInquiryTransitions ==
    {<<"pending_contact", "contacted">>, <<"pending_contact", "quoted">>,
     <<"pending_contact", "converted_to_booking">>, <<"pending_contact", "cancelled">>,
     <<"contacted", "quoted">>, <<"contacted", "converted_to_booking">>,
     <<"contacted", "cancelled">>, <<"quoted", "converted_to_booking">>,
     <<"quoted", "cancelled">>, <<"converted_to_booking", "cancelled">>}

CustomerCancellable == {"pending_contact", "contacted", "quoted"}

Approvals == {"quoted", "converted_to_booking"}

Set(q, r) == request' = [request EXCEPT ![q] = r]

\* The requests that cancel the inquiry and release what it holds.
Ending == {q \in InFlight : request[q].step = "release" \/ request[q].target = "cancelled"}

\* A request starts, alone or beside others: it ends the inquiry, or changes a row at once.
Started(ends, desk) ==
    mishaps' = mishaps
        \cup {m \in {"cancelled beside"} : Ending # {} \/ (ends /\ InFlight # {})}
        \cup {m \in {"desk beside"} : desk /\ InFlight # {}}

\* A row of l is made or changed by q: whoever found the line free before is outrun.
RowChanges(q, l) ==
    outrun' = (outrun \ {q}) \cup
        {p \in Requests \ {q} : /\ request[p].step = "provision" /\ request[p].seen = 0
                               /\ Cart[request[p].pos] = l}

NoRowChanges(q) == outrun' = outrun \ {q}

MayStart(q) == request[q].step = "idle" /\ Cardinality(InFlight) < MaxInFlight

\* The status is read and the move is found allowed.
Decide(q, guest, s) ==
    /\ MayStart(q)
    /\ <<status, s>> \in AllowedInquiryTransitions
    /\ guest => s = "cancelled" /\ status \in CustomerCancellable
    /\ Set(q, [Idle EXCEPT !.step = "decided", !.guest = guest, !.target = s])
    /\ Started(s = "cancelled", FALSE)
    /\ UNCHANGED <<status, parent, stays, reserved, approved, outrun>>

\* The new status is committed, whatever the status has become since.
CommitStatus(q) ==
    /\ request[q].step = "decided"
    /\ status # "deleted"
    /\ status' = request[q].target
    /\ approved' = (approved \/ request[q].target \in Approvals)
    /\ Set(q, CASE request[q].target \in Approvals ->
                    [Idle EXCEPT !.step = "look", !.pos = 1, !.confirm = TRUE]
                [] request[q].target = "cancelled" -> [Idle EXCEPT !.step = "release"]
                [] OTHER -> Done)
    /\ UNCHANGED <<parent, stays, reserved, mishaps, outrun>>

-----------------------------------------------------------------------------
(* _auto_provision_stay_bookings: one transaction for each cart line.      *)

\* Faulty: the line's stay booking is never looked for.
NoneExists(l) == 0

\* The stay booking of the line that is not cancelled, 0 if there is none.
Existing(l) ==
    IF \E k \in DOMAIN stays[l] : stays[l][k] # "cancelled"
    THEN CHOOSE k \in DOMAIN stays[l] : stays[l][k] # "cancelled" ELSE 0

\* The next line is looked up; without any left the request is done.
Look(q) ==
    /\ request[q].step = "look"
    /\ status # "deleted"
    /\ IF request[q].pos > Len(Cart)
       THEN Set(q, Done)
       ELSE LET l == Cart[request[q].pos]
            IN  Set(q, [request[q] EXCEPT
                            !.step = "provision", !.seen = Existing(l),
                            !.seenPending = Existing(l) # 0 /\ stays[l][Existing(l)] = "pending",
                            !.seenParent = parent, !.seenStatus = status])
    /\ UNCHANGED <<status, parent, stays, reserved, approved, mishaps, outrun>>

Advance(q) == Set(q, [Idle EXCEPT !.step = "look", !.pos = request[q].pos + 1,
                                  !.confirm = request[q].confirm])

\* Faulty: rooms held at creation are confirmed at once.
ConfirmedRow(q) == "confirmed"

NewRow(q) == IF request[q].confirm THEN "confirmed" ELSE "pending"

\* Faulty: an existing stay booking is skipped, even by an approval.
NothingToConfirm(q, l) ==
    /\ request[q].step = "provision" /\ Cart[request[q].pos] = l /\ request[q].seen # 0
    /\ Advance(q) /\ NoRowChanges(q)
    /\ UNCHANGED <<status, parent, stays, reserved, approved, mishaps>>

\* The line has a stay booking: an approval confirms it, and its pending parent.
ConfirmStay(q, l) ==
    LET r == request[q]
    IN  /\ r.step = "provision" /\ Cart[r.pos] = l /\ r.seen # 0
        /\ IF r.confirm /\ r.seenPending
           THEN /\ stays' = [stays EXCEPT ![l][r.seen] = "confirmed"]
                /\ parent' = IF r.seenParent = "pending" THEN "confirmed" ELSE parent
                /\ RowChanges(q, l)
           ELSE UNCHANGED <<stays, parent>> /\ NoRowChanges(q)
        /\ Advance(q)
        /\ UNCHANGED <<status, reserved, approved, mishaps>>

\* The line had none when it was looked up: it is created with its rooms, below the parent
\* there is.  The parent is looked up after the rows; one that another request creates
\* between that lookup and the insert breaks the unique reference: see FailLine.
CreateStay(q, l) ==
    LET r == request[q]
    IN  /\ r.step = "provision" /\ Cart[r.pos] = l /\ l \in StayLines /\ r.seen = 0
        /\ status # "deleted"
        /\ Len(stays[l]) < MaxRows
        /\ parent' = IF parent = "none" THEN NewRow(q) ELSE parent
        /\ status' = IF r.confirm /\ r.seenStatus # "converted_to_booking"
                     THEN "converted_to_booking" ELSE status
        /\ stays' = [stays EXCEPT ![l] = Append(@, NewRow(q))]
        /\ Advance(q) /\ RowChanges(q, l)
        /\ UNCHANGED <<reserved, approved, mishaps>>

\* A line that is no stay reserves capacity every time, but only below a parent that exists.
ReserveCapacity(q, l) ==
    LET r == request[q]
    IN  /\ r.step = "provision" /\ Cart[r.pos] = l /\ l \notin StayLines
        /\ reserved' = IF r.seenParent # "none" THEN [reserved EXCEPT ![l] = @ + 1] ELSE reserved
        /\ Advance(q) /\ NoRowChanges(q)
        /\ UNCHANGED <<status, parent, stays, approved, mishaps>>

\* The line's transaction fails and is rolled back; the next line is tried.
FailLine(q) ==
    /\ request[q].step = "provision"
    /\ Advance(q) /\ NoRowChanges(q)
    /\ mishaps' = mishaps \cup {m \in {"approval cut"} : request[q].confirm}
    /\ UNCHANGED <<status, parent, stays, reserved, approved>>

-----------------------------------------------------------------------------
(* _release_stay_bookings: one transaction.                                *)

Standing == {x \in Lines \X (1 .. MaxRows) :
    x[2] \in DOMAIN stays[x[1]] /\ stays[x[1]][x[2]] # "cancelled"}

AllCancelled == [l \in Lines |-> [k \in DOMAIN stays[l] |-> "cancelled"]]

\* Faulty: the stay bookings are cancelled, their parent Booking is not.
KeepParent(p) == p

EndedParent(p) == IF Standing = {} THEN p ELSE "cancelled"

ReleaseStays(q) ==
    /\ request[q].step = "release"
    /\ stays' = AllCancelled
    /\ parent' = EndedParent(parent)
    /\ Set(q, Done)
    /\ UNCHANGED <<status, reserved, approved, mishaps, outrun>>

\* The request is cut off between its transactions, or its inquiry is gone.
FailRequest(q) ==
    /\ q \in InFlight
    /\ Set(q, Done) /\ NoRowChanges(q)
    /\ mishaps' = mishaps \cup {m \in {"approval cut"} : request[q].confirm}
                         \cup {m \in {"release cut"} : request[q].step = "release"}
    /\ UNCHANGED <<status, parent, stays, reserved, approved>>

-----------------------------------------------------------------------------
(* The stay desk, and the rows' other owners.                              *)

\* update_property_booking_status(cancelled): the inquiry first, then all its stays.
DeskCancel(q) ==
    /\ MayStart(q)
    /\ \E l \in Lines : stays[l] # <<>>
    /\ status # "deleted"
    /\ status' = "cancelled"
    /\ Set(q, [Idle EXCEPT !.step = "release"])
    /\ Started(TRUE, TRUE)
    /\ UNCHANGED <<parent, stays, reserved, approved, outrun>>

\* update_property_booking_status(confirmed or pending): the stay, its parent and the
\* inquiry are set together, from whatever they were.
DeskSet(q, l, k, s) ==
    /\ MayStart(q)
    /\ k \in DOMAIN stays[l]
    /\ status # "deleted"
    /\ stays' = [stays EXCEPT ![l][k] = s]
    /\ parent' = s
    /\ status' = IF s = "confirmed" THEN "quoted" ELSE "pending_contact"
    /\ approved' = (approved \/ s = "confirmed")
    /\ Set(q, Done)
    /\ Started(FALSE, TRUE) /\ RowChanges(q, l)
    /\ UNCHANGED reserved

\* The Booking is cancelled in the bookings administration, which knows of no inquiry.
CancelParent ==
    /\ parent \in {"pending", "confirmed"}
    /\ parent' = "cancelled"
    /\ UNCHANGED <<status, stays, reserved, request, approved, mishaps, outrun>>

DeleteInquiry ==
    /\ status # "deleted"
    /\ status' = "deleted"
    /\ UNCHANGED <<parent, stays, reserved, request, approved, mishaps, outrun>>

-----------------------------------------------------------------------------
Next ==
    \/ \E q \in Requests :
        \/ \E guest \in BOOLEAN, s \in InquiryStatus : Decide(q, guest, s)
        \/ CommitStatus(q) \/ Look(q) \/ FailLine(q) \/ ReleaseStays(q) \/ FailRequest(q)
        \/ \E l \in Lines : ConfirmStay(q, l) \/ CreateStay(q, l) \/ ReserveCapacity(q, l)
        \/ DeskCancel(q)
        \/ \E l \in Lines, k \in 1 .. MaxRows, s \in {"pending", "confirmed"} : DeskSet(q, l, k, s)
    \/ CancelParent \/ DeleteInquiry

Spec == Init /\ [][Next]_vars

-----------------------------------------------------------------------------
(* Properties.                                                             *)

\* Once the requests for a cancelled inquiry have ended, nothing is held for it: every
\* stay booking is cancelled and the parent Booking does not stand.  Approvals may have
\* overlapped or failed before, and the desk may have reopened it line by line; the
\* exceptions are a release that was cut off, which nothing repeats, and a cancellation
\* that ran beside another request, which may book after it.
CancelledHoldsNothing ==
    InFlight = {} /\ status = "cancelled" /\ mishaps \cap {"cancelled beside", "release cut"} = {} =>
        Standing = {} /\ parent \in {"none", "cancelled"}

\* An inquiry that was converted has a confirmed stay booking for each of its stays, also
\* when approvals ran beside each other or beside the request that created it.  The
\* exceptions are an approval that failed or was cut off in a line, whose status stays, and
\* a cancellation or a change by the desk beside another request.
ConvertedIsConfirmed ==
    InFlight = {} /\ status = "converted_to_booking"
            /\ mishaps \cap {"cancelled beside", "desk beside", "approval cut"} = {} =>
        \A l \in Lines \cap StayLines : \E k \in DOMAIN stays[l] : stays[l][k] = "confirmed"

\* A request books a line anew only when every earlier booking of it is cancelled, whatever
\* failed and whatever runs beside it, unless it had looked the line up before such a
\* booking was made or reopened: two approvals that overlap so do book a line twice.
StayIsBookedOnce ==
    [][\A l \in Lines :
            Len(stays'[l]) > Len(stays[l]) =>
                \/ \A k \in DOMAIN stays[l] : stays[l][k] = "cancelled"
                \/ \E q \in outrun : request[q].step = "provision" /\ Cart[request[q].pos] = l
                                    /\ request'[q] # request[q]]_vars

\* No stay booking is confirmed before somebody approved the inquiry or one of its
\* bookings, whatever the requests in flight at the time.
ConfirmedByStaff ==
    (\E l \in Lines, k \in 1 .. MaxRows : k \in DOMAIN stays[l] /\ stays[l][k] = "confirmed")
        => approved

-----------------------------------------------------------------------------
(* What comments and tests say, and the code does not keep.                *)

\* booking_inquiry_service.py:43 and test_inquiry_lifecycle.py:181: a guest cannot cancel
\* a booking that is confirmed.
GuestCancelsOnlyOpen ==
    [][\A q \in Requests :
        request[q].guest /\ request[q].step = "decided" /\ request'[q].step = "release" =>
            status \in CustomerCancellable \cup {"cancelled"}]_vars

\* booking_inquiry_service.py:736: the stay booking of a line is looked for, and made only
\* if there is none.
NeverBookedTwice ==
    [][\A l \in Lines :
            Len(stays'[l]) > Len(stays[l]) =>
                \A k \in DOMAIN stays[l] : stays[l][k] = "cancelled"]_vars
=============================================================================
