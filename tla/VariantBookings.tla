--------------------------- MODULE VariantBookings ---------------------------
(***************************************************************************)
(* Direct bookings of tours, safaris and experiences, and the capacity     *)
(* they take: app/services/booking_service.py (create_booking,             *)
(* mark_as_paid, release_expired_bank_transfer_holds), the status changes  *)
(* of app/repositories/booking_repo.py, the webhook and the refund of      *)
(* app/services/payment_service.py, and the capacity that an approved      *)
(* inquiry reserves (booking_inquiry_service.py).                          *)
(*                                                                         *)
(* A slot is one night of one variant.  Its capacity is counted in a row   *)
(* of availability_calendar, inserted by the first transaction that wants  *)
(* the slot; no constraint keeps a second transaction from inserting       *)
(* another.  A transaction works on a draft of the rows it has locked or   *)
(* inserted, which others see at its commit.  An item without a variant    *)
(* takes no capacity and is not modelled.                                  *)
(***************************************************************************)
EXTENDS Integers, Sequences, FiniteSets, Functions

CONSTANTS
    Variants,
    Nights,         \* dates
    Capacity,       \* capacity_max of each variant
    Bookings,       \* requests to book; the bookings they make have their names
    Order,          \* what each request asks for
    Expiries,       \* calls of /bookings/availability, which release expired holds
    Approvals,      \* approvals of requests for a tour, each of which reserves capacity
    Requested,      \* what each inquiry asks for
    EditTargets,    \* the statuses an admin's edit may set
    MaxEdits        \* bound on the status changes in flight

ItemLines == [variant: Variants, travel: Nights, qty: Nat \ {0}]

ASSUME CapacityAssumption ==
    /\ IsFiniteSet(Variants) /\ IsFiniteSet(Bookings) /\ IsFiniteSet(Approvals)
    /\ Bookings \cap Approvals = {}
    /\ Nights \subseteq Nat
    /\ Capacity \in [Variants -> Nat \ {0}]
    /\ Order \in [Bookings -> [items: Seq(ItemLines), checkIn: Nights, nights: Nat \ {0}, bank: BOOLEAN]]
    /\ \A b \in Bookings : Order[b].checkIn .. Order[b].checkIn + Order[b].nights - 1 \subseteq Nights
    /\ Requested \in [Approvals -> ItemLines]
    /\ EditTargets \subseteq {"pending", "confirmed", "cancelled", "completed", "expired", "refunded"}

VARIABLES
    calendar,       \* availability_calendar: the committed rows
    status,         \* bookings.status; "none" is no row
    overdue,        \* bookings created more than 24 hours ago
    creating,       \* create_booking transactions in flight
    releasing,      \* transactions in flight that release expired holds
    reserving,      \* inquiries that have read the row they are about to change
    editing,        \* status changes checked but not committed
    released,       \* history: bookings whose capacity was given back
    reopened,       \* history: those of them that an edit made pending again
    approved        \* approvals that have come to their inquiry's capacity

history == <<released, reopened, approved>>
bookingVars == <<calendar, status, overdue, creating, releasing, reserving, editing, released, reopened, approved>>

Slots == Variants \X Nights

\* A row is named by its slot and by the transaction that inserted it.
Rows == Slots \X (Bookings \cup Approvals)

RowData == [total: Nat, reserved: Nat, available: Nat]

NoRow == [total |-> 0, reserved |-> 0, available |-> 0]

BookingStatus == {"pending", "confirmed", "cancelled", "completed", "expired", "refunded"}

AllowedBookingTransitions ==
    [s \in BookingStatus |->
        CASE s = "pending" -> {"confirmed", "cancelled", "expired"}
          [] s = "confirmed" -> {"completed", "cancelled"}
          [] OTHER -> {}]

Stored == {b \in Bookings : status[b] \in BookingStatus}

InitialStatus(b) == IF Order[b].bank THEN "pending" ELSE "confirmed"

InitBookings ==
    /\ calendar = [r \in Rows |-> NoRow]
    /\ status = [b \in Bookings |-> "none"]
    /\ overdue = {}
    /\ creating = {}
    /\ releasing = {}
    /\ reserving = {}
    /\ editing = {}
    /\ released = {}
    /\ reopened = {}
    /\ approved = {}

-----------------------------------------------------------------------------
(* Rows, locks and drafts.                                                 *)

\* The rows of a slot that are committed, or in the transaction's own draft.
Visible(s, draft) == {r \in Rows : r[1] = s /\ (calendar[r] # NoRow \/ r \in DOMAIN draft)}

\* Faulty: SELECT without FOR UPDATE.
NobodyHolds(r, tx) == FALSE

\* Another transaction has locked the row.
HeldByOther(r, tx) == \E t \in (creating \cup releasing) \ {tx} : r \in DOMAIN t.draft

\* TLC's r :> row and d @@ e, whose definitions are out of the provers' sight.
OneRow(r, row) == [x \in {r} |-> row]

Over(d, e) == [x \in DOMAIN d \cup DOMAIN e |-> IF x \in DOMAIN d THEN d[x] ELSE e[x]]

RowIn(draft, r) == Over(draft, calendar)[r]

\* Faulty: a booking that is being released can be changed by others.
NotLocked(b) == TRUE

\* No releasing transaction has the booking's row locked.
NobodyReleases(b) == \A t \in releasing : b \notin t.picked

Smaller(a, b) == IF a < b THEN a ELSE b

Minus(a, b) == IF a > b THEN a - b ELSE 0

-----------------------------------------------------------------------------
(* create_booking: the items in the order of the request, each night in    *)
(* turn.                                                                   *)

WantedCount(b) == Len(Order[b].items) * Order[b].nights

WantedItem(b, k) == Order[b].items[(k - 1) \div Order[b].nights + 1]

WantedSlot(b, k) == <<WantedItem(b, k).variant, Order[b].checkIn + ((k - 1) % Order[b].nights)>>

BeginBooking(b) ==
    /\ status[b] = "none"
    /\ \A t \in creating : t.id # b
    /\ creating' = creating \cup {[id |-> b, at |-> 1, draft |-> <<>>]}
    /\ UNCHANGED <<calendar, status, overdue, releasing, reserving, editing, history>>

\* What the transaction makes of the next night's row: it locks a row that has enough
\* left, or inserts the first row of the slot.
NightRows(t) ==
    LET s == WantedSlot(t.id, t.at)
        q == WantedItem(t.id, t.at).qty
        rows == Visible(s, t.draft)
        fresh == [total |-> Capacity[s[1]], reserved |-> q, available |-> Capacity[s[1]] - q]
        Less(r) == LET row == RowIn(t.draft, r)
                   IN  [row EXCEPT !.reserved = @ + q, !.available = @ - q]
    IN  IF rows = {}
        THEN IF q <= Capacity[s[1]] THEN {OneRow(<<s, t.id>>, fresh)} ELSE {}
        ELSE {OneRow(r, Less(r)) : r \in {x \in rows : ~HeldByOther(x, t) /\ RowIn(t.draft, x).available >= q}}

ReserveNight(t) ==
    /\ t.at <= WantedCount(t.id)
    /\ \E new \in NightRows(t) :
           creating' = (creating \ {t}) \cup {[t EXCEPT !.at = @ + 1, !.draft = Over(new, @)]}
    /\ UNCHANGED <<calendar, status, overdue, releasing, reserving, editing, history>>

CommitBooking(t) ==
    /\ t.at > WantedCount(t.id)
    /\ creating' = creating \ {t}
    /\ calendar' = Over(t.draft, calendar)
    /\ status' = [status EXCEPT ![t.id] = InitialStatus(t.id)]
    /\ UNCHANGED <<overdue, releasing, reserving, editing, history>>

\* Sold out, a blocked night, a deadlock or any failure: nothing is kept.
AbortBooking(t) ==
    /\ creating' = creating \ {t}
    /\ UNCHANGED <<calendar, status, overdue, releasing, reserving, editing, history>>

-----------------------------------------------------------------------------
(* release_expired_bank_transfer_holds                                     *)

PassDay(b) ==
    /\ b \in Stored /\ Order[b].bank
    /\ overdue' = overdue \cup {b}
    /\ UNCHANGED <<calendar, status, creating, releasing, reserving, editing, history>>

ExpiredHolds == {b \in overdue : status[b] = "pending"}

\* Locks the bookings, waiting for those that have them locked, and keeps those that are
\* still expired holds.
PickHolds(e) ==
    /\ \A t \in releasing : t.id # e
    /\ ExpiredHolds # {}
    /\ \A b \in ExpiredHolds : NobodyReleases(b)
    /\ releasing' = releasing \cup
           {[id |-> e, picked |-> ExpiredHolds, draft |-> <<>>,
             left |-> UNION {{b} \X DOMAIN Order[b].items : b \in ExpiredHolds}]}
    /\ UNCHANGED <<calendar, status, overdue, creating, reserving, editing, history>>

\* An item gives back one night, that of its travel date.
HoldSlot(b, i) == <<Order[b].items[i].variant, Order[b].items[i].travel>>

Returned(row, q) ==
    [row EXCEPT !.reserved = Minus(@, q), !.available = Smaller(row.total, @ + q)]

GiveBack(t) ==
    /\ \E p \in t.left :
           LET rows == Visible(HoldSlot(p[1], p[2]), t.draft)
               q == Order[p[1]].items[p[2]].qty
               new == IF rows = {} THEN {<<>>}
                      ELSE {OneRow(r, Returned(RowIn(t.draft, r), q)) : r \in {x \in rows : ~HeldByOther(x, t)}}
           IN  \E n \in new :
                   releasing' = (releasing \ {t}) \cup {[t EXCEPT !.left = @ \ {p}, !.draft = Over(n, @)]}
    /\ UNCHANGED <<calendar, status, overdue, creating, reserving, editing, history>>

CommitRelease(t) ==
    /\ t.left = {}
    /\ releasing' = releasing \ {t}
    /\ calendar' = Over(t.draft, calendar)
    /\ status' = [b \in Bookings |-> IF b \in t.picked THEN "expired" ELSE status[b]]
    /\ released' = released \cup t.picked
    /\ UNCHANGED <<overdue, creating, reserving, editing, reopened, approved>>

AbortRelease(t) ==
    /\ releasing' = releasing \ {t}
    /\ UNCHANGED <<calendar, status, overdue, creating, reserving, editing, history>>

-----------------------------------------------------------------------------
(* Changes of a booking's status.                                          *)

\* Atomic under the lock of the booking's row.
MarkAsPaid(b) ==
    /\ b \in Stored /\ NobodyReleases(b)
    /\ status[b] \notin {"expired", "cancelled"}
    /\ status' = [status EXCEPT ![b] = "confirmed"]
    /\ UNCHANGED <<calendar, overdue, creating, releasing, reserving, editing, history>>

\* A success that was not recorded before, whatever the booking's status.
HandleWebhookEvent(b) ==
    /\ b \in Stored /\ NobodyReleases(b)
    /\ status' = [status EXCEPT ![b] = "confirmed"]
    /\ UNCHANGED <<calendar, overdue, creating, releasing, reserving, editing, history>>

ProcessRefund(b) ==
    /\ b \in Stored /\ NobodyReleases(b)
    /\ status' = [status EXCEPT ![b] = "cancelled"]
    /\ UNCHANGED <<calendar, overdue, creating, releasing, reserving, editing, history>>

\* At most MaxEdits changes are in flight.
MayEdit == Cardinality(editing) < MaxEdits

\* confirm, cancel, complete and status: the transition is tested without a lock.
UpdateStatus(b) ==
    /\ b \in Stored /\ MayEdit
    /\ \E s \in AllowedBookingTransitions[status[b]] : editing' = editing \cup {[id |-> b, to |-> s]}
    /\ UNCHANGED <<calendar, status, overdue, creating, releasing, reserving, history>>

\* An admin's PUT: no transition is refused.
Update(b) ==
    /\ b \in Stored /\ MayEdit
    /\ \E s \in EditTargets \ {status[b]} : editing' = editing \cup {[id |-> b, to |-> s]}
    /\ UNCHANGED <<calendar, status, overdue, creating, releasing, reserving, history>>

\* The UPDATE waits for the row's lock and then overwrites whatever it finds.
CommitEdit(e) ==
    /\ e.id \in Stored /\ NobodyReleases(e.id)
    /\ editing' = editing \ {e}
    /\ status' = [status EXCEPT ![e.id] = e.to]
    /\ reopened' = IF e.to = "pending" THEN reopened \cup (released \cap {e.id}) ELSE reopened
    /\ UNCHANGED <<calendar, overdue, creating, releasing, reserving, released, approved>>

AbortEdit(e) ==
    /\ editing' = editing \ {e}
    /\ UNCHANGED <<calendar, status, overdue, creating, releasing, reserving, history>>

Delete(b) ==
    /\ b \in Stored /\ NobodyReleases(b)
    /\ status' = [status EXCEPT ![b] = "deleted"]
    /\ UNCHANGED <<calendar, overdue, creating, releasing, reserving, editing, history>>

-----------------------------------------------------------------------------
(* The approval of an inquiry: read without a lock, no check of what is    *)
(* left.                                                                   *)

AskedSlot(i) == <<Requested[i].variant, Requested[i].travel>>

ReadCapacity(i) ==
    LET s == AskedSlot(i)
        rows == Visible(s, <<>>)
    IN  /\ i \notin approved
        /\ approved' = approved \cup {i}
        /\ \E r \in IF rows = {} THEN {<<s, i>>} ELSE rows :
               reserving' = reserving \cup {[id |-> i, row |-> r, seen |-> calendar[r]]}
        /\ UNCHANGED <<calendar, status, overdue, creating, releasing, editing, released, reopened>>

\* The new values are computed from what was read; an UPDATE writes the columns that differ.
CapacityWritten(v) ==
    LET total == IF v.seen = NoRow THEN Capacity[v.row[1][1]] ELSE v.seen.total
        reserved == v.seen.reserved + Requested[v.id].qty
        available == Minus(total, reserved)
    IN  IF v.seen = NoRow
        THEN [total |-> total, reserved |-> reserved, available |-> available]
        ELSE [calendar[v.row] EXCEPT
                 !.reserved = reserved,
                 !.available = IF available = v.seen.available THEN @ ELSE available]

WriteCapacity(v) ==
    /\ \A t \in creating \cup releasing : v.row \notin DOMAIN t.draft
    /\ reserving' = reserving \ {v}
    /\ calendar' = [calendar EXCEPT ![v.row] = CapacityWritten(v)]
    /\ UNCHANGED <<status, overdue, creating, releasing, editing, history>>

AbortCapacity(v) ==
    /\ reserving' = reserving \ {v}
    /\ UNCHANGED <<calendar, status, overdue, creating, releasing, editing, history>>

-----------------------------------------------------------------------------
NextBookings ==
    \/ \E b \in Bookings :
           \/ BeginBooking(b) \/ PassDay(b) \/ MarkAsPaid(b) \/ HandleWebhookEvent(b)
           \/ ProcessRefund(b) \/ UpdateStatus(b) \/ Update(b) \/ Delete(b)
    \/ \E t \in creating : ReserveNight(t) \/ CommitBooking(t) \/ AbortBooking(t)
    \/ \E e \in Expiries : PickHolds(e)
    \/ \E t \in releasing : GiveBack(t) \/ CommitRelease(t) \/ AbortRelease(t)
    \/ \E e \in editing : CommitEdit(e) \/ AbortEdit(e)
    \/ \E i \in Approvals : ReadCapacity(i)
    \/ \E v \in reserving : WriteCapacity(v) \/ AbortCapacity(v)

SpecBookings == InitBookings /\ [][NextBookings]_bookingVars

-----------------------------------------------------------------------------
(* Properties.                                                             *)

Draft(d) == DOMAIN d \subseteq Rows /\ \A r \in DOMAIN d : d[r] \in RowData

\* Rows hold natural numbers, and two transactions never hold the same row.
BookingsTypeOK ==
    /\ calendar \in [Rows -> RowData]
    /\ status \in [Bookings -> BookingStatus \cup {"none", "deleted"}]
    /\ overdue \subseteq Bookings
    /\ \A t \in creating : t.id \in Bookings /\ t.at \in 1..(WantedCount(t.id) + 1) /\ Draft(t.draft)
    /\ \A t \in releasing : t.id \in Expiries /\ t.picked \subseteq Bookings /\ Draft(t.draft)
    /\ \A v \in reserving : v.id \in Approvals /\ v.row \in Rows /\ v.seen \in RowData
    /\ \A e \in editing : e.id \in Bookings /\ e.to \in BookingStatus
    /\ \A t, u \in creating \cup releasing : t # u => DOMAIN t.draft \cap DOMAIN u.draft = {}
    /\ reopened \subseteq released /\ released \subseteq Bookings
    /\ approved \subseteq Approvals

CommittedRows(s) == Visible(s, <<>>)

\* No approval of an inquiry has come to the slot.
DirectOnly(s) == \A i \in approved : AskedSlot(i) # s

\* What a function counts, one by one, so that its cardinality is the sum of the function.
OneByOne(q) == UNION {{k} \X (1..q[k]) : k \in DOMAIN q}

\* The nights that the bookings want, each named <<booking, number>>.
NightsWanted(bs) == OneByOne([b \in bs |-> WantedCount(b)])

\* The places of the slot that such nights ask for.
PlacesOf(xs, s) == OneByOne([x \in {y \in xs : WantedSlot(y[1], y[2]) = s} |-> WantedItem(x[1], x[2]).qty])

\* Bookings that still stand and whose capacity was never given back.
Standing == {b \in Stored : status[b] \in {"pending", "confirmed", "completed"} /\ b \notin released}

PlacesTaken(s) == Cardinality(PlacesOf(NightsWanted(Standing), s))

\* A hold gives back the night of an item's travel date.  None that gave back the slot had
\* taken other nights only.
OwnNightsGivenBack(s) ==
    \A b \in released : \A i \in DOMAIN Order[b].items :
        HoldSlot(b, i) = s =>
            Order[b].items[i].travel \in Order[b].checkIn .. Order[b].checkIn + Order[b].nights - 1

\* As long as a slot has one calendar row, no inquiry has reserved in it, no expired hold is
\* made pending (and released) again and none gives back a night that it never took, the row
\* counts at least the places of every booking that stands, and no more than its capacity: the
\* row locks of create_booking and of the release of expired holds lose no reservation.
StandingIsReserved ==
    \A s \in Slots :
        reopened = {} /\ DirectOnly(s) /\ OwnNightsGivenBack(s) /\ Cardinality(CommittedRows(s)) = 1 =>
            \A r \in CommittedRows(s) :
                PlacesTaken(s) <= calendar[r].reserved /\ calendar[r].reserved <= calendar[r].total

\* What a row offers and what it has reserved add up to its capacity, however many rows a
\* slot has, until an inquiry reserves in it: the clamps of the release never distort it.
RowsBalance ==
    \A r \in Rows : DirectOnly(r[1]) => calendar[r].reserved + calendar[r].available = calendar[r].total

\* Capacity is given back only for a booking that is an expired hold at the very moment of
\* the commit, although payments, refunds and desk changes race with the release.
OnlyExpiredHoldsAreReleased == [][released' \ released \subseteq ExpiredHolds]_bookingVars

\* STATED BY THE CODE: create_booking books "with per-night availability locking"
\* (booking_service.py:273): the bookings of a night never exceed the variant's capacity.
NoOverbooking == \A s \in Slots : PlacesTaken(s) <= Capacity[s[1]]

=============================================================================
