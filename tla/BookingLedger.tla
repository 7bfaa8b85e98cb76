----------------------------- MODULE BookingLedger -----------------------------
(***************************************************************************)
(* The money and the history of direct bookings: a booking's status and    *)
(* payment status (bookings), the rows of payment_transactions that say    *)
(* what was paid and given back, and the rows of booking_status_history    *)
(* that say how the status came about.  They are written together by       *)
(* app/services/booking_service.py, app/services/payment_service.py,       *)
(* app/repositories/booking_repo.py and the routes of                      *)
(* app/api/v1/bookings.py and payments.py; some lock the booking, some     *)
(* write from a copy that was read before.                                 *)
(*                                                                         *)
(* The bookings are those of one guest for one listing.  Places, prices    *)
(* and amounts are left out: VariantBookings and StayInventory have the    *)
(* places.                                                                 *)
(***************************************************************************)
EXTENDS Integers, Sequences, FiniteSets, SequencesExt

CONSTANTS
    Bookings,
    Stays,          \* those of them that book a stay, which the stay desk manages
    References,     \* transactions of the gateway
    Reported,       \* what the gateway says of each: its booking and its status
    Requests,       \* requests that may run at the same time
    None,           \* no booking yet
    Gone,           \* a booking that was deleted
    Idle,
    EditedStatuses, \* values that an admin's edit may set
    EditedPayments,
    Manual,         \* the reference of a row that staff caused
    MaxServed       \* bound on the requests that are begun

BookingStatus == {"pending", "confirmed", "cancelled", "completed", "expired", "refunded"}

PaymentTransactionStatus == {"pending", "succeeded", "failed", "cancelled", "refunded", "not_required"}

ASSUME LedgerAssumption ==
    /\ Stays \subseteq Bookings
    /\ Reported \in [References -> [booking: Bookings, status: {"succeeded", "failed"}]]
    /\ Manual \notin References
    /\ EditedStatuses \subseteq BookingStatus
    /\ EditedPayments \subseteq PaymentTransactionStatus
    /\ MaxServed \in Nat

VARIABLES
    booking,    \* bookings
    trail,      \* booking_status_history of each booking
    ledger,     \* payment_transactions of each booking
    request,    \* requests between what they read and what they commit
    touched,    \* history: bookings whose status or payment an edit or the stay desk has set
    raced,      \* history: bookings with a status that was changed from a copy out of date
    repeated,   \* history: transactions of the gateway that came twice at the same time
    doubled,    \* history: two submissions were at work at the same time
    served      \* history: requests that were begun

history == <<touched, raced, repeated, doubled, served>>
ledgerVars == <<booking, trail, ledger, request, touched, raced, repeated, doubled, served>>

\* age: less than 15 seconds, less than 24 hours, more
Booking == [status: BookingStatus, payment: PaymentTransactionStatus, bank: BOOLEAN,
            age: {"new", "young", "overdue"}]

TrailRow == [old: BookingStatus \cup {None}, new: BookingStatus]

LedgerRow == [status: PaymentTransactionStatus, ref: References \cup {Manual}]

\* A submission past the search for a recent booking; a field to be written, with a row of
\* the trail or without; a report of the gateway that is not in the ledger.
Request ==
    [op: {"submit"}]
    \cup [op: {"write"}, b: Bookings, field: {"status", "payment"},
          was: BookingStatus \cup PaymentTransactionStatus,
          to: BookingStatus \cup PaymentTransactionStatus, logged: BOOLEAN]
    \cup [op: {"event"}, ref: References]

ASSUME MarksAssumption == None # Gone /\ None \notin Booking /\ Gone \notin Booking /\ Idle \notin Request

InitLedger ==
    /\ booking = [b \in Bookings |-> None]
    /\ trail = [b \in Bookings |-> <<>>]
    /\ ledger = [b \in Bookings |-> <<>>]
    /\ request = [c \in Requests |-> Idle]
    /\ touched = {}
    /\ raced = {}
    /\ repeated = {}
    /\ doubled = FALSE
    /\ served = 0

Listed(b) == booking[b] \notin {None, Gone}

-----------------------------------------------------------------------------
(* Steps of requests *)

Goes(c, r) == request' = [request EXCEPT ![c] = r]

\* A request begins.
Served == served < MaxServed /\ served' = served + 1

Begins(c, r) ==
    /\ Served
    /\ request[c] = Idle
    /\ Goes(c, r)
    /\ UNCHANGED <<booking, trail, ledger, touched, raced>>

\* Faulty: the row says nothing of the status before.
Untold(b) == None

\* What a row of the trail says was the status before.
OldStatus(b) == booking[b].status

\* The booking's row, locked, gets a status and a payment status, and the trail the change.
Settle(b, status, payment) ==
    /\ booking' = [booking EXCEPT ![b].status = status, ![b].payment = payment]
    /\ trail' = [trail EXCEPT ![b] = Append(@, [old |-> OldStatus(b), new |-> status])]

Record(b, status, ref) == ledger' = [ledger EXCEPT ![b] = Append(@, [status |-> status, ref |-> ref])]

-----------------------------------------------------------------------------
(* Bookings: submitted, growing older, deleted *)

\* Faulty: a repeated submission is not looked for.
NoneRecent == TRUE

\* No booking of the guest for the listing is younger than 15 seconds.
NoRecent == \A b \in Bookings : Listed(b) => booking[b].age # "new"

\* A guest whose submission finds a recent booking is answered with that one.
SubmitBooking(c) ==
    /\ NoRecent
    /\ Begins(c, [op |-> "submit"])
    /\ doubled' = (doubled \/ \E d \in Requests : request[d] = [op |-> "submit"])
    /\ UNCHANGED repeated

\* Payment online is refused; at the property is confirmed at once.
InitialStatus(bank) == IF bank THEN "pending" ELSE "confirmed"

CreateBooking(c, b) ==
    /\ request[c] = [op |-> "submit"]
    /\ booking[b] = None
    /\ \E bank \in BOOLEAN :
           LET s == InitialStatus(bank)
           IN  /\ booking' = [booking EXCEPT ![b] = [status |-> s, payment |-> "pending",
                                                     bank |-> bank, age |-> "new"]]
               /\ trail' = [trail EXCEPT ![b] = <<[old |-> None, new |-> s]>>]
    /\ Goes(c, Idle)
    /\ UNCHANGED <<ledger, history>>

\* No place is left, or the listing is gone.
RefuseBooking(c) ==
    /\ request[c] = [op |-> "submit"]
    /\ Goes(c, Idle)
    /\ UNCHANGED <<booking, trail, ledger, history>>

GrowOlder(b) ==
    /\ Listed(b) /\ booking[b].age # "overdue"
    /\ booking' = [booking EXCEPT ![b].age = IF @ = "new" THEN "young" ELSE "overdue"]
    /\ UNCHANGED <<trail, ledger, request, history>>

\* With its trail and its ledger.
DeleteBooking(b) ==
    /\ Listed(b) /\ Served
    /\ booking' = [booking EXCEPT ![b] = Gone]
    /\ trail' = [trail EXCEPT ![b] = <<>>]
    /\ ledger' = [ledger EXCEPT ![b] = <<>>]
    /\ UNCHANGED <<request, touched, raced, repeated, doubled>>

-----------------------------------------------------------------------------
(* Changes that lock nothing: of the status, by an edit, by the stay desk *)

AllowedBookingTransitions ==
    [s \in BookingStatus |->
        CASE s = "pending" -> {"confirmed", "cancelled", "expired"}
          [] s = "confirmed" -> {"completed", "cancelled"}
          [] OTHER -> {}]

\* Who may ask for the status: the guest may only cancel, the vendor of the listing and an admin
\* may do all that the booking allows.
MayAsk(who, s) == who = "owner" => s = "cancelled"

UpdateStatus(c, b, who, s) ==
    /\ Listed(b)
    /\ MayAsk(who, s)
    /\ s \in AllowedBookingTransitions[booking[b].status]
    /\ Begins(c, [op |-> "write", b |-> b, field |-> "status", was |-> booking[b].status,
                  to |-> s, logged |-> TRUE])
    /\ UNCHANGED <<repeated, doubled>>

\* An edit of the guest that names a field which decides about money or life is refused whole.
MayEdit(who, field) == who = "admin" \/ field \notin {"status", "payment"}

\* An admin's edit sets either, whatever it is.
EditBooking(c, b, who, field, v) ==
    /\ Listed(b)
    /\ MayEdit(who, field)
    /\ Begins(c, [op |-> "write", b |-> b, field |-> field, was |-> booking[b][field],
                  to |-> v, logged |-> FALSE])
    /\ UNCHANGED <<repeated, doubled>>

\* The desk's status of a stay is given to its booking too.
SetByDesk(c, b, s) ==
    /\ b \in Stays /\ Listed(b)
    /\ Begins(c, [op |-> "write", b |-> b, field |-> "status", was |-> booking[b].status,
                  to |-> s, logged |-> FALSE])
    /\ UNCHANGED <<repeated, doubled>>

\* Only what differs from the copy is written; a booking that is gone fails the request.
CommitWrite(c) ==
    /\ request[c] # Idle
    /\ LET r == request[c]
       IN  /\ r.op = "write"
           /\ IF ~Listed(r.b) \/ r.was = r.to
              THEN UNCHANGED <<booking, trail, touched, raced>>
              ELSE /\ booking' = [booking EXCEPT ![r.b][r.field] = r.to]
                   /\ trail' = IF r.logged
                               THEN [trail EXCEPT ![r.b] = Append(@, [old |-> r.was, new |-> r.to])]
                               ELSE trail
                   /\ touched' = IF r.logged THEN touched ELSE touched \cup {r.b}
                   /\ raced' = IF booking[r.b][r.field] = r.was THEN raced ELSE raced \cup {r.b}
    /\ Goes(c, Idle)
    /\ UNCHANGED <<ledger, repeated, doubled, served>>

-----------------------------------------------------------------------------
(* Changes under the lock of the booking *)

\* Marked as paid by staff; one that ended is refused, but for a completed one.
MarkAsPaid(b) ==
    /\ Listed(b) /\ Served
    /\ booking[b].status \notin {"expired", "cancelled"}
    /\ Settle(b, "confirmed", "succeeded")
    /\ Record(b, "succeeded", Manual)
    /\ UNCHANGED <<request, touched, raced, repeated, doubled>>

\* Faulty: a refund leaves the booking as it is.
KeptStatus(b) == booking[b].status

RefundedStatus(b) == "cancelled"

\* Whatever the booking's status; of any amount.
ProcessRefund(b) ==
    /\ Listed(b) /\ Served
    /\ Settle(b, RefundedStatus(b), "refunded")
    /\ Record(b, "refunded", Manual)
    /\ UNCHANGED <<request, touched, raced, repeated, doubled>>

\* Faulty: every report counts as a new one.
NeverRecorded(ref) == TRUE

\* The report is in no row of the ledger.
NotRecorded(ref) == \A b \in Bookings : \A i \in DOMAIN ledger[b] : ledger[b][i].ref # ref

\* A report that is in the ledger already is acknowledged and passed over.
CheckWebhook(c, ref) ==
    /\ NotRecorded(ref)
    /\ Begins(c, [op |-> "event", ref |-> ref])
    /\ repeated' = IF \E d \in Requests : request[d] = [op |-> "event", ref |-> ref]
                   THEN repeated \cup {ref} ELSE repeated
    /\ UNCHANGED doubled

\* A success confirms the booking whatever its status; a failure is recorded only.
HandleWebhook(c) ==
    /\ request[c] # Idle
    /\ LET r == request[c]
       IN  /\ r.op = "event"
           /\ LET b == Reported[r.ref].booking
                  s == Reported[r.ref].status
              IN  IF Listed(b)
                  THEN /\ IF s = "succeeded" THEN Settle(b, "confirmed", "succeeded") ELSE UNCHANGED <<booking, trail>>
                       /\ Record(b, s, r.ref)
                  ELSE UNCHANGED <<booking, trail, ledger>>
    /\ Goes(c, Idle)
    /\ UNCHANGED history

\* Faulty: confirmed bookings are released too.
AnyStanding(b) == booking[b].status \in {"pending", "confirmed"}

StillPending(b) == booking[b].status = "pending"

\* Holds of bank transfers that are older than a day.
ExpiredHolds == {b \in Bookings : Listed(b) /\ booking[b].bank /\ booking[b].age = "overdue" /\ StillPending(b)}

\* Before every answer to a question for availability.
ReleaseExpiredHolds ==
    /\ ExpiredHolds # {}
    /\ booking' = [b \in Bookings |->
                      IF b \in ExpiredHolds THEN [booking[b] EXCEPT !.status = "expired", !.payment = "failed"]
                      ELSE booking[b]]
    /\ trail' = [b \in Bookings |->
                      IF b \in ExpiredHolds THEN Append(trail[b], [old |-> OldStatus(b), new |-> "expired"])
                      ELSE trail[b]]
    /\ UNCHANGED <<ledger, request, history>>

-----------------------------------------------------------------------------
NextLedger ==
    \/ \E c \in Requests :
           \/ SubmitBooking(c) \/ RefuseBooking(c) \/ CommitWrite(c) \/ HandleWebhook(c)
           \/ \E ref \in References : CheckWebhook(c, ref)
           \/ \E b \in Bookings :
                  \/ CreateBooking(c, b)
                  \/ \E s \in BookingStatus, who \in {"owner", "staff"} : UpdateStatus(c, b, who, s)
                  \/ \E s \in EditedStatuses, who \in {"owner", "admin"} : EditBooking(c, b, who, "status", s)
                  \/ \E s \in EditedPayments, who \in {"owner", "admin"} : EditBooking(c, b, who, "payment", s)
                  \/ \E s \in {"pending", "confirmed", "cancelled"} : SetByDesk(c, b, s)
    \/ \E b \in Bookings : GrowOlder(b) \/ DeleteBooking(b) \/ MarkAsPaid(b) \/ ProcessRefund(b)
    \/ ReleaseExpiredHolds

SpecLedger == InitLedger /\ [][NextLedger]_ledgerVars

-----------------------------------------------------------------------------
(* Properties *)

LedgerTypeOK ==
    /\ booking \in [Bookings -> Booking \cup {None, Gone}]
    /\ trail \in [Bookings -> Seq(TrailRow)]
    /\ ledger \in [Bookings -> Seq(LedgerRow)]
    /\ request \in [Requests -> Request \cup {Idle}]
    /\ touched \subseteq Bookings /\ raced \subseteq Bookings
    /\ repeated \subseteq References /\ doubled \in BOOLEAN
    /\ served \in 0 .. MaxServed

\* The rows of money that came or went.
Moves(b) == {i \in DOMAIN ledger[b] : ledger[b][i].status \in {"succeeded", "refunded"}}

\* Nothing that locks no booking tells the money: unless an edit or the desk meddled, a booking's
\* payment status is that of the last row of its ledger that moved money, or, when none did,
\* "failed" once its hold has run out and "pending" before, however the requests interleave.
PaymentIsAccounted ==
    \A b \in Bookings : Listed(b) /\ b \notin touched =>
        IF Moves(b) # {}
        THEN \E i \in Moves(b) : (\A j \in Moves(b) : j <= i) /\ booking[b].payment = ledger[b][i].status
        ELSE \/ booking[b].payment = "pending"
             \/ booking[b].payment = "failed" /\ \E i \in DOMAIN trail[b] : trail[b][i].new = "expired"

\* The trail of a booking is whole: its last row tells the status, and, unless a change was made
\* from a copy out of date, each row goes on from where the row before it ended.
TrailTellsStatus ==
    \A b \in Bookings : Listed(b) /\ b \notin touched =>
        /\ trail[b] # <<>> /\ Last(trail[b]).new = booking[b].status
        /\ b \notin raced =>
               /\ trail[b][1].old = None
               /\ \A i \in 2 .. Len(trail[b]) : trail[b][i].old = trail[b][i - 1].new

\* A booking whose money came is neither pending nor expired, and one whose money went back has
\* ended or was paid again, unless a change from a copy out of date, an edit or the desk says so.
PaidIsNotReleased ==
    \A b \in Bookings : Listed(b) /\ b \notin touched \cup raced =>
        /\ booking[b].payment = "succeeded" => booking[b].status \in {"confirmed", "completed", "cancelled"}
        /\ booking[b].payment = "refunded" => booking[b].status = "cancelled"

\* A transaction of the gateway is in the ledger once however often it is reported, and a guest who
\* submits a booking again within 15 seconds has one, unless two reports of the transaction, or two
\* submissions, were at work at the same time.
RepeatsAreRecognised ==
    /\ \A ref \in References \ repeated :
           \A b \in Bookings : Cardinality({i \in DOMAIN ledger[b] : ledger[b][i].ref = ref}) <= 1
    /\ ~doubled => Cardinality({b \in Bookings : Listed(b) /\ booking[b].age = "new"}) <= 1

=============================================================================
