------------------------------ MODULE Payments ------------------------------
(***************************************************************************)
(* Online payments: the checkout and the gateway notification handler of   *)
(* app/payments/service.py, over the payments and payment_events tables    *)
(* and the rows the payments are for (a transport booking, or a booking    *)
(* inquiry with the Booking its approval created).                         *)
(*                                                                         *)
(* A checkout request and a notification are transactions of the web       *)
(* server: what they read and what they commit are separate steps, and the *)
(* requests of staff and customers run in between.  The gateway is         *)
(* external: it decides what happens to the guest's card and sends         *)
(* notifications, which may be repeated, delayed and reordered.            *)
(***************************************************************************)
EXTENDS Naturals

CONSTANTS
    Orders,             \* order ids, one per checkout attempt (payments.order_id)
    Targets,            \* rows that can be paid for
    TransportTargets,   \* those that are transport bookings; the others are inquiries
    StayCarts,          \* inquiries whose cart contains a stay
    TargetOf,           \* the row each order pays for; the order id embeds its reference
    NoPayment,          \* payment_id of an event that matches no payment
    StrayNotices        \* notifications that fail verification and may arrive at any time

PaymentStatus ==
    {"initiated", "pending", "succeeded", "failed", "cancelled", "chargedback"}

FinalStatuses == {"succeeded", "failed", "cancelled", "chargedback"}

Notices == [order: Orders, status: PaymentStatus \ {"initiated"}]

Events == [payment: Orders \cup {NoPayment}, status: PaymentStatus, signature_valid: BOOLEAN]

ASSUME PaymentsAssumption ==
    /\ TransportTargets \subseteq Targets
    /\ StayCarts \subseteq Targets \ TransportTargets
    /\ TargetOf \in [Orders -> Targets]
    /\ NoPayment \notin Orders
    /\ StrayNotices \subseteq [order: Orders, status: PaymentStatus, signature_valid: BOOLEAN]

VARIABLES
    payment,    \* payments: the status of each order, "absent" before its row is committed
    events,     \* payment_events: the audit trail
    row,        \* the row each target is: its workflow status and its payment mark
    checkout,   \* how far the checkout request of each order has come
    handler,    \* the notification transactions in flight, each holding a payment's row lock
    receipts,   \* confirmation emails queued per order (NotifyResult.paid_notice)
    marked,     \* history: targets whose Booking another route has marked as paid
    gateway,    \* external: what became of the order at the gateway
    sent        \* external: the genuine notifications the gateway has sent

serverVars == <<payment, events, row, checkout, handler, receipts, marked>>
externalVars == <<gateway, sent>>
vars == <<payment, events, row, checkout, handler, receipts, marked, gateway, sent>>

-----------------------------------------------------------------------------
(* The rows that can be paid for.                                          *)

TransportBookingStatus == {"pending", "confirmed", "in_progress", "completed", "cancelled"}

TransportRow == [status: TransportBookingStatus, paid: {"unpaid", "paid", "chargedback"}]

InquiryStatus == {"pending_contact", "contacted", "quoted", "converted_to_booking", "cancelled"}

ApprovedInquiryStatuses == {"quoted", "converted_to_booking"}

\* The payment_status of a Booking; "pending" stands for every value that the notification
\* handler neither writes nor tells apart (pending, failed, cancelled, not_required).
BookingMarks == {"pending", "succeeded", "refunded"}

\* "paid" is the payment_status of the linked Booking; "deleted" is an inquiry row that is gone.
InquiryRow == [status: InquiryStatus \cup {"deleted"},
               paid: {"no_booking"} \cup BookingMarks]

RowOf(t) == IF t \in TransportTargets THEN TransportRow ELSE InquiryRow

\* not_payable_reason is None (a deleted inquiry is "Booking not found").
BookingPayable(r) == r.paid # "paid" /\ r.status \notin {"cancelled", "completed"}

InquiryPayable(t, r) ==
    /\ r.status \notin {"cancelled", "deleted"}
    /\ t \in StayCarts => r.status \in ApprovedInquiryStatuses

Payable(t) ==
    IF t \in TransportTargets THEN BookingPayable(row[t]) ELSE InquiryPayable(t, row[t])

\* PaymentRepository.has_succeeded_for_target
HasSucceeded(t) == \E o \in Orders : TargetOf[o] = t /\ payment[o] = "succeeded"

\* Faulty: a transport booking marked in the vocabulary of the linked Booking.
MarkLikeBooking(r, s) ==
    IF s = "succeeded" THEN [r EXCEPT !.paid = "succeeded"] ELSE r

\* TransportBookingTarget.apply_status on the row r as it was loaded
ApplyToBooking(r, s) ==
    IF s = "succeeded"
    THEN [status |-> IF r.status = "pending" THEN "confirmed" ELSE r.status, paid |-> "paid"]
    ELSE IF s = "chargedback" THEN [r EXCEPT !.paid = "chargedback"] ELSE r

\* BookingInquiryTarget.apply_status: only the linked Booking is marked
ApplyToInquiry(r, s) ==
    IF r.paid = "no_booking" \/ r.status = "deleted" THEN r
    ELSE IF s = "succeeded" THEN [r EXCEPT !.paid = "succeeded"]
    ELSE IF s = "chargedback" THEN [r EXCEPT !.paid = "refunded"] ELSE r

ApplyStatus(t, r, s) ==
    IF t \in TransportTargets THEN ApplyToBooking(r, s) ELSE ApplyToInquiry(r, s)

\* Faulty: the whole row is written back, whatever was changed.
WriteWholeRow(now, loaded, want) == want

\* A flush writes the columns whose value differs from what was loaded, no others.
Flush(now, loaded, want) ==
    [status |-> IF want.status # loaded.status THEN want.status ELSE now.status,
     paid   |-> IF want.paid # loaded.paid THEN want.paid ELSE now.paid]

Transactions == [order: Orders, status: PaymentStatus \ {"initiated"},
                 loaded: TransportRow \cup InquiryRow]

\* Faulty: the payment is read without a lock.
NeverLocked(o) == FALSE

\* PaymentRepository.get_by_order_id(lock=True) would have to wait.
Locked(o) == \E h \in handler : h.order = o

-----------------------------------------------------------------------------
TypeOK ==
    /\ payment \in [Orders -> PaymentStatus \cup {"absent"}]
    /\ events \subseteq Events
    /\ row \in [Targets -> TransportRow \cup InquiryRow]
    /\ \A t \in Targets : row[t] \in RowOf(t)
    /\ checkout \in [Orders -> {"idle", "loaded", "checked", "done"}]
    /\ handler \subseteq Transactions
    /\ \A h \in handler : h.loaded \in RowOf(TargetOf[h.order])
    /\ receipts \in [Orders -> Nat]
    /\ marked \subseteq Targets
    /\ gateway \in [Orders -> {"none", "open", "pending"} \cup FinalStatuses]
    /\ sent \subseteq Notices

\* A transport booking starts pending and unpaid.  An inquiry starts as
\* pending_contact; for a stay its creation also tried to hold the rooms under
\* a Booking, which may have failed.
InitRow(t) ==
    IF t \in TransportTargets THEN {[status |-> "pending", paid |-> "unpaid"]}
    ELSE [status: {"pending_contact"},
          paid: IF t \in StayCarts THEN {"no_booking", "pending"} ELSE {"no_booking"}]

Init ==
    /\ payment = [o \in Orders |-> "absent"]
    /\ events = {}
    /\ row \in [Targets -> TransportRow \cup InquiryRow]
    /\ \A t \in Targets : row[t] \in InitRow(t)
    /\ checkout = [o \in Orders |-> "idle"]
    /\ handler = {}
    /\ receipts = [o \in Orders |-> 0]
    /\ marked = {}
    /\ gateway = [o \in Orders |-> "none"]
    /\ sent = {}

-----------------------------------------------------------------------------
(* Checkout: _start_payment.                                               *)

\* The target is loaded and found payable.
LoadTarget(o) ==
    /\ checkout[o] = "idle"
    /\ Payable(TargetOf[o])
    /\ checkout' = [checkout EXCEPT ![o] = "loaded"]
    /\ UNCHANGED <<payment, events, row, handler, receipts, marked, externalVars>>

\* No payment of the target has succeeded yet (otherwise the request ends: 409).
CheckNotPaid(o) ==
    /\ checkout[o] = "loaded"
    /\ checkout' = [checkout EXCEPT ![o] = IF HasSucceeded(TargetOf[o]) THEN "idle" ELSE "checked"]
    /\ UNCHANGED <<payment, events, row, handler, receipts, marked, externalVars>>

\* The payments row is committed and the guest is sent to the gateway.
CommitCheckout(o) ==
    /\ checkout[o] = "checked"
    /\ checkout' = [checkout EXCEPT ![o] = "done"]
    /\ payment' = [payment EXCEPT ![o] = "initiated"]
    /\ gateway' = [gateway EXCEPT ![o] = "open"]
    /\ UNCHANGED <<events, row, handler, receipts, marked, sent>>

\* The price changed, the provider refused or the server stopped: rolled back.
AbandonCheckout(o) ==
    /\ checkout[o] \in {"loaded", "checked"}
    /\ checkout' = [checkout EXCEPT ![o] = "idle"]
    /\ UNCHANGED <<payment, events, row, handler, receipts, marked, externalVars>>

-----------------------------------------------------------------------------
(* Notifications: handle_notification.                                     *)

\* Faulty: the status of an unverified notification is applied.
ApplyUnverified(n) ==
    /\ payment[n.order] # "absent"
    /\ payment' = [payment EXCEPT ![n.order] = n.status]
    /\ UNCHANGED <<events, row, checkout, handler, receipts, marked, externalVars>>

\* The signature, the amount or the status code is not acceptable, or the order
\* is unknown: audited, nothing else.
RejectNotice(n) ==
    /\ ~Locked(n.order)
    /\ events' = events \cup
            {[payment |-> IF payment[n.order] = "absent" THEN NoPayment ELSE n.order,
              status |-> n.status, signature_valid |-> n.signature_valid]}
    /\ UNCHANGED <<payment, row, checkout, handler, receipts, marked, externalVars>>

Genuine(n) == [payment |-> n.order, status |-> n.status, signature_valid |-> TRUE]

\* Faulty: a payment that is pending at the gateway counts as settled.
PendingIsFinal(o, s) == payment[o] \in FinalStatuses \cup {"pending"}

\* A final payment never changes, except a success can be charged back.
AlreadyProcessed(o, s) ==
    \/ payment[o] \in FinalStatuses /\ ~(payment[o] = "succeeded" /\ s = "chargedback")
    \/ payment[o] = s

\* A repeated notification: audited, answered with 200.
IgnoreNotice(n) ==
    /\ ~Locked(n.order)
    /\ AlreadyProcessed(n.order, n.status)
    /\ events' = events \cup {Genuine(n)}
    /\ UNCHANGED <<payment, row, checkout, handler, receipts, marked, externalVars>>

\* A new status: the payment is locked and its target loaded (without a lock).
AcceptNotice(n) ==
    /\ ~Locked(n.order)
    /\ payment[n.order] # "absent"
    /\ ~AlreadyProcessed(n.order, n.status)
    /\ handler' = handler \cup
            {[order |-> n.order, status |-> n.status, loaded |-> row[TargetOf[n.order]]]}
    /\ UNCHANGED <<payment, events, row, checkout, receipts, marked, externalVars>>

\* Payment, booking and audit row land together.  A success queues one receipt, unless
\* the server stops first or the inquiry turns out to be gone.
CommitNotice(h) ==
    LET t == TargetOf[h.order]
    IN  /\ payment' = [payment EXCEPT ![h.order] = h.status]
        /\ row' = [row EXCEPT ![t] = Flush(row[t], h.loaded, ApplyStatus(t, h.loaded, h.status))]
        /\ events' = events \cup {Genuine(h)}
        /\ \/ UNCHANGED receipts
           \/ /\ h.status = "succeeded" /\ row[t].status # "deleted"
              /\ receipts' = [receipts EXCEPT ![h.order] = @ + 1]
        /\ handler' = handler \ {h}
        /\ UNCHANGED <<checkout, marked, externalVars>>

\* The server or the database fails before the commit: the transaction is undone.
AbortNotice(h) ==
    /\ handler' = handler \ {h}
    /\ UNCHANGED <<payment, events, row, checkout, receipts, marked, externalVars>>

-----------------------------------------------------------------------------
(* What other requests do to the rows meanwhile.                           *)

AllowedTransportTransitions ==
    {<<"pending", "confirmed">>, <<"pending", "cancelled">>,
     <<"confirmed", "in_progress">>, <<"confirmed", "completed">>, <<"confirmed", "cancelled">>,
     <<"in_progress", "completed">>, <<"in_progress", "cancelled">>}

SetStatus(t, s) ==
    /\ row' = [row EXCEPT ![t].status = s]
    /\ UNCHANGED <<payment, events, checkout, handler, receipts, marked, externalVars>>

\* TransportService.update_booking_status, also behind the customer's cancellation
UpdateBookingStatus(t) ==
    /\ t \in TransportTargets
    /\ \E s \in TransportBookingStatus :
        <<row[t].status, s>> \in AllowedTransportTransitions /\ SetStatus(t, s)

\* The driver completes the trip, whatever the booking's status is.
CompleteTrip(t) ==
    /\ t \in TransportTargets
    /\ SetStatus(t, "completed")

AllowedInquiryTransitions ==
    {<<"pending_contact", "contacted">>, <<"pending_contact", "quoted">>,
     <<"pending_contact", "converted_to_booking">>, <<"pending_contact", "cancelled">>,
     <<"contacted", "quoted">>, <<"contacted", "converted_to_booking">>,
     <<"contacted", "cancelled">>, <<"quoted", "converted_to_booking">>,
     <<"quoted", "cancelled">>, <<"converted_to_booking", "cancelled">>}

\* BookingInquiryService.transition_status, up to its commit
TransitionInquiry(t) ==
    /\ t \notin TransportTargets
    /\ \E s \in InquiryStatus :
        <<row[t].status, s>> \in AllowedInquiryTransitions /\ SetStatus(t, s)

\* _auto_provision_stay_bookings(confirm=True) creates the Booking that is still missing.
ProvisionBooking(t) ==
    /\ t \in StayCarts
    /\ row[t].status \in ApprovedInquiryStatuses
    /\ row[t].paid = "no_booking"
    /\ row' = [row EXCEPT ![t] = [status |-> "converted_to_booking", paid |-> "pending"]]
    /\ UNCHANGED <<payment, events, checkout, handler, receipts, marked, externalVars>>

\* The stay desk writes the inquiry's status without the lifecycle rules.
StayDeskUpdate(t) ==
    /\ t \in StayCarts
    /\ row[t].paid # "no_booking"
    /\ row[t].status # "deleted"
    /\ \E s \in {"pending_contact", "quoted", "cancelled"} : SetStatus(t, s)

DeleteInquiry(t) ==
    /\ t \notin TransportTargets
    /\ SetStatus(t, "deleted")

\* The other routes to the linked Booking: mark_as_paid and the legacy webhook mark it as
\* paid, a refund or an expired hold unmarks it, an administrator's edit writes any status
\* and a deletion leaves the inquiry without it.
MarkBooking(t) ==
    /\ t \notin TransportTargets
    /\ row[t].paid # "no_booking"
    /\ \E p \in {"no_booking"} \cup BookingMarks :
        /\ row' = [row EXCEPT ![t].paid = p]
        /\ marked' = IF p = "succeeded" THEN marked \cup {t} ELSE marked \ {t}
    /\ UNCHANGED <<payment, events, checkout, handler, receipts, externalVars>>

-----------------------------------------------------------------------------
(* External: the gateway and the network.                                  *)

GatewayReports(o, s) ==
    /\ gateway' = [gateway EXCEPT ![o] = s]
    /\ sent' = sent \cup {[order |-> o, status |-> s]}
    /\ UNCHANGED serverVars

GatewayPends(o) == gateway[o] = "open" /\ GatewayReports(o, "pending")

GatewaySettles(o) ==
    /\ gateway[o] \in {"open", "pending"}
    /\ \E s \in {"succeeded", "failed", "cancelled"} : GatewayReports(o, s)

GatewayChargesBack(o) == gateway[o] = "succeeded" /\ GatewayReports(o, "chargedback")

-----------------------------------------------------------------------------
Next ==
    \/ \E o \in Orders :
        \/ LoadTarget(o) \/ CheckNotPaid(o) \/ CommitCheckout(o) \/ AbandonCheckout(o)
        \/ GatewayPends(o) \/ GatewaySettles(o) \/ GatewayChargesBack(o)
    \/ \E n \in sent : IgnoreNotice(n)
    \/ \E n \in sent : AcceptNotice(n)
    \/ \E h \in handler : CommitNotice(h)
    \/ \E h \in handler : AbortNotice(h)
    \/ \E n \in StrayNotices : RejectNotice(n)
    \/ \E t \in Targets :
        \/ UpdateBookingStatus(t) \/ CompleteTrip(t)
        \/ TransitionInquiry(t) \/ ProvisionBooking(t) \/ StayDeskUpdate(t) \/ DeleteInquiry(t)
        \/ MarkBooking(t)

Spec == Init /\ [][Next]_vars

\* The gateway repeats a notification until it is answered, and not every attempt
\* to handle it is cut off by a failure.
Fairness ==
    /\ \A n \in Notices : SF_vars(n \in sent /\ AcceptNotice(n))
    /\ \A o \in Orders : SF_vars(\E h \in handler : h.order = o /\ CommitNotice(h))

FairSpec == Spec /\ Fairness

-----------------------------------------------------------------------------
(* Properties.                                                             *)

\* A final payment never changes again, except that a success can be charged
\* back, whatever notifications are handled at once (FINAL_STATUSES, the row lock).
FinalPaymentIsStable ==
    [][\A o \in Orders : payment[o] \in FinalStatuses =>
            \/ payment'[o] = payment[o]
            \/ payment[o] = "succeeded" /\ payment'[o] = "chargedback"]_vars

\* No payment has a status the gateway did not report, and each status has its
\* genuine notification on the audit trail (one transaction).
StatusIsEvidenced ==
    \A o \in Orders : payment[o] \notin {"absent", "initiated"} =>
        /\ [order |-> o, status |-> payment[o]] \in sent
        /\ [payment |-> o, status |-> payment[o], signature_valid |-> TRUE] \in events

PaidMarks == {"paid", "succeeded"}

\* A booking is marked paid only while some online payment of it stands as succeeded, also
\* when payments of one booking succeed and are charged back concurrently, unless another
\* route has marked the Booking of an inquiry as paid.
PaidMarkHasPayment ==
    \A t \in Targets \ marked :
        row[t].paid \in PaidMarks /\ row[t].status # "deleted" => HasSucceeded(t)

\* A transport booking with a successful payment is never left as unpaid.
SuccessLeavesMark ==
    \A o \in Orders : payment[o] = "succeeded" /\ TargetOf[o] \in TransportTargets =>
        row[TargetOf[o]].paid # "unpaid"

\* The confirmation email of an order is queued at most once, and only for a
\* payment that succeeded.
OneReceiptPerSuccess ==
    \A o \in Orders : /\ receipts[o] <= 1
                      /\ receipts[o] = 1 => payment[o] \in {"succeeded", "chargedback"}

\* Whatever the gateway finally says of an order, its payment comes to say too.
PaymentFollowsGateway ==
    \A o \in Orders : gateway[o] \in FinalStatuses ~> payment[o] = gateway[o]

\* The payments and the receipts are the ledger that callers rely on: what happens to an
\* order is one legal step of its entry, although the code takes several steps over it.
Ledger == INSTANCE PaymentLedger WITH ledger <- payment

ImplementsLedger == Ledger!LedgerSpec

-----------------------------------------------------------------------------
(* What documents and tests say, and the code does not keep.               *)

\* docs/PAYMENTS.md:33: a success confirms the transport booking "if it was pending".
ConfirmedOnlyFromPending ==
    [][\A t \in TransportTargets : row[t].status # "confirmed" /\ row'[t].status = "confirmed" =>
            row[t].status = "pending"]_vars
=============================================================================
