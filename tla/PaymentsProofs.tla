--------------------------- MODULE PaymentsProofs ---------------------------
(***************************************************************************)
(* Theorems about payments and bookings on record: Payments, for any       *)
(* orders, targets and stray notifications, and BookingLedger, for any     *)
(* bookings, reports of the gateway and requests.                          *)
(***************************************************************************)
EXTENDS Payments, BookingLedger, FiniteSetTheorems, TLAPS

(* What a flush makes of a row.                                            *)

LEMMA ApplyTyped ==
    ASSUME NEW t \in Targets, NEW r \in RowOf(t), NEW s \in PaymentStatus
    PROVE  ApplyStatus(t, r, s) \in RowOf(t)
  BY DEF RowOf, TransportRow, InquiryRow, TransportBookingStatus, InquiryStatus, BookingMarks,
         ApplyStatus, ApplyToBooking, ApplyToInquiry, PaymentStatus

LEMMA FlushTyped ==
    ASSUME NEW t \in Targets, NEW now \in RowOf(t), NEW loaded \in RowOf(t), NEW want \in RowOf(t)
    PROVE  Flush(now, loaded, want) \in RowOf(t)
  BY DEF RowOf, TransportRow, InquiryRow, Flush

LEMMA RowOfTyped == \A t \in Targets : RowOf(t) \subseteq TransportRow \cup InquiryRow
  BY DEF RowOf

-----------------------------------------------------------------------------
(* Type correctness.                                                       *)

LEMMA TypeInit == Init => TypeOK
  BY PaymentsAssumption
  DEF Init, TypeOK, InitRow, RowOf, TransportRow, InquiryRow, TransportBookingStatus, InquiryStatus, BookingMarks

LEMMA TypeCommit ==
    ASSUME TypeOK, NEW h \in handler, CommitNotice(h)
    PROVE  TypeOK'
  <1> DEFINE t == TargetOf[h.order]
             new == Flush(row[t], h.loaded, ApplyStatus(t, h.loaded, h.status))
  <1>1. h \in Transactions /\ t \in Targets /\ h.loaded \in RowOf(t) /\ row[t] \in RowOf(t)
    BY PaymentsAssumption DEF TypeOK, Transactions
  <1>2. h.order \in Orders /\ h.status \in PaymentStatus /\ h.status # "initiated"
    BY <1>1 DEF Transactions
  <1>3. new \in RowOf(t)
    <2>1. ApplyStatus(t, h.loaded, h.status) \in RowOf(t)
      BY <1>1, <1>2, ApplyTyped
    <2>2. QED BY <1>1, <2>1, FlushTyped
  <1>4. payment' \in [Orders -> PaymentStatus \cup {"absent"}]
    BY <1>2 DEF TypeOK, CommitNotice
  <1>5. events' \subseteq Events
    <2>1. Genuine(h) \in Events
      BY <1>2 DEF Events, Genuine
    <2>2. QED BY <2>1 DEF TypeOK, CommitNotice
  <1>6. row' = [row EXCEPT ![t] = new]
    BY DEF CommitNotice
  <1>7. row' \in [Targets -> TransportRow \cup InquiryRow]
    BY <1>1, <1>3, <1>6, RowOfTyped DEF TypeOK
  <1>8. \A u \in Targets : row'[u] \in RowOf(u)
    BY <1>1, <1>3, <1>6 DEF TypeOK
  <1>9. receipts' \in [Orders -> Nat]
    BY <1>2 DEF TypeOK, CommitNotice
  <1>10. QED
    BY <1>4, <1>5, <1>7, <1>8, <1>9 DEF TypeOK, CommitNotice, externalVars, RowOf

\* A step that only replaces the row of one target by another row of its kind.
LEMMA TypeRowChange ==
    ASSUME TypeOK, NEW t \in Targets, NEW r \in RowOf(t), row' = [row EXCEPT ![t] = r],
           UNCHANGED <<payment, events, checkout, handler, receipts, externalVars>>,
           marked' \subseteq Targets
    PROVE  TypeOK'
  <1>1. row' \in [Targets -> TransportRow \cup InquiryRow]
    BY RowOfTyped DEF TypeOK
  <1>2. \A u \in Targets : row'[u] \in RowOf(u)
    BY DEF TypeOK
  <1>3. QED
    BY <1>1, <1>2 DEF TypeOK, externalVars, RowOf

LEMMA TypeSetStatus ==
    ASSUME TypeOK, NEW t \in Targets, NEW s, SetStatus(t, s),
           s \in IF t \in TransportTargets THEN TransportBookingStatus ELSE InquiryStatus \cup {"deleted"}
    PROVE  TypeOK'
  <1> DEFINE r == [row[t] EXCEPT !.status = s]
  <1>1. row[t] \in RowOf(t)
    BY DEF TypeOK
  <1>2. r \in RowOf(t)
    BY <1>1 DEF RowOf, TransportRow, InquiryRow
  <1>3. row' = [row EXCEPT ![t] = r]
    BY DEF SetStatus
  <1>4. marked' \subseteq Targets
    BY DEF SetStatus, TypeOK
  <1>5. QED
    BY <1>2, <1>3, <1>4, TypeRowChange DEF SetStatus

LEMMA TypeStep == TypeOK /\ [Next]_vars => TypeOK'
  <1> SUFFICES ASSUME TypeOK, [Next]_vars PROVE TypeOK'
    OBVIOUS
  <1>1. ASSUME NEW o \in Orders,
               LoadTarget(o) \/ CheckNotPaid(o) \/ CommitCheckout(o) \/ AbandonCheckout(o)
        PROVE  TypeOK'
    BY <1>1 DEF TypeOK, LoadTarget, CheckNotPaid, CommitCheckout, AbandonCheckout,
                externalVars, PaymentStatus, RowOf
  <1>2. ASSUME NEW o \in Orders, GatewayPends(o) \/ GatewaySettles(o) \/ GatewayChargesBack(o)
        PROVE  TypeOK'
    BY <1>2 DEF TypeOK, GatewayPends, GatewaySettles, GatewayChargesBack, GatewayReports,
                serverVars, PaymentStatus, FinalStatuses, Notices, RowOf
  <1>3. ASSUME NEW n \in sent, IgnoreNotice(n)
        PROVE  TypeOK'
    <2>1. Genuine(n) \in Events
      BY DEF TypeOK, Notices, Events, Genuine
    <2>2. QED BY <1>3, <2>1 DEF TypeOK, IgnoreNotice, externalVars, RowOf
  <1>4. ASSUME NEW n \in sent, AcceptNotice(n)
        PROVE  TypeOK'
    <2>1. n \in Notices /\ TargetOf[n.order] \in Targets
      BY PaymentsAssumption DEF TypeOK, Notices
    <2>2. n.order \in Orders /\ n.status \in PaymentStatus \ {"initiated"}
      BY <2>1 DEF Notices
    <2>3. handler' \subseteq Transactions
      BY <1>4, <2>1, <2>2 DEF TypeOK, AcceptNotice, Transactions
    <2>4. \A h \in handler' : h.loaded \in RowOf(TargetOf[h.order])
      BY <1>4, <2>1, <2>2 DEF TypeOK, AcceptNotice
    <2>5. QED
      BY <1>4, <2>3, <2>4 DEF TypeOK, AcceptNotice, externalVars, RowOf
  <1>5. ASSUME NEW n \in StrayNotices, RejectNotice(n)
        PROVE  TypeOK'
    BY <1>5, PaymentsAssumption DEF TypeOK, RejectNotice, externalVars, Events, RowOf
  <1>6. ASSUME NEW h \in handler, CommitNotice(h)
        PROVE  TypeOK'
    BY <1>6, TypeCommit
  <1>7. ASSUME NEW h \in handler, AbortNotice(h)
        PROVE  TypeOK'
    BY <1>7 DEF TypeOK, AbortNotice, externalVars, RowOf
  <1>8. ASSUME NEW t \in Targets, UpdateBookingStatus(t) \/ CompleteTrip(t)
        PROVE  TypeOK'
    BY <1>8, TypeSetStatus DEF UpdateBookingStatus, CompleteTrip, TransportBookingStatus
  <1>9. ASSUME NEW t \in Targets,
               \/ TransitionInquiry(t) \/ ProvisionBooking(t)
               \/ StayDeskUpdate(t) \/ DeleteInquiry(t)
        PROVE  TypeOK'
    <2>1. CASE ProvisionBooking(t)
      <3>1. [status |-> "converted_to_booking", paid |-> "pending"] \in RowOf(t)
        BY <2>1, PaymentsAssumption DEF ProvisionBooking, RowOf, InquiryRow, InquiryStatus, BookingMarks
      <3>2. marked' \subseteq Targets
        BY <2>1 DEF ProvisionBooking, TypeOK
      <3>3. QED BY <2>1, <3>1, <3>2, TypeRowChange DEF ProvisionBooking
    <2>2. CASE TransitionInquiry(t) \/ StayDeskUpdate(t) \/ DeleteInquiry(t)
      BY <2>2, TypeSetStatus, PaymentsAssumption
      DEF TransitionInquiry, StayDeskUpdate, DeleteInquiry, InquiryStatus
    <2>3. QED BY <1>9, <2>1, <2>2
  <1>10. ASSUME NEW t \in Targets, MarkBooking(t)
        PROVE  TypeOK'
    <2>1. PICK p \in {"no_booking"} \cup BookingMarks :
            row' = [row EXCEPT ![t].paid = p]
      BY <1>10 DEF MarkBooking
    <2> DEFINE r == [row[t] EXCEPT !.paid = p]
    <2>2. r \in RowOf(t) /\ row' = [row EXCEPT ![t] = r]
      BY <1>10, <2>1 DEF TypeOK, MarkBooking, RowOf, InquiryRow
    <2>3. marked' \subseteq Targets
      BY <1>10 DEF MarkBooking, TypeOK
    <2>4. QED BY <1>10, <2>2, <2>3, TypeRowChange DEF MarkBooking
  <1>11. CASE UNCHANGED vars
    BY <1>11 DEF TypeOK, vars, RowOf
  <1>12. QED
    BY <1>1, <1>2, <1>3, <1>4, <1>5, <1>6, <1>7, <1>8, <1>9, <1>10, <1>11 DEF Next

\* Every reachable state is well typed; in particular the row of a target only ever
\* holds the statuses and marks of its own kind.
THEOREM TypeCorrect == Spec => []TypeOK
  <1>1. QED BY TypeInit, TypeStep, PTL DEF Spec

-----------------------------------------------------------------------------
(* The row lock: at most one notification transaction per payment, and what *)
(* it was about to write is still a change the payment may make.            *)

TransactionsLocked ==
    /\ \A h1, h2 \in handler : h1.order = h2.order => h1 = h2
    /\ \A h \in handler : /\ payment[h.order] # "absent"
                          /\ ~AlreadyProcessed(h.order, h.status)
                          /\ [order |-> h.order, status |-> h.status] \in sent

LEMMA LockedInit == Init => TransactionsLocked
  BY DEF Init, TransactionsLocked

LEMMA LockedStep == TypeOK /\ TransactionsLocked /\ [Next]_vars => TransactionsLocked'
  <1> SUFFICES ASSUME TypeOK, TransactionsLocked, [Next]_vars PROVE TransactionsLocked'
    OBVIOUS
  <1>1. ASSUME UNCHANGED <<payment, handler>>, sent \subseteq sent'
        PROVE  TransactionsLocked'
    BY <1>1 DEF TransactionsLocked, AlreadyProcessed
  <1>2. ASSUME NEW o \in Orders, CommitCheckout(o)
        PROVE  TransactionsLocked'
    <2>1. \A h \in handler : h.order \in Orders /\ h.status # "initiated"
      BY DEF TypeOK, Transactions
    <2>2. /\ payment' = [payment EXCEPT ![o] = "initiated"]
          /\ UNCHANGED <<handler, sent>>
      BY <1>2 DEF CommitCheckout
    <2>3. QED
      BY <2>1, <2>2 DEF TypeOK, TransactionsLocked, AlreadyProcessed, FinalStatuses
  <1>3. ASSUME NEW n \in sent, AcceptNotice(n)
        PROVE  TransactionsLocked'
    <2> DEFINE new == [order |-> n.order, status |-> n.status, loaded |-> row[TargetOf[n.order]]]
    <2>1. n = [order |-> n.order, status |-> n.status]
      BY DEF TypeOK, Notices
    <2>2. handler' = handler \cup {new} /\ UNCHANGED <<payment, sent>>
      BY <1>3 DEF AcceptNotice, externalVars
    <2>3. \A h \in handler : h.order # new.order
      BY <1>3 DEF AcceptNotice, Locked
    <2>4. payment[new.order] # "absent" /\ ~AlreadyProcessed(new.order, new.status)
      BY <1>3 DEF AcceptNotice
    <2>5. QED
      BY <2>1, <2>2, <2>3, <2>4 DEF TransactionsLocked, AlreadyProcessed
  <1>4. ASSUME NEW h \in handler, CommitNotice(h)
        PROVE  TransactionsLocked'
    <2>1. /\ handler' = handler \ {h}
          /\ payment' = [payment EXCEPT ![h.order] = h.status]
          /\ UNCHANGED sent
      BY <1>4 DEF CommitNotice, externalVars
    <2>2. \A k \in handler' : k.order # h.order
      BY <2>1 DEF TransactionsLocked
    <2>3. \A k \in handler' : payment'[k.order] = payment[k.order]
      BY <2>1, <2>2 DEF TypeOK, Transactions
    <2>4. QED
      BY <2>1, <2>2, <2>3 DEF TransactionsLocked, AlreadyProcessed
  <1>5. ASSUME NEW h \in handler, AbortNotice(h)
        PROVE  TransactionsLocked'
    BY <1>5 DEF AbortNotice, TransactionsLocked, AlreadyProcessed, externalVars
  <1>6. QED
    BY <1>1, <1>2, <1>3, <1>4, <1>5
    DEF Next, vars, LoadTarget, CheckNotPaid, AbandonCheckout, IgnoreNotice, RejectNotice,
        UpdateBookingStatus, CompleteTrip, TransitionInquiry, ProvisionBooking, StayDeskUpdate,
        DeleteInquiry, MarkBooking, SetStatus, GatewayPends, GatewaySettles, GatewayChargesBack,
        GatewayReports, externalVars, serverVars

LEMMA LockedTypeCorrect == Spec => [](TypeOK /\ TransactionsLocked)
  <1>1. QED BY TypeInit, TypeStep, LockedInit, LockedStep, PTL DEF Spec

-----------------------------------------------------------------------------
(* The steps that matter to the invariants below are the commit of a       *)
(* checkout, and the acceptance and the commit of a notification.  Every   *)
(* other step is quiet: it touches no payment and makes no row more paid,  *)
(* unless it is one of the other routes that mark a Booking.               *)

Quiet ==
    /\ UNCHANGED <<payment, receipts>>
    /\ handler' \subseteq handler
    /\ sent \subseteq sent' /\ events \subseteq events'
    /\ \A o \in Orders : checkout'[o] = "done" <=> checkout[o] = "done"
    /\ \A t \in Targets :
        /\ row'[t].paid = row[t].paid \/ row'[t].paid \notin PaidMarks \/ t \in marked'
        /\ t \in marked => t \in marked' \/ row'[t].paid \notin PaidMarks
        /\ row[t].status = "deleted" => row'[t].status = "deleted"
    /\ \A t \in TransportTargets : row'[t].paid = row[t].paid

LEMMA SetStatusQuiet ==
    ASSUME TypeOK, NEW t \in Targets, NEW s, SetStatus(t, s),
           row[t].status = "deleted" => s = "deleted"
    PROVE  Quiet
  <1>1. row' = [row EXCEPT ![t] = [row[t] EXCEPT !.status = s]]
    BY DEF SetStatus
  <1>2. \A u \in Targets : row[u] \in TransportRow \/ row[u] \in InquiryRow
    BY DEF TypeOK
  <1>3. \A u \in Targets : /\ row'[u].paid = row[u].paid
                           /\ row[u].status = "deleted" => row'[u].status = "deleted"
    BY <1>1, <1>2 DEF TypeOK, TransportRow, InquiryRow
  <1>4. QED
    BY <1>3, PaymentsAssumption DEF Quiet, SetStatus, externalVars

LEMMA RequestQuiet ==
    ASSUME TypeOK, NEW t \in Targets,
           \/ UpdateBookingStatus(t) \/ CompleteTrip(t) \/ TransitionInquiry(t)
           \/ ProvisionBooking(t) \/ StayDeskUpdate(t) \/ DeleteInquiry(t) \/ MarkBooking(t)
    PROVE  Quiet
  <1>1. CASE UpdateBookingStatus(t) \/ CompleteTrip(t)
    <2>1. row[t].status # "deleted"
      BY <1>1 DEF UpdateBookingStatus, CompleteTrip, TypeOK, RowOf, TransportRow, TransportBookingStatus
    <2>2. QED BY <1>1, <2>1, SetStatusQuiet DEF UpdateBookingStatus, CompleteTrip
  <1>2. CASE TransitionInquiry(t)
    <2>1. \A s : <<"deleted", s>> \notin AllowedInquiryTransitions
      BY DEF AllowedInquiryTransitions
    <2>2. QED BY <1>2, <2>1, SetStatusQuiet DEF TransitionInquiry
  <1>3. CASE ProvisionBooking(t)
    <2>1. t \notin TransportTargets /\ row[t].status # "deleted"
      BY <1>3, PaymentsAssumption DEF ProvisionBooking, ApprovedInquiryStatuses
    <2>2. row' = [row EXCEPT ![t] = [status |-> "converted_to_booking", paid |-> "pending"]]
      BY <1>3 DEF ProvisionBooking
    <2>3. \A u \in Targets : u # t => row'[u] = row[u]
      BY <2>2 DEF TypeOK
    <2>4. row'[t].paid \notin PaidMarks
      BY <2>2 DEF TypeOK, PaidMarks
    <2>5. QED
      BY <1>3, <2>1, <2>3, <2>4, PaymentsAssumption DEF ProvisionBooking, Quiet, externalVars
  <1>4. CASE StayDeskUpdate(t) \/ DeleteInquiry(t)
    BY <1>4, SetStatusQuiet DEF StayDeskUpdate, DeleteInquiry
  <1>5. CASE MarkBooking(t)
    <2>1. t \notin TransportTargets
      BY <1>5 DEF MarkBooking
    <2>2. PICK p \in {"no_booking"} \cup BookingMarks :
            /\ row' = [row EXCEPT ![t].paid = p]
            /\ marked' = IF p = "succeeded" THEN marked \cup {t} ELSE marked \ {t}
      BY <1>5 DEF MarkBooking
    <2>3. \A u \in Targets : u # t => row'[u] = row[u] /\ (u \in marked => u \in marked')
      BY <2>2 DEF TypeOK
    <2>4. row[t] \in InquiryRow
      BY <2>1 DEF TypeOK, RowOf
    <2>5. row'[t].paid = p /\ row'[t].status = row[t].status
      BY <2>2, <2>4 DEF TypeOK, InquiryRow
    <2>6. t \in marked' \/ p \notin PaidMarks
      BY <2>2 DEF PaidMarks, BookingMarks
    <2>7. QED
      BY <1>5, <2>1, <2>3, <2>5, <2>6, PaymentsAssumption DEF MarkBooking, Quiet, externalVars
  <1>6. QED BY <1>1, <1>2, <1>3, <1>4, <1>5

LEMMA StepKinds ==
    ASSUME TypeOK, [Next]_vars
    PROVE  \/ \E o \in Orders : CommitCheckout(o)
           \/ \E n \in sent : AcceptNotice(n)
           \/ \E h \in handler : CommitNotice(h)
           \/ Quiet
  <1>1. ASSUME NEW o \in Orders, LoadTarget(o) \/ CheckNotPaid(o) \/ AbandonCheckout(o)
        PROVE  Quiet
    <2>1. UNCHANGED <<payment, events, row, handler, receipts, marked, sent>>
      BY <1>1 DEF LoadTarget, CheckNotPaid, AbandonCheckout, externalVars
    <2>2. \A p \in Orders : checkout'[p] = "done" <=> checkout[p] = "done"
      BY <1>1 DEF LoadTarget, CheckNotPaid, AbandonCheckout, TypeOK
    <2>3. QED BY <2>1, <2>2 DEF Quiet
  <1>2. ASSUME NEW o \in Orders, GatewayPends(o) \/ GatewaySettles(o) \/ GatewayChargesBack(o)
        PROVE  Quiet
    BY <1>2 DEF GatewayPends, GatewaySettles, GatewayChargesBack, GatewayReports, serverVars, Quiet
  <1>3. ASSUME \/ \E n \in sent : IgnoreNotice(n)
               \/ \E n \in StrayNotices : RejectNotice(n)
               \/ \E h \in handler : AbortNotice(h)
        PROVE  Quiet
    BY <1>3 DEF IgnoreNotice, RejectNotice, AbortNotice, externalVars, Quiet
  <1>4. CASE UNCHANGED vars
    BY <1>4 DEF vars, Quiet
  <1>5. QED
    BY <1>1, <1>2, <1>3, <1>4, RequestQuiet DEF Next

-----------------------------------------------------------------------------
(* The ledger: payments, receipts and audit trail.                         *)

CheckoutFirst == \A o \in Orders : payment[o] # "absent" => checkout[o] = "done"

LedgerInv == TypeOK /\ TransactionsLocked /\ CheckoutFirst

\* The commit of a checkout finds no payment of its order and no transaction on it.
LEMMA CheckoutFacts ==
    ASSUME LedgerInv, NEW o \in Orders, CommitCheckout(o)
    PROVE  /\ payment[o] = "absent"
           /\ \A h \in handler : h.order # o
           /\ payment' = [payment EXCEPT ![o] = "initiated"]
           /\ checkout' = [checkout EXCEPT ![o] = "done"]
           /\ UNCHANGED <<events, row, handler, receipts, marked, sent>>
  BY DEF LedgerInv, CheckoutFirst, TransactionsLocked, CommitCheckout

\* The commit of a notification makes one legal change of its payment, under its lock.
LEMMA NoticeFacts ==
    ASSUME LedgerInv, NEW h \in handler, CommitNotice(h)
    PROVE  /\ h.order \in Orders
           /\ h.status \in PaymentStatus \ {"initiated"}
           /\ payment[h.order] # "absent"
           /\ payment[h.order] \in FinalStatuses =>
                payment[h.order] = "succeeded" /\ h.status = "chargedback"
           /\ [order |-> h.order, status |-> h.status] \in sent
           /\ handler' = handler \ {h}
           /\ \A k \in handler' : k.order # h.order
           /\ payment' = [payment EXCEPT ![h.order] = h.status]
           /\ UNCHANGED <<checkout, marked, sent>>
  <1>1. h.order \in Orders /\ h.status \in PaymentStatus \ {"initiated"}
    BY DEF LedgerInv, TypeOK, Transactions
  <1>2. /\ payment[h.order] # "absent"
        /\ ~AlreadyProcessed(h.order, h.status)
        /\ [order |-> h.order, status |-> h.status] \in sent
        /\ \A k \in handler : k.order = h.order => k = h
    BY DEF LedgerInv, TransactionsLocked
  <1>3. /\ handler' = handler \ {h}
        /\ payment' = [payment EXCEPT ![h.order] = h.status]
        /\ UNCHANGED <<checkout, marked, sent>>
    BY DEF CommitNotice, externalVars
  <1>4. QED BY <1>1, <1>2, <1>3 DEF AlreadyProcessed

LEMMA AcceptFacts ==
    ASSUME LedgerInv, NEW n \in sent, AcceptNotice(n)
    PROVE  /\ n.order \in Orders /\ TargetOf[n.order] \in Targets
           /\ payment[n.order] \in FinalStatuses =>
                payment[n.order] = "succeeded" /\ n.status = "chargedback"
           /\ handler' = handler \cup
                {[order |-> n.order, status |-> n.status, loaded |-> row[TargetOf[n.order]]]}
           /\ UNCHANGED <<payment, events, row, checkout, receipts, marked, sent>>
  BY PaymentsAssumption
  DEF LedgerInv, TypeOK, Notices, AcceptNotice, AlreadyProcessed, externalVars

LEMMA LedgerInit == Init => LedgerInv
  BY TypeInit, LockedInit DEF LedgerInv, CheckoutFirst, Init

LEMMA LedgerStep == LedgerInv /\ [Next]_vars => LedgerInv'
  <1> SUFFICES ASSUME LedgerInv, [Next]_vars PROVE CheckoutFirst'
    BY TypeStep, LockedStep DEF LedgerInv
  <1>1. TypeOK /\ CheckoutFirst
    BY DEF LedgerInv
  <1>2. ASSUME NEW o \in Orders, CommitCheckout(o)
        PROVE  CheckoutFirst'
    BY <1>1, <1>2, CheckoutFacts DEF CheckoutFirst, TypeOK
  <1>3. ASSUME NEW n \in sent, AcceptNotice(n)
        PROVE  CheckoutFirst'
    BY <1>1, <1>3, AcceptFacts DEF CheckoutFirst
  <1>4. ASSUME NEW h \in handler, CommitNotice(h)
        PROVE  CheckoutFirst'
    BY <1>1, <1>4, NoticeFacts DEF CheckoutFirst, TypeOK
  <1>5. CASE Quiet
    BY <1>1, <1>5 DEF CheckoutFirst, Quiet
  <1>6. QED BY <1>1, <1>2, <1>3, <1>4, <1>5, StepKinds

LEMMA LedgerCorrect == Spec => []LedgerInv
  <1>1. QED BY LedgerInit, LedgerStep, PTL DEF Spec

LEMMA FinalStep ==
    ASSUME LedgerInv, [Next]_vars, NEW o \in Orders, payment[o] \in FinalStatuses
    PROVE  \/ payment'[o] = payment[o]
           \/ payment[o] = "succeeded" /\ payment'[o] = "chargedback"
  <1>1. TypeOK
    BY DEF LedgerInv
  <1>2. ASSUME NEW p \in Orders, CommitCheckout(p)
        PROVE  payment'[o] = payment[o]
    BY <1>1, <1>2, CheckoutFacts DEF TypeOK, FinalStatuses
  <1>3. ASSUME NEW n \in sent, AcceptNotice(n)
        PROVE  payment'[o] = payment[o]
    BY <1>3, AcceptFacts
  <1>4. ASSUME NEW h \in handler, CommitNotice(h)
        PROVE  \/ payment'[o] = payment[o]
               \/ payment[o] = "succeeded" /\ payment'[o] = "chargedback"
    BY <1>1, <1>4, NoticeFacts DEF TypeOK
  <1>5. CASE Quiet
    BY <1>5 DEF Quiet
  <1>6. QED BY <1>1, <1>2, <1>3, <1>4, <1>5, StepKinds

\* However many notifications are in flight, in whatever order, a final payment only
\* ever changes from succeeded to chargedback.
THEOREM FinalPaymentsStay == Spec => FinalPaymentIsStable
  <1>1. LedgerInv /\ [Next]_vars =>
            [\A o \in Orders : payment[o] \in FinalStatuses =>
                \/ payment'[o] = payment[o]
                \/ payment[o] = "succeeded" /\ payment'[o] = "chargedback"]_vars
    BY FinalStep
  <1>2. QED BY <1>1, LedgerCorrect, PTL DEF Spec, FinalPaymentIsStable

-----------------------------------------------------------------------------
(* Evidence and receipts.                                                  *)

LEMMA EvidenceStep ==
    LedgerInv /\ StatusIsEvidenced /\ [Next]_vars => StatusIsEvidenced'
  <1> SUFFICES ASSUME LedgerInv, StatusIsEvidenced, [Next]_vars PROVE StatusIsEvidenced'
    OBVIOUS
  <1>1. TypeOK
    BY DEF LedgerInv
  <1>2. ASSUME NEW o \in Orders, CommitCheckout(o)
        PROVE  StatusIsEvidenced'
    BY <1>1, <1>2, CheckoutFacts DEF StatusIsEvidenced, TypeOK
  <1>3. ASSUME NEW n \in sent, AcceptNotice(n)
        PROVE  StatusIsEvidenced'
    BY <1>3, AcceptFacts DEF StatusIsEvidenced
  <1>4. ASSUME NEW h \in handler, CommitNotice(h)
        PROVE  StatusIsEvidenced'
    <2>1. events' = events \cup {[payment |-> h.order, status |-> h.status, signature_valid |-> TRUE]}
      BY <1>4 DEF CommitNotice, Genuine
    <2>2. \A o \in Orders : o # h.order => payment'[o] = payment[o]
      BY <1>1, <1>4, NoticeFacts DEF TypeOK
    <2>3. payment'[h.order] = h.status
      BY <1>1, <1>4, NoticeFacts DEF TypeOK
    <2>4. QED
      BY <1>4, <2>1, <2>2, <2>3, NoticeFacts DEF StatusIsEvidenced
  <1>5. CASE Quiet
    BY <1>5 DEF StatusIsEvidenced, Quiet
  <1>6. QED BY <1>1, <1>2, <1>3, <1>4, <1>5, StepKinds

\* A forged or mismatched notification never moves a payment: whatever status a payment
\* has, the gateway did report it, and the audit trail says so.
THEOREM EvidenceKept == Spec => []StatusIsEvidenced
  <1>1. Init => StatusIsEvidenced
    BY DEF Init, StatusIsEvidenced
  <1>2. QED BY <1>1, EvidenceStep, LedgerCorrect, PTL DEF Spec

LEMMA ReceiptStep ==
    LedgerInv /\ OneReceiptPerSuccess /\ [Next]_vars => OneReceiptPerSuccess'
  <1> SUFFICES ASSUME LedgerInv, OneReceiptPerSuccess, [Next]_vars PROVE OneReceiptPerSuccess'
    OBVIOUS
  <1>1. TypeOK
    BY DEF LedgerInv
  <1>2. ASSUME NEW o \in Orders, CommitCheckout(o)
        PROVE  OneReceiptPerSuccess'
    BY <1>1, <1>2, CheckoutFacts DEF OneReceiptPerSuccess, TypeOK
  <1>3. ASSUME NEW n \in sent, AcceptNotice(n)
        PROVE  OneReceiptPerSuccess'
    BY <1>3, AcceptFacts DEF OneReceiptPerSuccess
  <1>4. ASSUME NEW h \in handler, CommitNotice(h)
        PROVE  OneReceiptPerSuccess'
    <2>1. /\ h.order \in Orders
          /\ payment' = [payment EXCEPT ![h.order] = h.status]
          /\ payment[h.order] \in FinalStatuses =>
                payment[h.order] = "succeeded" /\ h.status = "chargedback"
      BY <1>4, NoticeFacts
    <2>2. CASE UNCHANGED receipts
      BY <1>1, <2>1, <2>2 DEF OneReceiptPerSuccess, TypeOK, FinalStatuses
    <2>3. CASE h.status = "succeeded" /\ receipts' = [receipts EXCEPT ![h.order] = @ + 1]
      <3>1. receipts[h.order] = 0
        BY <1>1, <2>1, <2>3 DEF OneReceiptPerSuccess, TypeOK, FinalStatuses
      <3>2. receipts'[h.order] = 1 /\ payment'[h.order] = "succeeded"
        BY <1>1, <2>1, <2>3, <3>1 DEF TypeOK
      <3>3. \A o \in Orders : o # h.order => receipts'[o] = receipts[o] /\ payment'[o] = payment[o]
        BY <1>1, <2>1, <2>3 DEF TypeOK
      <3>4. QED
        BY <3>2, <3>3 DEF OneReceiptPerSuccess
    <2>4. QED
      BY <1>4, <2>2, <2>3 DEF CommitNotice
  <1>5. CASE Quiet
    BY <1>5 DEF OneReceiptPerSuccess, Quiet
  <1>6. QED BY <1>1, <1>2, <1>3, <1>4, <1>5, StepKinds

\* Repeated and concurrent notifications of one success queue one confirmation email.
THEOREM ReceiptsOnce == Spec => []OneReceiptPerSuccess
  <1>1. Init => OneReceiptPerSuccess
    <2>1. Init => \A o \in Orders : receipts[o] = 0
      BY DEF Init
    <2>2. 0 <= 1 /\ 0 # 1
      OBVIOUS
    <2>3. QED BY <2>1, <2>2 DEF OneReceiptPerSuccess
  <1>2. QED BY <1>1, ReceiptStep, LedgerCorrect, PTL DEF Spec

-----------------------------------------------------------------------------
(* The marks on the rows.  A transaction writes the row from what it loaded  *)
(* earlier, so the invariants also say what the transactions in flight know. *)

Standing(r) == r.paid \in PaidMarks /\ r.status # "deleted"

\* A standing paid mark that no other route has made is covered by a succeeded payment, of which any chargeback in
\* flight has seen the mark and will remove it.
MarkCovered ==
    \A t \in Targets \ marked : Standing(row[t]) =>
        \E o \in Orders : /\ TargetOf[o] = t /\ payment[o] = "succeeded"
                          /\ \A h \in handler : h.order = o => Standing(h.loaded)

\* No transaction on a transport booking has seen a mark that the booking then lost.
MarkSeen ==
    \A h \in handler : TargetOf[h.order] \in TransportTargets /\ h.loaded.paid # "unpaid" =>
        row[TargetOf[h.order]].paid # "unpaid"

\* What the commit of a notification makes of its row.
LEMMA CommitRow ==
    ASSUME LedgerInv, NEW h \in handler, CommitNotice(h)
    PROVE  LET t == TargetOf[h.order] IN
           /\ t \in Targets
           /\ \A u \in Targets : u # t => row'[u] = row[u]
           /\ row[t].status = "deleted" => row'[t].status = "deleted"
           /\ h.status # "succeeded" /\ Standing(row'[t]) => Standing(row[t])
           /\ h.status = "chargedback" /\ Standing(h.loaded) => ~Standing(row'[t])
           /\ t \in TransportTargets /\ row[t].paid # "unpaid" => row'[t].paid # "unpaid"
           /\ t \in TransportTargets /\ h.status = "succeeded" /\ h.loaded.paid = "unpaid" =>
                row'[t].paid # "unpaid"
  <1> DEFINE t == TargetOf[h.order]
             want == ApplyStatus(t, h.loaded, h.status)
             new == Flush(row[t], h.loaded, want)
  <1>1. h \in Transactions /\ t \in Targets /\ h.loaded \in RowOf(t) /\ row[t] \in RowOf(t)
    BY PaymentsAssumption DEF LedgerInv, TypeOK, Transactions
  <1>2. row' = [row EXCEPT ![t] = new]
    BY DEF CommitNotice
  <1>3. row'[t] = new /\ \A u \in Targets : u # t => row'[u] = row[u]
    BY <1>1, <1>2 DEF LedgerInv, TypeOK
  <1>4. CASE t \in TransportTargets
    BY <1>1, <1>3, <1>4
    DEF RowOf, TransportRow, TransportBookingStatus, Flush, ApplyStatus, ApplyToBooking, Standing, PaidMarks
  <1>5. CASE t \notin TransportTargets
    BY <1>1, <1>3, <1>5
    DEF RowOf, InquiryRow, InquiryStatus, Flush, ApplyStatus, ApplyToInquiry, Standing, PaidMarks
  <1>6. QED BY <1>4, <1>5

LEMMA MarkInit == Init => MarkCovered /\ MarkSeen
  <1> SUFFICES ASSUME Init PROVE MarkCovered /\ MarkSeen
    OBVIOUS
  <1>1. \A t \in Targets : row[t].paid \notin PaidMarks
    BY DEF Init, InitRow, PaidMarks
  <1>2. QED
    BY <1>1 DEF Init, MarkCovered, MarkSeen, Standing

LEMMA CoveredStep == LedgerInv /\ MarkCovered /\ [Next]_vars => MarkCovered'
  <1> SUFFICES ASSUME LedgerInv, MarkCovered, [Next]_vars PROVE MarkCovered'
    OBVIOUS
  <1>1. TypeOK
    BY DEF LedgerInv
  <1>2. ASSUME NEW p \in Orders, CommitCheckout(p)
        PROVE  MarkCovered'
    <2>1. \A o \in Orders : payment[o] = "succeeded" => payment'[o] = "succeeded"
      BY <1>1, <1>2, CheckoutFacts DEF TypeOK
    <2>2. UNCHANGED <<row, handler, marked>>
      BY <1>2, CheckoutFacts
    <2>3. QED
      BY <2>1, <2>2 DEF MarkCovered, Standing
  <1>3. ASSUME NEW n \in sent, AcceptNotice(n)
        PROVE  MarkCovered'
    <2> DEFINE new == [order |-> n.order, status |-> n.status, loaded |-> row[TargetOf[n.order]]]
    <2>1. handler' = handler \cup {new} /\ UNCHANGED <<payment, row, marked>>
      BY <1>3, AcceptFacts
    <2>2. \A o \in Orders, t \in Targets :
            TargetOf[o] = t /\ Standing(row[t]) /\ new.order = o => Standing(new.loaded)
      OBVIOUS
    <2>3. QED
      BY <2>1, <2>2 DEF MarkCovered, Standing
  <1>4. ASSUME NEW h \in handler, CommitNotice(h), NEW t \in Targets \ marked, Standing(row'[t])
        PROVE  \E o \in Orders : /\ TargetOf[o] = t /\ payment'[o] = "succeeded"
                                 /\ \A k \in handler' : k.order = o => Standing(k.loaded)
    <2> DEFINE u == TargetOf[h.order]
    <2>1. /\ h.order \in Orders /\ u \in Targets
          /\ handler' = handler \ {h}
          /\ \A k \in handler' : k.order # h.order
      BY <1>4, NoticeFacts, CommitRow
    <2>2. payment'[h.order] = h.status /\ \A o \in Orders : o # h.order => payment'[o] = payment[o]
      BY <1>1, <1>4, NoticeFacts DEF TypeOK
    <2>3. CASE t = u /\ h.status = "succeeded"
      BY <2>1, <2>2, <2>3
    <2>4. CASE ~(t = u /\ h.status = "succeeded")
      <3>1. Standing(row[t])
        BY <1>4, <2>1, <2>4, CommitRow
      <3>2. PICK o \in Orders : /\ TargetOf[o] = t /\ payment[o] = "succeeded"
                                /\ \A k \in handler : k.order = o => Standing(k.loaded)
        BY <3>1 DEF MarkCovered
      <3>3. CASE o # h.order
        BY <2>1, <2>2, <3>2, <3>3
      <3>4. CASE o = h.order
        <4>1. t = u /\ h.status = "chargedback" /\ Standing(h.loaded)
          BY <1>4, <3>2, <3>4, NoticeFacts DEF FinalStatuses
        <4>2. QED
          BY <1>4, <4>1, CommitRow
      <3>5. QED BY <3>3, <3>4
    <2>5. QED BY <2>3, <2>4
  <1>5. CASE Quiet
    <2>1. \A t \in Targets \ marked' : Standing(row'[t]) => t \notin marked /\ Standing(row[t])
      BY <1>5 DEF Quiet, Standing
    <2>2. UNCHANGED payment /\ handler' \subseteq handler
      BY <1>5 DEF Quiet
    <2>3. QED
      BY <2>1, <2>2 DEF MarkCovered, Standing
  <1>6. ASSUME NEW h \in handler, CommitNotice(h)
        PROVE  MarkCovered'
    <2>1. UNCHANGED marked
      BY <1>6, NoticeFacts
    <2>2. QED BY <1>4, <1>6, <2>1 DEF MarkCovered, Standing
  <1>7. QED BY <1>2, <1>3, <1>5, <1>6, StepKinds DEF LedgerInv

\* No booking stays marked paid once none of its payments stands, although payments of one
\* booking succeed and are charged back concurrently, each from its own copy of the row, and
\* other routes unmark it; a mark that another route made itself is not a payment's.
THEOREM PaidMarksCovered == Spec => []PaidMarkHasPayment
  <1>1. LedgerInv /\ MarkCovered => PaidMarkHasPayment
    BY DEF MarkCovered, Standing, PaidMarkHasPayment, HasSucceeded
  <1>2. QED BY <1>1, MarkInit, CoveredStep, LedgerCorrect, PTL DEF Spec

LEMMA SeenStep ==
    LedgerInv /\ MarkSeen /\ SuccessLeavesMark /\ [Next]_vars => MarkSeen' /\ SuccessLeavesMark'
  <1> SUFFICES ASSUME LedgerInv, MarkSeen, SuccessLeavesMark, [Next]_vars
               PROVE  MarkSeen' /\ SuccessLeavesMark'
    OBVIOUS
  <1>1. TypeOK
    BY DEF LedgerInv
  <1>2. ASSUME NEW p \in Orders, CommitCheckout(p)
        PROVE  MarkSeen' /\ SuccessLeavesMark'
    BY <1>1, <1>2, CheckoutFacts DEF MarkSeen, SuccessLeavesMark, TypeOK
  <1>3. ASSUME NEW n \in sent, AcceptNotice(n)
        PROVE  MarkSeen' /\ SuccessLeavesMark'
    BY <1>3, AcceptFacts DEF MarkSeen, SuccessLeavesMark
  <1>4. ASSUME NEW h \in handler, CommitNotice(h)
        PROVE  MarkSeen' /\ SuccessLeavesMark'
    <2>1. \A t \in TransportTargets : row[t].paid # "unpaid" => row'[t].paid # "unpaid"
      BY <1>4, CommitRow, PaymentsAssumption
    <2>2. \A o \in Orders : o # h.order => payment'[o] = payment[o]
      BY <1>1, <1>4, NoticeFacts DEF TypeOK
    <2>3. h.order \in Orders /\ payment'[h.order] = h.status /\ handler' \subseteq handler
      BY <1>1, <1>4, NoticeFacts DEF TypeOK
    <2>4. TargetOf[h.order] \in TransportTargets /\ h.status = "succeeded" =>
            row'[TargetOf[h.order]].paid # "unpaid"
      <3>1. CASE h.loaded.paid = "unpaid"
        BY <1>4, <3>1, CommitRow
      <3>2. CASE h.loaded.paid # "unpaid"
        BY <1>4, <2>1, <3>2 DEF MarkSeen
      <3>3. QED BY <3>1, <3>2
    <2>5. MarkSeen'
      BY <1>1, <2>1, <2>3 DEF MarkSeen
    <2>6. SuccessLeavesMark'
      BY <2>1, <2>2, <2>3, <2>4 DEF SuccessLeavesMark
    <2>7. QED BY <2>5, <2>6
  <1>5. CASE Quiet
    BY <1>5 DEF Quiet, MarkSeen, SuccessLeavesMark
  <1>6. QED BY <1>1, <1>2, <1>3, <1>4, <1>5, StepKinds

\* A transport booking with a standing payment never reads as unpaid: no transaction
\* undoes the mark that another one made.
THEOREM SuccessMarks == Spec => []SuccessLeavesMark
  <1>1. Init => SuccessLeavesMark
    BY DEF Init, SuccessLeavesMark
  <1>2. QED BY <1>1, MarkInit, SeenStep, LedgerCorrect, PTL DEF Spec

-----------------------------------------------------------------------------
(* Payments implements PaymentLedger.                                      *)

LEMMA NoticeRecords ==
    ASSUME LedgerInv, OneReceiptPerSuccess, NEW h \in handler, CommitNotice(h)
    PROVE  Ledger!Record(h.order, h.status)
  <1>1. TypeOK
    BY DEF LedgerInv
  <1>2. payment[h.order] # h.status
    BY DEF LedgerInv, TransactionsLocked, AlreadyProcessed
  <1>3. h.status = "succeeded" => receipts[h.order] = 0
    <2>1. h.order \in Orders /\ receipts[h.order] \in Nat
      BY <1>1, NoticeFacts DEF TypeOK
    <2>2. h.status = "succeeded" => payment[h.order] \notin {"succeeded", "chargedback"}
      BY <1>2, NoticeFacts DEF FinalStatuses
    <2>3. QED BY <2>1, <2>2 DEF OneReceiptPerSuccess
  <1>4. \/ UNCHANGED receipts
        \/ /\ h.status = "succeeded" /\ receipts[h.order] = 0
           /\ receipts' = [receipts EXCEPT ![h.order] = 1]
    BY <1>1, <1>3, NoticeFacts DEF CommitNotice, TypeOK
  <1>5. QED
    BY <1>2, <1>4, NoticeFacts DEF Ledger!Record, Ledger!Final, FinalStatuses

LEMMA LedgerSim ==
    LedgerInv /\ OneReceiptPerSuccess /\ [Next]_vars => [Ledger!LedgerNext]_<<payment, receipts>>
  <1> SUFFICES ASSUME LedgerInv, OneReceiptPerSuccess, [Next]_vars
               PROVE  Ledger!LedgerNext \/ UNCHANGED <<payment, receipts>>
    OBVIOUS
  <1>1. ASSUME NEW o \in Orders, CommitCheckout(o)
        PROVE  Ledger!LedgerNext
    BY <1>1, CheckoutFacts DEF Ledger!LedgerNext, Ledger!Open
  <1>2. ASSUME NEW h \in handler, CommitNotice(h)
        PROVE  Ledger!LedgerNext
    <2>1. h.order \in Orders /\ h.status \in Ledger!Final \cup {"pending"}
      BY <1>2, NoticeFacts DEF Ledger!Final, PaymentStatus
    <2>2. QED BY <1>2, <2>1, NoticeRecords DEF Ledger!LedgerNext
  <1>3. ASSUME NEW n \in sent, AcceptNotice(n)
        PROVE  UNCHANGED <<payment, receipts>>
    BY <1>3, AcceptFacts
  <1>4. CASE Quiet
    BY <1>4 DEF Quiet
  <1>5. QED BY <1>1, <1>2, <1>3, <1>4, StepKinds DEF LedgerInv

\* The handlers, transactions and locks of the code implement the ledger: each step is one
\* legal step of one entry, or leaves the ledger alone.
THEOREM LedgerImplemented == Spec => ImplementsLedger
  <1>1. Init => Ledger!LedgerInit
    BY DEF Init, Ledger!LedgerInit
  <1>2. QED
    BY <1>1, LedgerSim, LedgerCorrect, ReceiptsOnce, PTL
    DEF Spec, ImplementsLedger, Ledger!LedgerSpec

-----------------------------------------------------------------------------
(***************************************************************************)
(* BookingLedger: changes are written from copies out of date, so each     *)
(* booking has a story of its own (Story): one that moved money is never   *)
(* pending, whoever wrote its status, which is why a hold that runs out    *)
(* has moved none. What a request has read is kept as far as its check     *)
(* established it (RequestsKnow, ReportsKnown, SubmissionsKnown).          *)
(***************************************************************************)

Waits(c, op) == request[c] # Idle /\ request[c].op = op

\* What a request that will write holds: values of the column it writes, and, when the trail is
\* to tell of it, a change of status that the booking allowed.
RequestsKnow ==
    \A c \in Requests : Waits(c, "write") =>
        LET r == request[c]
        IN  /\ r.field = "status" => r.was \in BookingStatus /\ r.to \in BookingStatus
            /\ r.field = "payment" =>
                 r.was \in PaymentTransactionStatus /\ r.to \in PaymentTransactionStatus
            /\ r.logged => r.field = "status" /\ r.to \in AllowedBookingTransitions[r.was]

\* The payment status of a booking is that of its last row that moved money.
PaymentOf(b) ==
    IF Moves(b) # {}
    THEN \E i \in Moves(b) : (\A j \in Moves(b) : j <= i) /\ booking[b].payment = ledger[b][i].status
    ELSE \/ booking[b].payment = "pending"
         \/ booking[b].payment = "failed" /\ \E i \in DOMAIN trail[b] : trail[b][i].new = "expired"

TrailOf(b) == trail[b] # <<>> /\ Last(trail[b]).new = booking[b].status

ChainOf(b) ==
    /\ trail[b][1].old = None
    /\ \A i \in 2 .. Len(trail[b]) : trail[b][i].old = trail[b][i - 1].new

StatusOf(b) ==
    /\ booking[b].payment = "succeeded" => booking[b].status \in {"confirmed", "completed", "cancelled"}
    /\ booking[b].payment = "refunded" => booking[b].status = "cancelled"

\* The story of one booking: a hold that runs out has never moved money, although a change of
\* status may have been made from a copy out of date.
Story(b) ==
    /\ ~Listed(b) => ledger[b] = <<>>
    /\ Listed(b) /\ b \notin touched =>
         /\ PaymentOf(b) /\ (Moves(b) # {} => booking[b].status # "pending")
         /\ TrailOf(b)
         /\ b \notin raced => ChainOf(b) /\ StatusOf(b)

Stories == \A b \in Bookings : Story(b)

\* A report of the gateway at work is not in the ledger, unless it came twice at the same time.
ReportsKnown ==
    \A ref \in References \ repeated :
        /\ \A c, d \in Requests :
             request[c] = [op |-> "event", ref |-> ref] /\ request[d] = [op |-> "event", ref |-> ref] => c = d
        /\ (\E c \in Requests : request[c] = [op |-> "event", ref |-> ref]) => NotRecorded(ref)
        /\ \A b \in Bookings : \A i, j \in DOMAIN ledger[b] :
             ledger[b][i].ref = ref /\ ledger[b][j].ref = ref => i = j

\* A submission at work is the only one, and finds no recent booking.
SubmissionsKnown ==
    ~doubled =>
        /\ \A c, d \in Requests :
             request[c] = [op |-> "submit"] /\ request[d] = [op |-> "submit"] => c = d
        /\ (\E c \in Requests : request[c] = [op |-> "submit"]) => NoRecent
        /\ \A a, b \in Bookings :
             Listed(a) /\ Listed(b) /\ booking[a].age = "new" /\ booking[b].age = "new" => a = b

BooksInv == LedgerTypeOK /\ RequestsKnow /\ Stories /\ ReportsKnown /\ SubmissionsKnown

\* Nobody touches the booking's row.
Same(b) == booking'[b] = booking[b] /\ trail'[b] = trail[b] /\ ledger'[b] = ledger[b]
Grow == touched \subseteq touched' /\ raced \subseteq raced'
Keep == touched' = touched /\ raced' = raced

LEMMA SameStory ==
    ASSUME NEW b \in Bookings, Story(b), Same(b), Grow
    PROVE  Story(b)'
BY DEF Story, Same, Grow, Listed, PaymentOf, Moves, TrailOf, ChainOf, StatusOf, Last

LEMMA AgedStory ==
    ASSUME NEW b \in Bookings, Story(b), Listed(b), Keep, trail'[b] = trail[b], ledger'[b] = ledger[b],
           booking[b] \in Booking, booking'[b] \in Booking,
           booking'[b].status = booking[b].status, booking'[b].payment = booking[b].payment
    PROVE  Story(b)'
BY MarksAssumption DEF Story, Keep, Listed, PaymentOf, Moves, TrailOf, ChainOf, StatusOf, Last

LEMMA GoneStory ==
    ASSUME NEW b \in Bookings, booking'[b] = Gone, ledger'[b] = <<>>
    PROVE  Story(b)'
BY DEF Story, Listed

LEMMA CreatedStory ==
    ASSUME NEW b \in Bookings, Story(b), ~Listed(b), Keep, ledger'[b] = ledger[b],
           NEW s \in BookingStatus,
           booking'[b] \in Booking, booking'[b].status = s, booking'[b].payment = "pending",
           trail'[b] = <<[old |-> None, new |-> s]>>
    PROVE  Story(b)'
<1>1. Moves(b)' = {} BY DEF Moves, Story
<1>2. Len(trail'[b]) = 1 /\ trail'[b][1] = [old |-> None, new |-> s] /\ trail'[b] # <<>> OBVIOUS
<1>3. PaymentOf(b)' BY <1>1 DEF PaymentOf
<1>4. TrailOf(b)' /\ ChainOf(b)' /\ StatusOf(b)' BY <1>2 DEF TrailOf, ChainOf, StatusOf, Last
<1>5. Listed(b)' BY MarksAssumption DEF Listed
<1> QED BY <1>1, <1>3, <1>4, <1>5 DEF Story

\* What a row that is added to the trail leaves of it.
LEMMA Longer ==
    ASSUME NEW S, NEW q \in Seq(S), NEW x \in S
    PROVE  /\ Append(q, x) \in Seq(S) /\ Len(Append(q, x)) = Len(q) + 1 /\ Append(q, x) # <<>>
           /\ DOMAIN Append(q, x) = 1 .. Len(q) + 1 /\ DOMAIN q = 1 .. Len(q) /\ Len(q) \in Nat
           /\ \A i \in 1 .. Len(q) : Append(q, x)[i] = q[i]
           /\ Append(q, x)[Len(q) + 1] = x
OBVIOUS

LEMMA LongerTrail ==
    ASSUME NEW b \in Bookings, trail[b] \in Seq(TrailRow), NEW x \in TrailRow,
           trail'[b] = Append(trail[b], x), x.new = booking'[b].status
    PROVE  /\ TrailOf(b)'
           /\ TrailOf(b) /\ ChainOf(b) /\ x.old = booking[b].status => ChainOf(b)'
           /\ \A i \in DOMAIN trail[b] : i \in DOMAIN trail'[b] /\ trail'[b][i] = trail[b][i]
           /\ \E i \in DOMAIN trail'[b] : trail'[b][i] = x
<1> DEFINE q == trail[b]
<1>1. /\ trail'[b] # <<>> /\ Len(trail'[b]) = Len(q) + 1 /\ DOMAIN trail'[b] = 1 .. Len(q) + 1
      /\ DOMAIN q = 1 .. Len(q) /\ Len(q) \in Nat /\ (q # <<>> => Len(q) >= 1)
      /\ \A i \in 1 .. Len(q) : trail'[b][i] = q[i]
      /\ trail'[b][Len(q) + 1] = x
  <2>1. q # <<>> => Len(q) >= 1 OBVIOUS
  <2> QED BY <2>1, Longer
<1>2. TrailOf(b)' BY <1>1 DEF TrailOf, Last
<1>3. ASSUME TrailOf(b), ChainOf(b), x.old = booking[b].status PROVE ChainOf(b)'
  BY <1>1, <1>3 DEF TrailOf, ChainOf, Last
<1> QED BY <1>1, <1>2, <1>3

LEMMA LongerLedger ==
    ASSUME NEW b \in Bookings, ledger[b] \in Seq(LedgerRow), NEW x \in LedgerRow,
           ledger'[b] = Append(ledger[b], x)
    PROVE  /\ x.status \in {"succeeded", "refunded"} /\ booking'[b].payment = x.status => PaymentOf(b)' /\ Moves(b)' # {}
           /\ x.status \notin {"succeeded", "refunded"} => Moves(b)' = Moves(b)
           /\ \A i \in Moves(b) : ledger'[b][i] = ledger[b][i]
<1> DEFINE q == ledger[b]
<1>1. /\ DOMAIN ledger'[b] = 1 .. Len(q) + 1 /\ DOMAIN q = 1 .. Len(q) /\ Len(q) \in Nat
      /\ \A i \in 1 .. Len(q) : ledger'[b][i] = q[i]
      /\ ledger'[b][Len(q) + 1] = x
  BY Longer
<1>2. ASSUME x.status \in {"succeeded", "refunded"}, booking'[b].payment = x.status PROVE PaymentOf(b)' /\ Moves(b)' # {}
  <2>1. Len(q) + 1 \in Moves(b)' /\ \A j \in Moves(b)' : j <= Len(q) + 1 BY <1>1, <1>2 DEF Moves
  <2> QED BY <1>1, <1>2, <2>1 DEF PaymentOf
<1>3. x.status \notin {"succeeded", "refunded"} => Moves(b)' = Moves(b) BY <1>1 DEF Moves
<1> QED BY <1>1, <1>2, <1>3 DEF Moves

LEMMA SettledStory ==
    ASSUME LedgerTypeOK, NEW b \in Bookings, Story(b), Listed(b), Keep,
           NEW s, NEW p, <<s, p>> \in {<<"confirmed", "succeeded">>, <<"cancelled", "refunded">>},
           NEW ref \in References \cup {Manual},
           booking'[b] \in Booking, booking'[b].status = s, booking'[b].payment = p,
           trail'[b] = Append(trail[b], [old |-> booking[b].status, new |-> s]),
           ledger'[b] = Append(ledger[b], [status |-> p, ref |-> ref])
    PROVE  Story(b)'
<1> DEFINE x == [old |-> booking[b].status, new |-> s]
           y == [status |-> p, ref |-> ref]
<1>1. booking[b].status \in BookingStatus /\ x \in TrailRow /\ x.new = s /\ x.old = booking[b].status
      /\ y \in LedgerRow /\ y.status = p /\ trail[b] \in Seq(TrailRow) /\ ledger[b] \in Seq(LedgerRow)
  BY DEF LedgerTypeOK, Listed, Booking, TrailRow, LedgerRow, BookingStatus, PaymentTransactionStatus
<1>2. trail'[b] = Append(trail[b], x) /\ ledger'[b] = Append(ledger[b], y) OBVIOUS
<1>3. Listed(b)' BY MarksAssumption DEF Listed
<1> HIDE DEF x, y
<1>4. TrailOf(b)' /\ (TrailOf(b) /\ ChainOf(b) => ChainOf(b)') BY <1>1, <1>2, LongerTrail
<1>5. PaymentOf(b)' BY <1>1, <1>2, LongerLedger
<1>6. StatusOf(b)' BY DEF StatusOf
<1>7. booking'[b].status # "pending" OBVIOUS
<1> QED BY <1>3, <1>4, <1>5, <1>6, <1>7 DEF Story, Keep

LEMMA FailedStory ==
    ASSUME LedgerTypeOK, NEW b \in Bookings, Story(b), Listed(b), Keep,
           NEW ref \in References,
           booking'[b] = booking[b], trail'[b] = trail[b],
           ledger'[b] = Append(ledger[b], [status |-> "failed", ref |-> ref])
    PROVE  Story(b)'
<1> DEFINE y == [status |-> "failed", ref |-> ref]
<1>1. y \in LedgerRow /\ y.status = "failed" /\ ledger[b] \in Seq(LedgerRow) /\ ledger'[b] = Append(ledger[b], y)
  BY DEF LedgerTypeOK, LedgerRow, PaymentTransactionStatus
<1> HIDE DEF y
<1>2. Moves(b)' = Moves(b) /\ \A i \in Moves(b) : ledger'[b][i] = ledger[b][i] BY <1>1, LongerLedger
<1>3. PaymentOf(b) => PaymentOf(b)' BY <1>2 DEF PaymentOf
<1> QED BY <1>2, <1>3 DEF Story, Keep, Listed, TrailOf, ChainOf, StatusOf, Last

\* Payments are not released with the hold: a booking that has moved money is not pending.
LEMMA ExpiredStory ==
    ASSUME LedgerTypeOK, NEW b \in Bookings, Story(b), Keep, Listed(b), StillPending(b),
           booking'[b] \in Booking, booking'[b].status = "expired", booking'[b].payment = "failed",
           trail'[b] = Append(trail[b], [old |-> booking[b].status, new |-> "expired"]),
           ledger'[b] = ledger[b]
    PROVE  Story(b)'
<1> DEFINE x == [old |-> booking[b].status, new |-> "expired"]
<1>1. x \in TrailRow /\ x.new = "expired" /\ x.old = booking[b].status /\ trail[b] \in Seq(TrailRow)
      /\ trail'[b] = Append(trail[b], x)
  BY DEF LedgerTypeOK, TrailRow, BookingStatus, StillPending
<1> HIDE DEF x
<1>2. /\ TrailOf(b)' /\ (TrailOf(b) /\ ChainOf(b) => ChainOf(b)')
      /\ \E i \in DOMAIN trail'[b] : trail'[b][i] = x
  BY <1>1, LongerTrail
<1>3. Moves(b)' = Moves(b) BY DEF Moves
<1>4. b \notin touched => Moves(b) = {} BY DEF Story, StillPending
<1>5. b \notin touched => PaymentOf(b)' BY <1>1, <1>2, <1>3, <1>4 DEF PaymentOf
<1>6. StatusOf(b)' BY DEF StatusOf
<1>7. Listed(b)' BY MarksAssumption DEF Listed
<1> QED BY <1>2, <1>5, <1>6, <1>7 DEF Story, Keep

\* A change of status that the trail tells of was allowed for the status that was read.
LEMMA ChangedStory ==
    ASSUME LedgerTypeOK, NEW b \in Bookings, Story(b), Listed(b), touched' = touched,
           NEW was \in BookingStatus, NEW to \in AllowedBookingTransitions[was],
           raced' = IF booking[b].status = was THEN raced ELSE raced \cup {b},
           booking'[b] \in Booking, booking'[b].status = to, booking'[b].payment = booking[b].payment,
           trail'[b] = Append(trail[b], [old |-> was, new |-> to]), ledger'[b] = ledger[b]
    PROVE  Story(b)'
<1> DEFINE x == [old |-> was, new |-> to]
<1>1. /\ to \in {"confirmed", "cancelled", "expired", "completed"}
      /\ was = "pending" \/ (was = "confirmed" /\ to \in {"completed", "cancelled"})
  BY DEF AllowedBookingTransitions, BookingStatus
<1>2. x \in TrailRow /\ x.new = to /\ x.old = was /\ trail[b] \in Seq(TrailRow) /\ trail'[b] = Append(trail[b], x)
  BY <1>1 DEF LedgerTypeOK, TrailRow, BookingStatus
<1> HIDE DEF x
<1>3. /\ TrailOf(b)' /\ (TrailOf(b) /\ ChainOf(b) /\ was = booking[b].status => ChainOf(b)')
      /\ \A i \in DOMAIN trail[b] : i \in DOMAIN trail'[b] /\ trail'[b][i] = trail[b][i]
  BY <1>2, LongerTrail
<1>4. Moves(b)' = Moves(b) BY DEF Moves
<1>5. PaymentOf(b) => PaymentOf(b)' BY <1>3, <1>4 DEF PaymentOf
<1>6. booking[b].status = was /\ StatusOf(b) => StatusOf(b)' BY <1>1 DEF StatusOf
<1>7. Listed(b)' BY MarksAssumption DEF Listed
<1> QED BY <1>1, <1>3, <1>4, <1>5, <1>6, <1>7 DEF Story

LEMMA TouchedStory ==
    ASSUME NEW b \in Bookings, b \in touched', booking'[b] \in Booking
    PROVE  Story(b)'
BY MarksAssumption DEF Story, Listed

-----------------------------------------------------------------------------
(* Steps *)

\* A step after which every request is as before or at rest, or one has come to write.
Rests == \A c \in Requests : request'[c] \in {request[c], Idle}

LEMMA RestsKnow == RequestsKnow /\ Rests => RequestsKnow'
BY DEF RequestsKnow, Rests, Waits

\* Reports need only be looked at again when a ledger grows or a report comes.
LEMMA ReportsRest ==
    ASSUME ReportsKnown, Rests, repeated' = repeated,
           \A b \in Bookings : ledger'[b] = ledger[b] \/ ledger'[b] = <<>>
    PROVE  ReportsKnown'
<1>0. \A ref \in References : [op |-> "event", ref |-> ref] # Idle BY MarksAssumption DEF Request
<1>1. \A b \in Bookings : \A i \in DOMAIN ledger'[b] : i \in DOMAIN ledger[b] /\ ledger'[b][i] = ledger[b][i]
  OBVIOUS
<1>2. SUFFICES ASSUME NEW ref \in References \ repeated
      PROVE /\ \A c, d \in Requests :
                 request'[c] = [op |-> "event", ref |-> ref] /\ request'[d] = [op |-> "event", ref |-> ref] => c = d
            /\ (\E c \in Requests : request'[c] = [op |-> "event", ref |-> ref]) => NotRecorded(ref)'
            /\ \A b \in Bookings : \A i, j \in DOMAIN ledger'[b] :
                 ledger'[b][i].ref = ref /\ ledger'[b][j].ref = ref => i = j
  BY DEF ReportsKnown
<1>3. \A c \in Requests : request'[c] = [op |-> "event", ref |-> ref] => request[c] = [op |-> "event", ref |-> ref]
  BY <1>0, <1>2 DEF Rests
<1>4. NotRecorded(ref) => NotRecorded(ref)' BY <1>1 DEF NotRecorded
<1> QED BY <1>1, <1>3, <1>4 DEF ReportsKnown

\* Submissions need only be looked at again when one comes, or a booking is new.
LEMMA SubmissionsRest ==
    ASSUME SubmissionsKnown, Rests, doubled' = doubled,
           \A b \in Bookings : Listed(b)' /\ booking'[b].age = "new" => Listed(b) /\ booking[b].age = "new"
    PROVE  SubmissionsKnown'
<1>0. [op |-> "submit"] # Idle BY MarksAssumption DEF Request
<1>1. \A c \in Requests : request'[c] = [op |-> "submit"] => request[c] = [op |-> "submit"]
  BY <1>0 DEF Rests
<1>2. NoRecent => NoRecent' BY DEF NoRecent
<1> QED BY <1>1, <1>2 DEF SubmissionsKnown

\* Nothing but requests begins.
LEMMA BeginsWell ==
    ASSUME BooksInv, NEW c \in Requests, NEW r \in Request, Begins(c, r), ledger' = ledger,
           doubled' \in BOOLEAN, repeated' \in SUBSET References
    PROVE  LedgerTypeOK' /\ Stories' /\ request[c] = Idle /\ request' = [request EXCEPT ![c] = r]
<1>1. LedgerTypeOK' BY LedgerAssumption DEF BooksInv, LedgerTypeOK, Begins, Served, Goes
<1>2. \A b \in Bookings : Story(b)'
  <2>1. TAKE b \in Bookings
  <2>2. Same(b) /\ Grow BY DEF Same, Grow, Begins
  <2> QED BY <2>2, SameStory DEF BooksInv, Stories
<1> QED BY <1>1, <1>2 DEF Stories, Begins, Goes

LEMMA SubmitKeeps ==
    ASSUME BooksInv, NEW c \in Requests, SubmitBooking(c)
    PROVE  BooksInv'
<1> DEFINE r == [op |-> "submit"]
<1>1. r \in Request /\ r # Idle BY MarksAssumption DEF Request
<1>2. NoRecent /\ Begins(c, r) /\ doubled' = (doubled \/ \E d \in Requests : request[d] = r) /\ repeated' = repeated
      /\ ledger' = ledger /\ booking' = booking
  BY DEF SubmitBooking, Begins
<1>3. LedgerTypeOK' /\ Stories' /\ request' = [request EXCEPT ![c] = r]
  <2>1. doubled' \in BOOLEAN /\ repeated' \in SUBSET References BY <1>2 DEF BooksInv, LedgerTypeOK
  <2> HIDE DEF r
  <2> QED BY <1>1, <1>2, <2>1, BeginsWell
<1>4. request \in [Requests -> Request \cup {Idle}] BY DEF BooksInv, LedgerTypeOK
<1>5. RequestsKnow' BY <1>3, <1>4 DEF BooksInv, RequestsKnow, Waits
<1>6. ReportsKnown'
  <2>1. \A ref \in References, d \in Requests :
          request'[d] = [op |-> "event", ref |-> ref] => request[d] = [op |-> "event", ref |-> ref]
    <3>1. \A ref \in References : [op |-> "event", ref |-> ref] # r BY Zenon
    <3> QED BY <1>3, <1>4, <3>1
  <2> QED BY <1>2, <2>1 DEF BooksInv, ReportsKnown, NotRecorded
<1>7. SubmissionsKnown'
  BY <1>2, <1>3, <1>4 DEF BooksInv, SubmissionsKnown, NoRecent, Listed
<1> QED BY <1>3, <1>5, <1>6, <1>7 DEF BooksInv

LEMMA WriteKeeps ==
    ASSUME BooksInv, NEW c \in Requests, NEW r \in Request, Begins(c, r), r.op = "write",
           r.field = "status" => r.was \in BookingStatus /\ r.to \in BookingStatus,
           r.field = "payment" => r.was \in PaymentTransactionStatus /\ r.to \in PaymentTransactionStatus,
           r.logged => r.field = "status" /\ r.to \in AllowedBookingTransitions[r.was],
           UNCHANGED <<repeated, doubled>>, UNCHANGED <<booking, ledger>>
    PROVE  BooksInv'
<1>1. doubled' \in BOOLEAN /\ repeated' \in SUBSET References BY DEF BooksInv, LedgerTypeOK
<1>2. LedgerTypeOK' /\ Stories' /\ request' = [request EXCEPT ![c] = r] BY <1>1, BeginsWell
<1>3. request \in [Requests -> Request \cup {Idle}] BY DEF BooksInv, LedgerTypeOK
<1>4. RequestsKnow' BY <1>2, <1>3 DEF BooksInv, RequestsKnow, Waits
<1>5. \A d \in Requests : request'[d] \in {request[d], r} BY <1>2, <1>3
<1>6. \A d \in Requests : \A x : x.op # "write" /\ request'[d] = x => request[d] = x BY <1>5
<1>7. ReportsKnown'
  <2>1. \A ref \in References, d \in Requests :
          request'[d] = [op |-> "event", ref |-> ref] => request[d] = [op |-> "event", ref |-> ref]
    BY <1>6
  <2> QED BY <2>1 DEF BooksInv, ReportsKnown, NotRecorded
<1>8. SubmissionsKnown'
  <2>1. \A d \in Requests : request'[d] = [op |-> "submit"] => request[d] = [op |-> "submit"] BY <1>6
  <2> QED BY <2>1 DEF BooksInv, SubmissionsKnown, NoRecent, Listed
<1> QED BY <1>2, <1>4, <1>7, <1>8 DEF BooksInv

LEMMA UpdateKeeps ==
    ASSUME BooksInv, NEW c \in Requests, NEW b \in Bookings, NEW who, NEW s \in BookingStatus,
           UpdateStatus(c, b, who, s)
    PROVE  BooksInv'
<1> DEFINE r == [op |-> "write", b |-> b, field |-> "status", was |-> booking[b].status, to |-> s, logged |-> TRUE]
<1>1. booking[b].status \in BookingStatus BY DEF UpdateStatus, BooksInv, LedgerTypeOK, Listed, Booking
<1>2. r \in Request /\ r.op = "write" /\ r.field = "status" /\ r.was = booking[b].status /\ r.to = s /\ r.logged
  BY <1>1 DEF Request
<1>3. Begins(c, r) /\ UNCHANGED <<repeated, doubled>> /\ UNCHANGED <<booking, ledger>>
      /\ s \in AllowedBookingTransitions[booking[b].status]
  BY DEF UpdateStatus, Begins
<1> HIDE DEF r
<1> QED BY <1>1, <1>2, <1>3, WriteKeeps

LEMMA EditKeeps ==
    ASSUME BooksInv, NEW c \in Requests, NEW b \in Bookings, NEW who, NEW field \in {"status", "payment"}, NEW v,
           v \in IF field = "status" THEN BookingStatus ELSE PaymentTransactionStatus,
           EditBooking(c, b, who, field, v)
    PROVE  BooksInv'
<1> DEFINE r == [op |-> "write", b |-> b, field |-> field, was |-> booking[b][field], to |-> v, logged |-> FALSE]
<1>1. booking[b][field] \in IF field = "status" THEN BookingStatus ELSE PaymentTransactionStatus
  BY DEF EditBooking, BooksInv, LedgerTypeOK, Listed, Booking
<1>2. r \in Request /\ r.op = "write" /\ r.field = field /\ r.was = booking[b][field] /\ r.to = v /\ ~r.logged
  BY <1>1 DEF Request
<1>3. Begins(c, r) /\ UNCHANGED <<repeated, doubled>> /\ UNCHANGED <<booking, ledger>>
  BY DEF EditBooking, Begins
<1> HIDE DEF r
<1> QED BY <1>1, <1>2, <1>3, WriteKeeps

LEMMA DeskKeeps ==
    ASSUME BooksInv, NEW c \in Requests, NEW b \in Bookings, NEW s \in BookingStatus, SetByDesk(c, b, s)
    PROVE  BooksInv'
<1> DEFINE r == [op |-> "write", b |-> b, field |-> "status", was |-> booking[b].status, to |-> s, logged |-> FALSE]
<1>1. booking[b].status \in BookingStatus BY DEF SetByDesk, BooksInv, LedgerTypeOK, Listed, Booking
<1>2. r \in Request /\ r.op = "write" /\ r.field = "status" /\ r.was = booking[b].status /\ r.to = s /\ ~r.logged
  BY <1>1 DEF Request
<1>3. Begins(c, r) /\ UNCHANGED <<repeated, doubled>> /\ UNCHANGED <<booking, ledger>>
  BY DEF SetByDesk, Begins
<1> HIDE DEF r
<1> QED BY <1>1, <1>2, <1>3, WriteKeeps

LEMMA CheckKeeps ==
    ASSUME BooksInv, NEW c \in Requests, NEW ref \in References, CheckWebhook(c, ref)
    PROVE  BooksInv'
<1> DEFINE r == [op |-> "event", ref |-> ref]
<1>1. r \in Request /\ r # Idle BY MarksAssumption DEF Request
<1>2. /\ NotRecorded(ref) /\ Begins(c, r) /\ doubled' = doubled /\ ledger' = ledger /\ booking' = booking
      /\ repeated' = IF \E d \in Requests : request[d] = r THEN repeated \cup {ref} ELSE repeated
  BY DEF CheckWebhook, Begins
<1>3. LedgerTypeOK' /\ Stories' /\ request' = [request EXCEPT ![c] = r]
  <2>1. doubled' \in BOOLEAN /\ repeated' \in SUBSET References BY <1>2 DEF BooksInv, LedgerTypeOK
  <2> HIDE DEF r
  <2> QED BY <1>1, <1>2, <2>1, BeginsWell
<1>4. request \in [Requests -> Request \cup {Idle}] BY DEF BooksInv, LedgerTypeOK
<1>5. RequestsKnow' BY <1>3, <1>4 DEF BooksInv, RequestsKnow, Waits
<1>6. ReportsKnown'
  <2>1. \A x \in References, d \in Requests \ {c} :
          request'[d] = [op |-> "event", ref |-> x] <=> request[d] = [op |-> "event", ref |-> x]
    BY <1>3, <1>4
  <2>2. \A x \in References \ {ref} : request'[c] # [op |-> "event", ref |-> x]
    BY <1>3, <1>4
  <2>3. NotRecorded(ref)' /\ \A x \in References : NotRecorded(x) => NotRecorded(x)' BY <1>2 DEF NotRecorded
  <2>4. repeated \subseteq repeated' BY <1>2
  <2>5. ref \notin repeated' => \A d \in Requests : request[d] # r BY <1>2
  <2>6. SUFFICES ASSUME NEW x \in References \ repeated'
        PROVE /\ \A d, e \in Requests :
                   request'[d] = [op |-> "event", ref |-> x] /\ request'[e] = [op |-> "event", ref |-> x] => d = e
              /\ (\E d \in Requests : request'[d] = [op |-> "event", ref |-> x]) => NotRecorded(x)'
              /\ \A b \in Bookings : \A i, j \in DOMAIN ledger'[b] :
                   ledger'[b][i].ref = x /\ ledger'[b][j].ref = x => i = j
    BY DEF ReportsKnown
  <2>7. CASE x = ref BY <1>2, <2>1, <2>3, <2>4, <2>5, <2>6, <2>7 DEF BooksInv, ReportsKnown
  <2>8. CASE x # ref BY <1>2, <2>1, <2>2, <2>3, <2>4, <2>6, <2>8 DEF BooksInv, ReportsKnown
  <2> QED BY <2>7, <2>8
<1>7. SubmissionsKnown'
  <2>1. [op |-> "submit"] # r BY Zenon
  <2>2. \A d \in Requests : request'[d] = [op |-> "submit"] => request[d] = [op |-> "submit"] BY <1>3, <1>4, <2>1
  <2> QED BY <1>2, <2>2 DEF BooksInv, SubmissionsKnown, NoRecent, Listed
<1> QED BY <1>3, <1>5, <1>6, <1>7 DEF BooksInv

\* A row that staff caused repeats nothing, and a report that is written is no longer at work.
LEMMA ReportsMore ==
    ASSUME LedgerTypeOK, ReportsKnown, Rests, repeated' = repeated, NEW b \in Bookings, NEW y \in LedgerRow,
           ledger' = [ledger EXCEPT ![b] = Append(@, y)],
           \/ y.ref = Manual
           \/ \E c \in Requests : request[c] = [op |-> "event", ref |-> y.ref] /\ request'[c] = Idle
    PROVE  ReportsKnown'
<1>0. \A ref \in References : [op |-> "event", ref |-> ref] # Idle BY MarksAssumption DEF Request
<1>1. /\ ledger'[b] = Append(ledger[b], y) /\ ledger[b] \in Seq(LedgerRow)
      /\ \A a \in Bookings \ {b} : ledger'[a] = ledger[a]
  BY DEF LedgerTypeOK
<1>2. /\ DOMAIN ledger'[b] = 1 .. Len(ledger[b]) + 1 /\ DOMAIN ledger[b] = 1 .. Len(ledger[b])
      /\ Len(ledger[b]) \in Nat
      /\ \A i \in 1 .. Len(ledger[b]) : ledger'[b][i] = ledger[b][i]
      /\ ledger'[b][Len(ledger[b]) + 1] = y
  BY <1>1, Longer
<1>3. SUFFICES ASSUME NEW ref \in References \ repeated
      PROVE /\ \A c, d \in Requests :
                 request'[c] = [op |-> "event", ref |-> ref] /\ request'[d] = [op |-> "event", ref |-> ref] => c = d
            /\ (\E c \in Requests : request'[c] = [op |-> "event", ref |-> ref]) => NotRecorded(ref)'
            /\ \A a \in Bookings : \A i, j \in DOMAIN ledger'[a] :
                 ledger'[a][i].ref = ref /\ ledger'[a][j].ref = ref => i = j
  BY DEF ReportsKnown
<1>4. \A c \in Requests : request'[c] = [op |-> "event", ref |-> ref] => request[c] = [op |-> "event", ref |-> ref]
  BY <1>0, <1>3 DEF Rests
<1>5. /\ \A c, d \in Requests :
           request[c] = [op |-> "event", ref |-> ref] /\ request[d] = [op |-> "event", ref |-> ref] => c = d
      /\ (\E c \in Requests : request[c] = [op |-> "event", ref |-> ref]) => NotRecorded(ref)
      /\ \A a \in Bookings : \A i, j \in DOMAIN ledger[a] :
           ledger[a][i].ref = ref /\ ledger[a][j].ref = ref => i = j
  BY DEF ReportsKnown
<1>6. CASE y.ref # ref
  <2>1. NotRecorded(ref) => NotRecorded(ref)' BY <1>1, <1>2, <1>6 DEF NotRecorded
  <2>2. ASSUME NEW a \in Bookings, NEW i \in DOMAIN ledger'[a], NEW j \in DOMAIN ledger'[a],
               ledger'[a][i].ref = ref, ledger'[a][j].ref = ref
        PROVE  i = j
    BY <1>1, <1>2, <1>5, <1>6, <2>2
  <2> QED BY <1>4, <1>5, <2>1, <2>2
<1>7. CASE y.ref = ref
  <2>1. PICK c \in Requests : request[c] = [op |-> "event", ref |-> ref] /\ request'[c] = Idle
    BY <1>7, LedgerAssumption
  <2>2. NotRecorded(ref) BY <2>1, <1>5
  <2>3. \A d \in Requests : request'[d] # [op |-> "event", ref |-> ref] BY <1>0, <1>4, <1>5, <2>1
  <2>4. ASSUME NEW a \in Bookings, NEW i \in DOMAIN ledger'[a], NEW j \in DOMAIN ledger'[a],
               ledger'[a][i].ref = ref, ledger'[a][j].ref = ref
        PROVE  i = j
    BY <1>1, <1>2, <2>2, <2>4 DEF NotRecorded
  <2> QED BY <2>3, <2>4
<1> QED BY <1>6, <1>7

\* One booking changes, and nobody comes.
LEMMA OneBooking ==
    ASSUME BooksInv, NEW b \in Bookings, Grow, Story(b)', \A a \in Bookings \ {b} : Same(a)
    PROVE  Stories'
<1>1. ASSUME NEW a \in Bookings PROVE Story(a)'
  <2>1. CASE a = b BY <2>1
  <2>2. CASE a # b BY <2>2, SameStory DEF BooksInv, Stories
  <2> QED BY <2>1, <2>2
<1> QED BY <1>1 DEF Stories

\* A booking is settled and its ledger grows, whoever does it.
LEMMA SettleKeeps ==
    ASSUME BooksInv, NEW b \in Bookings, NEW s, NEW p,
           <<s, p>> \in {<<"confirmed", "succeeded">>, <<"cancelled", "refunded">>},
           NEW ref \in References \cup {Manual},
           Listed(b), Settle(b, s, p), Record(b, p, ref), Rests,
           \/ ref = Manual
           \/ \E c \in Requests : request[c] = [op |-> "event", ref |-> ref] /\ request'[c] = Idle,
           request' \in [Requests -> Request \cup {Idle}], served' \in 0 .. MaxServed,
           UNCHANGED <<touched, raced, repeated, doubled>>
    PROVE  BooksInv'
<1> DEFINE y == [status |-> p, ref |-> ref]
           x == [old |-> booking[b].status, new |-> s]
<1>1. booking[b] \in Booking /\ booking \in [Bookings -> Booking \cup {None, Gone}]
      /\ trail \in [Bookings -> Seq(TrailRow)] /\ ledger \in [Bookings -> Seq(LedgerRow)]
      /\ s \in BookingStatus /\ p \in PaymentTransactionStatus
  BY DEF BooksInv, LedgerTypeOK, Listed, BookingStatus, PaymentTransactionStatus
<1>2. y \in LedgerRow /\ y.ref = ref /\ x \in TrailRow BY <1>1 DEF LedgerRow, TrailRow, Booking
<1>3. /\ booking' = [booking EXCEPT ![b] = [@ EXCEPT !.status = s, !.payment = p]]
      /\ trail' = [trail EXCEPT ![b] = Append(@, x)] /\ ledger' = [ledger EXCEPT ![b] = Append(@, y)]
  BY DEF Settle, Record, OldStatus
<1>4. /\ booking'[b] = [booking[b] EXCEPT !.status = s, !.payment = p]
      /\ trail'[b] = Append(trail[b], x) /\ ledger'[b] = Append(ledger[b], y)
      /\ \A a \in Bookings \ {b} : Same(a)
  BY <1>1, <1>3 DEF Same
<1>5. booking'[b] \in Booking /\ booking'[b].status = s /\ booking'[b].payment = p /\ booking'[b].age = booking[b].age
  BY <1>1, <1>4 DEF Booking
<1>6. booking' \in [Bookings -> Booking \cup {None, Gone}]
  <2> DEFINE v == [booking[b] EXCEPT !.status = s, !.payment = p]
  <2>1. booking' = [booking EXCEPT ![b] = v] /\ v \in Booking BY <1>3, <1>4, <1>5
  <2> HIDE DEF v
  <2> QED BY <1>1, <2>1
<1>7. trail' \in [Bookings -> Seq(TrailRow)]
  <2> HIDE DEF x
  <2> QED BY <1>1, <1>2, <1>3
<1>8. ledger' \in [Bookings -> Seq(LedgerRow)]
  <2> HIDE DEF y
  <2> QED BY <1>1, <1>2, <1>3
<1>9. LedgerTypeOK' BY <1>6, <1>7, <1>8 DEF BooksInv, LedgerTypeOK
<1>10. Story(b)'
  <2>1. Story(b) /\ LedgerTypeOK /\ Keep BY DEF BooksInv, Stories, Keep
  <2>2. /\ trail'[b] = Append(trail[b], [old |-> booking[b].status, new |-> s])
        /\ ledger'[b] = Append(ledger[b], [status |-> p, ref |-> ref])
    BY <1>4
  <2>3. booking'[b] \in Booking /\ booking'[b].status = s /\ booking'[b].payment = p BY <1>5
  <2> HIDE DEF x, y
  <2> QED BY <2>1, <2>2, <2>3, SettledStory
<1>11. Stories' BY <1>4, <1>10, OneBooking DEF Grow
<1>12. RequestsKnow' BY RestsKnow DEF BooksInv
<1>13. ReportsKnown'
  <2> HIDE DEF y
  <2> QED BY <1>2, <1>3, ReportsMore DEF BooksInv
<1>14. SubmissionsKnown'
  <2>1. \A a \in Bookings : Listed(a)' /\ booking'[a].age = "new" => Listed(a) /\ booking[a].age = "new"
    BY <1>4, <1>5 DEF Same, Listed
  <2> QED BY <2>1, SubmissionsRest DEF BooksInv
<1> QED BY <1>9, <1>11, <1>12, <1>13, <1>14 DEF BooksInv

LEMMA PaidKeeps ==
    ASSUME BooksInv, NEW b \in Bookings, MarkAsPaid(b)
    PROVE  BooksInv'
<1>1. Rests /\ request' \in [Requests -> Request \cup {Idle}] /\ served' \in 0 .. MaxServed
  BY LedgerAssumption DEF MarkAsPaid, Served, Rests, BooksInv, LedgerTypeOK
<1>0. <<"confirmed", "succeeded">> \in {<<"confirmed", "succeeded">>, <<"cancelled", "refunded">>}
  OBVIOUS
<1>a. PICK ref \in References \cup {Manual} : ref = Manual OBVIOUS
<1>c. \/ ref = Manual
      \/ \E c \in Requests : request[c] = [op |-> "event", ref |-> ref] /\ request'[c] = Idle
  BY <1>a
<1>2. Settle(b, "confirmed", "succeeded") /\ Record(b, "succeeded", ref) /\ Listed(b)
      /\ UNCHANGED <<touched, raced, repeated, doubled>>
  BY <1>a DEF MarkAsPaid
<1> QED BY <1>c, <1>0, <1>1, <1>2, SettleKeeps, SMTT(60)

LEMMA RefundKeeps ==
    ASSUME BooksInv, NEW b \in Bookings, ProcessRefund(b)
    PROVE  BooksInv'
<1>1. Rests /\ request' \in [Requests -> Request \cup {Idle}] /\ served' \in 0 .. MaxServed
  BY LedgerAssumption DEF ProcessRefund, Served, Rests, BooksInv, LedgerTypeOK
<1>0. <<"cancelled", "refunded">> \in {<<"confirmed", "succeeded">>, <<"cancelled", "refunded">>}
  OBVIOUS
<1>a. PICK ref \in References \cup {Manual} : ref = Manual OBVIOUS
<1>c. \/ ref = Manual
      \/ \E c \in Requests : request[c] = [op |-> "event", ref |-> ref] /\ request'[c] = Idle
  BY <1>a
<1>2. Settle(b, "cancelled", "refunded") /\ Record(b, "refunded", ref) /\ Listed(b)
      /\ UNCHANGED <<touched, raced, repeated, doubled>>
  BY <1>a DEF ProcessRefund, RefundedStatus
<1> QED BY <1>c, <1>0, <1>1, <1>2, SettleKeeps, SMTT(60)

\* A request ends without a change of any booking.
LEMMA EndKeeps ==
    ASSUME BooksInv, NEW c \in Requests, Goes(c, Idle), UNCHANGED <<booking, trail, ledger, history>>
    PROVE  BooksInv'
<1>1. Rests /\ request' \in [Requests -> Request \cup {Idle}] BY DEF BooksInv, LedgerTypeOK, Goes, Rests
<1>2. LedgerTypeOK' BY <1>1 DEF BooksInv, LedgerTypeOK, history
<1>3. Stories'
  <2>1. \A a \in Bookings : Same(a) BY DEF Same
  <2>2. Grow BY DEF Grow, history
  <2> QED BY <2>1, <2>2, SameStory DEF BooksInv, Stories
<1>4. ReportsKnown' BY <1>1, ReportsRest DEF BooksInv, history
<1>5. SubmissionsKnown'
  <2>1. \A a \in Bookings : Listed(a)' /\ booking'[a].age = "new" => Listed(a) /\ booking[a].age = "new"
    BY DEF Listed
  <2> QED BY <1>1, <2>1, SubmissionsRest DEF BooksInv, history
<1> QED BY <1>1, <1>2, <1>3, <1>4, <1>5, RestsKnow DEF BooksInv

LEMMA WebhookKeeps ==
    ASSUME BooksInv, NEW c \in Requests, HandleWebhook(c)
    PROVE  BooksInv'
<1>1. request[c] \in Request /\ request[c].op = "event" BY DEF HandleWebhook, BooksInv, LedgerTypeOK
<1>2. PICK ref \in References : request[c] = [op |-> "event", ref |-> ref] BY <1>1 DEF Request
<1>3. PICK b \in Bookings : b = Reported[ref].booking /\ Reported[ref].status \in {"succeeded", "failed"}
  BY <1>2, LedgerAssumption
<1>0. request[c].ref = ref /\ <<"confirmed", "succeeded">> \in {<<"confirmed", "succeeded">>, <<"cancelled", "refunded">>}
  BY <1>2
<1>4. Rests /\ request' \in [Requests -> Request \cup {Idle}] /\ request'[c] = Idle
  BY DEF HandleWebhook, Goes, Rests, BooksInv, LedgerTypeOK
<1>5. UNCHANGED <<touched, raced, repeated, doubled, served>> /\ served' \in 0 .. MaxServed
  BY DEF HandleWebhook, history, BooksInv, LedgerTypeOK
<1>6. CASE ~Listed(b)
  <2>1. Goes(c, Idle) /\ UNCHANGED <<booking, trail, ledger, history>> BY <1>0, <1>3, <1>6 DEF HandleWebhook
  <2> QED BY <2>1, EndKeeps
<1>7. CASE Listed(b) /\ Reported[ref].status = "succeeded"
  <2>1. Settle(b, "confirmed", "succeeded") /\ Record(b, "succeeded", ref) BY <1>0, <1>3, <1>7 DEF HandleWebhook
  <2> QED BY <1>0, <1>2, <1>3, <1>4, <1>5, <1>7, <2>1, SettleKeeps
<1>8. CASE Listed(b) /\ Reported[ref].status = "failed"
  <2>1. UNCHANGED <<booking, trail>> /\ Record(b, "failed", ref) BY <1>0, <1>3, <1>8 DEF HandleWebhook
  <2> DEFINE y == [status |-> "failed", ref |-> ref]
  <2>2. y \in LedgerRow /\ y.ref = ref BY <1>2 DEF LedgerRow, PaymentTransactionStatus
  <2>3. ledger' = [ledger EXCEPT ![b] = Append(@, y)] BY <2>1 DEF Record
  <2>4. ledger \in [Bookings -> Seq(LedgerRow)] BY DEF BooksInv, LedgerTypeOK
  <2>5. ledger'[b] = Append(ledger[b], [status |-> "failed", ref |-> ref]) /\ \A a \in Bookings \ {b} : Same(a)
    BY <1>3, <2>1, <2>3, <2>4 DEF Same
  <2>6. Story(b)'
    <3>1. Story(b) /\ LedgerTypeOK /\ Keep BY <1>3, <1>5 DEF BooksInv, Stories, Keep
    <3>2. booking'[b] = booking[b] /\ trail'[b] = trail[b] BY <2>1
    <3> QED BY <1>2, <1>3, <1>8, <2>5, <3>1, <3>2, FailedStory
  <2>7. Stories' BY <1>3, <1>5, <2>5, <2>6, OneBooking DEF Grow
  <2> HIDE DEF y
  <2>8. LedgerTypeOK' BY <1>3, <1>4, <1>5, <2>1, <2>2, <2>3, <2>4 DEF BooksInv, LedgerTypeOK
  <2>9. ReportsKnown' BY <1>2, <1>3, <1>4, <1>5, <2>2, <2>3, ReportsMore DEF BooksInv
  <2>10. SubmissionsKnown'
    <3>1. \A a \in Bookings : Listed(a)' /\ booking'[a].age = "new" => Listed(a) /\ booking[a].age = "new"
      BY <2>1 DEF Listed
    <3> QED BY <1>4, <1>5, <3>1, SubmissionsRest DEF BooksInv
  <2> QED BY <1>4, <2>7, <2>8, <2>9, <2>10, RestsKnow DEF BooksInv
<1> QED BY <1>3, <1>6, <1>7, <1>8

LEMMA WrittenKeeps ==
    ASSUME BooksInv, NEW c \in Requests, CommitWrite(c)
    PROVE  BooksInv'
<1>0. PICK r : r = request[c] OBVIOUS
<1>a. PICK b : b = r.b OBVIOUS
<1>b. PICK f : f = r.field OBVIOUS
<1>1. r \in Request /\ Waits(c, "write") BY <1>0 DEF CommitWrite, BooksInv, LedgerTypeOK, Waits
<1>2. /\ b \in Bookings /\ f \in {"status", "payment"} /\ r.logged \in BOOLEAN
      /\ f = "status" => r.was \in BookingStatus /\ r.to \in BookingStatus
      /\ f = "payment" => r.was \in PaymentTransactionStatus /\ r.to \in PaymentTransactionStatus
      /\ r.logged => f = "status" /\ r.to \in AllowedBookingTransitions[r.was]
  <2>1. b \in Bookings /\ f \in {"status", "payment"} /\ r.logged \in BOOLEAN BY <1>0, <1>a, <1>b, <1>1 DEF Request, Waits
  <2> QED BY <1>0, <1>a, <1>b, <1>1, <2>1 DEF BooksInv, RequestsKnow
<1>3. Goes(c, Idle) /\ ledger' = ledger /\ repeated' = repeated /\ doubled' = doubled /\ served' = served
  BY DEF CommitWrite
<1>4. Rests /\ request' \in [Requests -> Request \cup {Idle}]
  BY <1>3 DEF Goes, Rests, BooksInv, LedgerTypeOK
<1>5. CASE ~Listed(b) \/ r.was = r.to
  <2>1. UNCHANGED <<booking, trail, ledger, history>> BY <1>0, <1>a, <1>3, <1>5 DEF CommitWrite, history
  <2> QED BY <1>3, <2>1, EndKeeps
<1>6. CASE Listed(b) /\ r.was # r.to
  <2>1. /\ booking' = [booking EXCEPT ![b][f] = r.to]
        /\ trail' = IF r.logged THEN [trail EXCEPT ![b] = Append(@, [old |-> r.was, new |-> r.to])] ELSE trail
        /\ touched' = IF r.logged THEN touched ELSE touched \cup {b}
        /\ raced' = IF booking[b][f] = r.was THEN raced ELSE raced \cup {b}
    BY <1>0, <1>a, <1>b, <1>6 DEF CommitWrite
  <2>2. booking \in [Bookings -> Booking \cup {None, Gone}] /\ booking[b] \in Booking
        /\ trail \in [Bookings -> Seq(TrailRow)]
    BY <1>2, <1>6 DEF BooksInv, LedgerTypeOK, Listed
  <2>3. /\ booking'[b] \in Booking /\ booking'[b].age = booking[b].age
        /\ booking'[b].status = IF f = "status" THEN r.to ELSE booking[b].status
        /\ f = "status" => booking'[b].payment = booking[b].payment /\ booking[b].status = booking[b][f]
        /\ booking' \in [Bookings -> Booking \cup {None, Gone}]
        /\ \A a \in Bookings \ {b} : booking'[a] = booking[a]
    <3>1. CASE f = "status"
      <4> DEFINE v == [booking[b] EXCEPT !.status = r.to]
      <4>1. booking' = [booking EXCEPT ![b] = v] BY <2>1, <3>1
      <4>2. v \in Booking /\ v.status = r.to /\ v.payment = booking[b].payment /\ v.age = booking[b].age
            /\ booking[b].status = booking[b][f]
        BY <1>2, <2>2, <3>1 DEF Booking
      <4> HIDE DEF v
      <4> QED BY <1>2, <2>2, <3>1, <4>1, <4>2
    <3>2. CASE f = "payment"
      <4> DEFINE v == [booking[b] EXCEPT !.payment = r.to]
      <4>1. booking' = [booking EXCEPT ![b] = v] BY <2>1, <3>2
      <4>2. v \in Booking /\ v.status = booking[b].status /\ v.age = booking[b].age
        BY <1>2, <2>2, <3>2 DEF Booking
      <4> HIDE DEF v
      <4> QED BY <1>2, <2>2, <3>2, <4>1, <4>2
    <3> QED BY <1>2, <3>1, <3>2
  <2>4. trail' \in [Bookings -> Seq(TrailRow)]
    <3>1. CASE ~r.logged BY <2>1, <2>2, <3>1
    <3>2. CASE r.logged
      <4> DEFINE x == [old |-> r.was, new |-> r.to]
      <4>1. x \in TrailRow /\ trail' = [trail EXCEPT ![b] = Append(@, x)] BY <1>2, <2>1, <3>2 DEF TrailRow
      <4> HIDE DEF x
      <4> QED BY <1>2, <2>2, <4>1
    <3> QED BY <3>1, <3>2
  <2>5. LedgerTypeOK' BY <1>2, <1>3, <1>4, <2>1, <2>3, <2>4 DEF BooksInv, LedgerTypeOK
  <2>6. \A a \in Bookings \ {b} : Same(a) BY <1>2, <1>3, <2>1, <2>2, <2>3 DEF Same
  <2>7. Story(b)'
    <3>1. CASE ~r.logged BY <1>2, <2>1, <2>3, <3>1, TouchedStory
    <3>2. CASE r.logged
      <4>1. /\ f = "status" /\ r.was \in BookingStatus /\ r.to \in AllowedBookingTransitions[r.was]
            /\ LedgerTypeOK /\ Story(b) /\ touched' = touched /\ ledger'[b] = ledger[b]
        BY <1>2, <1>3, <2>1, <3>2 DEF BooksInv, Stories
      <4>2. trail'[b] = Append(trail[b], [old |-> r.was, new |-> r.to]) BY <1>2, <2>1, <2>2, <3>2
      <4>3. raced' = IF booking[b].status = r.was THEN raced ELSE raced \cup {b} BY <2>1, <2>3, <4>1
      <4> QED BY <1>2, <1>6, <2>3, <4>1, <4>2, <4>3, ChangedStory
    <3> QED BY <3>1, <3>2
  <2>8. Stories' BY <1>2, <2>1, <2>6, <2>7, OneBooking DEF Grow
  <2>9. ReportsKnown' BY <1>3, <1>4, ReportsRest DEF BooksInv
  <2>10. SubmissionsKnown'
    <3>1. \A a \in Bookings : Listed(a)' /\ booking'[a].age = "new" => Listed(a) /\ booking[a].age = "new"
      BY <1>6, <2>3 DEF Listed
    <3> QED BY <1>3, <1>4, <3>1, SubmissionsRest DEF BooksInv
  <2> QED BY <1>4, <2>5, <2>8, <2>9, <2>10, RestsKnow DEF BooksInv
<1> QED BY <1>5, <1>6

LEMMA CreateKeeps ==
    ASSUME BooksInv, NEW c \in Requests, NEW b \in Bookings, CreateBooking(c, b)
    PROVE  BooksInv'
<1>1. PICK s \in BookingStatus, v \in Booking :
        /\ v.status = s /\ v.payment = "pending"
        /\ booking' = [booking EXCEPT ![b] = v]
        /\ trail' = [trail EXCEPT ![b] = <<[old |-> None, new |-> s]>>]
  <2>1. PICK bank \in BOOLEAN :
          /\ booking' = [booking EXCEPT ![b] = [status |-> InitialStatus(bank), payment |-> "pending",
                                                bank |-> bank, age |-> "new"]]
          /\ trail' = [trail EXCEPT ![b] = <<[old |-> None, new |-> InitialStatus(bank)]>>]
    BY DEF CreateBooking
  <2> DEFINE s == InitialStatus(bank)
             v == [status |-> s, payment |-> "pending", bank |-> bank, age |-> "new"]
  <2>2. s \in BookingStatus BY DEF InitialStatus, BookingStatus
  <2>3. v \in Booking /\ v.status = s /\ v.payment = "pending"
    <3> HIDE DEF s
    <3> QED BY <2>2 DEF Booking, PaymentTransactionStatus
  <2> HIDE DEF s
  <2> QED BY <2>1, <2>2, <2>3 DEF s
<1>2. /\ Goes(c, Idle) /\ ledger' = ledger /\ UNCHANGED <<touched, raced, repeated, doubled, served>>
      /\ booking[b] = None /\ request[c] = [op |-> "submit"]
  BY DEF CreateBooking, history
<1>3. /\ booking \in [Bookings -> Booking \cup {None, Gone}] /\ trail \in [Bookings -> Seq(TrailRow)]
      /\ request \in [Requests -> Request \cup {Idle}]
  BY DEF BooksInv, LedgerTypeOK
<1>4. Rests /\ request' \in [Requests -> Request \cup {Idle}] /\ request'[c] = Idle
  BY <1>2, <1>3 DEF Goes, Rests
<1>5. /\ booking'[b] = v /\ trail'[b] = <<[old |-> None, new |-> s]>> /\ ledger'[b] = ledger[b]
      /\ booking' \in [Bookings -> Booking \cup {None, Gone}] /\ trail' \in [Bookings -> Seq(TrailRow)]
      /\ \A a \in Bookings \ {b} : Same(a)
  <2> DEFINE x == [old |-> None, new |-> s]
  <2>1. x \in TrailRow BY DEF TrailRow
  <2> HIDE DEF x
  <2>2. <<x>> \in Seq(TrailRow) BY <2>1
  <2>3. trail' = [trail EXCEPT ![b] = <<x>>] BY <1>1 DEF x
  <2>4. trail' \in [Bookings -> Seq(TrailRow)] /\ trail'[b] = <<x>> BY <1>3, <2>2, <2>3
  <2>5. trail'[b] = <<[old |-> None, new |-> s]>> BY <2>4 DEF x
  <2>6. \A a \in Bookings \ {b} : Same(a) BY <1>1, <1>2, <1>3, <2>3 DEF Same
  <2> QED BY <1>1, <1>2, <1>3, <2>4, <2>5, <2>6
<1>6. LedgerTypeOK' BY <1>2, <1>4, <1>5 DEF BooksInv, LedgerTypeOK
<1>7. Story(b)'
  <2>1. Story(b) /\ ~Listed(b) /\ Keep BY <1>2 DEF BooksInv, Stories, Listed, Keep
  <2>2. booking'[b] \in Booking /\ booking'[b].status = s /\ booking'[b].payment = "pending" BY <1>1, <1>5
  <2> QED BY <1>5, <2>1, <2>2, CreatedStory
<1>8. Stories' BY <1>2, <1>5, <1>7, OneBooking DEF Grow
<1>9. ReportsKnown' BY <1>2, <1>4, ReportsRest DEF BooksInv
<1>10. SubmissionsKnown'
  <2>1. SUFFICES ASSUME ~doubled PROVE SubmissionsKnown' BY <1>2 DEF SubmissionsKnown
  <2>2. NoRecent /\ \A d \in Requests : request[d] = [op |-> "submit"] => d = c
    BY <1>2, <2>1 DEF BooksInv, SubmissionsKnown
  <2>3. [op |-> "submit"] # Idle BY MarksAssumption DEF Request
  <2>4. \A d \in Requests : request'[d] # [op |-> "submit"]
    BY <1>4, <2>2, <2>3 DEF Rests
  <2>5. \A a \in Bookings \ {b} : Listed(a)' => booking'[a].age # "new"
    BY <1>5, <2>2 DEF NoRecent, Listed, Same
  <2> QED BY <2>4, <2>5 DEF SubmissionsKnown
<1> QED BY <1>4, <1>6, <1>8, <1>9, <1>10, RestsKnow DEF BooksInv

LEMMA OlderKeeps ==
    ASSUME BooksInv, NEW b \in Bookings, GrowOlder(b)
    PROVE  BooksInv'
<1>1. booking \in [Bookings -> Booking \cup {None, Gone}] /\ booking[b] \in Booking
  BY DEF BooksInv, LedgerTypeOK, GrowOlder, Listed
<1>2. UNCHANGED <<trail, ledger, request, touched, raced, repeated, doubled, served>> /\ Listed(b)
  BY DEF GrowOlder, history
<1> DEFINE v == [booking[b] EXCEPT !.age = IF @ = "new" THEN "young" ELSE "overdue"]
<1>3. booking' = [booking EXCEPT ![b] = v] BY DEF GrowOlder
<1>4. v \in Booking /\ v.status = booking[b].status /\ v.payment = booking[b].payment /\ v.age # "new"
  BY <1>1 DEF Booking
<1> HIDE DEF v
<1>5. booking' \in [Bookings -> Booking \cup {None, Gone}] /\ booking'[b] = v
      /\ \A a \in Bookings \ {b} : booking'[a] = booking[a]
  BY <1>1, <1>3, <1>4
<1>6. LedgerTypeOK' BY <1>2, <1>5 DEF BooksInv, LedgerTypeOK
<1>7. Story(b)'
  <2>1. Story(b) /\ Keep /\ trail'[b] = trail[b] /\ ledger'[b] = ledger[b] BY <1>2 DEF BooksInv, Stories, Keep
  <2>2. booking'[b] \in Booking /\ booking'[b].status = booking[b].status /\ booking'[b].payment = booking[b].payment
    BY <1>4, <1>5
  <2> QED BY <1>1, <1>2, <2>1, <2>2, AgedStory
<1>8. Stories'
  <2>1. \A a \in Bookings \ {b} : Same(a) BY <1>2, <1>5 DEF Same
  <2> QED BY <1>2, <1>7, <2>1, OneBooking DEF Grow
<1>9. Rests BY <1>2 DEF Rests
<1>10. ReportsKnown' BY <1>2, <1>9, ReportsRest DEF BooksInv
<1>11. SubmissionsKnown'
  <2>1. \A a \in Bookings : Listed(a)' /\ booking'[a].age = "new" => Listed(a) /\ booking[a].age = "new"
    BY <1>4, <1>5 DEF Listed
  <2> QED BY <1>2, <1>9, <2>1, SubmissionsRest DEF BooksInv
<1> QED BY <1>6, <1>8, <1>9, <1>10, <1>11, RestsKnow DEF BooksInv

LEMMA DeleteKeeps ==
    ASSUME BooksInv, NEW b \in Bookings, DeleteBooking(b)
    PROVE  BooksInv'
<1>1. /\ booking' = [booking EXCEPT ![b] = Gone] /\ trail' = [trail EXCEPT ![b] = <<>>]
      /\ ledger' = [ledger EXCEPT ![b] = <<>>] /\ UNCHANGED <<request, touched, raced, repeated, doubled>>
      /\ served' \in 0 .. MaxServed
  BY LedgerAssumption DEF DeleteBooking, Served, BooksInv, LedgerTypeOK
<1>2. /\ booking \in [Bookings -> Booking \cup {None, Gone}] /\ trail \in [Bookings -> Seq(TrailRow)]
      /\ ledger \in [Bookings -> Seq(LedgerRow)]
  BY DEF BooksInv, LedgerTypeOK
<1>3. LedgerTypeOK' BY <1>1, <1>2 DEF BooksInv, LedgerTypeOK
<1>4. booking'[b] = Gone /\ ledger'[b] = <<>> /\ \A a \in Bookings \ {b} : Same(a)
  BY <1>1, <1>2 DEF Same
<1>5. Story(b)' BY <1>4, GoneStory
<1>6. Stories' BY <1>1, <1>4, <1>5, OneBooking DEF Grow
<1>7. Rests BY <1>1 DEF Rests
<1>8. ReportsKnown'
  <2>1. \A a \in Bookings : ledger'[a] = ledger[a] \/ ledger'[a] = <<>> BY <1>4 DEF Same
  <2> QED BY <1>1, <1>7, <2>1, ReportsRest DEF BooksInv
<1>9. SubmissionsKnown'
  <2>1. \A a \in Bookings : Listed(a)' /\ booking'[a].age = "new" => Listed(a) /\ booking[a].age = "new"
    BY <1>4 DEF Listed, Same
  <2> QED BY <1>1, <1>7, <2>1, SubmissionsRest DEF BooksInv
<1> QED BY <1>3, <1>6, <1>7, <1>8, <1>9, RestsKnow DEF BooksInv

LEMMA ReleaseKeeps ==
    ASSUME BooksInv, ReleaseExpiredHolds
    PROVE  BooksInv'
<1>1. UNCHANGED <<ledger, request, touched, raced, repeated, doubled, served>>
  BY DEF ReleaseExpiredHolds, history
<1>2. booking \in [Bookings -> Booking \cup {None, Gone}] /\ trail \in [Bookings -> Seq(TrailRow)]
  BY DEF BooksInv, LedgerTypeOK
<1>3. ASSUME NEW b \in Bookings, b \in ExpiredHolds
      PROVE  /\ booking[b] \in Booking /\ Listed(b) /\ StillPending(b)
             /\ booking'[b] \in Booking /\ booking'[b].status = "expired" /\ booking'[b].payment = "failed"
             /\ booking'[b].age = booking[b].age
             /\ trail'[b] = Append(trail[b], [old |-> booking[b].status, new |-> "expired"])
             /\ trail'[b] \in Seq(TrailRow)
  <2>1. booking[b] \in Booking /\ Listed(b) /\ StillPending(b) BY <1>2, <1>3 DEF ExpiredHolds, Listed
  <2>2. booking'[b] = [booking[b] EXCEPT !.status = "expired", !.payment = "failed"]
    BY <1>3 DEF ReleaseExpiredHolds
  <2>3. booking'[b] \in Booking /\ booking'[b].status = "expired" /\ booking'[b].payment = "failed"
        /\ booking'[b].age = booking[b].age
    BY <2>1, <2>2 DEF Booking, BookingStatus, PaymentTransactionStatus
  <2>4. trail'[b] = Append(trail[b], [old |-> booking[b].status, new |-> "expired"])
    BY <1>3 DEF ReleaseExpiredHolds, OldStatus
  <2> DEFINE x == [old |-> booking[b].status, new |-> "expired"]
  <2>5. x \in TrailRow BY <2>1 DEF TrailRow, BookingStatus, StillPending
  <2>6. trail'[b] = Append(trail[b], x) BY <2>4
  <2> HIDE DEF x
  <2>7. trail'[b] \in Seq(TrailRow) BY <1>2, <2>5, <2>6
  <2> QED BY <2>1, <2>3, <2>4, <2>7
<1>4. ASSUME NEW b \in Bookings, b \notin ExpiredHolds PROVE Same(b)
  BY <1>1, <1>4 DEF ReleaseExpiredHolds, Same
<1>5. booking' \in [Bookings -> Booking \cup {None, Gone}] /\ trail' \in [Bookings -> Seq(TrailRow)]
  <2>1. \A b \in Bookings : booking'[b] \in Booking \cup {None, Gone} /\ trail'[b] \in Seq(TrailRow)
    BY <1>2, <1>3, <1>4 DEF Same
  <2>2. booking' = [b \in Bookings |-> booking'[b]] /\ trail' = [b \in Bookings |-> trail'[b]]
    BY DEF ReleaseExpiredHolds
  <2> QED BY <2>1, <2>2
<1>6. LedgerTypeOK' BY <1>1, <1>5 DEF BooksInv, LedgerTypeOK
<1>7. Stories'
  <2>1. ASSUME NEW b \in Bookings PROVE Story(b)'
    <3>1. LedgerTypeOK /\ Story(b) /\ Keep /\ Grow /\ ledger'[b] = ledger[b] BY <1>1 DEF BooksInv, Stories, Keep, Grow
    <3>2. CASE b \in ExpiredHolds BY <1>3, <3>1, <3>2, ExpiredStory
    <3>3. CASE b \notin ExpiredHolds BY <1>4, <3>1, <3>3, SameStory
    <3> QED BY <3>2, <3>3
  <2> QED BY <2>1 DEF Stories
<1>8. Rests BY <1>1 DEF Rests
<1>9. ReportsKnown' BY <1>1, <1>8, ReportsRest DEF BooksInv
<1>10. SubmissionsKnown'
  <2>1. \A a \in Bookings : Listed(a)' /\ booking'[a].age = "new" => Listed(a) /\ booking[a].age = "new"
    BY <1>3, <1>4 DEF Listed, Same
  <2> QED BY <1>1, <1>8, <2>1, SubmissionsRest DEF BooksInv
<1> QED BY <1>6, <1>7, <1>8, <1>9, <1>10, RestsKnow DEF BooksInv

LEMMA BooksStep ==
    ASSUME BooksInv, [NextLedger]_ledgerVars
    PROVE  BooksInv'
<1>1. ASSUME NEW c \in Requests,
             SubmitBooking(c) \/ RefuseBooking(c) \/ CommitWrite(c) \/ HandleWebhook(c)
             \/ \E ref \in References : CheckWebhook(c, ref)
      PROVE  BooksInv'
  <2>1. RefuseBooking(c) => BooksInv' BY EndKeeps DEF RefuseBooking
  <2> QED BY <1>1, <2>1, SubmitKeeps, WrittenKeeps, WebhookKeeps, CheckKeeps
<1>2. ASSUME NEW c \in Requests, NEW b \in Bookings,
             \/ CreateBooking(c, b)
             \/ \E s \in BookingStatus, who \in {"owner", "staff"} : UpdateStatus(c, b, who, s)
             \/ \E s \in EditedStatuses, who \in {"owner", "admin"} : EditBooking(c, b, who, "status", s)
             \/ \E s \in EditedPayments, who \in {"owner", "admin"} : EditBooking(c, b, who, "payment", s)
             \/ \E s \in {"pending", "confirmed", "cancelled"} : SetByDesk(c, b, s)
      PROVE  BooksInv'
  <2>1. CASE CreateBooking(c, b) BY <2>1, CreateKeeps
  <2>2. CASE \E s \in BookingStatus, who \in {"owner", "staff"} : UpdateStatus(c, b, who, s)
    BY <2>2, UpdateKeeps
  <2>3. CASE \E s \in EditedStatuses, who \in {"owner", "admin"} : EditBooking(c, b, who, "status", s)
    BY <2>3, EditKeeps, LedgerAssumption
  <2>4. CASE \E s \in EditedPayments, who \in {"owner", "admin"} : EditBooking(c, b, who, "payment", s)
    BY <2>4, EditKeeps, LedgerAssumption
  <2>5. CASE \E s \in {"pending", "confirmed", "cancelled"} : SetByDesk(c, b, s)
    BY <2>5, DeskKeeps DEF BookingStatus
  <2> QED BY <1>2, <2>1, <2>2, <2>3, <2>4, <2>5
<1>3. ASSUME NEW b \in Bookings, GrowOlder(b) \/ DeleteBooking(b) \/ MarkAsPaid(b) \/ ProcessRefund(b)
      PROVE  BooksInv'
  BY <1>3, OlderKeeps, DeleteKeeps, PaidKeeps, RefundKeeps
<1>4. CASE ReleaseExpiredHolds BY <1>4, ReleaseKeeps
<1>5. CASE UNCHANGED ledgerVars
  <2>1. UNCHANGED <<booking, trail, ledger, request, touched, raced, repeated, doubled, served>> BY <1>5 DEF ledgerVars
  <2>2. LedgerTypeOK' BY <2>1 DEF BooksInv, LedgerTypeOK
  <2>3. Stories'
    <3>1. Grow /\ \A b \in Bookings : Same(b) BY <2>1 DEF Same, Grow
    <3> QED BY <3>1, SameStory DEF BooksInv, Stories
  <2>4. Rests BY <2>1 DEF Rests
  <2>5. ReportsKnown' BY <2>1, <2>4, ReportsRest DEF BooksInv
  <2>6. SubmissionsKnown'
    <3>1. \A b \in Bookings : Listed(b)' /\ booking'[b].age = "new" => Listed(b) /\ booking[b].age = "new"
      BY <2>1 DEF Listed
    <3> QED BY <2>1, <2>4, <3>1, SubmissionsRest DEF BooksInv
  <2> QED BY <2>2, <2>3, <2>4, <2>5, <2>6, RestsKnow DEF BooksInv
<1>6. CASE NextLedger
  <2>1. CASE \E c \in Requests :
               \/ SubmitBooking(c) \/ RefuseBooking(c) \/ CommitWrite(c) \/ HandleWebhook(c)
               \/ \E ref \in References : CheckWebhook(c, ref)
    BY <1>1, <2>1
  <2>2. CASE \E c \in Requests, b \in Bookings :
               \/ CreateBooking(c, b)
               \/ \E s \in BookingStatus, who \in {"owner", "staff"} : UpdateStatus(c, b, who, s)
               \/ \E s \in EditedStatuses, who \in {"owner", "admin"} : EditBooking(c, b, who, "status", s)
               \/ \E s \in EditedPayments, who \in {"owner", "admin"} : EditBooking(c, b, who, "payment", s)
               \/ \E s \in {"pending", "confirmed", "cancelled"} : SetByDesk(c, b, s)
    BY <1>2, <2>2
  <2>3. CASE \E b \in Bookings : GrowOlder(b) \/ DeleteBooking(b) \/ MarkAsPaid(b) \/ ProcessRefund(b)
    BY <1>3, <2>3
  <2> QED BY <1>4, <1>6, <2>1, <2>2, <2>3, Zenon DEF NextLedger
<1> QED BY <1>5, <1>6

LEMMA BooksInit == InitLedger => BooksInv
<1> SUFFICES ASSUME InitLedger PROVE BooksInv OBVIOUS
<1>1. LedgerTypeOK
  <2>1. <<>> \in Seq(TrailRow) /\ <<>> \in Seq(LedgerRow) OBVIOUS
  <2>2. 0 \in 0 .. MaxServed BY LedgerAssumption
  <2> QED BY <2>1, <2>2 DEF InitLedger, LedgerTypeOK
<1>2. RequestsKnow BY DEF InitLedger, RequestsKnow, Waits
<1>3. Stories BY DEF InitLedger, Stories, Story, Listed
<1>4. ReportsKnown BY MarksAssumption DEF InitLedger, ReportsKnown, Request
<1>5. SubmissionsKnown BY MarksAssumption DEF InitLedger, SubmissionsKnown, Request, Listed
<1> QED BY <1>1, <1>2, <1>3, <1>4, <1>5 DEF BooksInv

\* The story of each booking and what the requests at work know of it are kept by every step.
THEOREM LedgerInvariant == SpecLedger => []BooksInv
BY BooksInit, BooksStep, PTL DEF SpecLedger

\* The payment status of a booking that neither an edit nor the stay desk has touched is that of
\* its last payment transaction that moved money (payment_service.py, mark_as_paid).
THEOREM PaymentsAccountedFor == SpecLedger => []PaymentIsAccounted
<1>1. BooksInv => PaymentIsAccounted
  BY DEF BooksInv, Stories, Story, PaymentOf, PaymentIsAccounted
<1> QED BY <1>1, LedgerInvariant, PTL

\* Every status of such a booking is told by the last row of its booking_status_history, and
\* each row starts where the one before it ended, as long as nothing was written from a copy out
\* of date.
THEOREM TrailsTellStatus == SpecLedger => []TrailTellsStatus
<1>1. BooksInv => TrailTellsStatus
  BY DEF BooksInv, Stories, Story, TrailOf, ChainOf, TrailTellsStatus
<1> QED BY <1>1, LedgerInvariant, PTL

\* A booking whose money came is neither pending nor expired, and one whose money went back is
\* cancelled, although release_expired_bank_transfer_holds, the webhook and the refund race:
\* only an edit, the stay desk or a change from a copy out of date can make it otherwise.
THEOREM PaidNeverReleased == SpecLedger => []PaidIsNotReleased
<1>1. BooksInv => PaidIsNotReleased
  BY DEF BooksInv, Stories, Story, StatusOf, PaidIsNotReleased
<1> QED BY <1>1, LedgerInvariant, PTL

\* A set no two members of which differ has at most one.
LEMMA AtMostOne ==
    ASSUME NEW S, \A x, y \in S : x = y
    PROVE  Cardinality(S) <= 1
<1>1. CASE S = {} BY <1>1, FS_EmptySet
<1>2. CASE S # {}
  <2>1. PICK x : x \in S BY <1>2
  <2>2. S = {x} BY <2>1
  <2> QED BY <2>2, FS_Singleton
<1> QED BY <1>1, <1>2

\* A transaction of the gateway is recorded once, and a booking submitted twice within 15 seconds
\* is made once, unless the two came at the same time.
THEOREM RepeatsAreKnown == SpecLedger => []RepeatsAreRecognised
<1>1. ASSUME BooksInv PROVE RepeatsAreRecognised
  <2>1. ASSUME NEW ref \in References \ repeated, NEW b \in Bookings
        PROVE  Cardinality({i \in DOMAIN ledger[b] : ledger[b][i].ref = ref}) <= 1
    <3> DEFINE S == {i \in DOMAIN ledger[b] : ledger[b][i].ref = ref}
    <3>1. \A i, j \in S : i = j BY <1>1, <2>1 DEF BooksInv, ReportsKnown
    <3> HIDE DEF S
    <3>2. Cardinality(S) <= 1 BY <3>1, AtMostOne
    <3> QED BY <3>2 DEF S
  <2>2. ASSUME ~doubled PROVE Cardinality({b \in Bookings : Listed(b) /\ booking[b].age = "new"}) <= 1
    <3> DEFINE S == {b \in Bookings : Listed(b) /\ booking[b].age = "new"}
    <3>1. \A a, b \in S : a = b BY <1>1, <2>2 DEF BooksInv, SubmissionsKnown
    <3> HIDE DEF S
    <3>2. Cardinality(S) <= 1 BY <3>1, AtMostOne
    <3> QED BY <3>2 DEF S
  <2> QED BY <2>1, <2>2 DEF RepeatsAreRecognised
<1> QED BY <1>1, LedgerInvariant, PTL
=============================================================================
