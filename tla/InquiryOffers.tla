----------------------------- MODULE InquiryOffers -----------------------------
(***************************************************************************)
(* What a guest is told of a booking request and is charged for it: the    *)
(* total that is stored with the request (app/services/inquiry_totals.py), *)
(* the price that is rebuilt from the listings whenever an offer is mailed,*)
(* a pay page is opened or a payment is started (app/payments/pricing.py,  *)
(* offers.py, service.py), and the emails and notices that follow a change *)
(* of status by each of the routes that make one.                          *)
(*                                                                         *)
(* Amounts are cents of one currency.  A stay is a hotel listing with one  *)
(* room type, any other listing has one variant; either has one price at a *)
(* time, 0 while it is not on sale.  Rooms and bookings that the changes   *)
(* of status provision are in InquiryLifecycle, payments that have been    *)
(* started in Payments.                                                    *)
(***************************************************************************)
EXTENDS Integers, Sequences, FiniteSets

CONSTANTS
    Inquiries,
    Listings,
    Hotels,         \* those of them that are stays
    Transfer,       \* what a line names that is no listing, a transfer
    Prices,         \* prices that each listing may have
    Carts,          \* carts that guests submit
    Requests,       \* requests of staff and guests that may run at the same time
    None,           \* no inquiry yet
    Gone,           \* an inquiry that was deleted
    Idle,
    MaxServed       \* bound on the changes of an inquiry's status that are begun

Lines == [listing: Listings \cup {Transfer}, rooms: Nat, roomPrice: Nat, price: Nat,
          nights: Nat \ {0}, ends: BOOLEAN, travelers: Nat \ {0}]

ASSUME OffersAssumption ==
    /\ Hotels \subseteq Listings
    /\ Prices \in [Listings -> SUBSET Nat]
    /\ Carts \subseteq Seq(Lines) \ {<<>>}

VARIABLES
    price,      \* what a listing costs now: per room and night, or per traveler
    inquiry,    \* booking_inquiries
    started,    \* inquiries for which a payment was started
    paid,       \* inquiries with a payment that succeeded
    notices,    \* client_notifications of each inquiry, by their type
    request,    \* the requests in flight
    told,       \* history: the amounts that were mailed, shown or charged for each inquiry
    linked,     \* history: inquiries whose guest was mailed a pay link
    mailed,     \* history: emails of its approval, counted up to 2
    silent,     \* history: inquiries that were approved by a route that mails nothing
    lost,       \* history: the notices and the mail of its approval that were due and failed
    desk,       \* history: inquiries whose status the stay desk has set last
    served      \* history: changes of status that were begun

guest == <<told, linked, mailed>>
vars == <<price, inquiry, started, paid, notices, request, told, linked, mailed, silent, lost, desk, served>>

InquiryStatus == {"pending_contact", "contacted", "quoted", "converted_to_booking", "cancelled"}
Approved == {"quoted", "converted_to_booking"}
NoticeTypes == {"quoted", "converted_to_booking", "cancelled"}

\* national: the guest's nationality is known
Inquiry == [status: InquiryStatus, cart: Seq(Lines), stored: Nat, national: BOOLEAN]

\* op: who asks; was: the inquiry was approved when it was read
Request == [op: {"portal", "office", "edit", "guest", "desk", "link"}, q: Inquiries,
            target: InquiryStatus, was: BOOLEAN, stage: {"decided", "provisioning", "noticing", "mailing"}]

Init ==
    /\ price \in {p \in [Listings -> UNION {Prices[l] : l \in Listings}] : \A l \in Listings : p[l] \in Prices[l]}
    /\ inquiry = [q \in Inquiries |-> None]
    /\ started = {}
    /\ paid = {}
    /\ notices = [q \in Inquiries |-> {}]
    /\ request = [c \in Requests |-> Idle]
    /\ told = [q \in Inquiries |-> {}]
    /\ linked = {}
    /\ mailed = [q \in Inquiries |-> 0]
    /\ silent = {}
    /\ lost = [q \in Inquiries |-> {}]
    /\ desk = {}
    /\ served = 0

Listed(q) == inquiry[q] \notin {None, Gone}

-----------------------------------------------------------------------------
(* Prices and totals *)

\* The sum of the figures of a cart's lines: the number of what they count, one by one.
SumOf(fig) == Cardinality(UNION {{i} \X (1 .. fig[i]) : i \in DOMAIN fig})

\* 12% of tax, rounded half up to cents.
WithTax(subtotal) == subtotal + (12 * subtotal + 50) \div 100

\* compute_totals: by nights when the line has rooms or an end date.
StoredLine(line) == line.price * (IF line.rooms > 0 \/ line.ends THEN line.nights ELSE line.travelers)

StoredTotal(cart) == WithTax(SumOf([i \in DOMAIN cart |-> StoredLine(cart[i])]))

\* Faulty: a price is not compared with the one in the cart.
Trusted(a, b) == a > 0 /\ b > 0

\* Within a cent.
Close(a, b) == a - b \in -1 .. 1

\* The price of the line is known and is still the one in the cart.
Verified(line) ==
    /\ line.listing \in Listings
    /\ price[line.listing] > 0
    /\ IF line.rooms > 0
       THEN /\ line.listing \in Hotels
            /\ Close(line.roomPrice, price[line.listing])
            /\ Close(line.price, price[line.listing] * line.rooms)
       ELSE Close(line.price, price[line.listing])

\* By nights when the line has rooms.
PricedLine(line) ==
    IF line.rooms > 0 THEN price[line.listing] * line.rooms * line.nights ELSE line.price * line.travelers

Priced(cart) == \A i \in DOMAIN cart : Verified(cart[i])

Amount(cart) == WithTax(SumOf([i \in DOMAIN cart |-> PricedLine(cart[i])]))

\* What the confirmation and the tracking page show; a quote request has no total yet.
ShownTotal(q) == {inquiry[q].stored} \ {0}

\* The confirmation that any notice leads to, whatever its type, shows the stored total.
Preview(q) == IF notices[q] = {} THEN {} ELSE {inquiry[q].stored}

IsStayLine(line) == line.rooms > 0 \/ line.listing \in Hotels

ContainsStay(cart) == \E i \in DOMAIN cart : IsStayLine(cart[i])

\* not_payable_reason, and the test for a payment that succeeded.
Payable(q) ==
    /\ Listed(q)
    /\ inquiry[q].status # "cancelled"
    /\ ContainsStay(inquiry[q].cart) => inquiry[q].status \in Approved
    /\ q \notin paid

\* build_inquiry_offer: a pay link can be sent.
Offered(q) ==
    /\ Listed(q)
    /\ inquiry[q].status \in Approved
    /\ ContainsStay(inquiry[q].cart)
    /\ q \notin paid
    /\ Priced(inquiry[q].cart)

-----------------------------------------------------------------------------
(* The listings: a price is changed, or the listing is taken from sale or put back on it *)

ChangePrice(l) ==
    /\ \E p \in Prices[l] \ {price[l]} : price' = [price EXCEPT ![l] = p]
    /\ UNCHANGED <<inquiry, started, paid, notices, request, guest, silent, lost, desk, served>>

-----------------------------------------------------------------------------
(* Inquiries: created, deleted *)

\* _validate_pricing: a line of a listing on sale has at least a fifth of its price.
Plausible(line) ==
    line.listing \in Listings =>
        /\ price[line.listing] > 0
        /\ line.price > 0
        /\ 5 * line.price >= price[line.listing]

Store(q, cart, total, named) ==
    /\ inquiry[q] = None
    /\ inquiry' = [inquiry EXCEPT ![q] =
            [status |-> "pending_contact", cart |-> cart, stored |-> total, national |-> named]]
    /\ UNCHANGED <<price, started, paid, notices, request, guest, silent, lost, desk, served>>

CreateInquiry(q) ==
    \E cart \in Carts : (\A i \in DOMAIN cart : Plausible(cart[i])) /\ Store(q, cart, StoredTotal(cart), TRUE)

\* One line without a price, and no total.
QuoteLine(l) == [listing |-> l, rooms |-> 0, roomPrice |-> 0, price |-> 0,
                 nights |-> 1, ends |-> FALSE, travelers |-> 1]

\* The guest need not name a nationality for a quote.
CreateQuoteRequest(q) ==
    \E l \in Listings, named \in BOOLEAN : Store(q, <<QuoteLine(l)>>, 0, named)

DeleteInquiry(q) ==
    /\ Listed(q)
    /\ inquiry' = [inquiry EXCEPT ![q] = Gone]
    /\ UNCHANGED <<price, started, paid, notices, request, guest, silent, lost, desk, served>>

-----------------------------------------------------------------------------
(* Changes of status *)

AllowedInquiryTransitions ==
    [pending_contact |-> {"contacted", "quoted", "converted_to_booking", "cancelled"},
     contacted |-> {"quoted", "converted_to_booking", "cancelled"},
     quoted |-> {"converted_to_booking", "cancelled"},
     converted_to_booking |-> {"cancelled"},
     cancelled |-> {}]

CustomerCancellable == {"pending_contact", "contacted", "quoted"}

Goes(c, r) == request' = [request EXCEPT ![c] = r]

SetStatus(q, s) == inquiry' = [inquiry EXCEPT ![q].status = s]

\* Faulty: every approval counts as one of an approved inquiry.
ApprovedAfterwards(q, s) == s \in Approved

\* was_approved
WasApproved(q, s) == inquiry[q].status \in Approved

\* The request reads the inquiry and finds its move allowed; a move to the status that the
\* inquiry has already does nothing.
Decide(c, q, op, s) ==
    /\ request[c] = Idle /\ served < MaxServed
    /\ Listed(q)
    /\ s \in AllowedInquiryTransitions[inquiry[q].status]
    /\ Goes(c, [op |-> op, q |-> q, target |-> s, was |-> WasApproved(q, s), stage |-> "decided"])
    /\ served' = served + 1
    /\ UNCHANGED <<price, inquiry, started, paid, notices, guest, silent, lost, desk>>

\* A vendor, or the office, in the portal; the portal has no other words for the statuses.
PortalSets(c, q, s) == Decide(c, q, "portal", s)

\* The office, in the list of inquiries
OfficeSets(c, q, s) == Decide(c, q, "office", s)

UpdateInquiry(c, q, s) == Decide(c, q, "edit", s)

CancelForCustomer(c, q) ==
    /\ Listed(q) /\ inquiry[q].status \in CustomerCancellable
    /\ Decide(c, q, "guest", "cancelled")

\* The schema of an answer asks for a nationality, which a quote request may lack.
Answerable(q) == Listed(q) /\ inquiry[q].national

\* An edit mails nothing; the office's route fails, after the commit, on what it cannot answer with.
MailsApproval(r) == r.op = "portal" \/ (r.op = "office" /\ Answerable(r.q))

\* Whatever the status has become, the new one is committed; a row that is gone fails the request.
CommitStatus(c) ==
    /\ request[c] # Idle
    /\ LET r == request[c]
       IN  /\ r.stage = "decided"
           /\ IF Listed(r.q)
              THEN /\ SetStatus(r.q, r.target)
                   /\ Goes(c, [r EXCEPT !.stage = IF r.target \in Approved THEN "provisioning" ELSE "noticing"])
                   /\ silent' = IF r.op \in {"edit", "office"} /\ ~MailsApproval(r) /\ r.target \in Approved
                                THEN silent \cup {r.q} ELSE silent
                   /\ desk' = desk \ {r.q}
              ELSE Goes(c, Idle) /\ UNCHANGED <<inquiry, silent, desk>>
    /\ UNCHANGED <<price, started, paid, notices, guest, lost, served>>

\* Rooms that are provisioned only now make a booking of the inquiry, whatever became of it.
Provision(c) ==
    /\ request[c] # Idle
    /\ LET r == request[c]
       IN  /\ r.stage = "provisioning"
           /\ Goes(c, [r EXCEPT !.stage = "noticing"])
           /\ \/ UNCHANGED <<inquiry, desk>>
              \/ /\ Listed(r.q) /\ ContainsStay(inquiry[r.q].cart)
                 /\ SetStatus(r.q, "converted_to_booking")
                 /\ desk' = desk \ {r.q}
    /\ UNCHANGED <<price, started, paid, notices, guest, silent, lost, served>>

\* A notice of the move, and another one if the status is no longer that; none is repeated.
NoticesDue(r) ==
    IF Listed(r.q) THEN (NoticeTypes \cap {r.target, inquiry[r.q].status}) \ notices[r.q] ELSE {}

Loses(q, what) == lost' = [lost EXCEPT ![q] = @ \cup what]

\* The routes mail the first approval.
MailDue(r) == r.target \in Approved /\ ~r.was /\ MailsApproval(r)

\* A notice that cannot be written is only logged.
Notify(c) ==
    /\ request[c] # Idle
    /\ LET r == request[c]
       IN  /\ r.stage = "noticing"
           /\ \E written \in SUBSET NoticesDue(r) :
                  /\ notices' = [notices EXCEPT ![r.q] = @ \cup written]
                  /\ Loses(r.q, NoticesDue(r) \ written)
           /\ Goes(c, IF MailDue(r) THEN [r EXCEPT !.stage = "mailing"] ELSE Idle)
    /\ UNCHANGED <<price, inquiry, started, paid, guest, silent, desk, served>>

Tells(q) == told' = [told EXCEPT ![q] = @ \cup {Amount(inquiry[q].cart)}]

\* notify_inquiry_approved: the offer with its pay link, or else "booking confirmed".
Mail(c) ==
    /\ request[c] # Idle
    /\ LET r == request[c]
       IN  /\ r.stage = "mailing"
           /\ IF Offered(r.q) THEN Tells(r.q) /\ linked' = linked \cup {r.q} ELSE UNCHANGED <<told, linked>>
           /\ mailed' = IF Listed(r.q) /\ r.op # "link" /\ mailed[r.q] < 2
                        THEN [mailed EXCEPT ![r.q] = @ + 1] ELSE mailed
    /\ Goes(c, Idle)
    /\ UNCHANGED <<price, inquiry, started, paid, notices, silent, lost, desk, served>>

\* What the request still had to tell the guest.
Due(r) ==
    (IF r.stage \in {"provisioning", "noticing"} THEN NoticesDue(r) ELSE {})
    \cup IF /\ Listed(r.q)
            /\ \/ r.stage = "mailing" /\ r.op # "link"
               \/ r.stage \in {"provisioning", "noticing"} /\ MailDue(r)
         THEN {"mail"} ELSE {}

\* The mail fails, which is only logged, or the request dies at any point. Who asked for a link is
\* shown it, and may send it by other means when the mail fails.
Fail(c) ==
    /\ request[c] # Idle
    /\ LET r == request[c]
       IN  /\ Loses(r.q, Due(r))
           /\ \/ UNCHANGED linked
              \/ r.op = "link" /\ linked' = linked \cup {r.q}
    /\ Goes(c, Idle)
    /\ UNCHANGED <<price, inquiry, started, paid, notices, told, mailed, silent, desk, served>>

\* The stay desk sets the status of the inquiry behind a stay booking (that of a submitted cart),
\* without transition_status; it mails each confirmation.
DeskSets(c, q, s) ==
    /\ request[c] = Idle /\ served < MaxServed
    /\ Listed(q) /\ ContainsStay(inquiry[q].cart) /\ inquiry[q].stored > 0
    /\ SetStatus(q, s)
    /\ desk' = desk \cup {q}
    /\ IF s = "quoted"
       THEN Goes(c, [op |-> "desk", q |-> q, target |-> s, was |-> WasApproved(q, s), stage |-> "mailing"])
       ELSE UNCHANGED request
    /\ served' = served + 1
    /\ UNCHANGED <<price, started, paid, notices, guest, silent, lost>>

\* A fresh link on demand; the offer is built once to see that there is one, and again to be mailed.
SendPaymentLink(c, q) ==
    /\ request[c] = Idle /\ served < MaxServed
    /\ Offered(q)
    /\ Goes(c, [op |-> "link", q |-> q, target |-> inquiry[q].status, was |-> TRUE, stage |-> "mailing"])
    /\ served' = served + 1
    /\ UNCHANGED <<price, inquiry, started, paid, notices, guest, silent, lost, desk>>

-----------------------------------------------------------------------------
(* Payment *)

\* The pay page of a link that has not expired.
GetLinkSummary(q) ==
    /\ q \in linked /\ Payable(q) /\ Priced(inquiry[q].cart)
    /\ Tells(q)
    /\ UNCHANGED <<price, inquiry, started, paid, notices, request, linked, mailed, silent, lost, desk, served>>

\* From a link, or with the reference and the email of the inquiry; a checkout that names another
\* amount than this one is refused.
StartPayment(q) ==
    /\ Payable(q) /\ Priced(inquiry[q].cart)
    /\ Tells(q)
    /\ started' = started \cup {q}
    /\ UNCHANGED <<price, inquiry, paid, notices, request, linked, mailed, silent, lost, desk, served>>

PaymentSucceeds(q) ==
    /\ q \in started
    /\ paid' = paid \cup {q}
    /\ UNCHANGED <<price, inquiry, started, notices, request, guest, silent, lost, desk, served>>

-----------------------------------------------------------------------------
Next ==
    \/ \E l \in Listings : ChangePrice(l)
    \/ \E q \in Inquiries :
           \/ CreateInquiry(q) \/ CreateQuoteRequest(q) \/ DeleteInquiry(q)
           \/ GetLinkSummary(q) \/ StartPayment(q) \/ PaymentSucceeds(q)
    \/ \E c \in Requests :
           \/ CommitStatus(c) \/ Provision(c) \/ Notify(c) \/ Mail(c) \/ Fail(c)
           \/ \E q \in Inquiries :
                  \/ \E s \in InquiryStatus :
                         \/ PortalSets(c, q, s) \/ OfficeSets(c, q, s) \/ UpdateInquiry(c, q, s)
                  \/ CancelForCustomer(c, q)
                  \/ \E s \in {"quoted", "pending_contact", "cancelled"} : DeskSets(c, q, s)
                  \/ SendPaymentLink(c, q)

Spec == Init /\ [][Next]_vars

-----------------------------------------------------------------------------
(* Properties *)

TypeOK ==
    /\ \A l \in Listings : price[l] \in Prices[l]
    /\ \A q \in Inquiries : Listed(q) => inquiry[q] \in Inquiry
    /\ started \subseteq Inquiries /\ paid \subseteq started
    /\ notices \in [Inquiries -> SUBSET NoticeTypes]
    /\ \A c \in Requests : request[c] = Idle \/ request[c] \in Request
    /\ \A q \in Inquiries : told[q] \subseteq Nat
    /\ linked \subseteq Inquiries
    /\ mailed \in [Inquiries -> 0 .. 2]
    /\ lost \in [Inquiries -> SUBSET (NoticeTypes \cup {"mail"})]
    /\ silent \subseteq Inquiries /\ desk \subseteq Inquiries

\* Nights of rooms in a cart.
NightsOf(cart) ==
    SumOf([i \in DOMAIN cart |-> IF cart[i].rooms > 0 THEN cart[i].nights ELSE 0])

\* Two amounts apart by at most two cents for each night of rooms, and what tax and rounding add.
Agree(a, b, cart) == 100 * (a - b) <= 224 * NightsOf(cart) + 100

\* Some line names an end date but no rooms.
EndsWithoutRooms(cart) == \E i \in DOMAIN cart : cart[i].ends /\ cart[i].rooms = 0

\* However prices change meanwhile, all the amounts that a guest is told of a request agree with
\* each other and with what is charged: those of the mailed offers, of the pay page and of every
\* checkout, and the stored total and the confirmation too unless a line has an end date but no rooms.
FiguresAgree ==
    \A q \in Inquiries : Listed(q) =>
        LET cart == inquiry[q].cart
            shown == IF EndsWithoutRooms(cart) THEN {} ELSE ShownTotal(q) \cup Preview(q)
        IN  \A a, b \in told[q] \cup shown : Agree(a, b, cart)

Quiet(q) == \A c \in Requests : request[c] = Idle \/ request[c].q # q

\* Once no request is at work on an inquiry, its guest has been told how it stands, but for what was
\* due and failed: an approval was mailed, although each request judges from a status that it has
\* read earlier whether another one has approved it already, unless an edit approved it, or the
\* office a quote request that names no nationality; and a notice shows the status, unless the stay
\* desk has set it.
GuestIsTold ==
    \A q \in Inquiries : Listed(q) /\ Quiet(q) =>
        /\ inquiry[q].status \in Approved /\ q \notin silent => mailed[q] > 0 \/ "mail" \in lost[q]
        /\ inquiry[q].status \in NoticeTypes /\ q \notin desk => inquiry[q].status \in notices[q] \cup lost[q]

\* STATED BY THE DOCS: "Re-approving does not send a second email" (docs/PAYMENTS.md:93).
ApprovalMailedOnce == \A q \in Inquiries : mailed[q] < 2

=============================================================================
