---------------------------- MODULE TransportFares ----------------------------
(***************************************************************************)
(* The money of a transfer: the fare that is quoted for a route            *)
(* (app/services/transport_service.py get_estimates, over the cache of     *)
(* transport_routes and the providers of app/integrations), the fare that  *)
(* a booking stores, made of a quote (app/api/v1/transport.py) or with an  *)
(* inquiry (booking_inquiry_service.py), and the trips that a driver's     *)
(* earnings count (driver_trip_service.py).                                *)
(*                                                                         *)
(* Distances are metres, rates are cents per kilometre, quoted fares are   *)
(* thousandths of a cent and stored amounts cents.  The trip itself is in  *)
(* TransportDispatch, its payment in Payments.                             *)
(***************************************************************************)
EXTENDS Integers, Sequences

CONSTANTS
    Categories,     \* vehicle categories
    Routes,         \* two places with their names and coordinates
    Answers,        \* distances that the providers give
    Cards,          \* rate cards that a category may be given
    Extras,         \* extra charges of a booking
    Prices,         \* amounts in cents that a cart may name instead of the quoted one
    Requests,       \* estimates that may be made at the same time
    Bookings,
    Idle,           \* no estimate is being made
    None            \* no booking, no category yet

VARIABLES
    card,       \* vehicle_categories
    cached,     \* transport_routes: the distances stored for a route, the newest last
    request,    \* the estimates in flight
    quotes,     \* history: the estimates that were answered
    booking     \* transport_bookings: what they say of money, and the quote they were made of

vars == <<card, cached, request, quotes, booking>>

\* "reasking": the provider is asked because the cache could not be read.
Request == [stage: {"asking", "reasking", "naming", "pricing"}, route: Routes, metres: Nat]

\* price: thousandths of a cent
Quote == [route: Routes, category: Categories, metres: Nat, card: Cards, price: Nat]

Booking == [quote: Quote, card: Cards, direct: BOOLEAN,
            base: Nat, route: Nat, extra: Nat, total: Nat]

\* What the theorems of TransportFaresProofs take of the constants.
FaresConstants ==
    /\ Answers \subseteq Nat
    /\ Cards \subseteq [base: Nat, perKm: Nat, minimum: Nat, active: BOOLEAN]
    /\ Extras \subseteq Nat
    /\ Prices \subseteq Nat
    /\ None \notin Cards
    /\ None \notin Booking
    /\ Idle \notin Request

Init ==
    /\ card = [k \in Categories |-> None]
    /\ cached = [r \in Routes |-> <<>>]
    /\ request = [c \in Requests |-> Idle]
    /\ quotes = {}
    /\ booking = [b \in Bookings |-> None]

Exists(k) == card[k] # None

-----------------------------------------------------------------------------
(* Rate cards: the office's *)

SetCard(k, new) ==
    /\ card' = [card EXCEPT ![k] = new]
    /\ UNCHANGED <<cached, request, quotes, booking>>

CreateCategory(k) == ~Exists(k) /\ \E new \in Cards : new.active /\ SetCard(k, new)

UpdateCategory(k) == Exists(k) /\ \E new \in Cards : SetCard(k, new)

\* A category is only taken from the list.
DeleteCategory(k) == Exists(k) /\ \E off \in Cards : off = [card[k] EXCEPT !.active = FALSE] /\ SetCard(k, off)

-----------------------------------------------------------------------------
(* Estimates *)

Larger(a, b) == IF a > b THEN a ELSE b

\* The base fare and the distance's, or the minimum fare.
Fare(rate, metres) == Larger(1000 * rate.base + metres * rate.perKm, 1000 * rate.minimum)

\* The cache keeps two decimals of the kilometres.
Cached(metres) == 10 * ((metres + 5) \div 10)

\* A column of amounts keeps two decimals.
Cents(thousandths) == (thousandths + 500) \div 1000

Goes(c, r) == request' = [request EXCEPT ![c] = r]

Misses(r) == cached[r] = <<>>

\* The newest row of the route, by its two names and its coordinates.
FindCached(c, r) ==
    /\ request[c] = Idle
    /\ cached[r] # <<>>
    /\ Goes(c, [stage |-> "pricing", route |-> r, metres |-> cached[r][Len(cached[r])]])
    /\ UNCHANGED <<card, cached, quotes, booking>>

MissCached(c, r) ==
    /\ request[c] = Idle
    /\ Misses(r)
    /\ Goes(c, [stage |-> "asking", route |-> r, metres |-> 0])
    /\ UNCHANGED <<card, cached, quotes, booking>>

\* The lookup fails, which counts as a miss: the provider is asked although the cache may have a row.
FailCached(c, r) ==
    /\ request[c] = Idle
    /\ Goes(c, [stage |-> "reasking", route |-> r, metres |-> 0])
    /\ UNCHANGED <<card, cached, quotes, booking>>

\* An estimate without coordinates never looks into the cache.
EstimateByName(c, r) ==
    /\ request[c] = Idle
    /\ Goes(c, [stage |-> "naming", route |-> r, metres |-> 0])
    /\ UNCHANGED <<card, cached, quotes, booking>>

Stage(c, s) == request[c] # Idle /\ request[c].stage = s

AsksProvider(c) == Stage(c, "asking") \/ Stage(c, "reasking")

\* The provider knows the way; its distance is stored, unless that fails, and used as it came.
ProviderAnswers(c) ==
    /\ AsksProvider(c)
    /\ \E m \in Answers :
           /\ Goes(c, [request[c] EXCEPT !.stage = "pricing", !.metres = m])
           /\ \/ cached' = [cached EXCEPT ![request[c].route] = Append(@, Cached(m))]
              \/ UNCHANGED cached
    /\ UNCHANGED <<card, quotes, booking>>

ProviderFails(c) ==
    /\ AsksProvider(c)
    /\ Goes(c, [request[c] EXCEPT !.stage = "naming"])
    /\ UNCHANGED <<card, cached, quotes, booking>>

\* The road is taken to be 1.28 times as long as the straight line, 3 km at least, to 100 metres.
StraightLine(metres) == 100 * ((Larger(3000, (128 * metres) \div 100) + 50) \div 100)

\* By the places' names: the provider, Google, or the straight line; none of it is stored.
FallbackAnswers(c) ==
    /\ Stage(c, "naming")
    /\ \E m \in Answers \cup {StraightLine(a) : a \in Answers} : Goes(c, [request[c] EXCEPT !.stage = "pricing", !.metres = m])
    /\ UNCHANGED <<card, cached, quotes, booking>>

\* No distance at all, or the request dies.
FailEstimate(c) ==
    /\ request[c] # Idle
    /\ Goes(c, Idle)
    /\ UNCHANGED <<card, cached, quotes, booking>>

QuoteOf(k, route, metres) ==
    [route |-> route, category |-> k, metres |-> metres, card |-> card[k], price |-> Fare(card[k], metres)]

\* Every active category, by its card of this moment.
PriceEstimate(c) ==
    /\ Stage(c, "pricing")
    /\ quotes' = quotes \cup {QuoteOf(k, request[c].route, request[c].metres) :
                                k \in {x \in Categories : Exists(x) /\ card[x].active}}
    /\ Goes(c, Idle)
    /\ UNCHANGED <<card, cached, booking>>

-----------------------------------------------------------------------------
(* Bookings *)

Store(b, row) ==
    /\ booking[b] = None
    /\ booking' = [booking EXCEPT ![b] = row]
    /\ UNCHANGED <<card, cached, request, quotes>>

\* The fare is computed again, by the card of this moment and the distance of the quote; what the
\* customer was quoted is not compared.
BookedRow(q, rate, extra) ==
    [quote |-> q, card |-> rate, direct |-> TRUE, base |-> rate.base,
     route |-> Cents(Fare(rate, q.metres)), extra |-> extra,
     total |-> Cents(Fare(rate, q.metres) + 1000 * extra)]

CreateBooking(b, q) ==
    /\ Exists(q.category) /\ card[q.category].active
    /\ \E extra \in Extras : Store(b, BookedRow(q, card[q.category], extra))

\* The price the cart names is kept, whatever it is, whatever the card, and although the category
\* may be inactive.  The distance, a piece of the inquiry's text, is stored beside it and not
\* compared with it.
ProvisionedRow(q, rate, total) ==
    [quote |-> q, card |-> rate, direct |-> FALSE, base |-> rate.base,
     route |-> Larger(total - rate.base, 0), extra |-> 0, total |-> total]

ProvisionBooking(b, q) ==
    /\ Exists(q.category)
    /\ \E total \in Prices \cup {Cents(q.price)} : Store(b, ProvisionedRow(q, card[q.category], total))

-----------------------------------------------------------------------------
Next ==
    \/ \E k \in Categories : CreateCategory(k) \/ UpdateCategory(k) \/ DeleteCategory(k)
    \/ \E c \in Requests :
           \/ \E r \in Routes : FindCached(c, r) \/ MissCached(c, r) \/ FailCached(c, r) \/ EstimateByName(c, r)
           \/ ProviderAnswers(c) \/ ProviderFails(c) \/ FallbackAnswers(c)
           \/ FailEstimate(c) \/ PriceEstimate(c)
    \/ \E b \in Bookings, q \in quotes : CreateBooking(b, q) \/ ProvisionBooking(b, q)

Spec == Init /\ [][Next]_vars

-----------------------------------------------------------------------------
(* A driver's earnings: the trips that a page of some days counts.  Of a    *)
(* finished trip it knows the day the driver finished it, the day it was    *)
(* booked for, the day its row was last changed, and whether it was the     *)
(* driver (and not only the desk) that completed it.                        *)

Day == Int

Trip == [completed: Day, travel: Day, updated: Day, byDriver: BOOLEAN]

\* "week" and "month" begin days - 1 days ago.
Start(today, days) == today - (days - 1)

\* A finished trip that the page "today" counts.
CountedToday(t, today) ==
    \/ today \in {t.completed, t.travel}
    \/ today = t.updated /\ (t.byDriver \/ t.travel >= today)

\* Counted by the pages of several days: also whatever was completed after they begin.
CountedSince(t, today, days) ==
    LET first == Start(today, days)
    IN  \/ t.completed >= first
        \/ t.travel \in first .. today
        \/ t.updated \in first .. today

\* The day of the chart that shows it.
Bucket(t, today, days) == IF t.completed \in Start(today, days) .. today THEN t.completed ELSE today

-----------------------------------------------------------------------------
(* Properties *)

TypeOK ==
    /\ card \in [Categories -> Cards \cup {None}]
    /\ cached \in [Routes -> Seq(Nat)]
    /\ request \in [Requests -> Request \cup {Idle}]
    /\ quotes \subseteq Quote
    /\ booking \in [Bookings -> Booking \cup {None}]

Asking(r) == \E c \in Requests : AsksProvider(c) /\ request[c].route = r

AskingAnew(r) == \E c \in Requests : Stage(c, "reasking") /\ request[c].route = r

Settled(r) == cached[r] # <<>> /\ ~Asking(r)

\* Estimates that miss a route at the same time each store its distance and the last of them
\* stays.  Once they all have had their answer the route is settled, and keeps the distance that is
\* quoted for it until the cache cannot be read: only then is the provider asked for it again.
DistancesSettle ==
    [][\A r \in Routes : Settled(r) => cached'[r] = cached[r] /\ (Settled(r) \/ AskingAnew(r))']_vars

\* What a booking's total differs from its quote by, in thousandths of a cent, extras apart.
Off(row) == 1000 * row.total - row.quote.price - 1000 * row.extra

PaidAsQuoted(row) == row.direct /\ row.card = row.quote.card => Off(row) \in -500 .. 500

\* A customer who books a quote directly, while the category has the same card as when it was given,
\* is charged the quoted fare to half a cent, whatever became of the cached distance.  A transfer
\* that is provisioned with an inquiry costs what its cart names.
ChargedAsQuoted == \A b \in Bookings : booking[b] # None => PaidAsQuoted(booking[b])

\* "Validate that cart items pricing is consistent with database authoritative listings": the price
\* of a transfer, which has no listing, is not looked at.  Refuted.
ProvisionedAsQuoted ==
    \A b \in Bookings : booking[b] # None /\ ~booking[b].direct => Off(booking[b]) \in -500 .. 500

AddsUp(row) ==
    /\ row.direct => row.route + row.extra = row.total
    /\ ~row.direct /\ row.base <= row.total => row.base + row.route = row.total

\* The columns of a booking add up, one way or the other: made of a quote, the route's price and
\* the extras are the total, and the base fare is part of the route's price; provisioned with an
\* inquiry, the base fare comes on top of the route's price.
FiguresAddUp == \A b \in Bookings : booking[b] # None => AddsUp(booking[b])
=============================================================================
