----------------------------- MODULE ListingDates -----------------------------
(***************************************************************************)
(* The dates of a tour, safari or experience: VariantBookings together     *)
(* with the blocks that the office and the vendor put on them              *)
(* (app/models/listingBlock.py, app/api/v1/vendor_safaris.py, the block    *)
(* routes of app/api/v1/admin/listings.py) and the availability that       *)
(* guests are shown (get_listing_availability).                            *)
(*                                                                         *)
(* All variants belong to one listing.  A booking fetches the blocks of    *)
(* its dates once for each item and tests every night of the item on what  *)
(* it has fetched; the availability reads blocks and calendar rows in its  *)
(* own way, and the two must come to the same answer.                      *)
(***************************************************************************)
EXTENDS VariantBookings

CONSTANTS
    BlockKeys,
    Spans,          \* the dates that blocks are created for: <<first, last>>
    Listing         \* the variant of a block that is for the whole listing

ASSUME SpansAssumption == Spans \subseteq Nat \X Nat

VARIABLES
    blocks,         \* listing_blocks
    fetched,        \* the blocks each booking in flight has fetched for its item
    began           \* history: the blocks there were when a booking in flight began

blockVars == <<blocks, fetched, began>>
allVars == <<calendar, status, overdue, creating, releasing, reserving, editing, released, reopened, approved,
             blocks, fetched, began>>

ListingBlock == [key: BlockKeys, variant: Variants \cup {Listing}, span: Spans]

InitDates == InitBookings /\ blocks = {} /\ fetched = [b \in Bookings |-> {}] /\ began = [b \in Bookings |-> {}]

-----------------------------------------------------------------------------
(* The desk *)

NewKeys == {k \in BlockKeys : \A x \in blocks \cup UNION {began[b] : b \in Bookings} : x.key # k}

\* One block for the whole listing, or one for each variant that was chosen.
CreateBlocks ==
    /\ \E span \in Spans, chosen \in SUBSET Variants :
           \E keys \in [IF chosen = {} THEN {Listing} ELSE chosen -> NewKeys] :
               /\ IsInjective(keys)
               /\ blocks' = blocks \cup {[key |-> keys[v], variant |-> v, span |-> span] : v \in DOMAIN keys}
    /\ UNCHANGED <<fetched, began>> /\ UNCHANGED bookingVars

ReleaseBlock(x) ==
    /\ blocks' = blocks \ {x}
    /\ UNCHANGED <<fetched, began>> /\ UNCHANGED bookingVars

-----------------------------------------------------------------------------
(* Bookings *)

Covers(x, n) == x.span[1] <= n /\ n <= x.span[2]

\* Faulty: a block that ends on the day of arrival is not fetched.
EndedBefore(x, from, to) == x.span[1] <= to /\ x.span[2] > from

Overlaps(x, from, to) == x.span[1] <= to /\ x.span[2] >= from

CheckOut(b) == Order[b].checkIn + Order[b].nights

FirstNightOfItem(t) == (t.at - 1) % Order[t.id].nights = 0

BlocksOf(t) ==
    IF FirstNightOfItem(t) THEN {x \in blocks : Overlaps(x, Order[t.id].checkIn, CheckOut(t.id))} ELSE fetched[t.id]

\* Faulty: the blocks of single variants are not looked at.
ClosedAltogether(xs, s) == \E x \in xs : x.variant = Listing /\ Covers(x, s[2])

\* The listing is blocked on the night, or the item's variant.
Blocked(xs, s) == \E x \in xs : x.variant \in {Listing, s[1]} /\ Covers(x, s[2])

BeginDates(b) ==
    /\ BeginBooking(b)
    /\ fetched' = [fetched EXCEPT ![b] = {}] /\ began' = [began EXCEPT ![b] = blocks]
    /\ UNCHANGED blocks

ReserveOpenNight(t) ==
    /\ ReserveNight(t)
    /\ LET xs == BlocksOf(t)
       IN  /\ ~Blocked(xs, WantedSlot(t.id, t.at))
           /\ fetched' = [fetched EXCEPT ![t.id] = xs]
    /\ UNCHANGED <<blocks, began>>

\* What both keep is only of use to the transaction.
EndDates(t) ==
    /\ CommitBooking(t) \/ AbortBooking(t)
    /\ fetched' = [fetched EXCEPT ![t.id] = {}] /\ began' = [began EXCEPT ![t.id] = {}]
    /\ UNCHANGED blocks

\* Everything else that VariantBookings tells of.
OtherStep ==
    \/ \E b \in Bookings :
           \/ PassDay(b) \/ MarkAsPaid(b) \/ HandleWebhookEvent(b)
           \/ ProcessRefund(b) \/ UpdateStatus(b) \/ Update(b) \/ Delete(b)
    \/ \E e \in Expiries : PickHolds(e)
    \/ \E t \in releasing : GiveBack(t) \/ CommitRelease(t) \/ AbortRelease(t)
    \/ \E e \in editing : CommitEdit(e) \/ AbortEdit(e)
    \/ \E i \in Approvals : ReadCapacity(i)
    \/ \E v \in reserving : WriteCapacity(v) \/ AbortCapacity(v)

NextDates ==
    \/ CreateBlocks
    \/ \E x \in blocks : ReleaseBlock(x)
    \/ \E b \in Bookings : BeginDates(b)
    \/ \E t \in creating : ReserveOpenNight(t) \/ EndDates(t)
    \/ OtherStep /\ UNCHANGED blockVars

SpecDates == InitDates /\ [][NextDates]_allVars

-----------------------------------------------------------------------------
(* get_listing_availability: what it shows of night n when guests ask for  *)
(* the nights from..to-1, for a row of each slot that it happens to read.  *)

\* Faulty: a row is believed although the variant is blocked.
RowsOnly(v, n, xs, row) ==
    IF row # NoRow THEN [total |-> row.total, booked |-> row.reserved, blocked |-> 0, avail |-> row.available]
    ELSE [total |-> Capacity[v], booked |-> 0, blocked |-> 0, avail |-> Capacity[v]]

VariantFigures(v, n, xs, row) ==
    IF \E x \in xs : x.variant = v /\ Covers(x, n)
    THEN [total |-> Capacity[v], booked |-> 0, blocked |-> Capacity[v], avail |-> 0]
    ELSE RowsOnly(v, n, xs, row)

\* The sum of a figure over the variants.
SumOver(fig, f) == Cardinality(OneByOne([v \in DOMAIN fig |-> fig[v][f]]))

NightFigures(n, from, to, row) ==
    LET xs == {x \in blocks : Overlaps(x, from, to)}
        fig == [v \in Variants |->
                   IF \E x \in xs : x.variant = Listing /\ Covers(x, n)
                   THEN [total |-> Capacity[v], booked |-> 0, blocked |-> Capacity[v], avail |-> 0]
                   ELSE VariantFigures(v, n, xs, row[v])]
    IN  [f \in {"total", "booked", "blocked", "avail"} |-> SumOver(fig, f)]

\* The row of each variant that .first() returns.
RowsRead(n) ==
    LET Found(v) == IF CommittedRows(<<v, n>>) = {} THEN {NoRow} ELSE {calendar[r] : r \in CommittedRows(<<v, n>>)}
    IN  {row \in [Variants -> UNION {Found(v) : v \in Variants}] : \A v \in Variants : row[v] \in Found(v)}

-----------------------------------------------------------------------------
(* Properties *)

DatesTypeOK ==
    /\ BookingsTypeOK
    /\ blocks \subseteq ListingBlock
    /\ fetched \in [Bookings -> SUBSET ListingBlock] /\ began \in [Bookings -> SUBSET ListingBlock]
    /\ \A x, y \in blocks : x # y => x.key # y.key

\* A request for q places of one night would be granted if nobody else were booking.
WouldBook(v, n, q) ==
    /\ ~Blocked({x \in blocks : Overlaps(x, n, n + 1)}, <<v, n>>)
    /\ IF CommittedRows(<<v, n>>) = {} THEN q <= Capacity[v]
                                       ELSE \E r \in CommittedRows(<<v, n>>) : calendar[r].available >= q

SingleRows(n) == \A v \in Variants : Cardinality(CommittedRows(<<v, n>>)) <= 1

\* As long as no night has two calendar rows, a night is shown as open when a booking of one
\* place would be taken by one of the variants, and as sold out otherwise, whichever nights
\* around it are asked for; and until an inquiry reserves in it, its figures add up.
ShownAsBookable ==
    \A n \in Nights : SingleRows(n) =>
        \A row \in RowsRead(n), from \in Nights, to \in {m + 1 : m \in Nights} :
            from <= n /\ n < to =>
                LET f == NightFigures(n, from, to, row)
                IN  /\ f["avail"] > 0 <=> \E v \in Variants : WouldBook(v, n, 1)
                    /\ (\A v \in Variants : DirectOnly(<<v, n>>)) =>
                           f["total"] = f["booked"] + f["blocked"] + f["avail"]

\* No booking is committed for a night that was blocked all the while it was being made.
BlockedNightsStay ==
    [][\A t \in creating : CommitBooking(t) =>
           \A k \in 1..WantedCount(t.id) : ~Blocked(began[t.id] \cap blocks, WantedSlot(t.id, k))]_allVars
=============================================================================
