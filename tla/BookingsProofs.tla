--------------------------- MODULE BookingsProofs ---------------------------
(***************************************************************************)
(* Theorems about what is booked and what a guest is told: ListingDates    *)
(* with the VariantBookings it extends, for any variants, orders, holds    *)
(* and blocks, and InquiryOffers, for any listings, prices, carts and      *)
(* requests.                                                               *)
(*                                                                         *)
(* A release holds the locks of the bookings that it has picked, so they   *)
(* stay expired holds until it commits (HoldsAreLocked). A booking fetches *)
(* the blocks anew for each item: a block that lasts all the while is on   *)
(* no night that was tested, or is among those fetched (NightsTested).     *)
(***************************************************************************)
EXTENDS ListingDates, InquiryOffers, FiniteSetTheorems, TLAPS

\* What a transaction is.
Shapes ==
    /\ status \in [Bookings -> BookingStatus \cup {"none", "deleted"}]
    /\ overdue \subseteq Bookings
    /\ \A t \in creating : t = [id |-> t.id, at |-> t.at, draft |-> t.draft]
    /\ \A t \in creating : t.id \in Bookings /\ t.at \in Nat \ {0}
    /\ \A t \in releasing : t = [id |-> t.id, picked |-> t.picked, draft |-> t.draft, left |-> t.left]
    /\ \A t \in releasing : t.picked \subseteq Bookings
    /\ \A e \in editing : e.id \in Bookings /\ e.to \in BookingStatus

\* A booking is made once, and is not there before.
MadeOnce ==
    /\ \A t \in creating : status[t.id] = "none"
    /\ \A t, u \in creating : t.id = u.id => t = u

\* What a release has locked stays an expired hold, for it alone.
HoldsAreLocked ==
    /\ \A t \in releasing : t.picked \subseteq ExpiredHolds
    /\ \A t, u \in releasing : t # u => t.picked \cap u.picked = {}

DatesShapes ==
    /\ blocks \subseteq ListingBlock
    /\ fetched \in [Bookings -> SUBSET ListingBlock]
    /\ began \in [Bookings -> SUBSET ListingBlock]

\* The blocks that were there when the booking began, and are still.
Lasting(b) == began[b] \cap blocks

\* No lasting block is on a night that was tested, nor missing from what was fetched.
NightsTested ==
    \A t \in creating :
        /\ \A k \in 1 .. t.at - 1 : ~Blocked(Lasting(t.id), WantedSlot(t.id, k))
        /\ ~FirstNightOfItem(t) =>
             \A x \in Lasting(t.id) : Overlaps(x, Order[t.id].checkIn, CheckOut(t.id)) => x \in fetched[t.id]

DatesInv == Shapes /\ MadeOnce /\ HoldsAreLocked /\ DatesShapes /\ NightsTested

LEMMA StatusesNamed ==
    /\ "pending" \in BookingStatus /\ "expired" \in BookingStatus /\ "confirmed" \in BookingStatus
    /\ "cancelled" \in BookingStatus /\ "completed" \in BookingStatus
    /\ "none" \notin BookingStatus /\ "deleted" \notin BookingStatus
BY DEF BookingStatus

\* One booking that nobody has locked, and that is no expired hold of a release, changes.
LEMMA StatusStep ==
    ASSUME Shapes, MadeOnce, HoldsAreLocked, NEW b \in Bookings, NEW s \in BookingStatus \cup {"deleted"},
           b \in Stored, NobodyReleases(b), status' = [status EXCEPT ![b] = s],
           creating' = creating, releasing' = releasing, overdue' = overdue,
           editing' \subseteq editing
    PROVE  Shapes' /\ MadeOnce' /\ HoldsAreLocked'
<1>1. Shapes' BY DEF Shapes
<1>2. MadeOnce' BY StatusesNamed DEF MadeOnce, Shapes, Stored
<1>3. HoldsAreLocked' BY DEF HoldsAreLocked, ExpiredHolds, NobodyReleases, Shapes
<1> QED BY <1>1, <1>2, <1>3

\* Neither bookings nor their holds change.
LEMMA QuietStep ==
    ASSUME Shapes, MadeOnce, HoldsAreLocked, status' = status, creating' = creating, releasing' = releasing,
           overdue \subseteq overdue', overdue' \subseteq Bookings,
           \A e \in editing' : e \in editing \/ (e.id \in Bookings /\ e.to \in BookingStatus)
    PROVE  Shapes' /\ MadeOnce' /\ HoldsAreLocked'
<1>1. Shapes' BY DEF Shapes
<1>2. MadeOnce' BY DEF MadeOnce
<1>3. HoldsAreLocked' BY DEF HoldsAreLocked, ExpiredHolds
<1> QED BY <1>1, <1>2, <1>3

LEMMA BookingStep ==
    ASSUME Shapes, MadeOnce, HoldsAreLocked, NEW b \in Bookings,
           MarkAsPaid(b) \/ HandleWebhookEvent(b) \/ ProcessRefund(b) \/ Delete(b)
    PROVE  Shapes' /\ MadeOnce' /\ HoldsAreLocked'
<1>1. \E s \in BookingStatus \cup {"deleted"} : status' = [status EXCEPT ![b] = s]
  BY StatusesNamed DEF MarkAsPaid, HandleWebhookEvent, ProcessRefund, Delete
<1>2. b \in Stored /\ NobodyReleases(b) /\ creating' = creating /\ releasing' = releasing /\ overdue' = overdue
      /\ editing' = editing
  BY DEF MarkAsPaid, HandleWebhookEvent, ProcessRefund, Delete
<1> QED BY <1>1, <1>2, StatusStep

LEMMA Orders ==
    ASSUME NEW b \in Bookings
    PROVE  Order[b].items \in Seq(ItemLines) /\ Order[b].checkIn \in Nat /\ Order[b].nights \in Nat \ {0}
BY CapacityAssumption

LEMMA CommitEditStep ==
    ASSUME Shapes, MadeOnce, HoldsAreLocked, NEW e \in editing, CommitEdit(e)
    PROVE  Shapes' /\ MadeOnce' /\ HoldsAreLocked'
<1>1. e.id \in Bookings /\ e.to \in BookingStatus \cup {"deleted"} BY DEF Shapes
<1>2. e.id \in Stored /\ NobodyReleases(e.id) /\ status' = [status EXCEPT ![e.id] = e.to]
      /\ creating' = creating /\ releasing' = releasing /\ overdue' = overdue /\ editing' \subseteq editing
  BY DEF CommitEdit
<1>3. PICK b \in Bookings : b = e.id BY <1>1
<1>4. PICK s \in BookingStatus \cup {"deleted"} : s = e.to BY <1>1
<1> QED BY <1>2, <1>3, <1>4, StatusStep

LEMMA EditStep ==
    ASSUME Shapes, MadeOnce, HoldsAreLocked, NEW b \in Bookings, UpdateStatus(b) \/ Update(b)
    PROVE  Shapes' /\ MadeOnce' /\ HoldsAreLocked'
<1>1. status' = status /\ creating' = creating /\ releasing' = releasing /\ overdue' = overdue
  BY DEF UpdateStatus, Update
<1>2. PICK s \in BookingStatus : editing' = editing \cup {[id |-> b, to |-> s]}
  <2>1. CASE UpdateStatus(b)
    <3>1. status[b] \in BookingStatus BY <2>1 DEF UpdateStatus, Stored
    <3>2. AllowedBookingTransitions[status[b]] \subseteq BookingStatus
      BY <3>1 DEF AllowedBookingTransitions, BookingStatus
    <3> QED BY <2>1, <3>2 DEF UpdateStatus
  <2>2. CASE Update(b)
    <3>1. EditTargets \subseteq BookingStatus BY CapacityAssumption DEF BookingStatus
    <3> QED BY <2>2, <3>1 DEF Update
  <2> QED BY <2>1, <2>2
<1>3. overdue \subseteq overdue' /\ overdue' \subseteq Bookings BY <1>1 DEF Shapes
<1> QED BY <1>1, <1>2, <1>3, QuietStep

LEMMA PickStep ==
    ASSUME Shapes, MadeOnce, HoldsAreLocked, NEW e \in Expiries, PickHolds(e)
    PROVE  Shapes' /\ MadeOnce' /\ HoldsAreLocked'
<1> DEFINE l == UNION {{b} \X DOMAIN Order[b].items : b \in ExpiredHolds}
           n == [id |-> e, picked |-> ExpiredHolds, draft |-> <<>>, left |-> l]
<1>1. /\ releasing' = releasing \cup {n} /\ \A b \in ExpiredHolds : NobodyReleases(b)
      /\ UNCHANGED <<status, overdue, creating, editing>>
  BY DEF PickHolds
<1> HIDE DEF l
<1>2. n.picked = ExpiredHolds /\ n = [id |-> n.id, picked |-> n.picked, draft |-> n.draft, left |-> n.left]
      /\ ExpiredHolds \subseteq Bookings
  <2>1. ExpiredHolds \subseteq Bookings BY DEF ExpiredHolds, Shapes
  <2> QED BY <2>1
<1> HIDE DEF n
<1>3. Shapes' BY <1>1, <1>2 DEF Shapes
<1>4. MadeOnce' BY <1>1 DEF MadeOnce
<1>5. HoldsAreLocked' BY <1>1, <1>2 DEF HoldsAreLocked, NobodyReleases, ExpiredHolds
<1> QED BY <1>3, <1>4, <1>5

\* What gives back an item, and what a release is after it.
GivenRows(t, p) ==
    LET rows == Visible(HoldSlot(p[1], p[2]), t.draft)
        q == Order[p[1]].items[p[2]].qty
    IN  IF rows = {} THEN {<<>>}
        ELSE {OneRow(r, Returned(RowIn(t.draft, r), q)) : r \in {x \in rows : ~HeldByOther(x, t)}}

LEMMA ItemGiven ==
    ASSUME Shapes, NEW t \in releasing, GiveBack(t)
    PROVE  \E p \in t.left : \E n \in GivenRows(t, p) : \E u :
               /\ releasing' = (releasing \ {t}) \cup {u}
               /\ u.id = t.id /\ u.picked = t.picked /\ u.left = t.left \ {p} /\ u.draft = Over(n, t.draft)
               /\ u = [id |-> u.id, picked |-> u.picked, draft |-> u.draft, left |-> u.left]
<1>1. PICK p \in t.left : \E n \in GivenRows(t, p) :
          releasing' = (releasing \ {t}) \cup {[t EXCEPT !.left = @ \ {p}, !.draft = Over(n, @)]}
  BY DEF GiveBack, GivenRows
<1>2. PICK n \in GivenRows(t, p) :
          releasing' = (releasing \ {t}) \cup {[t EXCEPT !.left = @ \ {p}, !.draft = Over(n, @)]}
  BY <1>1
<1> DEFINE u == [t EXCEPT !.left = @ \ {p}, !.draft = Over(n, @)]
           d == Over(n, t.draft)
           m == t.left \ {p}
<1>3. u = [id |-> t.id, picked |-> t.picked, draft |-> d, left |-> m]
  <2>1. t = [id |-> t.id, picked |-> t.picked, draft |-> t.draft, left |-> t.left] BY DEF Shapes
  <2>2. u = [[t EXCEPT !.left = m] EXCEPT !.draft = Over(n, @)] OBVIOUS
  <2>3. [t EXCEPT !.left = m] = [id |-> t.id, picked |-> t.picked, draft |-> t.draft, left |-> m]
    <3> HIDE DEF m
    <3> QED BY <2>1
  <2>4. u = [[t EXCEPT !.left = m] EXCEPT !.draft = d] BY <2>2, <2>3
  <2> HIDE DEF d, m, u
  <2> QED BY <2>3, <2>4
<1>4. releasing' = (releasing \ {t}) \cup {u} BY <1>2
<1> HIDE DEF d, m, u
<1>5. u.id = t.id /\ u.picked = t.picked /\ u.draft = d /\ u.left = m BY <1>3
<1>6. u = [id |-> u.id, picked |-> u.picked, draft |-> u.draft, left |-> u.left] BY <1>3, <1>5
<1> QED BY <1>4, <1>5, <1>6 DEF d, m

LEMMA GiveBackStep ==
    ASSUME Shapes, MadeOnce, HoldsAreLocked, NEW t \in releasing, GiveBack(t)
    PROVE  Shapes' /\ MadeOnce' /\ HoldsAreLocked'
<1>2. UNCHANGED <<status, overdue, creating, editing>> BY DEF GiveBack
<1>3. PICK u :
          /\ releasing' = (releasing \ {t}) \cup {u}
          /\ u.picked = t.picked /\ u = [id |-> u.id, picked |-> u.picked, draft |-> u.draft, left |-> u.left]
  BY ItemGiven
<1>4. u.picked = t.picked /\ u = [id |-> u.id, picked |-> u.picked, draft |-> u.draft, left |-> u.left] BY <1>3
<1>5. releasing' = (releasing \ {t}) \cup {u} BY <1>3
<1>6. Shapes' BY <1>2, <1>4, <1>5 DEF Shapes
<1>7. MadeOnce' BY <1>2 DEF MadeOnce
<1>8. HoldsAreLocked' BY <1>2, <1>4, <1>5 DEF HoldsAreLocked, ExpiredHolds
<1> QED BY <1>6, <1>7, <1>8

LEMMA CommitReleaseStep ==
    ASSUME Shapes, MadeOnce, HoldsAreLocked, NEW t \in releasing, CommitRelease(t)
    PROVE  Shapes' /\ MadeOnce' /\ HoldsAreLocked'
<1>1. /\ releasing' = releasing \ {t} /\ UNCHANGED <<overdue, creating, editing>>
      /\ status' = [b \in Bookings |-> IF b \in t.picked THEN "expired" ELSE status[b]]
  BY DEF CommitRelease
<1>2. t.picked \subseteq ExpiredHolds BY DEF HoldsAreLocked
<1>3. Shapes' BY <1>1, StatusesNamed DEF Shapes
<1>4. MadeOnce' BY <1>1, <1>2, StatusesNamed DEF MadeOnce, Shapes, ExpiredHolds
<1>5. HoldsAreLocked'
  <2>1. \A u \in releasing' : u.picked \cap t.picked = {} BY <1>1 DEF HoldsAreLocked
  <2>2. \A b \in ExpiredHolds \ t.picked : b \in ExpiredHolds' BY <1>1 DEF ExpiredHolds, Shapes
  <2> QED BY <1>1, <2>1, <2>2 DEF HoldsAreLocked
<1> QED BY <1>3, <1>4, <1>5

LEMMA AbortReleaseStep ==
    ASSUME Shapes, MadeOnce, HoldsAreLocked, NEW t \in releasing, AbortRelease(t)
    PROVE  Shapes' /\ MadeOnce' /\ HoldsAreLocked'
<1>1. /\ releasing' = releasing \ {t} /\ UNCHANGED <<status, overdue, creating, editing>> BY DEF AbortRelease
<1> QED BY <1>1 DEF Shapes, MadeOnce, HoldsAreLocked, ExpiredHolds

\* Whatever VariantBookings does but for bookings being made.
LEMMA OtherHolds ==
    ASSUME Shapes, MadeOnce, HoldsAreLocked, OtherStep
    PROVE  Shapes' /\ MadeOnce' /\ HoldsAreLocked'
<1>1. ASSUME NEW b \in Bookings, PassDay(b) PROVE Shapes' /\ MadeOnce' /\ HoldsAreLocked'
  <2>1. UNCHANGED <<status, creating, releasing, editing>> /\ overdue' = overdue \cup {b} BY <1>1 DEF PassDay
  <2>2. overdue \subseteq overdue' /\ overdue' \subseteq Bookings BY <2>1 DEF Shapes
  <2> QED BY <2>1, <2>2, QuietStep
<1>2. ASSUME NEW e \in editing, AbortEdit(e) PROVE Shapes' /\ MadeOnce' /\ HoldsAreLocked'
  <2>1. UNCHANGED <<status, creating, releasing, overdue>> /\ editing' \subseteq editing BY <1>2 DEF AbortEdit
  <2>2. overdue' \subseteq Bookings BY <2>1 DEF Shapes
  <2> QED BY <2>1, <2>2, QuietStep
<1>3. ASSUME UNCHANGED <<status, overdue, creating, releasing, editing>> PROVE Shapes' /\ MadeOnce' /\ HoldsAreLocked'
  <2>1. overdue' \subseteq Bookings BY <1>3 DEF Shapes
  <2> QED BY <1>3, <2>1, QuietStep
<1>4. ASSUME NEW i \in Approvals, ReadCapacity(i) PROVE Shapes' /\ MadeOnce' /\ HoldsAreLocked'
  BY <1>3, <1>4 DEF ReadCapacity
<1>5. ASSUME NEW v \in reserving, WriteCapacity(v) \/ AbortCapacity(v) PROVE Shapes' /\ MadeOnce' /\ HoldsAreLocked'
  BY <1>3, <1>5 DEF WriteCapacity, AbortCapacity
<1>6. CASE \E b \in Bookings :
             \/ PassDay(b) \/ MarkAsPaid(b) \/ HandleWebhookEvent(b)
             \/ ProcessRefund(b) \/ UpdateStatus(b) \/ Update(b) \/ Delete(b)
  BY <1>1, <1>6, BookingStep, EditStep
<1>7. CASE \E e \in Expiries : PickHolds(e) BY <1>7, PickStep
<1>8. CASE \E t \in releasing : GiveBack(t) \/ CommitRelease(t) \/ AbortRelease(t)
  BY <1>8, GiveBackStep, CommitReleaseStep, AbortReleaseStep
<1>9. CASE \E e \in editing : CommitEdit(e) \/ AbortEdit(e) BY <1>2, <1>9, CommitEditStep
<1> QED BY <1>4, <1>5, <1>6, <1>7, <1>8, <1>9 DEF OtherStep

LEMMA OtherCreates == OtherStep => creating' = creating
BY DEF OtherStep, PassDay, MarkAsPaid, HandleWebhookEvent, ProcessRefund, UpdateStatus, Update, Delete, PickHolds,
       GiveBack, CommitRelease, AbortRelease, CommitEdit, AbortEdit, ReadCapacity, WriteCapacity, AbortCapacity

-----------------------------------------------------------------------------
(* Nights and blocks. *)

\* A block that is on a wanted night is among those that are fetched.
LEMMA WantedNightsOverlap ==
    ASSUME NEW b \in Bookings, NEW k \in Nat \ {0}, NEW x \in ListingBlock, Covers(x, WantedSlot(b, k)[2])
    PROVE  Overlaps(x, Order[b].checkIn, CheckOut(b))
<1>1. Order[b].checkIn \in Nat /\ Order[b].nights \in Nat \ {0} BY Orders
<1>2. x.span[1] \in Nat /\ x.span[2] \in Nat BY SpansAssumption DEF ListingBlock
<1> DEFINE r == (k - 1) % Order[b].nights
<1>3. r \in 0 .. Order[b].nights - 1 BY <1>1
<1>4. WantedSlot(b, k)[2] = Order[b].checkIn + r BY DEF WantedSlot
<1> HIDE DEF r
<1>5. x.span[1] <= Order[b].checkIn + r /\ Order[b].checkIn + r <= x.span[2] BY <1>4 DEF Covers
<1> QED BY <1>1, <1>2, <1>3, <1>5 DEF Overlaps, CheckOut

LEMMA FewerBlocks ==
    ASSUME NEW S, NEW T, S \subseteq T, NEW s, ~Blocked(T, s)
    PROVE  ~Blocked(S, s)
BY DEF Blocked

\* Bookings that are being made stay as they are, and no block comes back.
LEMMA NightsStay ==
    ASSUME DatesInv, creating' \subseteq creating,
           \A t \in creating' : Lasting(t.id)' \subseteq Lasting(t.id) /\ fetched'[t.id] = fetched[t.id]
    PROVE  NightsTested'
<1>1. SUFFICES ASSUME NEW t \in creating'
      PROVE  /\ \A k \in 1 .. t.at - 1 : ~Blocked(Lasting(t.id)', WantedSlot(t.id, k))
             /\ ~FirstNightOfItem(t) =>
                  \A x \in Lasting(t.id)' : Overlaps(x, Order[t.id].checkIn, CheckOut(t.id)) => x \in fetched'[t.id]
  BY DEF NightsTested
<1>2. /\ \A k \in 1 .. t.at - 1 : ~Blocked(Lasting(t.id), WantedSlot(t.id, k))
      /\ ~FirstNightOfItem(t) =>
           \A x \in Lasting(t.id) : Overlaps(x, Order[t.id].checkIn, CheckOut(t.id)) => x \in fetched[t.id]
  BY DEF DatesInv, NightsTested
<1>3. Lasting(t.id)' \subseteq Lasting(t.id) /\ fetched'[t.id] = fetched[t.id] OBVIOUS
<1>4. \A k \in 1 .. t.at - 1 : ~Blocked(Lasting(t.id)', WantedSlot(t.id, k))
  BY <1>2, <1>3, FewerBlocks
<1> QED BY <1>2, <1>3, <1>4

LEMMA OtherKeeps ==
    ASSUME DatesInv, OtherStep, UNCHANGED blockVars
    PROVE  DatesInv'
<1>1. Shapes' /\ MadeOnce' /\ HoldsAreLocked' BY OtherHolds DEF DatesInv
<1>2. blocks' = blocks /\ fetched' = fetched /\ began' = began BY DEF blockVars
<1>3. DatesShapes' BY <1>2 DEF DatesInv, DatesShapes
<1>4. \A t \in creating' : Lasting(t.id)' \subseteq Lasting(t.id) /\ fetched'[t.id] = fetched[t.id]
  BY <1>2 DEF Lasting
<1>5. NightsTested' BY <1>4, OtherCreates, NightsStay
<1> QED BY <1>1, <1>3, <1>5 DEF DatesInv

LEMMA BlocksKeep ==
    ASSUME DatesInv, CreateBlocks \/ \E x \in blocks : ReleaseBlock(x)
    PROVE  DatesInv'
<1>1. UNCHANGED <<calendar, status, overdue, creating, releasing, reserving, editing>> /\ fetched' = fetched /\ began' = began
  BY DEF CreateBlocks, ReleaseBlock, bookingVars
<1>2. Shapes' /\ MadeOnce' /\ HoldsAreLocked'
  <2>1. overdue' \subseteq Bookings BY <1>1 DEF DatesInv, Shapes
  <2> QED BY <1>1, <2>1, QuietStep DEF DatesInv
<1>3. /\ blocks' \subseteq ListingBlock
      /\ \A b \in Bookings : began[b] \cap blocks' \subseteq blocks
  <2>1. CASE \E x \in blocks : ReleaseBlock(x) BY <2>1 DEF ReleaseBlock, DatesInv, DatesShapes
  <2>2. CASE CreateBlocks
    <3>1. PICK span \in Spans, chosen \in SUBSET Variants :
            \E keys \in [IF chosen = {} THEN {Listing} ELSE chosen -> NewKeys] :
                blocks' = blocks \cup {[key |-> keys[v], variant |-> v, span |-> span] : v \in DOMAIN keys}
      BY <2>2 DEF CreateBlocks
    <3>2. PICK keys \in [IF chosen = {} THEN {Listing} ELSE chosen -> NewKeys] :
                blocks' = blocks \cup {[key |-> keys[v], variant |-> v, span |-> span] : v \in DOMAIN keys}
      BY <3>1
    <3>3. \A v \in DOMAIN keys : v \in Variants \cup {Listing} /\ keys[v] \in NewKeys BY <3>2
    <3>4. \A v \in DOMAIN keys :
            LET x == [key |-> keys[v], variant |-> v, span |-> span]
            IN  x \in ListingBlock /\ \A b \in Bookings : x \notin began[b]
      BY <3>3 DEF NewKeys, ListingBlock
    <3> QED BY <3>2, <3>4 DEF DatesInv, DatesShapes
  <2> QED BY <2>1, <2>2
<1>4. DatesShapes' BY <1>1, <1>3 DEF DatesInv, DatesShapes
<1>5. NightsTested'
  <2>1. \A t \in creating : t.id \in Bookings BY DEF DatesInv, Shapes
  <2>2. \A t \in creating' : Lasting(t.id)' \subseteq Lasting(t.id) /\ fetched'[t.id] = fetched[t.id]
    BY <1>1, <1>3, <2>1 DEF Lasting
  <2> QED BY <1>1, <2>2, NightsStay
<1> QED BY <1>2, <1>4, <1>5 DEF DatesInv

LEMMA BeginKeeps ==
    ASSUME DatesInv, NEW b \in Bookings, BeginDates(b)
    PROVE  DatesInv'
<1> DEFINE n == [id |-> b, at |-> 1, draft |-> <<>>]
<1>1. /\ creating' = creating \cup {n} /\ status[b] = "none" /\ \A t \in creating : t.id # b
      /\ UNCHANGED <<status, overdue, releasing, editing, blocks>>
      /\ fetched' = [fetched EXCEPT ![b] = {}] /\ began' = [began EXCEPT ![b] = blocks]
  BY DEF BeginDates, BeginBooking
<1>2. n.id = b /\ n.at = 1 /\ n = [id |-> n.id, at |-> n.at, draft |-> n.draft] OBVIOUS
<1> HIDE DEF n
<1>3. Shapes' BY <1>1, <1>2 DEF DatesInv, Shapes
<1>4. MadeOnce' BY <1>1, <1>2 DEF DatesInv, MadeOnce
<1>5. HoldsAreLocked' BY <1>1 DEF DatesInv, HoldsAreLocked, ExpiredHolds
<1>6. DatesShapes' BY <1>1 DEF DatesInv, DatesShapes
<1>7. NightsTested'
  <2>1. \A t \in creating : t.id \in Bookings /\ t.id # b /\ Lasting(t.id)' = Lasting(t.id) /\ fetched'[t.id] = fetched[t.id]
    BY <1>1 DEF DatesInv, Shapes, DatesShapes, Lasting
  <2>2. FirstNightOfItem(n)
    BY <1>2, Orders DEF FirstNightOfItem
  <2>3. 1 .. n.at - 1 = {} BY <1>2
  <2>4. ASSUME NEW t \in creating'
        PROVE  /\ \A k \in 1 .. t.at - 1 : ~Blocked(Lasting(t.id)', WantedSlot(t.id, k))
               /\ ~FirstNightOfItem(t) =>
                    \A x \in Lasting(t.id)' : Overlaps(x, Order[t.id].checkIn, CheckOut(t.id)) => x \in fetched'[t.id]
    <3>1. CASE t = n BY <2>2, <2>3, <3>1
    <3>2. CASE t \in creating BY <2>1, <3>2 DEF DatesInv, NightsTested
    <3> QED BY <1>1, <3>1, <3>2
  <2> QED BY <2>4 DEF NightsTested
<1> QED BY <1>3, <1>4, <1>5, <1>6, <1>7 DEF DatesInv

\* What a booking in flight is after one more night.
LEMMA NightTaken ==
    ASSUME Shapes, NEW t \in creating, ReserveNight(t)
    PROVE  \E new \in NightRows(t) : \E u :
               /\ creating' = (creating \ {t}) \cup {u}
               /\ u.id = t.id /\ u.at = t.at + 1 /\ u.draft = Over(new, t.draft)
               /\ u = [id |-> u.id, at |-> u.at, draft |-> u.draft]
<1>1. PICK new \in NightRows(t) : creating' = (creating \ {t}) \cup {[t EXCEPT !.at = @ + 1, !.draft = Over(new, @)]}
  BY DEF ReserveNight
<1> DEFINE u == [t EXCEPT !.at = @ + 1, !.draft = Over(new, @)]
           d == Over(new, t.draft)
           m == t.at + 1
<1>2. t = [id |-> t.id, at |-> t.at, draft |-> t.draft] BY DEF Shapes
<1>3. u = [id |-> t.id, at |-> m, draft |-> d]
  <2>1. u = [[t EXCEPT !.at = m] EXCEPT !.draft = Over(new, @)] OBVIOUS
  <2>2. [t EXCEPT !.at = m] = [id |-> t.id, at |-> m, draft |-> t.draft]
    <3> HIDE DEF m
    <3> QED BY <1>2
  <2>3. u = [[t EXCEPT !.at = m] EXCEPT !.draft = d] BY <2>1, <2>2
  <2> HIDE DEF d, m, u
  <2> QED BY <2>2, <2>3
<1>4. creating' = (creating \ {t}) \cup {u} BY <1>1
<1> HIDE DEF d, u
<1>5. u.id = t.id /\ u.at = t.at + 1 /\ u.draft = d /\ u = [id |-> u.id, at |-> u.at, draft |-> u.draft] BY <1>3
<1> QED BY <1>4, <1>5 DEF d

LEMMA ReserveKeeps ==
    ASSUME DatesInv, NEW t \in creating, ReserveOpenNight(t)
    PROVE  DatesInv'
<1>2. t.id \in Bookings /\ t.at \in Nat \ {0} BY DEF DatesInv, Shapes
<1>3. PICK new, u :
          /\ creating' = (creating \ {t}) \cup {u}
          /\ u.id = t.id /\ u.at = t.at + 1 /\ u = [id |-> u.id, at |-> u.at, draft |-> u.draft]
  BY NightTaken DEF ReserveOpenNight, DatesInv
<1>4. creating' = (creating \ {t}) \cup {u} BY <1>3
<1>5. u.id = t.id /\ u.at = t.at + 1 /\ u = [id |-> u.id, at |-> u.at, draft |-> u.draft] BY <1>3
<1>6. UNCHANGED <<status, overdue, releasing, editing, blocks, began>> BY DEF ReserveOpenNight, ReserveNight
<1>7. /\ ~Blocked(BlocksOf(t), WantedSlot(t.id, t.at))
      /\ fetched' = [fetched EXCEPT ![t.id] = BlocksOf(t)]
  BY DEF ReserveOpenNight
<1>8. Shapes' BY <1>2, <1>4, <1>5, <1>6 DEF DatesInv, Shapes
<1>9. MadeOnce' BY <1>4, <1>5, <1>6 DEF DatesInv, MadeOnce
<1>10. HoldsAreLocked' BY <1>6 DEF DatesInv, HoldsAreLocked, ExpiredHolds
<1>11. BlocksOf(t) \subseteq ListingBlock BY <1>2 DEF BlocksOf, DatesInv, DatesShapes
<1>12. DatesShapes' BY <1>2, <1>6, <1>7, <1>11 DEF DatesInv, DatesShapes
<1>13. \A x \in Lasting(t.id) : Overlaps(x, Order[t.id].checkIn, CheckOut(t.id)) => x \in BlocksOf(t)
  BY DEF BlocksOf, Lasting, DatesInv, NightsTested
<1>14. ~Blocked(Lasting(t.id), WantedSlot(t.id, t.at))
  <2>1. \A x \in Lasting(t.id) : x \in ListingBlock BY <1>2 DEF Lasting, DatesInv, DatesShapes
  <2>2. \A x \in Lasting(t.id) : Covers(x, WantedSlot(t.id, t.at)[2]) => x \in BlocksOf(t)
    BY <1>2, <1>13, <2>1, WantedNightsOverlap
  <2> QED BY <1>7, <2>2 DEF Blocked
<1>15. NightsTested'
  <2>1. \A v \in creating' : v.id \in Bookings /\ Lasting(v.id)' = Lasting(v.id)
    BY <1>6, <1>8 DEF Lasting, Shapes
  <2>2. ASSUME NEW v \in creating'
        PROVE  /\ \A k \in 1 .. v.at - 1 : ~Blocked(Lasting(v.id)', WantedSlot(v.id, k))
               /\ ~FirstNightOfItem(v) =>
                    \A x \in Lasting(v.id)' : Overlaps(x, Order[v.id].checkIn, CheckOut(v.id)) => x \in fetched'[v.id]
    <3>1. CASE v = u
      <4>1. \A k \in 1 .. t.at : ~Blocked(Lasting(t.id), WantedSlot(t.id, k))
        <5>1. \A k \in 1 .. t.at - 1 : ~Blocked(Lasting(t.id), WantedSlot(t.id, k))
          BY DEF DatesInv, NightsTested
        <5>2. \A k \in 1 .. t.at : k \in 1 .. t.at - 1 \/ k = t.at BY <1>2
        <5> QED BY <1>14, <5>1, <5>2
      <4>2. fetched'[t.id] = BlocksOf(t) BY <1>2, <1>7 DEF DatesInv, DatesShapes
      <4>3. 1 .. v.at - 1 = 1 .. t.at /\ v.id = t.id BY <1>2, <1>5, <3>1
      <4> QED BY <1>13, <2>1, <4>1, <4>2, <4>3
    <3>2. CASE v \in creating \ {t}
      <4>1. v.id # t.id BY <3>2 DEF DatesInv, MadeOnce
      <4>2. fetched'[v.id] = fetched[v.id] BY <1>2, <1>7, <2>1, <4>1 DEF DatesInv, DatesShapes
      <4> QED BY <2>1, <3>2, <4>2 DEF DatesInv, NightsTested
    <3> QED BY <1>4, <3>1, <3>2
  <2> QED BY <2>2 DEF NightsTested
<1> QED BY <1>8, <1>9, <1>10, <1>12, <1>15 DEF DatesInv

LEMMA EndKeeps ==
    ASSUME DatesInv, NEW t \in creating, EndDates(t)
    PROVE  DatesInv'
<1>1. /\ creating' = creating \ {t} /\ UNCHANGED <<overdue, releasing, editing, blocks>>
      /\ fetched' = [fetched EXCEPT ![t.id] = {}] /\ began' = [began EXCEPT ![t.id] = {}]
      /\ status' = status \/ status' = [status EXCEPT ![t.id] = InitialStatus(t.id)]
  BY DEF EndDates, CommitBooking, AbortBooking
<1>2. t.id \in Bookings /\ status[t.id] = "none" /\ InitialStatus(t.id) \in BookingStatus
  BY DEF DatesInv, Shapes, MadeOnce, InitialStatus, BookingStatus
<1>3. \A v \in creating' : v.id \in Bookings /\ v.id # t.id BY <1>1 DEF DatesInv, Shapes, MadeOnce
<1>4. Shapes' BY <1>1, <1>2 DEF DatesInv, Shapes
<1>5. MadeOnce' BY <1>1, <1>2, <1>3 DEF DatesInv, MadeOnce, Shapes
<1>6. HoldsAreLocked'
  <2>1. \A b \in ExpiredHolds : b \in ExpiredHolds' BY <1>1, <1>2 DEF ExpiredHolds, DatesInv, Shapes
  <2> QED BY <1>1, <2>1 DEF DatesInv, HoldsAreLocked
<1>7. DatesShapes' BY <1>1 DEF DatesInv, DatesShapes
<1>8. NightsTested'
  <2>1. \A v \in creating' : Lasting(v.id)' \subseteq Lasting(v.id) /\ fetched'[v.id] = fetched[v.id]
    BY <1>1, <1>3 DEF Lasting, DatesInv, DatesShapes
  <2> QED BY <1>1, <2>1, NightsStay
<1> QED BY <1>4, <1>5, <1>6, <1>7, <1>8 DEF DatesInv

LEMMA DatesStep ==
    ASSUME DatesInv, [NextDates]_allVars
    PROVE  DatesInv'
<1>1. CASE CreateBlocks \/ \E x \in blocks : ReleaseBlock(x) BY <1>1, BlocksKeep
<1>2. CASE \E b \in Bookings : BeginDates(b) BY <1>2, BeginKeeps
<1>3. CASE \E t \in creating : ReserveOpenNight(t) \/ EndDates(t) BY <1>3, ReserveKeeps, EndKeeps
<1>4. CASE OtherStep /\ UNCHANGED blockVars BY <1>4, OtherKeeps
<1>5. CASE UNCHANGED allVars
  <2>1. UNCHANGED <<status, overdue, creating, releasing, editing, blocks, fetched, began>> BY <1>5 DEF allVars
  <2>2. Shapes' /\ MadeOnce' /\ HoldsAreLocked'
    <3>1. overdue' \subseteq Bookings BY <2>1 DEF DatesInv, Shapes
    <3> QED BY <2>1, <3>1, QuietStep DEF DatesInv
  <2>3. DatesShapes' BY <2>1 DEF DatesInv, DatesShapes
  <2>4. \A t \in creating' : Lasting(t.id)' \subseteq Lasting(t.id) /\ fetched'[t.id] = fetched[t.id]
    BY <2>1 DEF Lasting
  <2>5. NightsTested' BY <2>1, <2>4, NightsStay
  <2> QED BY <2>2, <2>3, <2>5 DEF DatesInv
<1> QED BY <1>1, <1>2, <1>3, <1>4, <1>5 DEF NextDates

LEMMA DatesInit == InitDates => DatesInv
BY DEF InitDates, InitBookings, DatesInv, Shapes, MadeOnce, HoldsAreLocked, DatesShapes, NightsTested

\* The orders keep their shape, no booking is made twice, the holds that a release has picked
\* stay expired and its own, and a booking in flight has tested its nights on all the blocks that
\* have been there since it began.
THEOREM DatesInvariant == SpecDates => []DatesInv
BY DatesInit, DatesStep, PTL DEF SpecDates

LEMMA ReleasedStep ==
    ASSUME HoldsAreLocked, [NextDates]_allVars
    PROVE  released' \ released \subseteq ExpiredHolds
<1>1. ASSUME NEW t \in releasing, CommitRelease(t) PROVE released' \ released \subseteq ExpiredHolds
  BY <1>1 DEF CommitRelease, HoldsAreLocked
<1>2. CASE released' = released BY <1>2
<1>3. CASE OtherStep
  BY <1>1, <1>2, <1>3
     DEF OtherStep, PassDay, MarkAsPaid, HandleWebhookEvent, ProcessRefund, UpdateStatus, Update, Delete, PickHolds,
         GiveBack, AbortRelease, CommitEdit, AbortEdit, ReadCapacity, WriteCapacity, AbortCapacity, history
<1>4. CASE (\E b \in Bookings : BeginDates(b)) \/ (\E t \in creating : ReserveOpenNight(t) \/ EndDates(t))
  BY <1>2, <1>4 DEF BeginDates, BeginBooking, ReserveOpenNight, ReserveNight, EndDates, CommitBooking, AbortBooking, history
<1>5. CASE CreateBlocks \/ (\E x \in blocks : ReleaseBlock(x)) \/ UNCHANGED allVars
  BY <1>2, <1>5 DEF CreateBlocks, ReleaseBlock, bookingVars, allVars
<1> QED BY <1>3, <1>4, <1>5 DEF NextDates

\* release_expired_bank_transfer_holds gives back the places of a booking only if it is an
\* expired hold at the commit, whatever payments, refunds and edits do meanwhile.
THEOREM OnlyExpiredReleased == SpecDates => OnlyExpiredHoldsAreReleased
<1>1. DatesInv /\ [NextDates]_allVars => [released' \ released \subseteq ExpiredHolds]_bookingVars
  BY ReleasedStep DEF DatesInv
<1> QED BY <1>1, DatesInvariant, PTL DEF SpecDates, OnlyExpiredHoldsAreReleased

\* create_booking, which fetches the blocks once for each item, commits no booking of a night
\* that was blocked all the while it was being made.
THEOREM BlockedNightsAreNotBooked == SpecDates => BlockedNightsStay
<1>1. ASSUME DatesInv, NEW t \in creating, CommitBooking(t), NEW k \in 1 .. WantedCount(t.id)
      PROVE  ~Blocked(began[t.id] \cap blocks, WantedSlot(t.id, k))
  <2>1. t.id \in Bookings /\ t.at \in Nat /\ t.at > WantedCount(t.id) BY <1>1 DEF DatesInv, Shapes, CommitBooking
  <2>2. WantedCount(t.id) \in Nat BY <2>1, Orders DEF WantedCount
  <2>3. k \in 1 .. t.at - 1 BY <2>1, <2>2
  <2> QED BY <1>1, <2>3 DEF DatesInv, NightsTested, Lasting
<1>2. DatesInv => [\A t \in creating : CommitBooking(t) =>
           \A k \in 1..WantedCount(t.id) : ~Blocked(began[t.id] \cap blocks, WantedSlot(t.id, k))]_allVars
  BY <1>1
<1> QED BY <1>2, DatesInvariant, PTL DEF BlockedNightsStay

-----------------------------------------------------------------------------
(***************************************************************************)
(* The places of a night. A row belongs to the transaction that locked it, *)
(* so its draft differs from the row by what the transaction has booked or *)
(* given back so far (RowsLocked, NightsCounted, HoldsCounted). Places are *)
(* counted one by one, as a set, so that sums are cardinalities. A release *)
(* takes off a row no more than its holds had taken there (HoldsCounted),  *)
(* so the rows go on counting every booking whose capacity was not given   *)
(* back, whatever its status (Kept, RowsCountKept).                        *)
(***************************************************************************)

Balanced(row) == row.reserved + row.available = row.total

\* A row counts the capacity of its variant, and adds up until an inquiry reserves in it.
RowsSound ==
    /\ calendar \in [Rows -> RowData]
    /\ \A r \in Rows : calendar[r] # NoRow => calendar[r].total = Capacity[r[1][1]]
    /\ RowsBalance

\* So do the rows of a draft.
DraftSound(d) ==
    /\ Draft(d)
    /\ \A r \in DOMAIN d : d[r].total = Capacity[r[1][1]] /\ (DirectOnly(r[1]) => Balanced(d[r]))

\* What a draft holds is committed, or inserted by the draft's own transaction.
DraftsSound ==
    /\ \A t \in creating : DraftSound(t.draft) /\ \A r \in DOMAIN t.draft : calendar[r] # NoRow \/ r[2] = t.id
    /\ \A t \in releasing : DraftSound(t.draft) /\ \A r \in DOMAIN t.draft : calendar[r] # NoRow

Apart(t, u) == DOMAIN t.draft \cap DOMAIN u.draft = {}

\* No row is in the drafts of two transactions.
RowsLocked ==
    /\ \A t, u \in creating : t # u => Apart(t, u)
    /\ \A t, u \in releasing : t # u => Apart(t, u)
    /\ \A t \in creating, u \in releasing : Apart(t, u)

\* An inquiry changes the row that it has read, or inserts its own.
ReservesKnown ==
    \A v \in reserving :
        /\ v.id \in Approvals /\ v.row \in Rows /\ v.seen \in RowData
        /\ v.id \in approved /\ v.row[1] = AskedSlot(v.id)
        /\ v.seen # NoRow => calendar[v.row] # NoRow

RowsOf(d, s) == {r \in DOMAIN d : r[1] = s}

NightsDone(t) == {t.id} \X (1..t.at - 1)

\* A booking that holds at most one row of a slot has counted its nights so far in it.
CountedIn(t) ==
    \A s \in Slots :
        /\ RowsOf(t.draft, s) = {} => PlacesOf(NightsDone(t), s) = {}
        /\ \A r \in DOMAIN t.draft :
               RowsOf(t.draft, s) = {r} =>
                   t.draft[r].reserved = calendar[r].reserved + Cardinality(PlacesOf(NightsDone(t), s))

NightsCounted == \A t \in creating : t.at \in 1..WantedCount(t.id) + 1 /\ CountedIn(t)

\* The items of bookings, each named as in a release.
HoldItems(bs) == OneByOne([b \in bs |-> Len(Order[b].items)])

\* The places of the slot that such items give back.
ItemPlaces(ps, s) ==
    OneByOne([p \in {q \in ps : HoldSlot(q[1], q[2]) = s} |-> Order[p[1]].items[p[2]].qty])

\* What a release has given back to a slot so far.
GivenBack(t, s) == ItemPlaces(HoldItems(t.picked) \ t.left, s)

\* A release takes off a row no more than it gives back.
GivenIn(t) ==
    \A r \in DOMAIN t.draft : calendar[r].reserved <= t.draft[r].reserved + Cardinality(GivenBack(t, r[1]))

HoldsCounted == \A t \in releasing : t.left \subseteq HoldItems(t.picked) /\ GivenIn(t)

\* Every booking whose capacity was never given back, whatever its status: an edit may bring
\* it back to life.
Kept == {b \in Bookings : status[b] # "none"} \ released

KeptPlaces(s) == PlacesOf(NightsWanted(Kept), s)

RowsCountKept ==
    \A s \in Slots : reopened = {} /\ DirectOnly(s) /\ OwnNightsGivenBack(s) =>
        /\ CommittedRows(s) = {} => KeptPlaces(s) = {}
        /\ \A r \in Rows : CommittedRows(s) = {r} => Cardinality(KeptPlaces(s)) <= calendar[r].reserved

ReleasedKnown ==
    /\ released \subseteq Bookings
    /\ \A b \in released : status[b] # "none" /\ (status[b] = "pending" => b \in reopened)

RowsInv ==
    /\ RowsSound /\ DraftsSound /\ RowsLocked /\ ReservesKnown /\ ReleasedKnown
    /\ NightsCounted /\ HoldsCounted /\ RowsCountKept
-----------------------------------------------------------------------------
(* Sums, as the number of what is counted. *)

LEMMA OneByOneElements ==
    ASSUME NEW q
    PROVE  \A z : z \in OneByOne(q) <=> z = <<z[1], z[2]>> /\ z[1] \in DOMAIN q /\ z[2] \in 1..q[z[1]]
BY DEF OneByOne

LEMMA OneByOneFinite ==
    ASSUME NEW q, IsFiniteSet(DOMAIN q), \A k \in DOMAIN q : q[k] \in Nat
    PROVE  IsFiniteSet(OneByOne(q)) /\ Cardinality(OneByOne(q)) \in Nat
<1> DEFINE K == DOMAIN q
           F == {{k} \X (1..q[k]) : k \in K}
           f == [k \in K |-> {k} \X (1..q[k])]
<1>1. f \in Surjection(K, F) BY DEF Surjection
<1>2. IsFiniteSet(F)
  <2> HIDE DEF f, F
  <2> QED BY <1>1, FS_Surjection
<1>3. \A T \in F : IsFiniteSet(T)
  <2>1. ASSUME NEW k \in K PROVE IsFiniteSet({k} \X (1..q[k]))
    <3>1. IsFiniteSet({k}) BY FS_Singleton
    <3>2. IsFiniteSet(1..q[k]) BY FS_Interval
    <3> QED BY <3>1, <3>2, FS_Product
  <2> QED BY <2>1
<1>4. IsFiniteSet(UNION F)
  <2> HIDE DEF F
  <2> QED BY <1>2, <1>3, FS_UNION
<1>5. IsFiniteSet(OneByOne(q)) BY <1>4 DEF OneByOne
<1> QED BY <1>5, FS_CardinalityType

LEMMA UnitCount ==
    ASSUME NEW x, NEW n \in Nat
    PROVE  IsFiniteSet({x} \X (1..n)) /\ Cardinality({x} \X (1..n)) = n
<1>1. IsFiniteSet({x}) /\ Cardinality({x}) = 1 BY FS_Singleton
<1>2. IsFiniteSet(1..n) /\ Cardinality(1..n) = n BY FS_Interval
<1> DEFINE S == {x}  T == 1..n
<1>3. IsFiniteSet(S) /\ Cardinality(S) = 1 /\ IsFiniteSet(T) /\ Cardinality(T) = n BY <1>1, <1>2
<1> HIDE DEF S, T
<1>4. IsFiniteSet(S \X T) /\ Cardinality(S \X T) = 1 * n BY <1>3, FS_Product
<1> QED BY <1>4 DEF S, T

LEMMA DisjointCount ==
    ASSUME NEW S, NEW T, IsFiniteSet(S), IsFiniteSet(T), S \cap T = {}
    PROVE  /\ IsFiniteSet(S \cup T) /\ Cardinality(S) \in Nat /\ Cardinality(T) \in Nat
           /\ Cardinality(S \cup T) = Cardinality(S) + Cardinality(T)
<1>1. Cardinality(S) \in Nat /\ Cardinality(T) \in Nat BY FS_CardinalityType
<1>2. Cardinality(S \cap T) = 0 BY FS_EmptySet
<1>3. IsFiniteSet(S \cup T) /\ Cardinality(S \cup T) = Cardinality(S) + Cardinality(T) - Cardinality(S \cap T)
  BY FS_Union
<1> QED BY <1>1, <1>2, <1>3

\* The sum of two functions counts what both count.
LEMMA SumOfSums ==
    ASSUME NEW V, IsFiniteSet(V), NEW p \in [V -> Nat], NEW q \in [V -> Nat], NEW r \in [V -> Nat],
           \A v \in V : r[v] = p[v] + q[v]
    PROVE  Cardinality(OneByOne(r)) = Cardinality(OneByOne(p)) + Cardinality(OneByOne(q))
<1> DEFINE P == OneByOne(p)  Q == OneByOne(q)  R == OneByOne(r)
           X == {z \in R : z[2] > p[z[1]]}
           f == [z \in Q |-> <<z[1], p[z[1]] + z[2]>>]
<1>1. \A z : z \in P <=> z = <<z[1], z[2]>> /\ z[1] \in V /\ z[2] \in 1..p[z[1]] BY OneByOneElements
<1>2. \A z : z \in Q <=> z = <<z[1], z[2]>> /\ z[1] \in V /\ z[2] \in 1..q[z[1]] BY OneByOneElements
<1>3. \A z : z \in R <=> z = <<z[1], z[2]>> /\ z[1] \in V /\ z[2] \in 1..r[z[1]] BY OneByOneElements
<1>4. IsFiniteSet(P) /\ IsFiniteSet(Q) BY OneByOneFinite
<1> HIDE DEF P, Q, R
<1>5. R = P \cup X
  <2>1. ASSUME NEW z \in P PROVE z \in R BY <2>1, <1>1, <1>3
  <2>2. ASSUME NEW z \in R, z \notin X PROVE z \in P BY <2>2, <1>1, <1>3
  <2> QED BY <2>1, <2>2
<1>6. P \cap X = {} BY <1>1
<1>7. f \in Bijection(Q, X)
  <2>1. ASSUME NEW z \in Q PROVE f[z] \in X
    <3> DEFINE y == <<z[1], p[z[1]] + z[2]>>
    <3>1. z[1] \in V /\ z[2] \in 1..q[z[1]] BY <1>2
    <3>2. y = <<y[1], y[2]>> /\ y[1] = z[1] /\ y[2] \in 1..r[y[1]] /\ y[2] > p[y[1]] BY <3>1
    <3>3. y \in R BY <3>1, <3>2, <1>3
    <3> QED BY <3>2, <3>3
  <2>2. ASSUME NEW y \in Q, NEW z \in Q, f[y] = f[z] PROVE y = z
    <3>1. y[1] = z[1] /\ p[y[1]] + y[2] = p[z[1]] + z[2] BY <2>2
    <3>2. y[1] \in V /\ y[2] \in Nat /\ z[2] \in Nat /\ p[y[1]] \in Nat BY <1>2
    <3>3. y[2] = z[2] BY <3>1, <3>2
    <3> QED BY <3>1, <3>3, <1>2
  <2>3. ASSUME NEW y \in X PROVE \E z \in Q : f[z] = y
    <3> DEFINE z == <<y[1], y[2] - p[y[1]]>>
    <3>1. y \in R /\ y[2] > p[y[1]] BY <2>3
    <3>2. y = <<y[1], y[2]>> /\ y[1] \in V /\ y[2] \in 1..r[y[1]] BY <3>1, <1>3
    <3>3. y[2] - p[y[1]] \in 1..q[y[1]] /\ p[y[1]] + (y[2] - p[y[1]]) = y[2] BY <3>1, <3>2
    <3>4. z \in Q BY <3>2, <3>3, <1>2
    <3> QED BY <3>2, <3>3, <3>4
  <2> HIDE DEF X
  <2>4. f \in [Q -> X] BY <2>1
  <2>5. DOMAIN f = Q OBVIOUS
  <2> HIDE DEF f
  <2>6. f \in Injection(Q, X) BY <2>2, <2>4, <2>5 DEF Injection, IsInjective
  <2>7. f \in Surjection(Q, X) BY <2>3, <2>4 DEF Surjection
  <2> QED BY <2>6, <2>7 DEF Bijection
<1>8. IsFiniteSet(X) /\ Cardinality(X) = Cardinality(Q)
  <2> HIDE DEF X, f
  <2> QED BY <1>4, <1>7, FS_Bijection DEF ExistsBijection
<1> HIDE DEF X
<1> QED BY <1>4, <1>5, <1>6, <1>8, DisjointCount DEF P, Q, R

\* A sum is positive when one of its figures is.
LEMMA PositiveSum ==
    ASSUME NEW V, IsFiniteSet(V), NEW p \in [V -> Nat]
    PROVE  Cardinality(OneByOne(p)) > 0 <=> \E v \in V : p[v] > 0
<1>1. IsFiniteSet(OneByOne(p)) /\ Cardinality(OneByOne(p)) \in Nat BY OneByOneFinite
<1>2. Cardinality(OneByOne(p)) = 0 <=> OneByOne(p) = {} BY <1>1, FS_EmptySet
<1>3. OneByOne(p) = {} <=> \A v \in V : p[v] = 0
  <2>1. ASSUME NEW v \in V, p[v] # 0 PROVE OneByOne(p) # {}
    <3>1. <<v, 1>> \in OneByOne(p)
      <4>1. 1 \in 1..p[v] BY <2>1
      <4> QED BY <4>1, OneByOneElements
    <3> QED BY <3>1
  <2>2. ASSUME NEW z \in OneByOne(p) PROVE \E v \in V : p[v] # 0
    <3>1. z[1] \in V /\ z[2] \in 1..p[z[1]] BY OneByOneElements
    <3> QED BY <3>1
  <2> QED BY <2>1, <2>2
<1> QED BY <1>1, <1>2, <1>3
-----------------------------------------------------------------------------
(* Nights, items and the places that they ask for. *)

LEMMA Quotient ==
    ASSUME NEW n \in Nat \ {0}, NEW m \in Nat, NEW x \in Nat, x < m * n
    PROVE  x \div n \in 0 .. m - 1 /\ x % n \in 0 .. n - 1
BY SMTT(30)

LEMMA QuotientOf ==
    ASSUME NEW n \in Nat \ {0}, NEW a \in Nat, NEW r \in 0 .. n - 1
    PROVE  (a * n + r) \div n = a /\ (a * n + r) % n = r
BY SMTT(30)

LEMMA QuotientBound ==
    ASSUME NEW n \in Nat \ {0}, NEW a \in Nat, NEW m \in Nat, a < m, NEW r \in 0 .. n - 1
    PROVE  a * n + r \in Nat /\ a * n + r < m * n
BY SMTT(30)

LEMMA ItemsTyped ==
    ASSUME NEW b \in Bookings, NEW i \in DOMAIN Order[b].items
    PROVE  /\ i \in 1..Len(Order[b].items) /\ Order[b].items[i] \in ItemLines
           /\ Order[b].items[i].variant \in Variants /\ Order[b].items[i].qty \in Nat \ {0}
           /\ Order[b].items[i].travel \in Nights
<1>1. Order[b].items \in Seq(ItemLines) BY Orders
<1>2. i \in 1..Len(Order[b].items) /\ Order[b].items[i] \in ItemLines BY <1>1
<1> QED BY <1>2 DEF ItemLines

LEMMA WantedCountTyped ==
    ASSUME NEW b \in Bookings
    PROVE  WantedCount(b) \in Nat
BY Orders DEF WantedCount

LEMMA WantedTyped ==
    ASSUME NEW b \in Bookings, NEW k \in 1..WantedCount(b)
    PROVE  WantedSlot(b, k) \in Slots /\ WantedItem(b, k).qty \in Nat \ {0}
<1>1. Order[b].items \in Seq(ItemLines) /\ Order[b].nights \in Nat \ {0} /\ Order[b].checkIn \in Nat BY Orders
<1>2. Len(Order[b].items) \in Nat BY <1>1
<1>3. k - 1 \in Nat /\ k - 1 < Len(Order[b].items) * Order[b].nights
  BY WantedCountTyped DEF WantedCount
<1>4. /\ (k - 1) \div Order[b].nights \in 0 .. Len(Order[b].items) - 1
      /\ (k - 1) % Order[b].nights \in 0 .. Order[b].nights - 1
  BY <1>1, <1>2, <1>3, Quotient
<1>5. (k - 1) \div Order[b].nights + 1 \in DOMAIN Order[b].items BY <1>1, <1>2, <1>4
<1>6. WantedItem(b, k).variant \in Variants /\ WantedItem(b, k).qty \in Nat \ {0}
  BY <1>5, ItemsTyped DEF WantedItem
<1>7. Order[b].checkIn + ((k - 1) % Order[b].nights) \in Nights
  <2>1. Order[b].checkIn .. Order[b].checkIn + Order[b].nights - 1 \subseteq Nights BY CapacityAssumption
  <2>2. \A r \in 0 .. Order[b].nights - 1 : Order[b].checkIn + r \in Order[b].checkIn .. Order[b].checkIn + Order[b].nights - 1
    BY <1>1
  <2> QED BY <1>4, <2>1, <2>2
<1> QED BY <1>6, <1>7 DEF WantedSlot, Slots

LEMMA NightsElements ==
    ASSUME NEW bs
    PROVE  \A x : x \in NightsWanted(bs) <=> x = <<x[1], x[2]>> /\ x[1] \in bs /\ x[2] \in 1..WantedCount(x[1])
<1> DEFINE q == [b \in bs |-> WantedCount(b)]
<1>1. DOMAIN q = bs /\ \A b \in bs : q[b] = WantedCount(b) OBVIOUS
<1>2. NightsWanted(bs) = OneByOne(q) BY DEF NightsWanted
<1> HIDE DEF q
<1> QED BY <1>1, <1>2, OneByOneElements

LEMMA PlacesElements ==
    ASSUME NEW xs, NEW s
    PROVE  \A z : z \in PlacesOf(xs, s) <=>
               /\ z = <<z[1], z[2]>> /\ z[1] \in xs /\ WantedSlot(z[1][1], z[1][2]) = s
               /\ z[2] \in 1..WantedItem(z[1][1], z[1][2]).qty
<1> DEFINE q == [x \in {y \in xs : WantedSlot(y[1], y[2]) = s} |-> WantedItem(x[1], x[2]).qty]
<1>1. /\ DOMAIN q = {y \in xs : WantedSlot(y[1], y[2]) = s}
      /\ \A x \in DOMAIN q : q[x] = WantedItem(x[1], x[2]).qty
  OBVIOUS
<1>2. PlacesOf(xs, s) = OneByOne(q) BY DEF PlacesOf
<1> HIDE DEF q
<1> QED BY <1>1, <1>2, OneByOneElements

LEMMA NightsFinite == IsFiniteSet(NightsWanted(Bookings))
<1> DEFINE q == [b \in Bookings |-> WantedCount(b)]
<1>1. IsFiniteSet(DOMAIN q) /\ \A b \in DOMAIN q : q[b] \in Nat BY CapacityAssumption, WantedCountTyped
<1>2. NightsWanted(Bookings) = OneByOne(q) BY DEF NightsWanted
<1> HIDE DEF q
<1> QED BY <1>1, <1>2, OneByOneFinite

LEMMA PlacesFinite ==
    ASSUME NEW xs \in SUBSET NightsWanted(Bookings), NEW s
    PROVE  IsFiniteSet(PlacesOf(xs, s)) /\ Cardinality(PlacesOf(xs, s)) \in Nat
<1> DEFINE D == {y \in xs : WantedSlot(y[1], y[2]) = s}
           q == [x \in D |-> WantedItem(x[1], x[2]).qty]
<1>1. IsFiniteSet(D) BY NightsFinite, FS_Subset
<1>2. \A x \in D : q[x] \in Nat
  <2>1. ASSUME NEW x \in D PROVE x[1] \in Bookings /\ x[2] \in 1..WantedCount(x[1]) BY NightsElements
  <2> QED BY <2>1, WantedTyped
<1>3. PlacesOf(xs, s) = OneByOne(q) BY DEF PlacesOf
<1>4. DOMAIN q = D OBVIOUS
<1> HIDE DEF q
<1> QED BY <1>1, <1>2, <1>3, <1>4, OneByOneFinite

LEMMA MorePlaces ==
    ASSUME NEW xs, NEW ys, xs \subseteq ys, NEW s
    PROVE  PlacesOf(xs, s) \subseteq PlacesOf(ys, s)
<1>1. ASSUME NEW z \in PlacesOf(xs, s) PROVE z \in PlacesOf(ys, s)
  <2>1. /\ z = <<z[1], z[2]>> /\ z[1] \in xs /\ WantedSlot(z[1][1], z[1][2]) = s
        /\ z[2] \in 1..WantedItem(z[1][1], z[1][2]).qty
    BY PlacesElements
  <2> QED BY <2>1, PlacesElements
<1> QED BY <1>1

LEMMA FewerPlaces ==
    ASSUME NEW ys \in SUBSET NightsWanted(Bookings), NEW xs \in SUBSET ys, NEW s
    PROVE  Cardinality(PlacesOf(xs, s)) <= Cardinality(PlacesOf(ys, s))
<1>1. IsFiniteSet(PlacesOf(ys, s)) BY PlacesFinite
<1>2. PlacesOf(xs, s) \in SUBSET PlacesOf(ys, s) BY MorePlaces
<1> QED BY <1>1, <1>2, FS_Subset

LEMMA PlacesUnion ==
    ASSUME NEW xs, NEW ys, NEW s
    PROVE  PlacesOf(xs \cup ys, s) = PlacesOf(xs, s) \cup PlacesOf(ys, s)
<1>1. PlacesOf(xs, s) \cup PlacesOf(ys, s) \subseteq PlacesOf(xs \cup ys, s) BY MorePlaces
<1>2. ASSUME NEW z \in PlacesOf(xs \cup ys, s) PROVE z \in PlacesOf(xs, s) \cup PlacesOf(ys, s)
  <2>1. /\ z = <<z[1], z[2]>> /\ z[1] \in xs \cup ys /\ WantedSlot(z[1][1], z[1][2]) = s
        /\ z[2] \in 1..WantedItem(z[1][1], z[1][2]).qty
    BY PlacesElements
  <2>2. CASE z[1] \in xs BY <2>1, <2>2, PlacesElements
  <2>3. CASE z[1] \in ys BY <2>1, <2>3, PlacesElements
  <2> QED BY <2>1, <2>2, <2>3
<1> QED BY <1>1, <1>2

LEMMA PlacesSum ==
    ASSUME NEW xs \in SUBSET NightsWanted(Bookings), NEW ys \in SUBSET NightsWanted(Bookings), xs \cap ys = {}, NEW s
    PROVE  Cardinality(PlacesOf(xs \cup ys, s)) = Cardinality(PlacesOf(xs, s)) + Cardinality(PlacesOf(ys, s))
<1>1. PlacesOf(xs, s) \cap PlacesOf(ys, s) = {}
  <2>1. ASSUME NEW z \in PlacesOf(xs, s), z \in PlacesOf(ys, s) PROVE FALSE
    <3>1. z[1] \in xs /\ z[1] \in ys BY <2>1, PlacesElements
    <3> QED BY <3>1
  <2> QED BY <2>1
<1>2. IsFiniteSet(PlacesOf(xs, s)) /\ IsFiniteSet(PlacesOf(ys, s)) BY PlacesFinite
<1> QED BY <1>1, <1>2, PlacesUnion, DisjointCount

LEMMA PlacesOfNight ==
    ASSUME NEW b \in Bookings, NEW k \in 1..WantedCount(b), NEW s
    PROVE  /\ WantedSlot(b, k) = s => Cardinality(PlacesOf({<<b, k>>}, s)) = WantedItem(b, k).qty
           /\ WantedSlot(b, k) # s => PlacesOf({<<b, k>>}, s) = {}
<1>1. ASSUME WantedSlot(b, k) = s PROVE PlacesOf({<<b, k>>}, s) = {<<b, k>>} \X (1..WantedItem(b, k).qty)
  <2>1. ASSUME NEW z \in PlacesOf({<<b, k>>}, s) PROVE z \in {<<b, k>>} \X (1..WantedItem(b, k).qty)
    <3>1. z = <<z[1], z[2]>> /\ z[1] = <<b, k>> /\ z[2] \in 1..WantedItem(z[1][1], z[1][2]).qty BY PlacesElements
    <3> QED BY <3>1
  <2>2. ASSUME NEW z \in {<<b, k>>} \X (1..WantedItem(b, k).qty) PROVE z \in PlacesOf({<<b, k>>}, s)
    <3>1. z = <<z[1], z[2]>> /\ z[1] = <<b, k>> /\ z[2] \in 1..WantedItem(b, k).qty OBVIOUS
    <3>2. z[1][1] = b /\ z[1][2] = k BY <3>1
    <3>3. z[1] \in {<<b, k>>} /\ WantedSlot(z[1][1], z[1][2]) = s /\ z[2] \in 1..WantedItem(z[1][1], z[1][2]).qty
      BY <1>1, <3>1, <3>2
    <3> QED BY <3>1, <3>3, PlacesElements
  <2> QED BY <2>1, <2>2
<1>2. ASSUME WantedSlot(b, k) # s PROVE PlacesOf({<<b, k>>}, s) = {}
  <2>1. ASSUME NEW z \in PlacesOf({<<b, k>>}, s) PROVE FALSE
    <3>1. z[1] = <<b, k>> /\ WantedSlot(z[1][1], z[1][2]) = s BY PlacesElements
    <3> QED BY <1>2, <3>1
  <2> QED BY <2>1
<1>3. WantedItem(b, k).qty \in Nat BY WantedTyped
<1> QED BY <1>1, <1>2, <1>3, UnitCount
-----------------------------------------------------------------------------
(* What a release gives back. *)

LEMMA HoldElements ==
    ASSUME NEW bs
    PROVE  \A p : p \in HoldItems(bs) <=> p = <<p[1], p[2]>> /\ p[1] \in bs /\ p[2] \in 1..Len(Order[p[1]].items)
<1> DEFINE q == [b \in bs |-> Len(Order[b].items)]
<1>1. DOMAIN q = bs /\ \A b \in bs : q[b] = Len(Order[b].items) OBVIOUS
<1>2. HoldItems(bs) = OneByOne(q) BY DEF HoldItems
<1> HIDE DEF q
<1> QED BY <1>1, <1>2, OneByOneElements

LEMMA ItemDomain ==
    ASSUME NEW b \in Bookings
    PROVE  DOMAIN Order[b].items = 1..Len(Order[b].items) /\ Len(Order[b].items) \in Nat
BY Orders

LEMMA HoldItemTyped ==
    ASSUME NEW bs \in SUBSET Bookings, NEW p \in HoldItems(bs)
    PROVE  p = <<p[1], p[2]>> /\ p[1] \in bs /\ p[2] \in DOMAIN Order[p[1]].items
BY HoldElements, ItemDomain

\* What PickHolds puts into a release.
LEMMA HoldItemsOf ==
    ASSUME NEW bs \in SUBSET Bookings
    PROVE  UNION {{b} \X DOMAIN Order[b].items : b \in bs} = HoldItems(bs)
<1>1. \A b \in bs : DOMAIN Order[b].items = 1..Len(Order[b].items) BY ItemDomain
<1> QED BY <1>1, HoldElements

LEMMA HoldsFinite == IsFiniteSet(HoldItems(Bookings))
<1> DEFINE q == [b \in Bookings |-> Len(Order[b].items)]
<1>1. IsFiniteSet(DOMAIN q) /\ \A b \in DOMAIN q : q[b] \in Nat BY CapacityAssumption, ItemDomain
<1>2. HoldItems(Bookings) = OneByOne(q) BY DEF HoldItems
<1> HIDE DEF q
<1> QED BY <1>1, <1>2, OneByOneFinite

LEMMA ItemPlacesElements ==
    ASSUME NEW ps, NEW s
    PROVE  \A z : z \in ItemPlaces(ps, s) <=>
               /\ z = <<z[1], z[2]>> /\ z[1] \in ps /\ HoldSlot(z[1][1], z[1][2]) = s
               /\ z[2] \in 1..Order[z[1][1]].items[z[1][2]].qty
<1> DEFINE q == [p \in {y \in ps : HoldSlot(y[1], y[2]) = s} |-> Order[p[1]].items[p[2]].qty]
<1>1. /\ DOMAIN q = {y \in ps : HoldSlot(y[1], y[2]) = s}
      /\ \A p \in DOMAIN q : q[p] = Order[p[1]].items[p[2]].qty
  OBVIOUS
<1>2. ItemPlaces(ps, s) = OneByOne(q) BY DEF ItemPlaces
<1> HIDE DEF q
<1> QED BY <1>1, <1>2, OneByOneElements

LEMMA ItemPlacesFinite ==
    ASSUME NEW ps \in SUBSET HoldItems(Bookings), NEW s
    PROVE  IsFiniteSet(ItemPlaces(ps, s)) /\ Cardinality(ItemPlaces(ps, s)) \in Nat
<1> DEFINE D == {y \in ps : HoldSlot(y[1], y[2]) = s}
           q == [p \in D |-> Order[p[1]].items[p[2]].qty]
<1>1. IsFiniteSet(D) BY HoldsFinite, FS_Subset
<1>2. \A p \in D : q[p] \in Nat
  <2>1. ASSUME NEW p \in D PROVE p[1] \in Bookings /\ p[2] \in DOMAIN Order[p[1]].items BY HoldItemTyped
  <2> QED BY <2>1, ItemsTyped
<1>3. ItemPlaces(ps, s) = OneByOne(q) BY DEF ItemPlaces
<1>4. DOMAIN q = D OBVIOUS
<1> HIDE DEF q
<1> QED BY <1>1, <1>2, <1>3, <1>4, OneByOneFinite

\* One more item gives back its own places.
LEMMA OneMoreItem ==
    ASSUME NEW ps \in SUBSET HoldItems(Bookings), NEW p \in HoldItems(Bookings) \ ps, NEW s
    PROVE  /\ HoldSlot(p[1], p[2]) = s =>
                  Cardinality(ItemPlaces(ps \cup {p}, s)) = Cardinality(ItemPlaces(ps, s)) + Order[p[1]].items[p[2]].qty
           /\ HoldSlot(p[1], p[2]) # s => ItemPlaces(ps \cup {p}, s) = ItemPlaces(ps, s)
<1> DEFINE n == Order[p[1]].items[p[2]].qty
           Own == {p} \X (1..n)
<1>1. \A z : z \in ItemPlaces(ps, s) <=>
          /\ z = <<z[1], z[2]>> /\ z[1] \in ps /\ HoldSlot(z[1][1], z[1][2]) = s
          /\ z[2] \in 1..Order[z[1][1]].items[z[1][2]].qty
  BY ItemPlacesElements
<1>2. \A z : z \in ItemPlaces(ps \cup {p}, s) <=>
          /\ z = <<z[1], z[2]>> /\ z[1] \in ps \cup {p} /\ HoldSlot(z[1][1], z[1][2]) = s
          /\ z[2] \in 1..Order[z[1][1]].items[z[1][2]].qty
  BY ItemPlacesElements
<1>3. ASSUME HoldSlot(p[1], p[2]) # s PROVE ItemPlaces(ps \cup {p}, s) = ItemPlaces(ps, s)
  BY <1>1, <1>2, <1>3
<1>4. ASSUME HoldSlot(p[1], p[2]) = s PROVE Cardinality(ItemPlaces(ps \cup {p}, s)) = Cardinality(ItemPlaces(ps, s)) + n
  <2>1. ItemPlaces(ps \cup {p}, s) = ItemPlaces(ps, s) \cup Own
    <3>1. ASSUME NEW z \in ItemPlaces(ps \cup {p}, s) PROVE z \in ItemPlaces(ps, s) \cup Own
      <4>1. /\ z = <<z[1], z[2]>> /\ z[1] \in ps \cup {p} /\ HoldSlot(z[1][1], z[1][2]) = s
            /\ z[2] \in 1..Order[z[1][1]].items[z[1][2]].qty
        BY <1>2
      <4>2. CASE z[1] \in ps BY <1>1, <4>1, <4>2
      <4>3. CASE z[1] = p
        <5>1. z = <<p, z[2]>> /\ z[2] \in 1..n BY <4>1, <4>3
        <5> QED BY <5>1
      <4> QED BY <4>1, <4>2, <4>3
    <3>2. ASSUME NEW z \in ItemPlaces(ps, s) \cup Own PROVE z \in ItemPlaces(ps \cup {p}, s)
      <4>1. CASE z \in ItemPlaces(ps, s) BY <1>1, <1>2, <4>1
      <4>2. CASE z \in Own
        <5>1. z = <<z[1], z[2]>> /\ z[1] = p /\ z[2] \in 1..n BY <4>2
        <5> QED BY <1>2, <1>4, <5>1
      <4> QED BY <3>2, <4>1, <4>2
    <3> QED BY <3>1, <3>2
  <2>2. ItemPlaces(ps, s) \cap Own = {} BY <1>1
  <2>3. n \in Nat BY HoldItemTyped, ItemsTyped
  <2>4. IsFiniteSet(Own) /\ Cardinality(Own) = n BY <2>3, UnitCount
  <2>5. IsFiniteSet(ItemPlaces(ps, s)) BY ItemPlacesFinite
  <2> HIDE DEF Own, n
  <2> QED BY <2>1, <2>2, <2>4, <2>5, DisjointCount
<1> QED BY <1>3, <1>4

\* The night of the travel date of an item, among those that its booking wants.
NightOf(b, i) == (i - 1) * Order[b].nights + (Order[b].items[i].travel - Order[b].checkIn) + 1

LEMMA NightOfItem ==
    ASSUME NEW b \in Bookings, NEW i \in DOMAIN Order[b].items,
           Order[b].items[i].travel \in Order[b].checkIn .. Order[b].checkIn + Order[b].nights - 1
    PROVE  /\ NightOf(b, i) \in 1..WantedCount(b)
           /\ WantedItem(b, NightOf(b, i)) = Order[b].items[i]
           /\ WantedSlot(b, NightOf(b, i)) = HoldSlot(b, i)
           /\ (NightOf(b, i) - 1) \div Order[b].nights + 1 = i
<1> DEFINE n == Order[b].nights
           r == Order[b].items[i].travel - Order[b].checkIn
           L == Len(Order[b].items)
<1>1. n \in Nat \ {0} /\ Order[b].checkIn \in Nat /\ L \in Nat /\ i \in 1..L /\ Order[b].items[i].travel \in Nat
  BY Orders, ItemDomain, ItemsTyped, CapacityAssumption
<1>2. r \in 0 .. n - 1 /\ i - 1 \in Nat /\ i - 1 < L /\ Order[b].checkIn + r = Order[b].items[i].travel
  <2>1. PICK c \in Nat, d \in Nat : c = Order[b].checkIn /\ d = Order[b].items[i].travel BY <1>1
  <2>2. d \in c .. c + n - 1 BY <2>1
  <2>3. r = d - c BY <2>1
  <2> HIDE DEF n, L, r
  <2>4. r \in 0 .. n - 1 /\ c + r = d BY <1>1, <2>2, <2>3
  <2>5. i - 1 \in Nat /\ i - 1 < L BY <1>1
  <2> QED BY <2>1, <2>4, <2>5
<1>3. WantedCount(b) = L * n BY DEF WantedCount
<1>4. NightOf(b, i) = (i - 1) * n + r + 1 BY DEF NightOf
<1> HIDE DEF n, r, L
<1>5. (i - 1) * n + r \in Nat /\ (i - 1) * n + r < L * n BY <1>1, <1>2, QuotientBound
<1>6. ((i - 1) * n + r) \div n = i - 1 /\ ((i - 1) * n + r) % n = r BY <1>1, <1>2, QuotientOf
<1>7. NightOf(b, i) \in 1..WantedCount(b) /\ NightOf(b, i) - 1 = (i - 1) * n + r
  <2>1. PICK m \in Nat : m = (i - 1) * n + r BY <1>5
  <2>2. PICK w : w = L * n OBVIOUS
  <2>3. w \in Nat BY <2>2, <1>3, WantedCountTyped
  <2> QED BY <1>3, <1>4, <1>5, <2>1, <2>2, <2>3
<1>8. (NightOf(b, i) - 1) \div n = i - 1 /\ (NightOf(b, i) - 1) % n = r BY <1>6, <1>7
<1>9. (NightOf(b, i) - 1) \div n + 1 = i BY <1>1, <1>8
<1>10. WantedItem(b, NightOf(b, i)) = Order[b].items[i] BY <1>9 DEF WantedItem, n
<1>11. WantedSlot(b, NightOf(b, i)) = HoldSlot(b, i)
  <2>1. Order[b].checkIn + ((NightOf(b, i) - 1) % Order[b].nights) = Order[b].items[i].travel BY <1>2, <1>8 DEF n
  <2> QED BY <2>1, <1>10 DEF WantedSlot, HoldSlot
<1> QED BY <1>7, <1>9, <1>10, <1>11 DEF n

\* Holds that took the nights that they give back give back no more than they took.
LEMMA ItemsWithinNights ==
    ASSUME NEW bs \in SUBSET Bookings, NEW s,
           \A b \in bs : \A i \in DOMAIN Order[b].items : HoldSlot(b, i) = s =>
               Order[b].items[i].travel \in Order[b].checkIn .. Order[b].checkIn + Order[b].nights - 1
    PROVE  Cardinality(ItemPlaces(HoldItems(bs), s)) <= Cardinality(PlacesOf(NightsWanted(bs), s))
<1> DEFINE I == ItemPlaces(HoldItems(bs), s)
           P == PlacesOf(NightsWanted(bs), s)
           f == [z \in I |-> <<<<z[1][1], NightOf(z[1][1], z[1][2])>>, z[2]>>]
<1>1. ASSUME NEW z \in I
      PROVE  /\ z = <<z[1], z[2]>> /\ z[1] = <<z[1][1], z[1][2]>> /\ z[1][1] \in bs /\ z[1][1] \in Bookings
             /\ z[1][2] \in DOMAIN Order[z[1][1]].items
             /\ HoldSlot(z[1][1], z[1][2]) = s /\ z[2] \in 1..Order[z[1][1]].items[z[1][2]].qty
  <2>1. /\ z = <<z[1], z[2]>> /\ z[1] \in HoldItems(bs)
        /\ HoldSlot(z[1][1], z[1][2]) = s /\ z[2] \in 1..Order[z[1][1]].items[z[1][2]].qty
    BY ItemPlacesElements
  <2> QED BY <2>1, HoldItemTyped
<1>2. ASSUME NEW z \in I
      PROVE  /\ NightOf(z[1][1], z[1][2]) \in 1..WantedCount(z[1][1])
             /\ WantedItem(z[1][1], NightOf(z[1][1], z[1][2])) = Order[z[1][1]].items[z[1][2]]
             /\ WantedSlot(z[1][1], NightOf(z[1][1], z[1][2])) = s
             /\ (NightOf(z[1][1], z[1][2]) - 1) \div Order[z[1][1]].nights + 1 = z[1][2]
  BY <1>1, NightOfItem
<1>3. ASSUME NEW z \in I PROVE f[z] \in P
  <2> DEFINE y == <<<<z[1][1], NightOf(z[1][1], z[1][2])>>, z[2]>>
  <2>1. y[1] \in NightsWanted(bs)
    <3>1. y[1] = <<y[1][1], y[1][2]>> /\ y[1][1] \in bs /\ y[1][2] \in 1..WantedCount(y[1][1]) BY <1>1, <1>2
    <3> QED BY <3>1, NightsElements
  <2>2. y = <<y[1], y[2]>> /\ WantedSlot(y[1][1], y[1][2]) = s /\ y[2] \in 1..WantedItem(y[1][1], y[1][2]).qty
    BY <1>1, <1>2
  <2> HIDE DEF y
  <2>3. y \in P BY <2>1, <2>2, PlacesElements
  <2> QED BY <2>3 DEF y
<1>4. ASSUME NEW y \in I, NEW z \in I, f[y] = f[z] PROVE y = z
  <2>1. y[1][1] = z[1][1] /\ NightOf(y[1][1], y[1][2]) = NightOf(z[1][1], z[1][2]) /\ y[2] = z[2] BY <1>4
  <2>2. y[1][2] = z[1][2] BY <1>2, <2>1
  <2>3. y = <<<<y[1][1], y[1][2]>>, y[2]>> /\ z = <<<<z[1][1], z[1][2]>>, z[2]>> BY <1>1
  <2> QED BY <2>1, <2>2, <2>3
<1>5. NightsWanted(bs) \in SUBSET NightsWanted(Bookings) BY NightsElements
<1>6. IsFiniteSet(P) BY <1>5, PlacesFinite
<1> HIDE DEF I, P
<1>7. f \in [I -> P] /\ DOMAIN f = I BY <1>3
<1> HIDE DEF f
<1>8. f \in Injection(I, P) BY <1>4, <1>7 DEF Injection, IsInjective
<1>9. Cardinality(I) <= Cardinality(P) BY <1>6, <1>8, FS_Injection
<1> QED BY <1>9 DEF I, P
-----------------------------------------------------------------------------
(* Rows and drafts. *)

LEMMA OverRows ==
    ASSUME NEW d, NEW e
    PROVE  /\ DOMAIN Over(d, e) = (DOMAIN d) \cup (DOMAIN e)
           /\ \A x \in DOMAIN d : Over(d, e)[x] = d[x]
           /\ \A x \in DOMAIN e : x \notin DOMAIN d => Over(d, e)[x] = e[x]
BY DEF Over

LEMMA RowInOf ==
    ASSUME RowsSound, NEW d, NEW r \in Rows
    PROVE  RowIn(d, r) = IF r \in DOMAIN d THEN d[r] ELSE calendar[r]
<1>1. DOMAIN calendar = Rows BY DEF RowsSound
<1>2. RowIn(d, r) = [x \in DOMAIN d \cup DOMAIN calendar |-> IF x \in DOMAIN d THEN d[x] ELSE calendar[x]][r]
  BY DEF RowIn, Over
<1> QED BY <1>1, <1>2

LEMMA RowTotals ==
    ASSUME NEW row \in RowData, NEW r \in Rows, row.total = Capacity[r[1][1]]
    PROVE  row # NoRow
<1>1. r[1][1] \in Variants BY DEF Rows, Slots
<1>2. Capacity[r[1][1]] \in Nat \ {0} BY <1>1, CapacityAssumption
<1> QED BY <1>2 DEF NoRow

LEMMA NoRowSound == NoRow \in RowData /\ Balanced(NoRow)
BY DEF NoRow, RowData, Balanced

LEMMA RowParts ==
    ASSUME NEW r \in Rows
    PROVE  r = <<r[1], r[2]>> /\ r[1] \in Slots /\ r[1] = <<r[1][1], r[1][2]>> /\ r[1][1] \in Variants
           /\ r[2] \in Bookings \cup Approvals
BY DEF Rows, Slots

\* The calendar changes where no draft is, and transactions end.
LEMMA RowsMove ==
    ASSUME RowsSound, DraftsSound, RowsLocked, ReservesKnown, NightsCounted, HoldsCounted,
           calendar' \in [Rows -> RowData], approved \subseteq approved',
           creating' \subseteq creating, releasing' \subseteq releasing,
           \A r \in Rows : calendar'[r] # NoRow => calendar'[r].total = Capacity[r[1][1]],
           \A r \in Rows : calendar[r] # NoRow => calendar'[r] # NoRow,
           \A r \in Rows : DirectOnly(r[1])' => Balanced(calendar'[r]),
           \A t \in creating' \cup releasing' : \A r \in DOMAIN t.draft : calendar'[r] = calendar[r],
           \A v \in reserving' : v \in reserving \/
               (/\ v.id \in Approvals /\ v.row \in Rows /\ v.seen \in RowData
                /\ v.id \in approved' /\ v.row[1] = AskedSlot(v.id)
                /\ v.seen # NoRow => calendar'[v.row] # NoRow)
    PROVE  RowsSound' /\ DraftsSound' /\ RowsLocked' /\ ReservesKnown' /\ NightsCounted' /\ HoldsCounted'
<1>1. \A s : DirectOnly(s)' => DirectOnly(s) BY DEF DirectOnly
<1>2. RowsSound' BY DEF RowsSound, RowsBalance, Balanced
<1>3. \A d : DraftSound(d) => DraftSound(d)' BY <1>1 DEF DraftSound
<1>4. DraftsSound'
  <2>1. ASSUME NEW t \in creating' PROVE DraftSound(t.draft)' /\ \A r \in DOMAIN t.draft : calendar'[r] # NoRow \/ r[2] = t.id
    BY <1>3 DEF DraftsSound
  <2>2. ASSUME NEW t \in releasing' PROVE DraftSound(t.draft)' /\ \A r \in DOMAIN t.draft : calendar'[r] # NoRow
    BY <1>3 DEF DraftsSound
  <2> QED BY <2>1, <2>2 DEF DraftsSound
<1>5. RowsLocked' BY DEF RowsLocked
<1>6. ReservesKnown' BY DEF ReservesKnown
<1>7. NightsCounted' BY DEF NightsCounted, CountedIn
<1>8. HoldsCounted' BY DEF HoldsCounted, GivenIn
<1> QED BY <1>2, <1>4, <1>5, <1>6, <1>7, <1>8

\* A booking in flight takes a step, or begins.
LEMMA CreatingMoves ==
    ASSUME RowsSound, DraftsSound, RowsLocked, ReservesKnown, NightsCounted, HoldsCounted,
           UNCHANGED <<calendar, releasing, reserving, approved>>, NEW t, NEW u,
           creating' \subseteq (creating \ {t}) \cup {u},
           DraftSound(u.draft), \A r \in DOMAIN u.draft : calendar[r] # NoRow \/ r[2] = u.id,
           \A w \in (creating \ {t}) \cup releasing : Apart(u, w),
           u.at \in 1..WantedCount(u.id) + 1, CountedIn(u)
    PROVE  RowsSound' /\ DraftsSound' /\ RowsLocked' /\ ReservesKnown' /\ NightsCounted' /\ HoldsCounted'
<1>1. RowsSound' BY DEF RowsSound, RowsBalance, DirectOnly
<1>2. \A d : DraftSound(d) => DraftSound(d)' BY DEF DraftSound, DirectOnly
<1>3. DraftsSound'
  <2>1. ASSUME NEW w \in creating' PROVE DraftSound(w.draft)' /\ \A r \in DOMAIN w.draft : calendar'[r] # NoRow \/ r[2] = w.id
    <3>1. CASE w = u BY <1>2, <3>1
    <3>2. CASE w \in creating BY <1>2, <3>2 DEF DraftsSound
    <3> QED BY <3>1, <3>2
  <2>2. ASSUME NEW w \in releasing' PROVE DraftSound(w.draft)' /\ \A r \in DOMAIN w.draft : calendar'[r] # NoRow
    BY <1>2 DEF DraftsSound
  <2> QED BY <2>1, <2>2 DEF DraftsSound
<1>4. RowsLocked'
  <2>1. \A w \in (creating \ {t}) \cup releasing : Apart(w, u) BY DEF Apart
  <2> QED BY <2>1 DEF RowsLocked
<1>5. ReservesKnown' BY DEF ReservesKnown
<1>6. NightsCounted'
  <2>1. \A w : CountedIn(w) => CountedIn(w)' BY DEF CountedIn
  <2> QED BY <2>1 DEF NightsCounted
<1>7. HoldsCounted' BY DEF HoldsCounted, GivenIn
<1> QED BY <1>1, <1>3, <1>4, <1>5, <1>6, <1>7

\* A release takes a step, or begins.
LEMMA ReleasingMoves ==
    ASSUME RowsSound, DraftsSound, RowsLocked, ReservesKnown, NightsCounted, HoldsCounted,
           UNCHANGED <<calendar, creating, reserving, approved>>, NEW t, NEW u,
           releasing' \subseteq (releasing \ {t}) \cup {u},
           DraftSound(u.draft), \A r \in DOMAIN u.draft : calendar[r] # NoRow,
           \A w \in creating \cup (releasing \ {t}) : Apart(u, w),
           u.left \subseteq HoldItems(u.picked), GivenIn(u)
    PROVE  RowsSound' /\ DraftsSound' /\ RowsLocked' /\ ReservesKnown' /\ NightsCounted' /\ HoldsCounted'
<1>1. RowsSound' BY DEF RowsSound, RowsBalance, DirectOnly
<1>2. \A d : DraftSound(d) => DraftSound(d)' BY DEF DraftSound, DirectOnly
<1>3. DraftsSound'
  <2>1. ASSUME NEW w \in creating' PROVE DraftSound(w.draft)' /\ \A r \in DOMAIN w.draft : calendar'[r] # NoRow \/ r[2] = w.id
    BY <1>2 DEF DraftsSound
  <2>2. ASSUME NEW w \in releasing' PROVE DraftSound(w.draft)' /\ \A r \in DOMAIN w.draft : calendar'[r] # NoRow
    <3>1. CASE w = u BY <1>2, <3>1
    <3>2. CASE w \in releasing BY <1>2, <3>2 DEF DraftsSound
    <3> QED BY <3>1, <3>2
  <2> QED BY <2>1, <2>2 DEF DraftsSound
<1>4. RowsLocked'
  <2>1. \A w \in creating \cup (releasing \ {t}) : Apart(w, u) BY DEF Apart
  <2> QED BY <2>1 DEF RowsLocked
<1>5. ReservesKnown' BY DEF ReservesKnown
<1>6. NightsCounted' BY DEF NightsCounted, CountedIn
<1>7. HoldsCounted'
  <2>1. \A w : GivenIn(w) => GivenIn(w)' BY DEF GivenIn
  <2> QED BY <2>1 DEF HoldsCounted
<1> QED BY <1>1, <1>3, <1>4, <1>5, <1>6, <1>7
-----------------------------------------------------------------------------
(* The steps of a booking. *)

LEMMA TransactionsDiffer ==
    ASSUME Shapes, NEW t \in creating, NEW u \in releasing
    PROVE  t # u
<1>1. t = [id |-> t.id, at |-> t.at, draft |-> t.draft] BY DEF Shapes
<1>2. u = [id |-> u.id, picked |-> u.picked, draft |-> u.draft, left |-> u.left] BY DEF Shapes
<1>3. "picked" \notin DOMAIN t
  <2> DEFINE a == t.id  b == t.at  c == t.draft
  <2>1. t = [id |-> a, at |-> b, draft |-> c] BY <1>1
  <2> HIDE DEF a, b, c
  <2> QED BY <2>1
<1>4. "picked" \in DOMAIN u
  <2> DEFINE a == u.id  b == u.picked  c == u.draft  d == u.left
  <2>1. u = [id |-> a, picked |-> b, draft |-> c, left |-> d] BY <1>2
  <2> HIDE DEF a, b, c, d
  <2> QED BY <2>1
<1> QED BY <1>3, <1>4

\* What a booking makes of the row of its next night.
LEMMA NightRow ==
    ASSUME DatesInv, RowsInv, NEW t \in creating, t.at <= WantedCount(t.id), NEW new \in NightRows(t)
    PROVE  \E r \in Rows, row \in RowData :
               /\ new = OneRow(r, row) /\ r[1] = WantedSlot(t.id, t.at)
               /\ row.total = Capacity[r[1][1]]
               /\ row.reserved = RowIn(t.draft, r).reserved + WantedItem(t.id, t.at).qty
               /\ DirectOnly(r[1]) => Balanced(row)
               /\ calendar[r] # NoRow \/ r[2] = t.id
               /\ \A u \in (creating \ {t}) \cup releasing : r \notin DOMAIN u.draft
<1> DEFINE s == WantedSlot(t.id, t.at)
           q == WantedItem(t.id, t.at).qty
           fresh == [total |-> Capacity[s[1]], reserved |-> q, available |-> Capacity[s[1]] - q]
           Less(r) == [RowIn(t.draft, r) EXCEPT !.reserved = @ + q, !.available = @ - q]
           rows == Visible(s, t.draft)
<1>1. t.id \in Bookings /\ t.at \in 1..WantedCount(t.id) BY WantedCountTyped DEF DatesInv, Shapes
<1>2. s \in Slots /\ q \in Nat /\ s[1] \in Variants BY <1>1, WantedTyped DEF Slots
<1>3. Capacity[s[1]] \in Nat BY <1>2, CapacityAssumption
<1>4. new \in IF rows = {} THEN IF q <= Capacity[s[1]] THEN {OneRow(<<s, t.id>>, fresh)} ELSE {}
              ELSE {OneRow(r, Less(r)) : r \in {x \in rows : ~HeldByOther(x, t) /\ RowIn(t.draft, x).available >= q}}
  BY DEF NightRows
<1>5. RowsSound /\ DraftsSound BY DEF RowsInv
<1> HIDE DEF s, q
<1>6. CASE rows = {}
  <2> DEFINE r == <<s, t.id>>
  <2>1. new = OneRow(r, fresh) /\ q <= Capacity[s[1]] BY <1>4, <1>6
  <2>2. r \in Rows /\ r[1] = s /\ r[2] = t.id BY <1>1, <1>2 DEF Rows
  <2>3. calendar[r] = NoRow /\ r \notin DOMAIN t.draft BY <1>6, <2>2 DEF Visible
  <2>4. RowIn(t.draft, r).reserved = 0
    <3>1. RowIn(t.draft, r) = NoRow BY <1>5, <2>2, <2>3, RowInOf
    <3> QED BY <3>1 DEF NoRow
  <2>5. fresh \in RowData /\ fresh.total = Capacity[s[1]] /\ fresh.reserved = q /\ Balanced(fresh)
    BY <1>2, <1>3, <2>1 DEF RowData, Balanced
  <2>6. ASSUME NEW u \in (creating \ {t}) \cup releasing, r \in DOMAIN u.draft PROVE FALSE
    <3>1. CASE u \in releasing BY <1>5, <2>3, <2>6, <3>1 DEF DraftsSound
    <3>2. CASE u \in creating \ {t}
      <4>1. r[2] = u.id BY <1>5, <2>3, <2>6, <3>2 DEF DraftsSound
      <4> QED BY <2>2, <3>2, <4>1 DEF DatesInv, MadeOnce
    <3> QED BY <2>6, <3>1, <3>2
  <2> HIDE DEF r, fresh
  <2> QED BY <1>2, <2>1, <2>2, <2>4, <2>5, <2>6 DEF s, q
<1>7. CASE rows # {}
  <2>1. PICK r \in rows : new = OneRow(r, Less(r)) /\ ~HeldByOther(r, t) /\ RowIn(t.draft, r).available >= q
    BY <1>4, <1>7
  <2>2. r \in Rows /\ r[1] = s /\ (calendar[r] # NoRow \/ r \in DOMAIN t.draft) BY <2>1 DEF Visible
  <2> DEFINE old == RowIn(t.draft, r)
  <2>3. /\ old \in RowData /\ old.total = Capacity[s[1]] /\ (DirectOnly(s) => Balanced(old))
        /\ calendar[r] # NoRow \/ r[2] = t.id
    <3>1. CASE r \in DOMAIN t.draft
      <4>1. old = t.draft[r] BY <1>5, <2>2, <3>1, RowInOf
      <4> QED BY <1>5, <2>2, <3>1, <4>1 DEF DraftsSound, DraftSound, Draft
    <3>2. CASE r \notin DOMAIN t.draft
      <4>1. old = calendar[r] /\ calendar[r] # NoRow BY <1>5, <2>2, <3>2, RowInOf
      <4> QED BY <1>5, <2>2, <4>1 DEF RowsSound, RowsBalance, Balanced
    <3> QED BY <3>1, <3>2
  <2>4. old.available >= q BY <2>1
  <2> HIDE DEF old
  <2> DEFINE row == [old EXCEPT !.reserved = @ + q, !.available = @ - q]
  <2>5. row \in RowData /\ row.total = old.total /\ row.reserved = old.reserved + q /\ row.available = old.available - q
    <3>1. PICK a \in Nat, b \in Nat, c \in Nat : old = [total |-> a, reserved |-> b, available |-> c] BY <2>3 DEF RowData
    <3>2. row = [total |-> a, reserved |-> b + q, available |-> c - q]
      <4>1. row = [[old EXCEPT !.reserved = @ + q] EXCEPT !.available = @ - q] OBVIOUS
      <4>2. [old EXCEPT !.reserved = @ + q] = [total |-> a, reserved |-> b + q, available |-> c] BY <3>1
      <4> DEFINE m == [old EXCEPT !.reserved = @ + q]
      <4>3. row = [m EXCEPT !.available = @ - q] BY <4>1
      <4>4. m = [total |-> a, reserved |-> b + q, available |-> c] BY <4>2
      <4> HIDE DEF m, row
      <4> QED BY <4>3, <4>4
    <3>3. b + q \in Nat /\ c - q \in Nat BY <1>2, <2>4, <3>1
    <3> HIDE DEF row
    <3> QED BY <3>1, <3>2, <3>3 DEF RowData
  <2>6. DirectOnly(s) => Balanced(row) BY <1>2, <2>3, <2>4, <2>5 DEF Balanced, RowData
  <2>7. new = OneRow(r, row) BY <2>1 DEF old
  <2>8. \A u \in (creating \ {t}) \cup releasing : r \notin DOMAIN u.draft
    <3>1. \A u \in releasing : u # t BY TransactionsDiffer DEF DatesInv
    <3> QED BY <2>1, <3>1 DEF HeldByOther
  <2> HIDE DEF row
  <2> QED BY <2>2, <2>3, <2>5, <2>6, <2>7, <2>8 DEF s, q, old
<1> QED BY <1>6, <1>7

LEMMA NightsDoneWanted ==
    ASSUME NEW t, t.id \in Bookings, t.at \in 1..WantedCount(t.id) + 1
    PROVE  NightsDone(t) \in SUBSET NightsWanted(Bookings)
<1>1. ASSUME NEW x \in NightsDone(t) PROVE x \in NightsWanted(Bookings)
  <2>1. x = <<x[1], x[2]>> /\ x[1] = t.id /\ x[2] \in 1..t.at - 1 BY DEF NightsDone
  <2>2. WantedCount(t.id) \in Nat BY WantedCountTyped
  <2>3. x[2] \in 1..WantedCount(t.id) BY <2>1, <2>2
  <2> QED BY <2>1, <2>3, NightsElements
<1> QED BY <1>1

\* The places of one more night.
LEMMA NextNight ==
    ASSUME NEW t, NEW u, u.id = t.id, u.at = t.at + 1, t.id \in Bookings, t.at \in 1..WantedCount(t.id), NEW s
    PROVE  /\ WantedSlot(t.id, t.at) = s =>
                  Cardinality(PlacesOf(NightsDone(u), s)) =
                      Cardinality(PlacesOf(NightsDone(t), s)) + WantedItem(t.id, t.at).qty
           /\ WantedSlot(t.id, t.at) # s => PlacesOf(NightsDone(u), s) = PlacesOf(NightsDone(t), s)
<1>1. WantedCount(t.id) \in Nat BY WantedCountTyped
<1> DEFINE x == <<t.id, t.at>>
<1>2. NightsDone(u) = NightsDone(t) \cup {x}
  <2>1. 1..u.at - 1 = 1..t.at /\ 1..t.at = (1..t.at - 1) \cup {t.at} BY <1>1
  <2> QED BY <2>1 DEF NightsDone
<1>3. NightsDone(t) \cap {x} = {} BY <1>1 DEF NightsDone
<1>4. NightsDone(t) \in SUBSET NightsWanted(Bookings)
  <2>1. t.at \in 1..WantedCount(t.id) + 1 BY <1>1
  <2> QED BY <2>1, NightsDoneWanted
<1>5. {x} \in SUBSET NightsWanted(Bookings)
  <2>1. x = <<x[1], x[2]>> /\ x[1] \in Bookings /\ x[2] \in 1..WantedCount(x[1]) OBVIOUS
  <2> QED BY <2>1, NightsElements
<1>6. /\ WantedSlot(t.id, t.at) = s => Cardinality(PlacesOf({x}, s)) = WantedItem(t.id, t.at).qty
      /\ WantedSlot(t.id, t.at) # s => PlacesOf({x}, s) = {}
  BY PlacesOfNight
<1> HIDE DEF x
<1>7. Cardinality(PlacesOf(NightsDone(u), s)) = Cardinality(PlacesOf(NightsDone(t), s)) + Cardinality(PlacesOf({x}, s))
  BY <1>2, <1>3, <1>4, <1>5, PlacesSum
<1>8. PlacesOf(NightsDone(u), s) = PlacesOf(NightsDone(t), s) \cup PlacesOf({x}, s) BY <1>2, PlacesUnion
<1> QED BY <1>6, <1>7, <1>8

LEMMA ReserveCounts ==
    ASSUME DatesInv, RowsInv, NEW t \in creating, t.at <= WantedCount(t.id), NEW u, NEW r \in Rows, NEW row \in RowData,
           u.id = t.id, u.at = t.at + 1, u.draft = Over(OneRow(r, row), t.draft),
           r[1] = WantedSlot(t.id, t.at),
           row.reserved = RowIn(t.draft, r).reserved + WantedItem(t.id, t.at).qty
    PROVE  CountedIn(u)
<1>1. t.id \in Bookings /\ t.at \in 1..WantedCount(t.id) BY WantedCountTyped DEF DatesInv, Shapes
<1>2. WantedItem(t.id, t.at).qty \in Nat BY <1>1, WantedTyped
<1>3. RowsSound /\ CountedIn(t) BY DEF RowsInv, NightsCounted
<1>4. /\ DOMAIN u.draft = (DOMAIN t.draft) \cup {r}
      /\ u.draft[r] = row
      /\ \A x \in DOMAIN t.draft : x # r => u.draft[x] = t.draft[x]
  BY DEF Over, OneRow
<1>5. SUFFICES ASSUME NEW s \in Slots
      PROVE  /\ RowsOf(u.draft, s) = {} => PlacesOf(NightsDone(u), s) = {}
             /\ \A x \in DOMAIN u.draft :
                    RowsOf(u.draft, s) = {x} =>
                        u.draft[x].reserved = calendar[x].reserved + Cardinality(PlacesOf(NightsDone(u), s))
  BY DEF CountedIn
<1>6. /\ RowsOf(t.draft, s) = {} => PlacesOf(NightsDone(t), s) = {}
      /\ \A x \in DOMAIN t.draft :
             RowsOf(t.draft, s) = {x} =>
                 t.draft[x].reserved = calendar[x].reserved + Cardinality(PlacesOf(NightsDone(t), s))
  BY <1>3 DEF CountedIn
<1>7. CASE s = r[1]
  <2>1. RowsOf(u.draft, s) = RowsOf(t.draft, s) \cup {r} BY <1>4, <1>7 DEF RowsOf
  <2>2. ASSUME RowsOf(u.draft, s) = {r}
        PROVE  row.reserved = calendar[r].reserved + Cardinality(PlacesOf(NightsDone(u), s))
    <3>1. Cardinality(PlacesOf(NightsDone(u), s)) = Cardinality(PlacesOf(NightsDone(t), s)) + WantedItem(t.id, t.at).qty
      BY <1>1, <1>7, NextNight
    <3>2. NightsDone(t) \in SUBSET NightsWanted(Bookings)
      <4>1. t.at \in 1..WantedCount(t.id) + 1 BY <1>1, WantedCountTyped
      <4> QED BY <1>1, <4>1, NightsDoneWanted
    <3>3. Cardinality(PlacesOf(NightsDone(t), s)) \in Nat BY <3>2, PlacesFinite
    <3>4. calendar[r].reserved \in Nat BY <1>3 DEF RowsSound, RowData
    <3>5. RowIn(t.draft, r).reserved = calendar[r].reserved + Cardinality(PlacesOf(NightsDone(t), s))
      <4>1. CASE r \in DOMAIN t.draft
        <5>1. RowsOf(t.draft, s) = {r} BY <1>7, <2>1, <2>2, <4>1 DEF RowsOf
        <5>2. RowIn(t.draft, r) = t.draft[r] BY <1>3, <4>1, RowInOf
        <5> QED BY <1>6, <4>1, <5>1, <5>2
      <4>2. CASE r \notin DOMAIN t.draft
        <5>1. RowsOf(t.draft, s) = {} BY <2>1, <2>2, <4>2 DEF RowsOf
        <5>2. RowIn(t.draft, r) = calendar[r] BY <1>3, <4>2, RowInOf
        <5>3. Cardinality(PlacesOf(NightsDone(t), s)) = 0 BY <1>6, <5>1, FS_EmptySet
        <5> QED BY <3>4, <5>2, <5>3
      <4> QED BY <4>1, <4>2
    <3> QED BY <1>2, <3>1, <3>3, <3>4, <3>5
  <2> QED BY <1>4, <2>1, <2>2
<1>8. CASE s # r[1]
  <2>1. RowsOf(u.draft, s) = RowsOf(t.draft, s) BY <1>4, <1>8 DEF RowsOf
  <2>2. PlacesOf(NightsDone(u), s) = PlacesOf(NightsDone(t), s) BY <1>1, <1>8, NextNight
  <2>3. ASSUME NEW x \in DOMAIN u.draft, RowsOf(u.draft, s) = {x}
        PROVE  x \in DOMAIN t.draft /\ u.draft[x] = t.draft[x]
    <3>1. x \in RowsOf(t.draft, s) BY <2>1, <2>3
    <3>2. x \in DOMAIN t.draft /\ x[1] = s BY <3>1 DEF RowsOf
    <3> QED BY <1>4, <1>8, <3>2
  <2> QED BY <1>6, <2>1, <2>2, <2>3
<1> QED BY <1>7, <1>8

LEMMA KeptStay ==
    ASSUME RowsCountKept, calendar' = calendar, released' = released, reopened \subseteq reopened', approved \subseteq approved',
           \A b \in Bookings : (status'[b] = "none") <=> (status[b] = "none")
    PROVE  RowsCountKept'
<1>1. SUFFICES ASSUME NEW s \in Slots, reopened' = {}, DirectOnly(s)', OwnNightsGivenBack(s)'
      PROVE  /\ CommittedRows(s)' = {} => KeptPlaces(s)' = {}
             /\ \A r \in Rows : CommittedRows(s)' = {r} => Cardinality(KeptPlaces(s)') <= calendar'[r].reserved
  BY DEF RowsCountKept
<1>2. reopened = {} /\ DirectOnly(s) /\ OwnNightsGivenBack(s) BY <1>1 DEF DirectOnly, OwnNightsGivenBack
<1>3. Kept' = Kept BY DEF Kept
<1>4. CommittedRows(s)' = CommittedRows(s) BY DEF CommittedRows, Visible
<1>5. KeptPlaces(s)' = KeptPlaces(s) BY <1>3 DEF KeptPlaces
<1> QED BY <1>2, <1>4, <1>5 DEF RowsCountKept

LEMMA ReserveStep ==
    ASSUME DatesInv, RowsInv, NEW t \in creating, ReserveNight(t)
    PROVE  RowsInv'
<1>0. PICK new \in NightRows(t) : \E u :
          creating' = (creating \ {t}) \cup {u} /\ u.id = t.id /\ u.at = t.at + 1 /\ u.draft = Over(new, t.draft)
  BY NightTaken DEF DatesInv
<1>1. PICK u :
          creating' = (creating \ {t}) \cup {u} /\ u.id = t.id /\ u.at = t.at + 1 /\ u.draft = Over(new, t.draft)
  BY <1>0
<1>2. t.at <= WantedCount(t.id) /\ UNCHANGED <<calendar, status, releasing, reserving, released, reopened, approved>>
  BY DEF ReserveNight, history
<1>3. PICK r \in Rows, row \in RowData :
               /\ new = OneRow(r, row) /\ r[1] = WantedSlot(t.id, t.at)
               /\ row.total = Capacity[r[1][1]]
               /\ row.reserved = RowIn(t.draft, r).reserved + WantedItem(t.id, t.at).qty
               /\ DirectOnly(r[1]) => Balanced(row)
               /\ calendar[r] # NoRow \/ r[2] = t.id
               /\ \A w \in (creating \ {t}) \cup releasing : r \notin DOMAIN w.draft
  BY <1>2, NightRow
<1>4. /\ DOMAIN u.draft = (DOMAIN t.draft) \cup {r}
      /\ u.draft[r] = row
      /\ \A x \in DOMAIN t.draft : x # r => u.draft[x] = t.draft[x]
  <2>1. u.draft = Over(OneRow(r, row), t.draft) BY <1>1, <1>3
  <2> QED BY <2>1 DEF Over, OneRow
<1>5. DraftSound(u.draft) /\ \A x \in DOMAIN u.draft : calendar[x] # NoRow \/ x[2] = u.id
  BY <1>1, <1>3, <1>4 DEF RowsInv, DraftsSound, DraftSound, Draft
<1>6. \A w \in (creating \ {t}) \cup releasing : Apart(u, w)
  BY <1>3, <1>4 DEF RowsInv, RowsLocked, Apart
<1>7. u.at \in 1..WantedCount(u.id) + 1
  <2>1. WantedCount(t.id) \in Nat /\ t.at \in Nat \ {0} BY WantedCountTyped DEF DatesInv, Shapes
  <2> QED BY <1>1, <1>2, <2>1
<1>8. CountedIn(u) BY <1>1, <1>2, <1>3, ReserveCounts
<1>9. RowsSound' /\ DraftsSound' /\ RowsLocked' /\ ReservesKnown' /\ NightsCounted' /\ HoldsCounted'
  BY <1>1, <1>2, <1>5, <1>6, <1>7, <1>8, CreatingMoves DEF RowsInv
<1>10. RowsCountKept' BY <1>2, KeptStay DEF RowsInv
<1>11. ReleasedKnown' BY <1>2 DEF RowsInv, ReleasedKnown
<1> QED BY <1>9, <1>10, <1>11 DEF RowsInv

LEMMA BeginStep ==
    ASSUME DatesInv, RowsInv, NEW b \in Bookings, BeginBooking(b)
    PROVE  RowsInv'
<1> DEFINE u == [id |-> b, at |-> 1, draft |-> <<>>]
<1>1. /\ creating' = creating \cup {u}
      /\ UNCHANGED <<calendar, status, releasing, reserving, released, reopened, approved>>
  BY DEF BeginBooking, history
<1>2. u.id = b /\ u.at = 1 /\ u.draft = <<>> OBVIOUS
<1> HIDE DEF u
<1>3. DOMAIN u.draft = {} BY <1>2
<1>4. DraftSound(u.draft) /\ \A x \in DOMAIN u.draft : calendar[x] # NoRow \/ x[2] = u.id
  BY <1>3 DEF DraftSound, Draft
<1>5. \A w \in (creating \ {u}) \cup releasing : Apart(u, w) BY <1>3 DEF Apart
<1>6. u.at \in 1..WantedCount(u.id) + 1 BY <1>2, WantedCountTyped
<1>7. CountedIn(u)
  <2>1. NightsDone(u) = {} BY <1>2 DEF NightsDone
  <2>2. \A s : PlacesOf({}, s) = {} BY PlacesElements
  <2> QED BY <1>3, <2>1, <2>2 DEF CountedIn
<1>8. creating' \subseteq (creating \ {u}) \cup {u} BY <1>1
<1>9. RowsSound' /\ DraftsSound' /\ RowsLocked' /\ ReservesKnown' /\ NightsCounted' /\ HoldsCounted'
  BY <1>1, <1>4, <1>5, <1>6, <1>7, <1>8, CreatingMoves DEF RowsInv
<1>10. RowsCountKept' BY <1>1, KeptStay DEF RowsInv
<1>11. ReleasedKnown' BY <1>1 DEF RowsInv, ReleasedKnown
<1> QED BY <1>9, <1>10, <1>11 DEF RowsInv
-----------------------------------------------------------------------------
(* The steps of a release. *)

LEMMA GivenMore ==
    ASSUME DatesInv, RowsInv, NEW t \in releasing, NEW p \in t.left, NEW u,
           u.picked = t.picked, u.left = t.left \ {p}, NEW s
    PROVE  /\ Cardinality(GivenBack(t, s)) \in Nat /\ Order[p[1]].items[p[2]].qty \in Nat
           /\ HoldSlot(p[1], p[2]) = s =>
                  Cardinality(GivenBack(u, s)) = Cardinality(GivenBack(t, s)) + Order[p[1]].items[p[2]].qty
           /\ HoldSlot(p[1], p[2]) # s => GivenBack(u, s) = GivenBack(t, s)
<1> DEFINE ps == HoldItems(t.picked) \ t.left
<1>1. t.picked \in SUBSET Bookings /\ p \in HoldItems(t.picked) BY DEF DatesInv, Shapes, RowsInv, HoldsCounted
<1>2. HoldItems(t.picked) \subseteq HoldItems(Bookings) BY <1>1, HoldElements
<1>3. ps \in SUBSET HoldItems(Bookings) /\ p \in HoldItems(Bookings) \ ps BY <1>1, <1>2
<1>4. HoldItems(u.picked) \ u.left = ps \cup {p} BY <1>1
<1>5. Order[p[1]].items[p[2]].qty \in Nat BY <1>1, HoldItemTyped, ItemsTyped
<1>6. GivenBack(t, s) = ItemPlaces(ps, s) /\ GivenBack(u, s) = ItemPlaces(ps \cup {p}, s) BY <1>4 DEF GivenBack
<1> HIDE DEF ps
<1> QED BY <1>3, <1>5, <1>6, OneMoreItem, ItemPlacesFinite

\* What a release makes of the row of an item.
LEMMA GivenRow ==
    ASSUME DatesInv, RowsInv, NEW t \in releasing, NEW p \in t.left, NEW new \in GivenRows(t, p), new # <<>>
    PROVE  \E r \in Rows, row \in RowData :
               /\ new = OneRow(r, row) /\ r[1] = HoldSlot(p[1], p[2])
               /\ row.total = Capacity[r[1][1]]
               /\ RowIn(t.draft, r).reserved <= row.reserved + Order[p[1]].items[p[2]].qty
               /\ DirectOnly(r[1]) => Balanced(row)
               /\ calendar[r] # NoRow
               /\ \A u \in creating \cup (releasing \ {t}) : r \notin DOMAIN u.draft
<1> DEFINE s == HoldSlot(p[1], p[2])
           q == Order[p[1]].items[p[2]].qty
<1>1. q \in Nat
  <2>1. t.picked \in SUBSET Bookings /\ p \in HoldItems(t.picked) BY DEF DatesInv, Shapes, RowsInv, HoldsCounted
  <2> QED BY <2>1, HoldItemTyped, ItemsTyped
<1>2. PICK r \in Visible(s, t.draft) : new = OneRow(r, Returned(RowIn(t.draft, r), q)) /\ ~HeldByOther(r, t)
  BY DEF GivenRows
<1>3. RowsSound /\ DraftsSound BY DEF RowsInv
<1>4. r \in Rows /\ r[1] = s /\ (calendar[r] # NoRow \/ r \in DOMAIN t.draft) BY <1>2 DEF Visible
<1>5. calendar[r] # NoRow BY <1>3, <1>4 DEF DraftsSound
<1> DEFINE old == RowIn(t.draft, r)
<1> HIDE DEF s, q
<1>6. old \in RowData /\ old.total = Capacity[r[1][1]] /\ (DirectOnly(r[1]) => Balanced(old))
  <2>1. CASE r \in DOMAIN t.draft
    <3>1. old = t.draft[r] BY <1>3, <1>4, <2>1, RowInOf
    <3> QED BY <1>3, <1>4, <2>1, <3>1 DEF DraftsSound, DraftSound, Draft
  <2>2. CASE r \notin DOMAIN t.draft
    <3>1. old = calendar[r] BY <1>3, <1>4, <2>2, RowInOf
    <3> QED BY <1>3, <1>4, <1>5, <3>1 DEF RowsSound, RowsBalance, Balanced
  <2> QED BY <2>1, <2>2
<1>7. new = OneRow(r, Returned(old, q)) BY <1>2
<1> HIDE DEF old
<1> DEFINE row == Returned(old, q)
<1>8. PICK a \in Nat, b \in Nat, c \in Nat : old = [total |-> a, reserved |-> b, available |-> c] BY <1>6 DEF RowData
<1>9. row = [total |-> a, reserved |-> Minus(b, q), available |-> Smaller(a, c + q)]
  <2>1. row = [[old EXCEPT !.reserved = Minus(@, q)] EXCEPT !.available = Smaller(a, @ + q)] BY <1>8 DEF Returned
  <2>2. [old EXCEPT !.reserved = Minus(@, q)] = [total |-> a, reserved |-> Minus(b, q), available |-> c] BY <1>8
  <2> DEFINE m == [old EXCEPT !.reserved = Minus(@, q)]
  <2>3. row = [m EXCEPT !.available = Smaller(a, @ + q)] BY <2>1
  <2>4. m = [total |-> a, reserved |-> Minus(b, q), available |-> c] BY <2>2
  <2> HIDE DEF m, row
  <2> QED BY <2>3, <2>4
<1>10. /\ Minus(b, q) \in Nat /\ Smaller(a, c + q) \in Nat /\ b <= Minus(b, q) + q
       /\ b + c = a => Minus(b, q) + Smaller(a, c + q) = a
  BY <1>1, <1>8 DEF Minus, Smaller
<1> HIDE DEF row
<1>11. row \in RowData /\ row.total = old.total /\ old.reserved <= row.reserved + q /\ (Balanced(old) => Balanced(row))
  BY <1>8, <1>9, <1>10 DEF RowData, Balanced
<1>12. \A u \in creating \cup (releasing \ {t}) : r \notin DOMAIN u.draft
  <2>1. \A u \in creating : u # t BY TransactionsDiffer DEF DatesInv
  <2> QED BY <1>2, <2>1 DEF HeldByOther
<1>13. new = OneRow(r, row) BY <1>7 DEF row
<1> QED BY <1>4, <1>5, <1>6, <1>11, <1>12, <1>13 DEF s, q, old

LEMMA GivenCounts ==
    ASSUME DatesInv, RowsInv, NEW t \in releasing, NEW p \in t.left, NEW u, NEW r \in Rows, NEW row \in RowData,
           u.picked = t.picked, u.left = t.left \ {p},
           DOMAIN u.draft = (DOMAIN t.draft) \cup {r}, u.draft[r] = row,
           \A x \in DOMAIN t.draft : x # r => u.draft[x] = t.draft[x],
           r[1] = HoldSlot(p[1], p[2]),
           RowIn(t.draft, r).reserved <= row.reserved + Order[p[1]].items[p[2]].qty
    PROVE  GivenIn(u)
<1>1. RowsSound /\ GivenIn(t) /\ DraftsSound BY DEF RowsInv, HoldsCounted
<1>2. /\ \A s : Cardinality(GivenBack(t, s)) \in Nat /\ Order[p[1]].items[p[2]].qty \in Nat
      /\ \A s : HoldSlot(p[1], p[2]) = s =>
                  Cardinality(GivenBack(u, s)) = Cardinality(GivenBack(t, s)) + Order[p[1]].items[p[2]].qty
      /\ \A s : HoldSlot(p[1], p[2]) # s => GivenBack(u, s) = GivenBack(t, s)
  BY GivenMore
<1>3. calendar[r].reserved <= row.reserved + Cardinality(GivenBack(u, r[1]))
  <2>1. calendar[r].reserved \in Nat /\ row.reserved \in Nat BY <1>1 DEF RowsSound, RowData
  <2>2. RowIn(t.draft, r).reserved \in Nat /\ calendar[r].reserved <= RowIn(t.draft, r).reserved + Cardinality(GivenBack(t, r[1]))
    <3>1. CASE r \in DOMAIN t.draft
      <4>1. RowIn(t.draft, r) = t.draft[r] BY <1>1, <3>1, RowInOf
      <4> QED BY <1>1, <3>1, <4>1 DEF GivenIn, DraftsSound, DraftSound, Draft, RowData
    <3>2. CASE r \notin DOMAIN t.draft
      <4>1. RowIn(t.draft, r) = calendar[r] BY <1>1, <3>2, RowInOf
      <4> QED BY <1>2, <2>1, <4>1
    <3> QED BY <3>1, <3>2
  <2>3. PICK g \in Nat, h \in Nat, k \in Nat : g = Cardinality(GivenBack(t, r[1])) /\ h = Order[p[1]].items[p[2]].qty
                                              /\ k = RowIn(t.draft, r).reserved
    BY <1>2, <2>2
  <2>4. Cardinality(GivenBack(u, r[1])) = g + h BY <1>2, <2>3
  <2>5. k <= row.reserved + h BY <2>3
  <2> QED BY <2>1, <2>2, <2>3, <2>4, <2>5
<1>4. ASSUME NEW x \in DOMAIN t.draft, x # r
      PROVE  calendar[x].reserved <= u.draft[x].reserved + Cardinality(GivenBack(u, x[1]))
  <2>1. u.draft[x] = t.draft[x] /\ calendar[x].reserved <= t.draft[x].reserved + Cardinality(GivenBack(t, x[1]))
    BY <1>1, <1>4 DEF GivenIn
  <2>2. x \in Rows /\ t.draft[x].reserved \in Nat BY <1>1 DEF DraftsSound, DraftSound, Draft, RowData
  <2>3. calendar[x].reserved \in Nat BY <1>1, <2>2 DEF RowsSound, RowData
  <2>4. PICK g \in Nat, h \in Nat : g = Cardinality(GivenBack(t, x[1])) /\ h = Order[p[1]].items[p[2]].qty
    BY <1>2
  <2>5. Cardinality(GivenBack(u, x[1])) = g \/ Cardinality(GivenBack(u, x[1])) = g + h BY <1>2, <2>4
  <2> QED BY <2>1, <2>2, <2>3, <2>4, <2>5
<1> QED BY <1>3, <1>4 DEF GivenIn

LEMMA GiveStep ==
    ASSUME DatesInv, RowsInv, NEW t \in releasing, GiveBack(t)
    PROVE  RowsInv'
<1>0. PICK p \in t.left : \E new \in GivenRows(t, p) : \E u :
          /\ releasing' = (releasing \ {t}) \cup {u}
          /\ u.picked = t.picked /\ u.left = t.left \ {p} /\ u.draft = Over(new, t.draft)
  BY ItemGiven DEF DatesInv
<1>1. PICK new \in GivenRows(t, p) : \E u :
          /\ releasing' = (releasing \ {t}) \cup {u}
          /\ u.picked = t.picked /\ u.left = t.left \ {p} /\ u.draft = Over(new, t.draft)
  BY <1>0
<1>2. PICK u :
          /\ releasing' = (releasing \ {t}) \cup {u}
          /\ u.picked = t.picked /\ u.left = t.left \ {p} /\ u.draft = Over(new, t.draft)
  BY <1>1
<1>3. UNCHANGED <<calendar, status, creating, reserving, released, reopened, approved>> BY DEF GiveBack, history
<1>4. t.left \subseteq HoldItems(t.picked) /\ GivenIn(t) BY DEF RowsInv, HoldsCounted
<1>5. u.left \subseteq HoldItems(u.picked) BY <1>2, <1>4
<1>6. /\ DraftSound(u.draft) /\ \A r \in DOMAIN u.draft : calendar[r] # NoRow
      /\ \A w \in creating \cup (releasing \ {t}) : Apart(u, w)
      /\ GivenIn(u)
  <2>1. CASE new = <<>>
    <3>1. DOMAIN u.draft = DOMAIN t.draft /\ \A x \in DOMAIN t.draft : u.draft[x] = t.draft[x]
      BY <1>2, <2>1 DEF Over
    <3>2. DraftSound(u.draft) /\ \A r \in DOMAIN u.draft : calendar[r] # NoRow
      BY <3>1 DEF RowsInv, DraftsSound, DraftSound, Draft
    <3>3. \A w \in creating \cup (releasing \ {t}) : Apart(u, w) BY <3>1 DEF RowsInv, RowsLocked, Apart
    <3>4. ASSUME NEW x \in DOMAIN u.draft
          PROVE  calendar[x].reserved <= u.draft[x].reserved + Cardinality(GivenBack(u, x[1]))
      <4>1. /\ Cardinality(GivenBack(t, x[1])) \in Nat /\ Order[p[1]].items[p[2]].qty \in Nat
            /\ HoldSlot(p[1], p[2]) = x[1] =>
                  Cardinality(GivenBack(u, x[1])) = Cardinality(GivenBack(t, x[1])) + Order[p[1]].items[p[2]].qty
            /\ HoldSlot(p[1], p[2]) # x[1] => GivenBack(u, x[1]) = GivenBack(t, x[1])
        BY <1>2, GivenMore
      <4>2. PICK g \in Nat, h \in Nat : g = Cardinality(GivenBack(t, x[1])) /\ h = Order[p[1]].items[p[2]].qty
        BY <4>1
      <4>3. Cardinality(GivenBack(u, x[1])) = g \/ Cardinality(GivenBack(u, x[1])) = g + h BY <4>1, <4>2
      <4>4. x \in Rows /\ t.draft[x].reserved \in Nat /\ u.draft[x] = t.draft[x]
        BY <3>1 DEF RowsInv, DraftsSound, DraftSound, Draft, RowData
      <4>5. calendar[x].reserved \in Nat BY <4>4 DEF RowsInv, RowsSound, RowData
      <4>6. calendar[x].reserved <= t.draft[x].reserved + Cardinality(GivenBack(t, x[1])) BY <1>4, <3>1 DEF GivenIn
      <4> QED BY <4>2, <4>3, <4>4, <4>5, <4>6
    <3> QED BY <3>2, <3>3, <3>4 DEF GivenIn
  <2>2. CASE new # <<>>
    <3>1. PICK r \in Rows, row \in RowData :
               /\ new = OneRow(r, row) /\ r[1] = HoldSlot(p[1], p[2])
               /\ row.total = Capacity[r[1][1]]
               /\ RowIn(t.draft, r).reserved <= row.reserved + Order[p[1]].items[p[2]].qty
               /\ DirectOnly(r[1]) => Balanced(row)
               /\ calendar[r] # NoRow
               /\ \A w \in creating \cup (releasing \ {t}) : r \notin DOMAIN w.draft
      BY <2>2, GivenRow
    <3>2. /\ DOMAIN u.draft = (DOMAIN t.draft) \cup {r}
          /\ u.draft[r] = row
          /\ \A x \in DOMAIN t.draft : x # r => u.draft[x] = t.draft[x]
      <4>1. u.draft = Over(OneRow(r, row), t.draft) BY <1>2, <3>1
      <4> QED BY <4>1 DEF Over, OneRow
    <3>3. DraftSound(u.draft) /\ \A x \in DOMAIN u.draft : calendar[x] # NoRow
      BY <3>1, <3>2 DEF RowsInv, DraftsSound, DraftSound, Draft
    <3>4. \A w \in creating \cup (releasing \ {t}) : Apart(u, w) BY <3>1, <3>2 DEF RowsInv, RowsLocked, Apart
    <3>5. GivenIn(u) BY <1>2, <3>1, <3>2, GivenCounts
    <3> QED BY <3>3, <3>4, <3>5
  <2> QED BY <2>1, <2>2
<1>7. releasing' \subseteq (releasing \ {t}) \cup {u} BY <1>2
<1>8. RowsSound' /\ DraftsSound' /\ RowsLocked' /\ ReservesKnown' /\ NightsCounted' /\ HoldsCounted'
  BY <1>3, <1>5, <1>6, <1>7, ReleasingMoves DEF RowsInv
<1>9. RowsCountKept' BY <1>3, KeptStay DEF RowsInv
<1>10. ReleasedKnown' BY <1>3 DEF RowsInv, ReleasedKnown
<1> QED BY <1>8, <1>9, <1>10 DEF RowsInv

LEMMA PickHoldsStep ==
    ASSUME DatesInv, RowsInv, NEW e \in Expiries, PickHolds(e)
    PROVE  RowsInv'
<1> DEFINE l == UNION {{b} \X DOMAIN Order[b].items : b \in ExpiredHolds}
           u == [id |-> e, picked |-> ExpiredHolds, draft |-> <<>>, left |-> l]
<1>1. /\ releasing' = releasing \cup {u}
      /\ UNCHANGED <<calendar, status, creating, reserving, released, reopened, approved>>
  BY DEF PickHolds, history
<1>2. l = HoldItems(ExpiredHolds)
  <2>1. ExpiredHolds \in SUBSET Bookings BY DEF ExpiredHolds, DatesInv, Shapes
  <2> QED BY <2>1, HoldItemsOf
<1> HIDE DEF l
<1>3. u.picked = ExpiredHolds /\ u.left = l /\ u.draft = <<>> OBVIOUS
<1> HIDE DEF u
<1>4. DOMAIN u.draft = {} BY <1>3
<1>5. DraftSound(u.draft) /\ \A r \in DOMAIN u.draft : calendar[r] # NoRow BY <1>4 DEF DraftSound, Draft
<1>6. \A w \in creating \cup (releasing \ {u}) : Apart(u, w) BY <1>4 DEF Apart
<1>7. u.left \subseteq HoldItems(u.picked) /\ GivenIn(u) BY <1>2, <1>3, <1>4 DEF GivenIn
<1>8. releasing' \subseteq (releasing \ {u}) \cup {u} BY <1>1
<1>9. RowsSound' /\ DraftsSound' /\ RowsLocked' /\ ReservesKnown' /\ NightsCounted' /\ HoldsCounted'
  BY <1>1, <1>5, <1>6, <1>7, <1>8, ReleasingMoves DEF RowsInv
<1>10. RowsCountKept' BY <1>1, KeptStay DEF RowsInv
<1>11. ReleasedKnown' BY <1>1 DEF RowsInv, ReleasedKnown
<1> QED BY <1>9, <1>10, <1>11 DEF RowsInv
-----------------------------------------------------------------------------
(* Commits. *)

LEMMA CommittedIs ==
    ASSUME NEW s
    PROVE  CommittedRows(s) = {r \in Rows : r[1] = s /\ calendar[r] # NoRow}
BY DEF CommittedRows, Visible

LEMMA CommitMoves ==
    ASSUME RowsInv, NEW d, DraftSound(d), calendar' = Over(d, calendar), approved' = approved, reserving' = reserving,
           creating' \subseteq creating, releasing' \subseteq releasing,
           \A w \in creating' \cup releasing' : (DOMAIN w.draft) \cap (DOMAIN d) = {}
    PROVE  /\ RowsSound' /\ DraftsSound' /\ RowsLocked' /\ ReservesKnown' /\ NightsCounted' /\ HoldsCounted'
           /\ \A r \in Rows : calendar'[r] = IF r \in DOMAIN d THEN d[r] ELSE calendar[r]
           /\ \A s : CommittedRows(s)' = CommittedRows(s) \cup RowsOf(d, s)
<1>1. RowsSound /\ DraftsSound /\ RowsLocked /\ ReservesKnown /\ NightsCounted /\ HoldsCounted BY DEF RowsInv
<1>2. DOMAIN calendar = Rows /\ DOMAIN d \subseteq Rows BY <1>1 DEF RowsSound, DraftSound, Draft
<1>3. \A r \in Rows : calendar'[r] = IF r \in DOMAIN d THEN d[r] ELSE calendar[r] BY <1>2 DEF Over
<1>4. calendar' \in [Rows -> RowData]
  <2>1. \A r \in Rows : calendar'[r] \in RowData BY <1>1, <1>3 DEF DraftSound, Draft, RowsSound
  <2>2. calendar' = [r \in Rows |-> IF r \in DOMAIN d THEN d[r] ELSE calendar[r]]
    <3>1. (DOMAIN d) \cup (DOMAIN calendar) = Rows BY <1>2
    <3> QED BY <3>1 DEF Over
  <2> QED BY <2>1, <2>2
<1>5. \A r \in Rows : calendar'[r] # NoRow => calendar'[r].total = Capacity[r[1][1]]
  BY <1>1, <1>3 DEF RowsSound, DraftSound
<1>6. \A r \in DOMAIN d : d[r] # NoRow BY <1>2, RowTotals DEF DraftSound, Draft
<1>7. \A r \in Rows : calendar[r] # NoRow => calendar'[r] # NoRow BY <1>3, <1>6
<1>8. \A r \in Rows : DirectOnly(r[1])' => Balanced(calendar'[r])
  BY <1>1, <1>3 DEF RowsSound, RowsBalance, Balanced, DraftSound, DirectOnly
<1>9. \A t \in creating' \cup releasing' : \A r \in DOMAIN t.draft : calendar'[r] = calendar[r]
  <2>1. ASSUME NEW t \in creating' \cup releasing', NEW r \in DOMAIN t.draft PROVE calendar'[r] = calendar[r]
    <3>1. r \in Rows BY <1>1 DEF DraftsSound, DraftSound, Draft
    <3>2. r \notin DOMAIN d OBVIOUS
    <3> QED BY <1>3, <3>1, <3>2
  <2> QED BY <2>1
<1>10. RowsSound' /\ DraftsSound' /\ RowsLocked' /\ ReservesKnown' /\ NightsCounted' /\ HoldsCounted'
  BY <1>1, <1>4, <1>5, <1>7, <1>8, <1>9, RowsMove
<1>11. \A s : CommittedRows(s)' = CommittedRows(s) \cup RowsOf(d, s)
  BY <1>2, <1>3, <1>6 DEF CommittedRows, Visible, RowsOf
<1> QED BY <1>3, <1>10, <1>11

LEMMA NightsUnion ==
    ASSUME NEW bs \in SUBSET Bookings, NEW cs \in SUBSET Bookings
    PROVE  /\ NightsWanted(bs \cup cs) = NightsWanted(bs) \cup NightsWanted(cs)
           /\ bs \cap cs = {} => NightsWanted(bs) \cap NightsWanted(cs) = {}
           /\ NightsWanted(bs) \in SUBSET NightsWanted(Bookings)
BY NightsElements

LEMMA KeptSum ==
    ASSUME NEW bs \in SUBSET Bookings, NEW cs \in SUBSET Bookings, bs \cap cs = {}, NEW s
    PROVE  /\ Cardinality(PlacesOf(NightsWanted(bs \cup cs), s)) =
                  Cardinality(PlacesOf(NightsWanted(bs), s)) + Cardinality(PlacesOf(NightsWanted(cs), s))
           /\ PlacesOf(NightsWanted(bs \cup cs), s) = PlacesOf(NightsWanted(bs), s) \cup PlacesOf(NightsWanted(cs), s)
           /\ Cardinality(PlacesOf(NightsWanted(bs), s)) \in Nat /\ Cardinality(PlacesOf(NightsWanted(cs), s)) \in Nat
<1>1. NightsWanted(bs) \in SUBSET NightsWanted(Bookings) /\ NightsWanted(cs) \in SUBSET NightsWanted(Bookings)
  BY NightsElements
<1>2. NightsWanted(bs \cup cs) = NightsWanted(bs) \cup NightsWanted(cs) /\ NightsWanted(bs) \cap NightsWanted(cs) = {}
  BY NightsUnion
<1>3. PICK xs \in SUBSET NightsWanted(Bookings), ys \in SUBSET NightsWanted(Bookings) :
          xs = NightsWanted(bs) /\ ys = NightsWanted(cs)
  BY <1>1
<1>4. NightsWanted(bs \cup cs) = xs \cup ys /\ xs \cap ys = {} BY <1>2, <1>3
<1>5. Cardinality(PlacesOf(xs \cup ys, s)) = Cardinality(PlacesOf(xs, s)) + Cardinality(PlacesOf(ys, s)) BY <1>4, PlacesSum
<1>6. PlacesOf(xs \cup ys, s) = PlacesOf(xs, s) \cup PlacesOf(ys, s) BY PlacesUnion
<1>7. Cardinality(PlacesOf(xs, s)) \in Nat /\ Cardinality(PlacesOf(ys, s)) \in Nat BY PlacesFinite
<1> QED BY <1>3, <1>4, <1>5, <1>6, <1>7

\* At its commit a booking has counted every night that it wants.
LEMMA AllNightsDone ==
    ASSUME NEW t, t.id \in Bookings, t.at = WantedCount(t.id) + 1
    PROVE  NightsDone(t) = NightsWanted({t.id})
<1>1. t.at - 1 = WantedCount(t.id) BY WantedCountTyped
<1>2. NightsDone(t) = {t.id} \X (1..WantedCount(t.id)) BY <1>1 DEF NightsDone
<1>3. \A x : x \in NightsWanted({t.id}) <=> x = <<x[1], x[2]>> /\ x[1] \in {t.id} /\ x[2] \in 1..WantedCount(x[1])
  BY NightsElements
<1>4. ASSUME NEW x \in NightsDone(t) PROVE x \in NightsWanted({t.id})
  <2>1. x = <<x[1], x[2]>> /\ x[1] = t.id /\ x[2] \in 1..WantedCount(t.id) BY <1>2
  <2> QED BY <1>3, <2>1
<1>5. ASSUME NEW x \in NightsWanted({t.id}) PROVE x \in NightsDone(t)
  <2>1. x = <<x[1], x[2]>> /\ x[1] = t.id /\ x[2] \in 1..WantedCount(t.id) BY <1>3
  <2>2. <<x[1], x[2]>> \in {t.id} \X (1..WantedCount(t.id)) BY <2>1
  <2> QED BY <1>2, <2>1, <2>2
<1> QED BY <1>4, <1>5

LEMMA CommitBookingStep ==
    ASSUME DatesInv, RowsInv, NEW t \in creating, CommitBooking(t)
    PROVE  RowsInv'
<1>1. /\ t.at > WantedCount(t.id) /\ creating' = creating \ {t} /\ calendar' = Over(t.draft, calendar)
      /\ status' = [status EXCEPT ![t.id] = InitialStatus(t.id)]
      /\ UNCHANGED <<releasing, reserving, released, reopened, approved>>
  BY DEF CommitBooking, history
<1>2. t.id \in Bookings /\ status[t.id] = "none" /\ InitialStatus(t.id) \in {"pending", "confirmed"}
  BY DEF DatesInv, Shapes, MadeOnce, InitialStatus
<1>3. t.at = WantedCount(t.id) + 1
  <2>1. t.at \in 1..WantedCount(t.id) + 1 BY DEF RowsInv, NightsCounted
  <2> QED BY <1>1, <1>2, <2>1, WantedCountTyped
<1>4. CountedIn(t) /\ DraftSound(t.draft) BY DEF RowsInv, NightsCounted, DraftsSound
<1>5. \A w \in creating' \cup releasing' : (DOMAIN w.draft) \cap (DOMAIN t.draft) = {}
  BY <1>1 DEF RowsInv, RowsLocked, Apart
<1>6. /\ RowsSound' /\ DraftsSound' /\ RowsLocked' /\ ReservesKnown' /\ NightsCounted' /\ HoldsCounted'
      /\ \A r \in Rows : calendar'[r] = IF r \in DOMAIN t.draft THEN t.draft[r] ELSE calendar[r]
      /\ \A s : CommittedRows(s)' = CommittedRows(s) \cup RowsOf(t.draft, s)
  <2>1. creating' \subseteq creating /\ releasing' \subseteq releasing BY <1>1
  <2> QED BY <1>1, <1>4, <1>5, <2>1, CommitMoves
<1>7. t.id \notin released BY <1>2 DEF RowsInv, ReleasedKnown
<1>8. ReleasedKnown' BY <1>1, <1>2, <1>7 DEF RowsInv, ReleasedKnown, DatesInv, Shapes
<1>9. Kept' = Kept \cup {t.id} /\ t.id \notin Kept /\ Kept \subseteq Bookings
  BY <1>1, <1>2, <1>7 DEF Kept, DatesInv, Shapes
<1>10. RowsCountKept'
  <2>1. SUFFICES ASSUME NEW s \in Slots, reopened' = {}, DirectOnly(s)', OwnNightsGivenBack(s)'
        PROVE  /\ CommittedRows(s)' = {} => KeptPlaces(s)' = {}
               /\ \A r \in Rows : CommittedRows(s)' = {r} => Cardinality(KeptPlaces(s)') <= calendar'[r].reserved
    BY DEF RowsCountKept
  <2>2. reopened = {} /\ DirectOnly(s) /\ OwnNightsGivenBack(s) BY <1>1, <2>1 DEF DirectOnly, OwnNightsGivenBack
  <2>3. /\ CommittedRows(s) = {} => KeptPlaces(s) = {}
        /\ \A r \in Rows : CommittedRows(s) = {r} => Cardinality(KeptPlaces(s)) <= calendar[r].reserved
    BY <2>2 DEF RowsInv, RowsCountKept
  <2> DEFINE own == PlacesOf(NightsDone(t), s)
  <2>4. /\ Cardinality(KeptPlaces(s)') = Cardinality(KeptPlaces(s)) + Cardinality(own)
        /\ KeptPlaces(s)' = KeptPlaces(s) \cup own
        /\ Cardinality(KeptPlaces(s)) \in Nat /\ Cardinality(own) \in Nat
    <3>1. own = PlacesOf(NightsWanted({t.id}), s) BY <1>2, <1>3, AllNightsDone
    <3>2. KeptPlaces(s)' = PlacesOf(NightsWanted(Kept \cup {t.id}), s) BY <1>9 DEF KeptPlaces
    <3>3. Kept \in SUBSET Bookings /\ {t.id} \in SUBSET Bookings /\ Kept \cap {t.id} = {} BY <1>2, <1>9
    <3>4. PICK bs \in SUBSET Bookings, cs \in SUBSET Bookings : bs = Kept /\ cs = {t.id} BY <3>3
    <3>5. /\ Cardinality(PlacesOf(NightsWanted(bs \cup cs), s)) =
                 Cardinality(PlacesOf(NightsWanted(bs), s)) + Cardinality(PlacesOf(NightsWanted(cs), s))
          /\ PlacesOf(NightsWanted(bs \cup cs), s) = PlacesOf(NightsWanted(bs), s) \cup PlacesOf(NightsWanted(cs), s)
          /\ Cardinality(PlacesOf(NightsWanted(bs), s)) \in Nat /\ Cardinality(PlacesOf(NightsWanted(cs), s)) \in Nat
      <4>1. bs \cap cs = {} BY <3>3, <3>4
      <4> QED BY <4>1, KeptSum
    <3>6. KeptPlaces(s) = PlacesOf(NightsWanted(bs), s) BY <3>4 DEF KeptPlaces
    <3>7. KeptPlaces(s)' = PlacesOf(NightsWanted(bs \cup cs), s) BY <3>2, <3>4
    <3>8. own = PlacesOf(NightsWanted(cs), s) BY <3>1, <3>4
    <3> HIDE DEF own
    <3> QED BY <3>5, <3>6, <3>7, <3>8
  <2>5. /\ RowsOf(t.draft, s) = {} => own = {}
        /\ \A r \in DOMAIN t.draft :
               RowsOf(t.draft, s) = {r} => t.draft[r].reserved = calendar[r].reserved + Cardinality(own)
    BY <1>4 DEF CountedIn
  <2> HIDE DEF own
  <2>6. CommittedRows(s)' = CommittedRows(s) \cup RowsOf(t.draft, s) BY <1>6
  <2>7. CommittedRows(s)' = {} => KeptPlaces(s)' = {} BY <2>3, <2>4, <2>5, <2>6
  <2>8. ASSUME NEW r \in Rows, CommittedRows(s)' = {r} PROVE Cardinality(KeptPlaces(s)') <= calendar'[r].reserved
    <3>1. r[1] = s
      <4>1. r \in CommittedRows(s)' BY <2>8
      <4> QED BY <4>1 DEF CommittedRows, Visible
    <3>2. calendar[r].reserved \in Nat BY DEF RowsInv, RowsSound, RowData
    <3>3. Cardinality(KeptPlaces(s)) <= calendar[r].reserved
      <4>1. CASE CommittedRows(s) = {r} BY <2>3, <4>1
      <4>2. CASE CommittedRows(s) = {}
        <5>1. Cardinality(KeptPlaces(s)) = 0 BY <2>3, <4>2, FS_EmptySet
        <5> QED BY <3>2, <5>1
      <4> QED BY <2>6, <2>8, <4>1, <4>2
    <3>4. CASE r \in DOMAIN t.draft
      <4>1. RowsOf(t.draft, s) = {r} BY <2>6, <2>8, <3>1, <3>4 DEF RowsOf
      <4>2. calendar'[r].reserved = calendar[r].reserved + Cardinality(own) BY <1>6, <2>5, <3>4, <4>1
      <4> QED BY <2>4, <3>2, <3>3, <4>2
    <3>5. CASE r \notin DOMAIN t.draft
      <4>1. RowsOf(t.draft, s) = {} BY <2>6, <2>8, <3>1, <3>5 DEF RowsOf
      <4>2. KeptPlaces(s)' = KeptPlaces(s) BY <2>4, <2>5, <4>1
      <4>3. calendar'[r] = calendar[r] BY <1>6, <3>5
      <4> QED BY <3>3, <4>2, <4>3
    <3> QED BY <3>4, <3>5
  <2> QED BY <2>7, <2>8
<1> QED BY <1>6, <1>8, <1>10 DEF RowsInv

LEMMA CommitReleaseCounts ==
    ASSUME DatesInv, RowsInv, NEW t \in releasing, CommitRelease(t)
    PROVE  RowsInv'
<1>1. /\ t.left = {} /\ releasing' = releasing \ {t} /\ calendar' = Over(t.draft, calendar)
      /\ status' = [b \in Bookings |-> IF b \in t.picked THEN "expired" ELSE status[b]]
      /\ released' = released \cup t.picked
      /\ UNCHANGED <<creating, reserving, reopened, approved>>
  BY DEF CommitRelease
<1>2. t.picked \subseteq Bookings /\ \A b \in t.picked : status[b] = "pending"
  BY DEF DatesInv, Shapes, HoldsAreLocked, ExpiredHolds
<1>3. DraftSound(t.draft) /\ GivenIn(t) /\ \A r \in DOMAIN t.draft : calendar[r] # NoRow
  BY DEF RowsInv, HoldsCounted, DraftsSound
<1>4. \A w \in creating' \cup releasing' : (DOMAIN w.draft) \cap (DOMAIN t.draft) = {}
  BY <1>1 DEF RowsInv, RowsLocked, Apart
<1>5. /\ RowsSound' /\ DraftsSound' /\ RowsLocked' /\ ReservesKnown' /\ NightsCounted' /\ HoldsCounted'
      /\ \A r \in Rows : calendar'[r] = IF r \in DOMAIN t.draft THEN t.draft[r] ELSE calendar[r]
      /\ \A s : CommittedRows(s)' = CommittedRows(s) \cup RowsOf(t.draft, s)
  <2>1. creating' \subseteq creating /\ releasing' \subseteq releasing BY <1>1
  <2> QED BY <1>1, <1>3, <1>4, <2>1, CommitMoves
<1>6. ReleasedKnown' BY <1>1, <1>2 DEF RowsInv, ReleasedKnown
<1>7. RowsCountKept'
  <2>1. SUFFICES ASSUME NEW s \in Slots, reopened' = {}, DirectOnly(s)', OwnNightsGivenBack(s)'
        PROVE  /\ CommittedRows(s)' = {} => KeptPlaces(s)' = {}
               /\ \A r \in Rows : CommittedRows(s)' = {r} => Cardinality(KeptPlaces(s)') <= calendar'[r].reserved
    BY DEF RowsCountKept
  <2>2. reopened = {} /\ DirectOnly(s) /\ OwnNightsGivenBack(s) BY <1>1, <2>1 DEF DirectOnly, OwnNightsGivenBack
  <2>3. /\ CommittedRows(s) = {} => KeptPlaces(s) = {}
        /\ \A r \in Rows : CommittedRows(s) = {r} => Cardinality(KeptPlaces(s)) <= calendar[r].reserved
    BY <2>2 DEF RowsInv, RowsCountKept
  <2>4. t.picked \cap released = {} BY <1>2, <2>2 DEF RowsInv, ReleasedKnown
  <2>5. Kept = Kept' \cup t.picked /\ Kept' \cap t.picked = {} /\ Kept' \subseteq Bookings
    BY <1>1, <1>2, <2>4 DEF Kept
  <2> DEFINE given == PlacesOf(NightsWanted(t.picked), s)
  <2>6. /\ Cardinality(KeptPlaces(s)) = Cardinality(KeptPlaces(s)') + Cardinality(given)
        /\ KeptPlaces(s) = KeptPlaces(s)' \cup given
        /\ Cardinality(KeptPlaces(s)') \in Nat /\ Cardinality(given) \in Nat
    <3>1. PICK bs \in SUBSET Bookings : bs = Kept' BY <2>5
    <3>2. KeptPlaces(s) = PlacesOf(NightsWanted(bs \cup t.picked), s) /\ KeptPlaces(s)' = PlacesOf(NightsWanted(bs), s)
      BY <2>5, <3>1 DEF KeptPlaces
    <3>3. bs \in SUBSET Bookings /\ t.picked \in SUBSET Bookings /\ bs \cap t.picked = {} BY <1>2, <2>5, <3>1
    <3>4. PICK cs \in SUBSET Bookings : cs = t.picked BY <3>3
    <3>5. /\ Cardinality(PlacesOf(NightsWanted(bs \cup cs), s)) =
                 Cardinality(PlacesOf(NightsWanted(bs), s)) + Cardinality(PlacesOf(NightsWanted(cs), s))
          /\ PlacesOf(NightsWanted(bs \cup cs), s) = PlacesOf(NightsWanted(bs), s) \cup PlacesOf(NightsWanted(cs), s)
          /\ Cardinality(PlacesOf(NightsWanted(bs), s)) \in Nat /\ Cardinality(PlacesOf(NightsWanted(cs), s)) \in Nat
      <4>1. bs \cap cs = {} BY <3>3, <3>4
      <4> QED BY <4>1, KeptSum
    <3>6. KeptPlaces(s) = PlacesOf(NightsWanted(bs \cup cs), s) /\ given = PlacesOf(NightsWanted(cs), s)
      BY <3>2, <3>4
    <3>7. KeptPlaces(s)' = PlacesOf(NightsWanted(bs), s) BY <3>2
    <3> HIDE DEF given
    <3> QED BY <3>5, <3>6, <3>7
  <2>7. Cardinality(GivenBack(t, s)) \in Nat /\ Cardinality(GivenBack(t, s)) <= Cardinality(given)
    <3>1. GivenBack(t, s) = ItemPlaces(HoldItems(t.picked), s)
      <4>1. HoldItems(t.picked) \ t.left = HoldItems(t.picked) BY <1>1
      <4> QED BY <4>1 DEF GivenBack
    <3>2. \A b \in t.picked : \A i \in DOMAIN Order[b].items : HoldSlot(b, i) = s =>
               Order[b].items[i].travel \in Order[b].checkIn .. Order[b].checkIn + Order[b].nights - 1
      BY <1>1, <2>1 DEF OwnNightsGivenBack
    <3>3. t.picked \in SUBSET Bookings BY <1>2
    <3>4. HoldItems(t.picked) \in SUBSET HoldItems(Bookings) BY <3>3, HoldElements
    <3> QED BY <3>1, <3>2, <3>3, <3>4, ItemsWithinNights, ItemPlacesFinite
  <2> HIDE DEF given
  <2>8. CommittedRows(s)' = CommittedRows(s)
    <3>1. RowsOf(t.draft, s) \subseteq CommittedRows(s)
      BY <1>3 DEF RowsOf, CommittedRows, Visible, DraftSound, Draft
    <3> QED BY <1>5, <3>1
  <2>9. CommittedRows(s)' = {} => KeptPlaces(s)' = {} BY <2>3, <2>6, <2>8
  <2>10. ASSUME NEW r \in Rows, CommittedRows(s)' = {r} PROVE Cardinality(KeptPlaces(s)') <= calendar'[r].reserved
    <3>1. r[1] = s
      <4>1. r \in CommittedRows(s)' BY <2>10
      <4> QED BY <4>1 DEF CommittedRows, Visible
    <3>2. calendar[r].reserved \in Nat /\ calendar'[r].reserved \in Nat BY <1>5 DEF RowsInv, RowsSound, RowData
    <3>3. Cardinality(KeptPlaces(s)) <= calendar[r].reserved BY <2>3, <2>8, <2>10
    <3>4. CASE r \in DOMAIN t.draft
      <4>1. calendar'[r] = t.draft[r] BY <1>5, <3>4
      <4>2. calendar[r].reserved <= calendar'[r].reserved + Cardinality(GivenBack(t, s)) BY <1>3, <3>1, <3>4, <4>1 DEF GivenIn
      <4> QED BY <2>6, <2>7, <3>2, <3>3, <4>2
    <3>5. CASE r \notin DOMAIN t.draft
      <4>1. calendar'[r] = calendar[r] BY <1>5, <3>5
      <4> QED BY <2>6, <3>2, <3>3, <4>1
    <3> QED BY <3>4, <3>5
  <2> QED BY <2>9, <2>10
<1> QED BY <1>5, <1>6, <1>7 DEF RowsInv
-----------------------------------------------------------------------------
(* Steps that leave rows and drafts alone. *)

LEMMA QuietRows ==
    ASSUME RowsInv, ReleasedKnown', calendar' = calendar, released' = released,
           creating' \subseteq creating, releasing' \subseteq releasing, reserving' \subseteq reserving,
           approved' = approved, reopened \subseteq reopened',
           \A b \in Bookings : (status'[b] = "none") <=> (status[b] = "none")
    PROVE  RowsInv'
<1>1. RowsSound /\ DraftsSound /\ RowsLocked /\ ReservesKnown /\ NightsCounted /\ HoldsCounted BY DEF RowsInv
<1>2. \A r \in Rows : DirectOnly(r[1])' => Balanced(calendar'[r])
  BY <1>1 DEF RowsSound, RowsBalance, Balanced, DirectOnly
<1>3. \A t \in creating' \cup releasing' : \A r \in DOMAIN t.draft : calendar'[r] = calendar[r] OBVIOUS
<1>4. calendar' \in [Rows -> RowData] /\ \A r \in Rows : calendar'[r] # NoRow => calendar'[r].total = Capacity[r[1][1]]
  BY <1>1 DEF RowsSound
<1>5. RowsSound' /\ DraftsSound' /\ RowsLocked' /\ ReservesKnown' /\ NightsCounted' /\ HoldsCounted'
  BY <1>1, <1>2, <1>3, <1>4, RowsMove
<1>6. RowsCountKept' BY KeptStay DEF RowsInv
<1> QED BY <1>5, <1>6 DEF RowsInv

\* What is known of releases depends on these alone.
LEMMA ReleasedStay ==
    ASSUME RowsInv, status' = status, released' = released, reopened' = reopened
    PROVE  ReleasedKnown'
BY DEF RowsInv, ReleasedKnown

LEMMA StatusRows ==
    ASSUME DatesInv, RowsInv, NEW b \in Bookings,
           MarkAsPaid(b) \/ HandleWebhookEvent(b) \/ ProcessRefund(b) \/ Delete(b)
    PROVE  RowsInv'
<1>1. b \in Stored /\ UNCHANGED <<calendar, creating, releasing, reserving, released, reopened, approved>>
  BY DEF MarkAsPaid, HandleWebhookEvent, ProcessRefund, Delete, history
<1>2. PICK s \in {"confirmed", "cancelled", "deleted"} : status' = [status EXCEPT ![b] = s]
  BY DEF MarkAsPaid, HandleWebhookEvent, ProcessRefund, Delete
<1>3. status \in [Bookings -> BookingStatus \cup {"none", "deleted"}] /\ status[b] # "none"
  BY <1>1, StatusesNamed DEF DatesInv, Shapes, Stored
<1>4. ReleasedKnown' BY <1>1, <1>2, <1>3 DEF RowsInv, ReleasedKnown
<1>5. \A c \in Bookings : (status'[c] = "none") <=> (status[c] = "none") BY <1>2, <1>3
<1> QED BY <1>1, <1>4, <1>5, QuietRows

LEMMA CommitEditRows ==
    ASSUME DatesInv, RowsInv, NEW e \in editing, CommitEdit(e)
    PROVE  RowsInv'
<1>1. /\ e.id \in Stored /\ status' = [status EXCEPT ![e.id] = e.to]
      /\ reopened' = IF e.to = "pending" THEN reopened \cup (released \cap {e.id}) ELSE reopened
      /\ UNCHANGED <<calendar, creating, releasing, reserving, released, approved>>
  BY DEF CommitEdit
<1>2. /\ status \in [Bookings -> BookingStatus \cup {"none", "deleted"}] /\ status[e.id] # "none"
      /\ e.id \in Bookings /\ e.to \in BookingStatus /\ e.to # "none"
  BY <1>1, StatusesNamed DEF DatesInv, Shapes, Stored
<1>3. ReleasedKnown' BY <1>1, <1>2 DEF RowsInv, ReleasedKnown
<1>4. \A c \in Bookings : (status'[c] = "none") <=> (status[c] = "none") BY <1>1, <1>2
<1>5. reopened \subseteq reopened' BY <1>1
<1> QED BY <1>1, <1>3, <1>4, <1>5, QuietRows

\* An inquiry reads the row that it is about to change.
LEMMA ReadRows ==
    ASSUME DatesInv, RowsInv, NEW i \in Approvals, ReadCapacity(i)
    PROVE  RowsInv'
<1> DEFINE s == AskedSlot(i)
<1>1. s \in Slots BY CapacityAssumption DEF AskedSlot, ItemLines, Slots
<1>2. /\ approved' = approved \cup {i}
      /\ UNCHANGED <<calendar, status, creating, releasing, released, reopened>>
  BY DEF ReadCapacity
<1>3. PICK r \in IF Visible(s, <<>>) = {} THEN {<<s, i>>} ELSE Visible(s, <<>>) :
          reserving' = reserving \cup {[id |-> i, row |-> r, seen |-> calendar[r]]}
  BY DEF ReadCapacity
<1>4. r \in Rows /\ r[1] = s
  <2>1. <<s, i>> \in Rows BY <1>1 DEF Rows
  <2> QED BY <1>3, <2>1 DEF Visible
<1>5. RowsSound /\ DraftsSound /\ RowsLocked /\ ReservesKnown /\ NightsCounted /\ HoldsCounted BY DEF RowsInv
<1> DEFINE v == [id |-> i, row |-> r, seen |-> calendar[r]]
<1>6. v.id = i /\ v.row = r /\ v.seen = calendar[r] /\ calendar[r] \in RowData BY <1>4, <1>5 DEF RowsSound
<1>7. reserving' = reserving \cup {v} BY <1>3
<1> HIDE DEF v, s
<1>8. \A w \in reserving' : w \in reserving \/
               (/\ w.id \in Approvals /\ w.row \in Rows /\ w.seen \in RowData
                /\ w.id \in approved' /\ w.row[1] = AskedSlot(w.id)
                /\ w.seen # NoRow => calendar'[w.row] # NoRow)
  BY <1>2, <1>4, <1>6, <1>7 DEF s
<1>9. \A x \in Rows : DirectOnly(x[1])' => Balanced(calendar'[x])
  BY <1>2, <1>5 DEF RowsSound, RowsBalance, Balanced, DirectOnly
<1>10. calendar' \in [Rows -> RowData] /\ \A x \in Rows : calendar'[x] # NoRow => calendar'[x].total = Capacity[x[1][1]]
  BY <1>2, <1>5 DEF RowsSound
<1>11. \A t \in creating' \cup releasing' : \A x \in DOMAIN t.draft : calendar'[x] = calendar[x] BY <1>2
<1>12. approved \subseteq approved' /\ creating' \subseteq creating /\ releasing' \subseteq releasing
       /\ \A x \in Rows : calendar[x] # NoRow => calendar'[x] # NoRow
  BY <1>2
<1>13. RowsSound' /\ DraftsSound' /\ RowsLocked' /\ ReservesKnown' /\ NightsCounted' /\ HoldsCounted'
  BY <1>5, <1>8, <1>9, <1>10, <1>11, <1>12, RowsMove
<1>14. RowsCountKept' BY <1>2, <1>12, KeptStay DEF RowsInv
<1>15. ReleasedKnown' BY <1>2, ReleasedStay
<1> QED BY <1>13, <1>14, <1>15 DEF RowsInv

\* What an inquiry writes is a row of its variant.
LEMMA WrittenRow ==
    ASSUME RowsSound, ReservesKnown, NEW v \in reserving
    PROVE  CapacityWritten(v) \in RowData /\ CapacityWritten(v).total = Capacity[v.row[1][1]]
<1>1. /\ v.id \in Approvals /\ v.row \in Rows /\ v.seen \in RowData
      /\ v.seen # NoRow => calendar[v.row] # NoRow
  BY DEF ReservesKnown
<1>2. Requested[v.id].qty \in Nat BY <1>1, CapacityAssumption DEF ItemLines
<1>3. Capacity[v.row[1][1]] \in Nat
  <2>1. v.row[1][1] \in Variants BY <1>1, RowParts
  <2> QED BY <2>1, CapacityAssumption
<1> DEFINE total == IF v.seen = NoRow THEN Capacity[v.row[1][1]] ELSE v.seen.total
           reserved == v.seen.reserved + Requested[v.id].qty
           available == Minus(total, reserved)
<1>4. v.seen.total \in Nat /\ v.seen.reserved \in Nat BY <1>1 DEF RowData
<1>5. total \in Nat /\ reserved \in Nat BY <1>2, <1>3, <1>4
<1>6. CapacityWritten(v) = IF v.seen = NoRow
                           THEN [total |-> total, reserved |-> reserved, available |-> available]
                           ELSE [calendar[v.row] EXCEPT
                                    !.reserved = reserved,
                                    !.available = IF available = v.seen.available THEN @ ELSE available]
  BY DEF CapacityWritten
<1>7. v.seen = NoRow => total = Capacity[v.row[1][1]] OBVIOUS
<1> HIDE DEF total, reserved
<1>8. available \in Nat BY <1>5 DEF Minus
<1> HIDE DEF available
<1>9. CASE v.seen = NoRow BY <1>5, <1>6, <1>7, <1>8, <1>9 DEF RowData
<1>10. CASE v.seen # NoRow
  <2>1. calendar[v.row] \in RowData /\ calendar[v.row].total = Capacity[v.row[1][1]] BY <1>1, <1>10 DEF RowsSound
  <2>2. PICK a \in Nat, b \in Nat, c \in Nat : calendar[v.row] = [total |-> a, reserved |-> b, available |-> c]
    BY <2>1 DEF RowData
  <2> DEFINE old == calendar[v.row]
             m == [old EXCEPT !.reserved = reserved]
             e == IF available = v.seen.available THEN c ELSE available
  <2>3. m = [total |-> a, reserved |-> reserved, available |-> c]
    <3> HIDE DEF old
    <3>1. old = [total |-> a, reserved |-> b, available |-> c] BY <2>2 DEF old
    <3> QED BY <3>1
  <2>4. CapacityWritten(v) = [m EXCEPT !.available = IF available = v.seen.available THEN @ ELSE available]
    BY <1>6, <1>10
  <2> HIDE DEF m
  <2>5. CapacityWritten(v) = [total |-> a, reserved |-> reserved, available |-> e] BY <2>3, <2>4
  <2>6. e \in Nat BY <1>8
  <2> HIDE DEF e
  <2> QED BY <1>5, <2>1, <2>2, <2>5, <2>6 DEF RowData
<1> QED BY <1>9, <1>10

LEMMA WriteRows ==
    ASSUME DatesInv, RowsInv, NEW v \in reserving, WriteCapacity(v)
    PROVE  RowsInv'
<1>1. RowsSound /\ DraftsSound /\ RowsLocked /\ ReservesKnown /\ NightsCounted /\ HoldsCounted BY DEF RowsInv
<1>2. /\ \A t \in creating \cup releasing : v.row \notin DOMAIN t.draft
      /\ reserving' = reserving \ {v} /\ calendar' = [calendar EXCEPT ![v.row] = CapacityWritten(v)]
      /\ UNCHANGED <<status, creating, releasing, released, reopened, approved>>
  BY DEF WriteCapacity, history
<1>3. v.row \in Rows /\ ~DirectOnly(v.row[1]) BY <1>1 DEF ReservesKnown, DirectOnly
<1>4. CapacityWritten(v) \in RowData /\ CapacityWritten(v).total = Capacity[v.row[1][1]] BY <1>1, WrittenRow
<1>5. CapacityWritten(v) # NoRow BY <1>3, <1>4, RowTotals
<1>6. \A r \in Rows : calendar'[r] = IF r = v.row THEN CapacityWritten(v) ELSE calendar[r] BY <1>1, <1>2 DEF RowsSound
<1>7. calendar' \in [Rows -> RowData] BY <1>1, <1>2, <1>4 DEF RowsSound
<1>8. \A r \in Rows : calendar'[r] # NoRow => calendar'[r].total = Capacity[r[1][1]] BY <1>1, <1>4, <1>6 DEF RowsSound
<1>9. \A r \in Rows : calendar[r] # NoRow => calendar'[r] # NoRow BY <1>5, <1>6
<1>10. \A r \in Rows : DirectOnly(r[1])' => Balanced(calendar'[r])
  BY <1>1, <1>2, <1>3, <1>6 DEF RowsSound, RowsBalance, Balanced, DirectOnly
<1>11. \A t \in creating' \cup releasing' : \A r \in DOMAIN t.draft : calendar'[r] = calendar[r]
  <2>1. ASSUME NEW t \in creating' \cup releasing', NEW r \in DOMAIN t.draft PROVE calendar'[r] = calendar[r]
    <3>1. r \in Rows BY <1>1, <1>2 DEF DraftsSound, DraftSound, Draft
    <3>2. r # v.row BY <1>2
    <3> QED BY <1>6, <3>1, <3>2
  <2> QED BY <2>1
<1>12. approved \subseteq approved' /\ creating' \subseteq creating /\ releasing' \subseteq releasing
       /\ \A w \in reserving' : w \in reserving
  BY <1>2
<1>13. RowsSound' /\ DraftsSound' /\ RowsLocked' /\ ReservesKnown' /\ NightsCounted' /\ HoldsCounted'
  BY <1>1, <1>7, <1>8, <1>9, <1>10, <1>11, <1>12, RowsMove
<1>14. RowsCountKept'
  <2>1. SUFFICES ASSUME NEW s \in Slots, reopened' = {}, DirectOnly(s)', OwnNightsGivenBack(s)'
        PROVE  /\ CommittedRows(s)' = {} => KeptPlaces(s)' = {}
               /\ \A r \in Rows : CommittedRows(s)' = {r} => Cardinality(KeptPlaces(s)') <= calendar'[r].reserved
    BY DEF RowsCountKept
  <2>2. reopened = {} /\ DirectOnly(s) /\ OwnNightsGivenBack(s) BY <1>2, <2>1 DEF DirectOnly, OwnNightsGivenBack
  <2>3. /\ CommittedRows(s) = {} => KeptPlaces(s) = {}
        /\ \A r \in Rows : CommittedRows(s) = {r} => Cardinality(KeptPlaces(s)) <= calendar[r].reserved
    BY <2>2 DEF RowsInv, RowsCountKept
  <2>4. v.row[1] # s BY <1>3, <2>2
  <2>5. \A r \in Rows : r[1] = s => calendar'[r] = calendar[r] BY <1>6, <2>4
  <2>6. CommittedRows(s)' = CommittedRows(s) BY <2>5 DEF CommittedRows, Visible
  <2>7. KeptPlaces(s)' = KeptPlaces(s)
    <3>1. Kept' = Kept BY <1>2 DEF Kept
    <3> QED BY <3>1 DEF KeptPlaces
  <2>8. \A r \in Rows : CommittedRows(s) = {r} => calendar'[r] = calendar[r]
    <3>1. \A r \in CommittedRows(s) : r[1] = s BY DEF CommittedRows, Visible
    <3> QED BY <2>5, <3>1
  <2> QED BY <2>3, <2>6, <2>7, <2>8
<1>15. ReleasedKnown' BY <1>2, ReleasedStay
<1> QED BY <1>13, <1>14, <1>15 DEF RowsInv

LEMMA OtherRows ==
    ASSUME DatesInv, RowsInv, OtherStep
    PROVE  RowsInv'
<1>1. ASSUME UNCHANGED <<calendar, status, released, reopened, approved>>,
             creating' \subseteq creating, releasing' \subseteq releasing, reserving' \subseteq reserving
      PROVE  RowsInv'
  BY <1>1, QuietRows, ReleasedStay
<1>2. ASSUME NEW b \in Bookings, PassDay(b) \/ UpdateStatus(b) \/ Update(b) PROVE RowsInv'
  BY <1>1, <1>2 DEF PassDay, UpdateStatus, Update, history
<1>3. ASSUME NEW t \in releasing, AbortRelease(t) PROVE RowsInv' BY <1>1, <1>3 DEF AbortRelease, history
<1>4. ASSUME NEW e \in editing, AbortEdit(e) PROVE RowsInv' BY <1>1, <1>4 DEF AbortEdit, history
<1>5. ASSUME NEW v \in reserving, AbortCapacity(v) PROVE RowsInv' BY <1>1, <1>5 DEF AbortCapacity, history
<1>6. CASE \E b \in Bookings :
             \/ PassDay(b) \/ MarkAsPaid(b) \/ HandleWebhookEvent(b)
             \/ ProcessRefund(b) \/ UpdateStatus(b) \/ Update(b) \/ Delete(b)
  BY <1>2, <1>6, StatusRows
<1>7. CASE \E e \in Expiries : PickHolds(e) BY <1>7, PickHoldsStep
<1>8. CASE \E t \in releasing : GiveBack(t) \/ CommitRelease(t) \/ AbortRelease(t)
  BY <1>3, <1>8, GiveStep, CommitReleaseCounts
<1>9. CASE \E e \in editing : CommitEdit(e) \/ AbortEdit(e) BY <1>4, <1>9, CommitEditRows
<1>10. CASE \E i \in Approvals : ReadCapacity(i) BY <1>10, ReadRows
<1>11. CASE \E v \in reserving : WriteCapacity(v) \/ AbortCapacity(v) BY <1>5, <1>11, WriteRows
<1> QED BY <1>6, <1>7, <1>8, <1>9, <1>10, <1>11 DEF OtherStep

LEMMA RowsStep ==
    ASSUME DatesInv, RowsInv, [NextDates]_allVars
    PROVE  RowsInv'
<1>1. ASSUME UNCHANGED <<calendar, status, released, reopened, approved>>,
             creating' \subseteq creating, releasing' \subseteq releasing, reserving' \subseteq reserving
      PROVE  RowsInv'
  BY <1>1, QuietRows, ReleasedStay
<1>2. CASE CreateBlocks \/ (\E x \in blocks : ReleaseBlock(x)) \/ UNCHANGED allVars
  BY <1>1, <1>2 DEF CreateBlocks, ReleaseBlock, bookingVars, allVars
<1>3. CASE \E b \in Bookings : BeginDates(b) BY <1>3, BeginStep DEF BeginDates
<1>4. ASSUME NEW t \in creating, AbortBooking(t) PROVE RowsInv' BY <1>1, <1>4 DEF AbortBooking, history
<1>5. CASE \E t \in creating : ReserveOpenNight(t) \/ EndDates(t)
  BY <1>4, <1>5, ReserveStep, CommitBookingStep DEF ReserveOpenNight, EndDates
<1>6. CASE OtherStep BY <1>6, OtherRows
<1> QED BY <1>2, <1>3, <1>5, <1>6 DEF NextDates

LEMMA RowsInit == InitDates => RowsInv
<1> SUFFICES ASSUME InitDates PROVE RowsInv OBVIOUS
<1>1. /\ calendar = [r \in Rows |-> NoRow] /\ status = [b \in Bookings |-> "none"]
      /\ creating = {} /\ releasing = {} /\ reserving = {} /\ released = {} /\ approved = {}
  BY DEF InitDates, InitBookings
<1>2. RowsSound BY <1>1, NoRowSound DEF RowsSound, RowsBalance, Balanced
<1>3. DraftsSound /\ RowsLocked /\ ReservesKnown /\ NightsCounted /\ HoldsCounted /\ ReleasedKnown
  BY <1>1 DEF DraftsSound, RowsLocked, ReservesKnown, NightsCounted, HoldsCounted, ReleasedKnown
<1>4. RowsCountKept
  <2>1. Kept = {} BY <1>1 DEF Kept
  <2>2. \A s : KeptPlaces(s) = {}
    <3>1. NightsWanted({}) = {} BY NightsElements
    <3> QED BY <2>1, <3>1, PlacesElements DEF KeptPlaces
  <2>3. \A s, r : CommittedRows(s) # {r}
    <3>1. \A s : CommittedRows(s) = {} BY <1>1 DEF CommittedRows, Visible
    <3> QED BY <3>1
  <2> QED BY <2>2, <2>3 DEF RowsCountKept
<1> QED BY <1>2, <1>3, <1>4 DEF RowsInv

\* The rows that transactions work on are theirs alone, a booking in flight has counted the
\* nights that it has come to, a release takes off no more than it gives back, and the only row of
\* a slot counts every booking whose capacity was never given back.
THEOREM RowsInvariant == SpecDates => [](DatesInv /\ RowsInv)
BY DatesInit, DatesStep, RowsInit, RowsStep, PTL DEF SpecDates
-----------------------------------------------------------------------------
(* The properties of the capacity. *)

LEMMA OneCommitted ==
    ASSUME RowsSound, NEW s \in Slots, NEW r \in CommittedRows(s), Cardinality(CommittedRows(s)) <= 1
    PROVE  CommittedRows(s) = {r}
<1>1. IsFiniteSet({s} \X (Bookings \cup Approvals))
  <2>1. IsFiniteSet({s}) BY FS_Singleton
  <2>2. IsFiniteSet(Bookings \cup Approvals) BY CapacityAssumption, FS_Union
  <2> QED BY <2>1, <2>2, FS_Product
<1>2. CommittedRows(s) \subseteq {s} \X (Bookings \cup Approvals)
  <2>1. ASSUME NEW x \in CommittedRows(s) PROVE x \in {s} \X (Bookings \cup Approvals)
    <3>1. x \in Rows /\ x[1] = s BY DEF CommittedRows, Visible
    <3>2. x = <<x[1], x[2]>> /\ x[2] \in Bookings \cup Approvals BY <3>1, RowParts
    <3> QED BY <3>1, <3>2
  <2> QED BY <2>1
<1>3. IsFiniteSet(CommittedRows(s)) BY <1>1, <1>2, FS_Subset
<1>4. Cardinality(CommittedRows(s)) \in Nat /\ Cardinality(CommittedRows(s)) # 0
  BY <1>3, FS_CardinalityType, FS_EmptySet
<1>5. Cardinality(CommittedRows(s)) = 1 BY <1>4
<1>6. \E x : CommittedRows(s) = {x} BY <1>3, <1>5, FS_Singleton
<1> QED BY <1>6

LEMMA StandingCounted ==
    ASSUME RowsInv, NEW s \in Slots, reopened = {}, DirectOnly(s), OwnNightsGivenBack(s),
           Cardinality(CommittedRows(s)) = 1, NEW r \in CommittedRows(s)
    PROVE  PlacesTaken(s) <= calendar[r].reserved /\ calendar[r].reserved <= calendar[r].total
<1>1. RowsSound /\ RowsCountKept BY DEF RowsInv
<1>2. CommittedRows(s) = {r} BY <1>1, OneCommitted
<1>3. r \in Rows /\ r[1] = s BY DEF CommittedRows, Visible
<1>4. Cardinality(KeptPlaces(s)) <= calendar[r].reserved BY <1>1, <1>2, <1>3 DEF RowsCountKept
<1>5. Kept \subseteq Bookings /\ Standing \subseteq Kept BY StatusesNamed DEF Kept, Standing, Stored
<1>6. NightsWanted(Kept) \in SUBSET NightsWanted(Bookings) /\ NightsWanted(Standing) \in SUBSET NightsWanted(Kept)
  BY <1>5, NightsElements
<1>7. /\ PlacesTaken(s) <= Cardinality(KeptPlaces(s))
      /\ PlacesTaken(s) \in Nat /\ Cardinality(KeptPlaces(s)) \in Nat
  <2>1. PICK ks \in SUBSET NightsWanted(Bookings) : ks = NightsWanted(Kept) BY <1>6
  <2>2. PICK xs \in SUBSET ks : xs = NightsWanted(Standing) BY <1>6, <2>1
  <2>3. Cardinality(PlacesOf(xs, s)) <= Cardinality(PlacesOf(ks, s)) BY FewerPlaces
  <2>4. Cardinality(PlacesOf(xs, s)) \in Nat /\ Cardinality(PlacesOf(ks, s)) \in Nat BY PlacesFinite
  <2> QED BY <2>1, <2>2, <2>3, <2>4 DEF PlacesTaken, KeptPlaces
<1>8. calendar[r] \in RowData /\ Balanced(calendar[r]) BY <1>1, <1>3 DEF RowsSound, RowsBalance, Balanced
<1>9. PICK a \in Nat, b \in Nat, c \in Nat : calendar[r] = [total |-> a, reserved |-> b, available |-> c]
  BY <1>8 DEF RowData
<1>10. b + c = a /\ calendar[r].reserved = b /\ calendar[r].total = a BY <1>8, <1>9 DEF Balanced
<1> QED BY <1>4, <1>7, <1>9, <1>10

\* The row locks of create_booking and of release_expired_bank_transfer_holds lose no reservation:
\* where a night has one calendar row it counts the places of every booking that stands, and
\* reserves no more than the variant's capacity.
THEOREM StandingCountedAlways == SpecDates => []StandingIsReserved
<1>1. RowsInv => StandingIsReserved BY StandingCounted DEF StandingIsReserved
<1> QED BY <1>1, RowsInvariant, PTL

\* What get_listing_availability makes of one variant.
FigureOf(v, n, from, to, row) ==
    LET xs == {x \in blocks : Overlaps(x, from, to)}
    IN  IF \E x \in xs : x.variant = Listing /\ Covers(x, n)
        THEN [total |-> Capacity[v], booked |-> 0, blocked |-> Capacity[v], avail |-> 0]
        ELSE VariantFigures(v, n, xs, row[v])

LEMMA BlocksSeen ==
    ASSUME DatesInv, NEW n \in Nat, NEW from \in Nat, NEW to \in Nat, from <= n, n < to, NEW x \in blocks, Covers(x, n)
    PROVE  Overlaps(x, from, to)
<1>1. x.span[1] \in Nat /\ x.span[2] \in Nat BY SpansAssumption DEF ListingBlock, DatesInv, DatesShapes
<1> QED BY <1>1 DEF Covers, Overlaps

LEMMA FigureIs ==
    ASSUME DatesInv, RowsInv, NEW n \in Nights, SingleRows(n), NEW row \in RowsRead(n),
           NEW from \in Nat, NEW to \in Nat, from <= n, n < to, NEW v \in Variants
    PROVE  /\ FigureOf(v, n, from, to, row)["total"] \in Nat /\ FigureOf(v, n, from, to, row)["booked"] \in Nat
           /\ FigureOf(v, n, from, to, row)["blocked"] \in Nat /\ FigureOf(v, n, from, to, row)["avail"] \in Nat
           /\ FigureOf(v, n, from, to, row)["avail"] > 0 <=> WouldBook(v, n, 1)
           /\ DirectOnly(<<v, n>>) =>
                  FigureOf(v, n, from, to, row)["total"] =
                      (FigureOf(v, n, from, to, row)["booked"] + FigureOf(v, n, from, to, row)["blocked"])
                          + FigureOf(v, n, from, to, row)["avail"]
<1> DEFINE F == FigureOf(v, n, from, to, row)
           s == <<v, n>>
           closed == \E x \in blocks : x.variant \in {Listing, v} /\ Covers(x, n)
<1>1. n \in Nat /\ Capacity[v] \in Nat \ {0} /\ s \in Slots BY CapacityAssumption DEF Slots
<1>2. \A x \in blocks : Covers(x, n) => Overlaps(x, from, to) /\ Overlaps(x, n, n + 1) BY <1>1, BlocksSeen
<1>3. Blocked({x \in blocks : Overlaps(x, n, n + 1)}, s) <=> closed BY <1>2 DEF Blocked
<1>4. CASE closed
  <2>1. F = [total |-> Capacity[v], booked |-> 0, blocked |-> Capacity[v], avail |-> 0]
    BY <1>2, <1>4 DEF FigureOf, VariantFigures
  <2>2. ~WouldBook(v, n, 1) BY <1>3, <1>4 DEF WouldBook
  <2> HIDE DEF F
  <2>3. F["total"] = Capacity[v] /\ F["booked"] = 0 /\ F["blocked"] = Capacity[v] /\ F["avail"] = 0 BY <2>1
  <2> QED BY <1>1, <2>2, <2>3 DEF F
<1>5. CASE ~closed
  <2>1. F = RowsOnly(v, n, {x \in blocks : Overlaps(x, from, to)}, row[v]) BY <1>5 DEF FigureOf, VariantFigures
  <2>2. WouldBook(v, n, 1) <=> IF CommittedRows(s) = {} THEN 1 <= Capacity[v]
                                                       ELSE \E r \in CommittedRows(s) : calendar[r].available >= 1
    BY <1>3, <1>5 DEF WouldBook
  <2>3. row[v] \in IF CommittedRows(s) = {} THEN {NoRow} ELSE {calendar[r] : r \in CommittedRows(s)} BY DEF RowsRead
  <2>4. CASE CommittedRows(s) = {}
    <3>1. F = [total |-> Capacity[v], booked |-> 0, blocked |-> 0, avail |-> Capacity[v]] BY <2>1, <2>3, <2>4 DEF RowsOnly
    <3> HIDE DEF F
    <3>2. F["total"] = Capacity[v] /\ F["booked"] = 0 /\ F["blocked"] = 0 /\ F["avail"] = Capacity[v] BY <3>1
    <3> QED BY <1>1, <2>2, <2>4, <3>2 DEF F
  <2>5. CASE CommittedRows(s) # {}
    <3>1. PICK r \in CommittedRows(s) : row[v] = calendar[r] BY <2>3, <2>5
    <3>2. r \in Rows /\ r[1] = s /\ calendar[r] # NoRow BY DEF CommittedRows, Visible
    <3>3. calendar[r] \in RowData /\ (DirectOnly(s) => Balanced(calendar[r]))
      BY <3>2 DEF RowsInv, RowsSound, RowsBalance, Balanced
    <3>4. PICK a \in Nat, b \in Nat, c \in Nat : calendar[r] = [total |-> a, reserved |-> b, available |-> c]
      BY <3>3 DEF RowData
    <3>5. F = [total |-> a, booked |-> b, blocked |-> 0, avail |-> c] BY <2>1, <3>1, <3>2, <3>4 DEF RowsOnly
    <3>6. CommittedRows(s) = {r}
      <4>1. Cardinality(CommittedRows(s)) <= 1 BY DEF SingleRows
      <4> QED BY <1>1, <4>1, OneCommitted DEF RowsInv
    <3>7. WouldBook(v, n, 1) <=> c >= 1 BY <2>2, <3>4, <3>6
    <3>8. DirectOnly(s) => b + c = a BY <3>3, <3>4 DEF Balanced
    <3> HIDE DEF F
    <3>9. F["total"] = a /\ F["booked"] = b /\ F["blocked"] = 0 /\ F["avail"] = c BY <3>5
    <3> QED BY <3>7, <3>8, <3>9 DEF F
  <2> QED BY <2>4, <2>5
<1> QED BY <1>4, <1>5

LEMMA FiguresOfNight ==
    ASSUME NEW n, NEW from, NEW to, NEW row, NEW f \in {"total", "booked", "blocked", "avail"}
    PROVE  NightFigures(n, from, to, row)[f] = Cardinality(OneByOne([v \in Variants |-> FigureOf(v, n, from, to, row)[f]]))
<1> DEFINE fig == [v \in Variants |-> FigureOf(v, n, from, to, row)]
<1>1. NightFigures(n, from, to, row)[f] = SumOver(fig, f) BY DEF NightFigures, FigureOf
<1>2. DOMAIN fig = Variants /\ \A v \in Variants : fig[v] = FigureOf(v, n, from, to, row) OBVIOUS
<1> HIDE DEF fig
<1>3. [v \in DOMAIN fig |-> fig[v][f]] = [v \in Variants |-> FigureOf(v, n, from, to, row)[f]] BY <1>2
<1> QED BY <1>1, <1>3 DEF SumOver

LEMMA FiguresShown ==
    ASSUME DatesInv, RowsInv, NEW n \in Nights, SingleRows(n), NEW row \in RowsRead(n),
           NEW from \in Nat, NEW to \in Nat, from <= n, n < to
    PROVE  /\ NightFigures(n, from, to, row)["avail"] > 0 <=> \E v \in Variants : WouldBook(v, n, 1)
           /\ (\A v \in Variants : DirectOnly(<<v, n>>)) =>
                  NightFigures(n, from, to, row)["total"] =
                      NightFigures(n, from, to, row)["booked"] + NightFigures(n, from, to, row)["blocked"]
                          + NightFigures(n, from, to, row)["avail"]
<1> DEFINE Fig(v) == FigureOf(v, n, from, to, row)
           total == [v \in Variants |-> Fig(v)["total"]]
           booked == [v \in Variants |-> Fig(v)["booked"]]
           blocked == [v \in Variants |-> Fig(v)["blocked"]]
           avail == [v \in Variants |-> Fig(v)["avail"]]
           taken == [v \in Variants |-> Fig(v)["booked"] + Fig(v)["blocked"]]
<1>1. \A v \in Variants :
          /\ Fig(v)["total"] \in Nat /\ Fig(v)["booked"] \in Nat /\ Fig(v)["blocked"] \in Nat /\ Fig(v)["avail"] \in Nat
          /\ Fig(v)["avail"] > 0 <=> WouldBook(v, n, 1)
          /\ DirectOnly(<<v, n>>) => Fig(v)["total"] = (Fig(v)["booked"] + Fig(v)["blocked"]) + Fig(v)["avail"]
  BY FigureIs
<1>2. /\ NightFigures(n, from, to, row)["total"] = Cardinality(OneByOne(total))
      /\ NightFigures(n, from, to, row)["booked"] = Cardinality(OneByOne(booked))
      /\ NightFigures(n, from, to, row)["blocked"] = Cardinality(OneByOne(blocked))
      /\ NightFigures(n, from, to, row)["avail"] = Cardinality(OneByOne(avail))
  BY FiguresOfNight
<1> HIDE DEF Fig
<1>3. /\ total \in [Variants -> Nat] /\ booked \in [Variants -> Nat] /\ blocked \in [Variants -> Nat]
      /\ avail \in [Variants -> Nat] /\ taken \in [Variants -> Nat]
  <2>1. \A v \in Variants : /\ Fig(v)["total"] \in Nat /\ Fig(v)["booked"] \in Nat
                            /\ Fig(v)["blocked"] \in Nat /\ Fig(v)["avail"] \in Nat
    BY <1>1
  <2>2. \A v \in Variants : Fig(v)["booked"] + Fig(v)["blocked"] \in Nat BY <2>1
  <2>3. total \in [Variants -> Nat] BY <2>1
  <2>4. booked \in [Variants -> Nat] BY <2>1
  <2>5. blocked \in [Variants -> Nat] BY <2>1
  <2>6. avail \in [Variants -> Nat] BY <2>1
  <2>7. taken \in [Variants -> Nat] BY <2>2
  <2> QED BY <2>3, <2>4, <2>5, <2>6, <2>7
<1>4. \A v \in Variants : avail[v] > 0 <=> WouldBook(v, n, 1) BY <1>1
<1>5. \A v \in Variants : taken[v] = booked[v] + blocked[v] OBVIOUS
<1>6. (\A v \in Variants : DirectOnly(<<v, n>>)) => \A v \in Variants : total[v] = taken[v] + avail[v] BY <1>1
<1> HIDE DEF total, booked, blocked, avail, taken
<1>7. IsFiniteSet(Variants) BY CapacityAssumption
<1>8. Cardinality(OneByOne(avail)) > 0 <=> \E v \in Variants : avail[v] > 0 BY <1>3, <1>7, PositiveSum
<1>9. Cardinality(OneByOne(taken)) = Cardinality(OneByOne(booked)) + Cardinality(OneByOne(blocked))
  BY <1>3, <1>5, <1>7, SumOfSums
<1>10. ASSUME \A v \in Variants : DirectOnly(<<v, n>>)
       PROVE  Cardinality(OneByOne(total)) = Cardinality(OneByOne(taken)) + Cardinality(OneByOne(avail))
  <2>1. \A v \in Variants : total[v] = taken[v] + avail[v] BY <1>6, <1>10
  <2> QED BY <1>3, <1>7, <2>1, SumOfSums
<1> QED BY <1>2, <1>4, <1>8, <1>9, <1>10

\* get_listing_availability, which reads blocks and rows in its own way, comes to the same answer
\* as create_booking: a night that is not split over two rows is shown as open exactly when a
\* booking of one place would be taken, and its figures add up until an inquiry reserves in it.
THEOREM OpenNightsAreShown == SpecDates => []ShownAsBookable
<1>1. ASSUME DatesInv, RowsInv PROVE ShownAsBookable
  <2>1. SUFFICES ASSUME NEW n \in Nights, SingleRows(n), NEW row \in RowsRead(n), NEW from \in Nights,
                        NEW to \in {m + 1 : m \in Nights}, from <= n, n < to
        PROVE  /\ NightFigures(n, from, to, row)["avail"] > 0 <=> \E v \in Variants : WouldBook(v, n, 1)
               /\ (\A v \in Variants : DirectOnly(<<v, n>>)) =>
                      NightFigures(n, from, to, row)["total"] =
                          NightFigures(n, from, to, row)["booked"] + NightFigures(n, from, to, row)["blocked"]
                              + NightFigures(n, from, to, row)["avail"]
    BY DEF ShownAsBookable
  <2>2. from \in Nat /\ to \in Nat
    <3>1. Nights \subseteq Nat BY CapacityAssumption
    <3>2. PICK m \in Nights : to = m + 1 BY <2>1
    <3> QED BY <3>1, <3>2
  <2> QED BY <1>1, <2>1, <2>2, FiguresShown
<1> QED BY <1>1, RowsInvariant, PTL

-----------------------------------------------------------------------------
(***************************************************************************)
(* InquiryOffers: requests judge from an old status whether an approval    *)
(* was mailed already, and still none is forgotten: whoever found the      *)
(* inquiry approved found it answered, which is to say that the mail has   *)
(* gone out or failed, that a request in flight is bound to send it, or    *)
(* that a route approved it that sends none (Answered, ApprovalsAnswered). *)
(***************************************************************************)

\* The values a stored request may have: of a submitted cart, or of a quote for one listing.
StoredRows ==
    [status: InquiryStatus, cart: Carts \cup {<<QuoteLine(l)>> : l \in Listings},
     stored: {0} \cup {StoredTotal(cart) : cart \in Carts}, national: BOOLEAN]

\* What the theorem takes of the constants.
OfferConstants == None # Gone /\ None \notin StoredRows /\ Gone \notin StoredRows /\ Idle \notin Request

OfferTypes ==
    /\ inquiry \in [Inquiries -> {None, Gone} \cup StoredRows]
    /\ request \in [Requests -> {Idle} \cup Request]
    /\ notices \in [Inquiries -> SUBSET NoticeTypes]
    /\ mailed \in [Inquiries -> 0 .. 2]
    /\ lost \in [Inquiries -> SUBSET (NoticeTypes \cup {"mail"})]
    /\ \A c \in Requests : request[c] # Idle => inquiry[request[c].q] # None

\* The request will mail the approval of q, unless it fails.
WillMail(r, q) ==
    /\ r # Idle /\ r.q = q
    /\ \/ r.stage = "mailing" /\ r.op # "link"
       \/ r.stage \in {"provisioning", "noticing"} /\ MailDue(r)

\* The approval of q is mailed, or will be, or that failed, or was left to a route that mails nothing.
Answered(q) == mailed[q] > 0 \/ "mail" \in lost[q] \/ q \in silent \/ \E c \in Requests : WillMail(request[c], q)

\* A request that found q approved, or has approved it, knows that it is answered.
ApprovalsAnswered ==
    /\ \A q \in Inquiries : Listed(q) /\ inquiry[q].status \in Approved => Answered(q)
    /\ \A c \in Requests : LET r == request[c] IN
         r # Idle /\ Listed(r.q) =>
            /\ r.was => Answered(r.q)
            /\ r.stage = "provisioning" => Answered(r.q)
            /\ r.stage = "decided" => r.op \notin {"desk", "link"}
            /\ r.op = "guest" => r.target = "cancelled"

\* A status that no notice shows yet is about to be noticed, or its notice failed.
StatusNoticed ==
    \A q \in Inquiries :
        Listed(q) /\ inquiry[q].status \in NoticeTypes /\ q \notin desk =>
            \/ inquiry[q].status \in notices[q] \cup lost[q]
            \/ \E c \in Requests :
                  request[c] # Idle /\ request[c].q = q /\ request[c].stage \in {"provisioning", "noticing"}

OffersInv == OfferTypes /\ ApprovalsAnswered /\ StatusNoticed

-----------------------------------------------------------------------------
(* One request c becomes n. *)

\* What every such step keeps: who was answered stays so, unless n was to mail and does not.
LEMMA AnsweredStays ==
    ASSUME OfferTypes, NEW c \in Requests, NEW n \in {Idle} \cup Request, Goes(c, n),
           silent \subseteq silent', \A q \in Inquiries : mailed[q] > 0 => mailed'[q] > 0,
           \A q \in Inquiries : lost[q] \subseteq lost'[q],
           \A q \in Inquiries : Listed(q)' => Listed(q) /\ inquiry'[q].national = inquiry[q].national,
           \A q \in Inquiries : Listed(q)' /\ WillMail(request[c], q) =>
               mailed'[q] > 0 \/ "mail" \in lost'[q] \/ WillMail(n, q)'
    PROVE  \A q \in Inquiries : Listed(q)' /\ Answered(q) => Answered(q)'
  <1>1. \A d \in Requests : request'[d] = IF d = c THEN n ELSE request[d] BY DEF Goes, OfferTypes
  <1>2. SUFFICES ASSUME NEW q \in Inquiries, Listed(q)', Answered(q) PROVE Answered(q)' OBVIOUS
  <1>3. CASE mailed[q] > 0 \/ "mail" \in lost[q] \/ q \in silent BY <1>3 DEF Answered
  <1>4. ASSUME NEW d \in Requests, WillMail(request[d], q) PROVE Answered(q)'
    <2>1. CASE d = c BY <1>1, <1>2, <1>4, <2>1 DEF Answered
    <2>2. CASE d # c
      <3>1. request'[d] = request[d] BY <1>1, <2>2
      <3>2. PICK r : r = request[d] OBVIOUS
      <3>3. WillMail(r, q)' BY <1>2, <1>4, <3>2 DEF WillMail, MailDue, MailsApproval, Answerable
      <3> QED BY <3>1, <3>2, <3>3 DEF Answered
    <2> QED BY <2>1, <2>2
  <1> QED BY <1>2, <1>3, <1>4 DEF Answered

\* The new request n is all there is to look at.
LEMMA OneMoves ==
    ASSUME OfferTypes, ApprovalsAnswered, NEW c \in Requests, NEW n \in {Idle} \cup Request, Goes(c, n),
           \A q \in Inquiries : Listed(q)' => Listed(q),
           \A q \in Inquiries : Listed(q)' /\ Answered(q) => Answered(q)',
           \A q \in Inquiries : Listed(q)' /\ inquiry'[q].status \in Approved =>
                                    inquiry[q].status \in Approved \/ Answered(q)',
           n # Idle => LET q == n.q IN
               Listed(q)' =>
                  /\ n.was => Answered(q)'
                  /\ n.stage = "provisioning" => Answered(q)'
                  /\ n.stage = "decided" => n.op \notin {"desk", "link"}
                  /\ n.op = "guest" => n.target = "cancelled"
    PROVE  ApprovalsAnswered'
  <1>1. \A d \in Requests : request'[d] = IF d = c THEN n ELSE request[d] BY DEF Goes, OfferTypes
  <1>2. \A q \in Inquiries : Listed(q)' /\ inquiry'[q].status \in Approved => Answered(q)'
    BY DEF ApprovalsAnswered
  <1>3. ASSUME NEW d \in Requests, d # c, NEW r, r = request[d], r # Idle, Listed(r.q)'
        PROVE  /\ r.was => Answered(r.q)'
               /\ r.stage = "provisioning" => Answered(r.q)'
               /\ r.stage = "decided" => r.op \notin {"desk", "link"}
               /\ r.op = "guest" => r.target = "cancelled"
    <2>1. r.q \in Inquiries BY <1>3 DEF OfferTypes, Request
    <2>2. Listed(r.q) BY <1>3, <2>1
    <2> QED BY <1>3, <2>1, <2>2 DEF ApprovalsAnswered
  <1> QED BY <1>1, <1>2, <1>3 DEF ApprovalsAnswered

\* The rows keep their types.
LEMMA OneMovesType ==
    ASSUME OfferTypes, NEW c \in Requests, NEW n \in {Idle} \cup Request, Goes(c, n),
           \A q \in Inquiries : inquiry'[q] = None => inquiry[q] = None,
           n # Idle => inquiry[n.q] # None,
           inquiry' \in [Inquiries -> {None, Gone} \cup StoredRows],
           notices' \in [Inquiries -> SUBSET NoticeTypes], mailed' \in [Inquiries -> 0 .. 2],
           lost' \in [Inquiries -> SUBSET (NoticeTypes \cup {"mail"})]
    PROVE  OfferTypes'
  <1>1. request' \in [Requests -> {Idle} \cup Request] /\ \A d \in Requests : request'[d] = IF d = c THEN n ELSE request[d]
    BY DEF Goes, OfferTypes
  <1>2. \A d \in Requests : request[d] # Idle => request[d].q \in Inquiries BY DEF OfferTypes, Request
  <1>3. n # Idle => n.q \in Inquiries BY DEF Request
  <1> QED BY <1>1, <1>2, <1>3 DEF OfferTypes

\* A status is set on a row that exists.
LEMMA StatusIsSet ==
    ASSUME OfferConstants, OfferTypes, NEW q \in Inquiries, NEW s \in InquiryStatus, Listed(q), SetStatus(q, s)
    PROVE  /\ inquiry' \in [Inquiries -> {None, Gone} \cup StoredRows]
           /\ \A p \in Inquiries : p # q => inquiry'[p] = inquiry[p]
           /\ inquiry'[q].status = s
           /\ \A p \in Inquiries : (Listed(p)' <=> Listed(p)) /\ (inquiry'[p] = None => inquiry[p] = None)
           /\ \A p \in Inquiries : Listed(p) => inquiry'[p].national = inquiry[p].national
  <1>1. inquiry[q] \in StoredRows BY DEF OfferTypes, Listed
  <1>2. \A p \in Inquiries : inquiry'[p] = IF p = q THEN [inquiry[q] EXCEPT !.status = s] ELSE inquiry[p]
    BY DEF SetStatus, OfferTypes
  <1>3. /\ inquiry'[q] \in StoredRows /\ inquiry'[q].status = s /\ inquiry'[q].national = inquiry[q].national
        /\ inquiry'[q] \notin {None, Gone}
    BY <1>1, <1>2 DEF StoredRows, OfferConstants
  <1>4. inquiry' \in [Inquiries -> {None, Gone} \cup StoredRows] BY <1>3 DEF SetStatus, OfferTypes
  <1> QED BY <1>2, <1>3, <1>4 DEF Listed

-----------------------------------------------------------------------------
(* Steps that begin no request and serve none. *)

LEMMA QuietKeeps ==
    ASSUME OffersInv, UNCHANGED <<inquiry, notices, request, mailed, silent, lost, desk>>
    PROVE  OffersInv'
  <1>1. OfferTypes' BY DEF OffersInv, OfferTypes
  <1>2. \A q \in Inquiries : (Answered(q)' <=> Answered(q)) /\ (Listed(q)' <=> Listed(q))
    BY DEF Answered, WillMail, MailDue, MailsApproval, Answerable, Listed
  <1>3. ApprovalsAnswered'
    <2>1. \A c \in Requests : request[c] # Idle => request[c].q \in Inquiries BY DEF OffersInv, OfferTypes, Request
    <2>2. \A q \in Inquiries : Listed(q) /\ inquiry[q].status \in Approved => Answered(q)'
      BY <1>2 DEF OffersInv, ApprovalsAnswered
    <2>3. ASSUME NEW r, r # Idle, \E c \in Requests : r = request[c], Listed(r.q)
          PROVE  /\ r.was => Answered(r.q)'
                 /\ r.stage = "provisioning" => Answered(r.q)'
                 /\ r.stage = "decided" => r.op \notin {"desk", "link"}
                 /\ r.op = "guest" => r.target = "cancelled"
      BY <1>2, <2>1, <2>3 DEF OffersInv, ApprovalsAnswered
    <2> QED BY <1>2, <2>1, <2>2, <2>3 DEF ApprovalsAnswered, Listed
  <1>4. StatusNoticed' BY DEF OffersInv, StatusNoticed, Listed
  <1> QED BY <1>1, <1>3, <1>4 DEF OffersInv

\* One row is made, or deleted: no request is about a row that is made.
LEMMA RowKeeps ==
    ASSUME OfferConstants, OffersInv, NEW q \in Inquiries, NEW x \in {Gone} \cup StoredRows,
           inquiry' = [inquiry EXCEPT ![q] = x], x # Gone => inquiry[q] = None /\ x.status = "pending_contact",
           UNCHANGED <<notices, request, mailed, silent, lost, desk>>
    PROVE  OffersInv'
  <1>1. \A p \in Inquiries : inquiry'[p] = IF p = q THEN x ELSE inquiry[p] BY DEF OffersInv, OfferTypes
  <1>2. OfferTypes'
    <2>1. inquiry' \in [Inquiries -> {None, Gone} \cup StoredRows] BY DEF OffersInv, OfferTypes
    <2>2. \A c \in Requests : request[c] # Idle => request[c].q \in Inquiries BY DEF OffersInv, OfferTypes, Request
    <2>3. x # None BY DEF OfferConstants
    <2> QED BY <1>1, <2>1, <2>2, <2>3 DEF OffersInv, OfferTypes
  <1>3. ASSUME NEW c \in Requests, NEW r, r = request[c], r # Idle, Listed(r.q)'
        PROVE  r.q \in Inquiries /\ r.q # q /\ Listed(r.q)
    <2>1. r.q \in Inquiries /\ inquiry[r.q] # None BY <1>3 DEF OffersInv, OfferTypes, Request
    <2>2. r.q # q BY <1>1, <1>3, <2>1 DEF Listed
    <2> QED BY <1>1, <1>3, <2>1, <2>2 DEF Listed
  <1>4. ASSUME NEW p \in Inquiries, p # q, Answered(p) PROVE Answered(p)'
    <2>1. CASE mailed[p] > 0 \/ "mail" \in lost[p] \/ p \in silent BY <2>1 DEF Answered
    <2>2. ASSUME NEW c \in Requests, WillMail(request[c], p) PROVE WillMail(request[c], p)'
      BY <1>1, <1>4, <2>2 DEF WillMail, MailDue, MailsApproval, Answerable, Listed
    <2> QED BY <1>4, <2>1, <2>2 DEF Answered
  <1>5. ApprovalsAnswered'
    <2>1. ASSUME NEW p \in Inquiries, Listed(p)', inquiry'[p].status \in Approved PROVE Answered(p)'
      <3>1. p # q /\ Listed(p) BY <1>1, <2>1 DEF Listed, Approved
      <3> QED BY <1>1, <1>4, <2>1, <3>1 DEF OffersInv, ApprovalsAnswered
    <2>2. ASSUME NEW c \in Requests, NEW r, r = request[c], r # Idle, Listed(r.q)'
          PROVE  /\ r.was => Answered(r.q)'
                 /\ r.stage = "provisioning" => Answered(r.q)'
                 /\ r.stage = "decided" => r.op \notin {"desk", "link"}
                 /\ r.op = "guest" => r.target = "cancelled"
      <3>1. r.q \in Inquiries /\ r.q # q /\ Listed(r.q) BY <1>3, <2>2
      <3> QED BY <1>4, <2>2, <3>1 DEF OffersInv, ApprovalsAnswered
    <2> QED BY <2>1, <2>2 DEF ApprovalsAnswered
  <1>6. StatusNoticed'
    <2>1. ASSUME NEW p \in Inquiries, Listed(p)', inquiry'[p].status \in NoticeTypes PROVE p # q /\ Listed(p)
      BY <1>1, <2>1 DEF Listed, NoticeTypes
    <2> QED BY <1>1, <2>1 DEF OffersInv, StatusNoticed
  <1> QED BY <1>2, <1>5, <1>6 DEF OffersInv

-----------------------------------------------------------------------------
(* Requests. *)

LEMMA DecideKeeps ==
    ASSUME OfferConstants, OffersInv, NEW c \in Requests, NEW q \in Inquiries,
           NEW op \in {"portal", "office", "edit", "guest"}, NEW s \in InquiryStatus,
           op = "guest" => s = "cancelled", Decide(c, q, op, s)
    PROVE  OffersInv'
  <1>1. PICK n : n = [op |-> op, q |-> q, target |-> s, was |-> WasApproved(q, s), stage |-> "decided"] OBVIOUS
  <1>2. /\ n \in Request /\ n.op = op /\ n.q = q /\ n.target = s /\ n.stage = "decided"
        /\ n.was = WasApproved(q, s) /\ Goes(c, n) /\ request[c] = Idle /\ Listed(q)
        /\ UNCHANGED <<inquiry, notices, mailed, silent, lost, desk>>
    BY <1>1 DEF Decide, Request, WasApproved, guest
  <1>3. \A p \in Inquiries : Listed(p)' /\ Answered(p) => Answered(p)'
    BY <1>2, AnsweredStays DEF OffersInv, WillMail, Listed
  <1>4. n.was => Answered(q) BY <1>2 DEF WasApproved, OffersInv, ApprovalsAnswered
  <1>5. ApprovalsAnswered' BY <1>2, <1>3, <1>4, OneMoves DEF OffersInv, Listed
  <1>6. OfferTypes' BY <1>2, OneMovesType DEF OffersInv, OfferTypes, Listed
  <1>7. StatusNoticed'
    <2>1. \A d \in Requests : request'[d] = IF d = c THEN n ELSE request[d] BY <1>2 DEF Goes, OffersInv, OfferTypes
    <2> QED BY <1>2, <2>1 DEF OffersInv, StatusNoticed, Listed
  <1> QED BY <1>5, <1>6, <1>7 DEF OffersInv

\* The desk, and a link on demand: the request has only a mail to send.
LEMMA DeskKeeps ==
    ASSUME OfferConstants, OffersInv, NEW c \in Requests, NEW q \in Inquiries,
           NEW s \in {"quoted", "pending_contact", "cancelled"}, DeskSets(c, q, s)
    PROVE  OffersInv'
  <1>1. PICK n : n = IF s = "quoted"
                     THEN [op |-> "desk", q |-> q, target |-> s, was |-> WasApproved(q, s), stage |-> "mailing"]
                     ELSE Idle
    OBVIOUS
  <1>2. /\ n \in {Idle} \cup Request /\ Goes(c, n) /\ request[c] = Idle /\ Listed(q)
        /\ UNCHANGED <<notices, mailed, silent, lost>> /\ desk' = desk \cup {q}
        /\ SetStatus(q, s)
    <2>1. s = "quoted" => n \in Request BY <1>1 DEF Request, WasApproved, InquiryStatus
    <2>2. request[c] = Idle /\ request \in [Requests -> {Idle} \cup Request] BY DEF DeskSets, OffersInv, OfferTypes
    <2>3. s # "quoted" => request' = [request EXCEPT ![c] = Idle] BY <2>2 DEF DeskSets
    <2> QED BY <1>1, <2>1, <2>2, <2>3 DEF DeskSets, Goes, guest
  <1>3. /\ inquiry' \in [Inquiries -> {None, Gone} \cup StoredRows]
        /\ \A p \in Inquiries : p # q => inquiry'[p] = inquiry[p]
        /\ inquiry'[q].status = s
        /\ \A p \in Inquiries : (Listed(p)' <=> Listed(p)) /\ (inquiry'[p] = None => inquiry[p] = None)
        /\ \A p \in Inquiries : Listed(p) => inquiry'[p].national = inquiry[p].national
    <2>1. s \in InquiryStatus BY DEF InquiryStatus
    <2> QED BY <1>2, <2>1, StatusIsSet DEF OffersInv
  <1>4. \A p \in Inquiries : Listed(p)' /\ Answered(p) => Answered(p)'
    BY <1>2, <1>3, AnsweredStays DEF OffersInv, WillMail
  <1>5. \A d \in Requests : request'[d] = IF d = c THEN n ELSE request[d] BY <1>2 DEF Goes, OffersInv, OfferTypes
  <1>6. n # Idle => n.op = "desk" /\ n.q = q /\ n.stage = "mailing" /\ s = "quoted" BY <1>1
  <1>7. n # Idle => Answered(q)'
    <2>1. n # Idle => WillMail(n, q)' BY <1>6 DEF WillMail
    <2> QED BY <1>5, <2>1 DEF Answered
  <1>8. ApprovalsAnswered'
    <2>1. s = "quoted" => n \in Request BY <1>1 DEF Request, WasApproved, InquiryStatus
    <2>2. s \in Approved => n # Idle BY <2>1 DEF Approved, OfferConstants
    <2> QED BY <1>2, <1>3, <1>4, <1>6, <1>7, <2>2, OneMoves DEF OffersInv
  <1>9. OfferTypes' BY <1>2, <1>3, <1>6, OneMovesType DEF OffersInv, OfferTypes, Listed
  <1>10. StatusNoticed' BY <1>2, <1>3, <1>5 DEF OffersInv, StatusNoticed
  <1> QED BY <1>8, <1>9, <1>10 DEF OffersInv

LEMMA LinkKeeps ==
    ASSUME OfferConstants, OffersInv, NEW c \in Requests, NEW q \in Inquiries, SendPaymentLink(c, q)
    PROVE  OffersInv'
  <1>1. PICK n : n = [op |-> "link", q |-> q, target |-> inquiry[q].status, was |-> TRUE, stage |-> "mailing"] OBVIOUS
  <1>2. Listed(q) /\ inquiry[q] \in StoredRows /\ inquiry[q].status \in Approved
    BY DEF SendPaymentLink, Offered, OffersInv, OfferTypes, Listed
  <1>3. /\ n \in Request /\ n.op = "link" /\ n.q = q /\ n.was /\ n.stage = "mailing"
        /\ Goes(c, n) /\ request[c] = Idle /\ UNCHANGED <<inquiry, notices, mailed, silent, lost, desk>>
    BY <1>1, <1>2 DEF SendPaymentLink, Request, StoredRows, guest
  <1>4. \A p \in Inquiries : Listed(p)' /\ Answered(p) => Answered(p)'
    BY <1>3, AnsweredStays DEF OffersInv, WillMail, Listed
  <1>5. Answered(q) BY <1>2 DEF OffersInv, ApprovalsAnswered
  <1>6. ApprovalsAnswered' BY <1>3, <1>4, <1>5, OneMoves DEF OffersInv, Listed
  <1>7. OfferTypes' BY <1>2, <1>3, OneMovesType DEF OffersInv, OfferTypes, Listed
  <1>8. StatusNoticed'
    <2>1. \A d \in Requests : request'[d] = IF d = c THEN n ELSE request[d] BY <1>3 DEF Goes, OffersInv, OfferTypes
    <2> QED BY <1>3, <2>1 DEF OffersInv, StatusNoticed, Listed
  <1> QED BY <1>6, <1>7, <1>8 DEF OffersInv

\* The commit of a status: whoever approves will mail, or has found q answered, or is known to be silent.
LEMMA CommitKeeps ==
    ASSUME OfferConstants, OffersInv, NEW c \in Requests, CommitStatus(c)
    PROVE  OffersInv'
  <1>1. PICK r : r = request[c] OBVIOUS
  <1>2. r \in Request /\ r.stage = "decided" /\ r.q \in Inquiries /\ inquiry[r.q] # None
    BY <1>1 DEF CommitStatus, OffersInv, OfferTypes, Request
  <1>3. CASE ~Listed(r.q)
    <2>1. Goes(c, Idle) /\ UNCHANGED <<inquiry, notices, mailed, silent, lost, desk>>
      BY <1>1, <1>3 DEF CommitStatus, guest
    <2>2. \A p \in Inquiries : Listed(p)' /\ Answered(p) => Answered(p)'
      BY <1>1, <1>2, <1>3, <2>1, AnsweredStays DEF OffersInv, WillMail, Listed
    <2>3. ApprovalsAnswered' BY <2>1, <2>2, OneMoves DEF OffersInv, Listed
    <2>4. OfferTypes' BY <2>1, OneMovesType DEF OffersInv, OfferTypes
    <2>5. StatusNoticed'
      <3>1. \A d \in Requests : request'[d] = IF d = c THEN Idle ELSE request[d]
        BY <2>1 DEF Goes, OffersInv, OfferTypes
      <3> QED BY <1>1, <1>3, <2>1, <3>1 DEF OffersInv, StatusNoticed, Listed
    <2> QED BY <2>3, <2>4, <2>5 DEF OffersInv
  <1>4. CASE Listed(r.q)
    <2>1. PICK n : n = [r EXCEPT !.stage = IF r.target \in Approved THEN "provisioning" ELSE "noticing"] OBVIOUS
    <2>2. /\ n \in Request /\ n.op = r.op /\ n.q = r.q /\ n.target = r.target /\ n.was = r.was
          /\ n.stage = IF r.target \in Approved THEN "provisioning" ELSE "noticing"
      BY <1>2, <2>1 DEF Request
    <2>3. /\ Goes(c, n) /\ UNCHANGED <<notices, mailed, lost>> /\ desk' = desk \ {r.q}
          /\ SetStatus(r.q, r.target)
          /\ silent \subseteq silent'
          /\ r.op \in {"edit", "office"} /\ ~MailsApproval(r) /\ r.target \in Approved => r.q \in silent'
      BY <1>1, <1>4, <2>1 DEF CommitStatus, guest
    <2>4. /\ inquiry' \in [Inquiries -> {None, Gone} \cup StoredRows]
          /\ \A p \in Inquiries : p # r.q => inquiry'[p] = inquiry[p]
          /\ inquiry'[r.q].status = r.target
          /\ \A p \in Inquiries : (Listed(p)' <=> Listed(p)) /\ (inquiry'[p] = None => inquiry[p] = None)
          /\ \A p \in Inquiries : Listed(p) => inquiry'[p].national = inquiry[p].national
      <3>1. r.target \in InquiryStatus BY <1>2 DEF Request
      <3> QED BY <1>2, <1>4, <2>3, <3>1, StatusIsSet DEF OffersInv
    <2>5. \A p \in Inquiries : Listed(p)' /\ Answered(p) => Answered(p)'
      BY <1>1, <1>2, <2>2, <2>3, <2>4, AnsweredStays DEF OffersInv, WillMail
    <2>6. \A d \in Requests : request'[d] = IF d = c THEN n ELSE request[d] BY <2>2, <2>3 DEF Goes, OffersInv, OfferTypes
    <2>7. r # Idle /\ n # Idle BY <1>2, <2>2 DEF OfferConstants
    <2>8. /\ r.was => Answered(r.q)
          /\ r.op \notin {"desk", "link"} /\ (r.op = "guest" => r.target = "cancelled")
      BY <1>1, <1>2, <1>4, <2>7 DEF OffersInv, ApprovalsAnswered
    <2>9. r.target \in Approved => Answered(r.q)'
      <3>1. CASE r.was BY <1>2, <1>4, <2>4, <2>5, <2>8, <3>1
      <3>2. CASE r.target \in Approved /\ ~r.was /\ MailsApproval(r)
        <4>1. MailsApproval(n)' BY <1>2, <1>4, <2>2, <2>4, <3>2 DEF MailsApproval, Answerable
        <4>2. WillMail(n, r.q)' BY <2>2, <2>7, <3>2, <4>1 DEF WillMail, MailDue
        <4> QED BY <2>6, <4>2 DEF Answered
      <3>3. CASE r.target \in Approved /\ ~MailsApproval(r)
        <4>1. r.op \in {"edit", "office"}
          BY <1>2, <2>8, <3>3 DEF Request, MailsApproval, Approved
        <4> QED BY <2>3, <3>3, <4>1 DEF Answered
      <3> QED BY <3>1, <3>2, <3>3
    <2>10. ApprovalsAnswered'
      <3>1. \A p \in Inquiries : Listed(p)' /\ inquiry'[p].status \in Approved =>
                                     inquiry[p].status \in Approved \/ Answered(p)'
        BY <2>4, <2>9
      <3>2. r.was => Answered(r.q)' BY <1>2, <1>4, <2>4, <2>5, <2>8
      <3> QED BY <2>2, <2>3, <2>4, <2>5, <2>8, <2>9, <3>1, <3>2, OneMoves DEF OffersInv
    <2>11. OfferTypes' BY <1>2, <2>2, <2>3, <2>4, OneMovesType DEF OffersInv, OfferTypes
    <2>12. StatusNoticed'
      <3>1. ASSUME NEW p \in Inquiries, p # r.q, Listed(p)', inquiry'[p].status \in NoticeTypes, p \notin desk'
            PROVE  \/ inquiry'[p].status \in notices'[p] \cup lost'[p]
                   \/ \E d \in Requests :
                         request'[d] # Idle /\ request'[d].q = p /\ request'[d].stage \in {"provisioning", "noticing"}
        <4>1. Listed(p) /\ inquiry[p].status \in NoticeTypes /\ p \notin desk BY <2>3, <2>4, <3>1
        <4>2. \/ inquiry[p].status \in notices[p] \cup lost[p]
              \/ \E d \in Requests :
                    request[d] # Idle /\ request[d].q = p /\ request[d].stage \in {"provisioning", "noticing"}
          BY <4>1 DEF OffersInv, StatusNoticed
        <4> QED BY <1>1, <2>3, <2>4, <2>6, <3>1, <4>2
      <3>2. n.stage \in {"provisioning", "noticing"} BY <2>2
      <3> QED BY <2>2, <2>6, <2>7, <3>1, <3>2 DEF StatusNoticed
    <2> QED BY <2>10, <2>11, <2>12 DEF OffersInv
  <1> QED BY <1>3, <1>4

LEMMA ProvisionKeeps ==
    ASSUME OfferConstants, OffersInv, NEW c \in Requests, Provision(c)
    PROVE  OffersInv'
  <1>1. PICK r : r = request[c] OBVIOUS
  <1>2. /\ r \in Request /\ r.stage = "provisioning" /\ r.q \in Inquiries /\ inquiry[r.q] # None
        /\ r # Idle
    BY <1>1 DEF Provision, OffersInv, OfferTypes, Request
  <1>3. PICK n : n = [r EXCEPT !.stage = "noticing"] OBVIOUS
  <1>4. /\ n \in Request /\ n.op = r.op /\ n.q = r.q /\ n.target = r.target /\ n.was = r.was
        /\ n.stage = "noticing" /\ n # Idle
    BY <1>2, <1>3 DEF Request, OfferConstants
  <1>5. Goes(c, n) /\ UNCHANGED <<notices, mailed, silent, lost>> /\ desk' \subseteq desk
        /\ \A p \in desk : p # r.q => p \in desk'
    BY <1>1, <1>3 DEF Provision, guest
  <1>6. /\ inquiry' \in [Inquiries -> {None, Gone} \cup StoredRows]
        /\ \A p \in Inquiries : p # r.q => inquiry'[p] = inquiry[p]
        /\ \A p \in Inquiries : (Listed(p)' <=> Listed(p)) /\ (inquiry'[p] = None => inquiry[p] = None)
        /\ \A p \in Inquiries : Listed(p) => inquiry'[p].national = inquiry[p].national
    <2>1. CASE inquiry' = inquiry BY <2>1 DEF OffersInv, OfferTypes, Listed
    <2>2. CASE Listed(r.q) /\ SetStatus(r.q, "converted_to_booking")
      <3>1. "converted_to_booking" \in InquiryStatus BY DEF InquiryStatus
      <3> QED BY <1>2, <2>2, <3>1, StatusIsSet DEF OffersInv
    <2> QED BY <1>1, <2>1, <2>2 DEF Provision
  <1>7. \A p \in Inquiries : Listed(p)' /\ Answered(p) => Answered(p)'
    <2>1. ASSUME NEW p \in Inquiries, Listed(p)', WillMail(r, p) PROVE WillMail(n, p)'
      BY <1>2, <1>4, <1>6, <2>1 DEF WillMail, MailDue, MailsApproval, Answerable
    <2> QED BY <1>1, <1>4, <1>5, <1>6, <2>1, AnsweredStays DEF OffersInv
  <1>8. Listed(r.q) => Answered(r.q)' /\ (r.op = "guest" => r.target = "cancelled")
    BY <1>1, <1>2, <1>6, <1>7 DEF OffersInv, ApprovalsAnswered
  <1>9. ApprovalsAnswered'
    <2>1. \A p \in Inquiries : Listed(p)' /\ inquiry'[p].status \in Approved =>
                                   inquiry[p].status \in Approved \/ Answered(p)'
      BY <1>2, <1>6, <1>8
    <2> QED BY <1>2, <1>4, <1>5, <1>6, <1>7, <1>8, <2>1, OneMoves DEF OffersInv
  <1>10. OfferTypes' BY <1>2, <1>4, <1>5, <1>6, OneMovesType DEF OffersInv, OfferTypes
  <1>11. StatusNoticed'
    <2>1. \A d \in Requests : request'[d] = IF d = c THEN n ELSE request[d] BY <1>4, <1>5 DEF Goes, OffersInv, OfferTypes
    <2>2. ASSUME NEW p \in Inquiries, p # r.q, Listed(p)', inquiry'[p].status \in NoticeTypes, p \notin desk'
          PROVE  \/ inquiry'[p].status \in notices'[p] \cup lost'[p]
                 \/ \E d \in Requests :
                       request'[d] # Idle /\ request'[d].q = p /\ request'[d].stage \in {"provisioning", "noticing"}
      <3>1. Listed(p) /\ inquiry[p].status \in NoticeTypes /\ p \notin desk BY <1>5, <1>6, <2>2
      <3>2. \/ inquiry[p].status \in notices[p] \cup lost[p]
            \/ \E d \in Requests :
                  request[d] # Idle /\ request[d].q = p /\ request[d].stage \in {"provisioning", "noticing"}
        BY <3>1 DEF OffersInv, StatusNoticed
      <3> QED BY <1>1, <1>5, <1>6, <2>1, <2>2, <3>2
    <2> QED BY <1>4, <2>1, <2>2 DEF StatusNoticed
  <1> QED BY <1>9, <1>10, <1>11 DEF OffersInv

LEMMA NotifyKeeps ==
    ASSUME OfferConstants, OffersInv, NEW c \in Requests, Notify(c)
    PROVE  OffersInv'
  <1>1. PICK r : r = request[c] OBVIOUS
  <1>2. r \in Request /\ r.stage = "noticing" /\ r.q \in Inquiries /\ inquiry[r.q] # None /\ r # Idle
    BY <1>1 DEF Notify, OffersInv, OfferTypes, Request
  <1>3. PICK n : n = IF MailDue(r) THEN [r EXCEPT !.stage = "mailing"] ELSE Idle
    OBVIOUS
  <1>4. \/ n = Idle
        \/ n \in Request /\ n.op = r.op /\ n.q = r.q /\ n.was = r.was /\ n.target = r.target /\ n.stage = "mailing"
    BY <1>2, <1>3 DEF Request
  <1>5. Goes(c, n) /\ UNCHANGED <<inquiry, mailed, silent, desk>> BY <1>1, <1>3 DEF Notify, guest
  <1>6. /\ notices' \in [Inquiries -> SUBSET NoticeTypes]
        /\ lost' \in [Inquiries -> SUBSET (NoticeTypes \cup {"mail"})]
        /\ \A p \in Inquiries : notices[p] \subseteq notices'[p] /\ lost[p] \subseteq lost'[p]
        /\ Listed(r.q) /\ inquiry[r.q].status \in NoticeTypes => inquiry[r.q].status \in notices'[r.q] \cup lost'[r.q]
    <2>1. /\ notices \in [Inquiries -> SUBSET NoticeTypes]
          /\ lost \in [Inquiries -> SUBSET (NoticeTypes \cup {"mail"})]
      BY DEF OffersInv, OfferTypes
    <2>2. PICK written \in SUBSET NoticesDue(r) :
            /\ notices' = [notices EXCEPT ![r.q] = @ \cup written]
            /\ lost' = [lost EXCEPT ![r.q] = @ \cup (NoticesDue(r) \ written)]
      BY <1>1 DEF Notify, Loses
    <2>3. /\ NoticesDue(r) \subseteq NoticeTypes
          /\ Listed(r.q) /\ inquiry[r.q].status \in NoticeTypes =>
                 inquiry[r.q].status \in notices[r.q] \cup NoticesDue(r)
      BY DEF NoticesDue
    <2> QED BY <1>2, <2>1, <2>2, <2>3
  <1>7. \A p \in Inquiries : Listed(p)' /\ Answered(p) => Answered(p)'
    <2>1. ASSUME NEW p \in Inquiries, Listed(p)', WillMail(r, p) PROVE WillMail(n, p)'
      <3>1. MailDue(r) /\ r.q = p BY <1>2, <2>1 DEF WillMail
      <3>2. n \in Request /\ n.q = p /\ n.stage = "mailing" /\ n.op = r.op
        BY <1>2, <1>3, <3>1 DEF Request
      <3>3. n # Idle /\ r.op # "link" BY <3>1, <3>2 DEF OfferConstants, MailDue, MailsApproval
      <3> QED BY <3>2, <3>3 DEF WillMail
    <2> QED BY <1>1, <1>4, <1>5, <1>6, <2>1, AnsweredStays DEF OffersInv, Listed
  <1>8. ApprovalsAnswered'
    <2>1. Listed(r.q) => (r.was => Answered(r.q)') /\ (r.op = "guest" => r.target = "cancelled")
      BY <1>1, <1>2, <1>5, <1>7 DEF OffersInv, ApprovalsAnswered, Listed
    <2>2. n # Idle => n.q = r.q /\ n.was = r.was /\ n.op = r.op /\ n.target = r.target /\ n.stage = "mailing"
      BY <1>4
    <2> QED BY <1>4, <1>5, <1>7, <2>1, <2>2, OneMoves DEF OffersInv, Listed
  <1>9. OfferTypes' BY <1>2, <1>4, <1>5, <1>6, OneMovesType DEF OffersInv, OfferTypes
  <1>10. StatusNoticed'
    <2>1. \A d \in Requests : request'[d] = IF d = c THEN n ELSE request[d] BY <1>4, <1>5 DEF Goes, OffersInv, OfferTypes
    <2>2. ASSUME NEW p \in Inquiries, p # r.q, Listed(p), inquiry[p].status \in NoticeTypes, p \notin desk
          PROVE  \/ inquiry[p].status \in notices'[p] \cup lost'[p]
                 \/ \E d \in Requests :
                       request'[d] # Idle /\ request'[d].q = p /\ request'[d].stage \in {"provisioning", "noticing"}
      BY <1>1, <1>6, <2>1, <2>2 DEF OffersInv, StatusNoticed
    <2> QED BY <1>5, <1>6, <2>2 DEF StatusNoticed, Listed
  <1> QED BY <1>8, <1>9, <1>10 DEF OffersInv

LEMMA MailKeeps ==
    ASSUME OfferConstants, OffersInv, NEW c \in Requests, Mail(c)
    PROVE  OffersInv'
  <1>1. PICK r : r = request[c] OBVIOUS
  <1>2. r \in Request /\ r.stage = "mailing" /\ r.q \in Inquiries /\ r # Idle
    BY <1>1 DEF Mail, OffersInv, OfferTypes, Request
  <1>3. Goes(c, Idle) /\ UNCHANGED <<inquiry, notices, silent, lost, desk>> BY DEF Mail
  <1>4. /\ mailed' \in [Inquiries -> 0 .. 2]
        /\ \A p \in Inquiries : mailed[p] > 0 => mailed'[p] > 0
        /\ Listed(r.q) /\ r.op # "link" => mailed'[r.q] > 0
    <2>1. mailed \in [Inquiries -> 0 .. 2] BY DEF OffersInv, OfferTypes
    <2>2. mailed' = IF Listed(r.q) /\ r.op # "link" /\ mailed[r.q] < 2
                    THEN [mailed EXCEPT ![r.q] = @ + 1] ELSE mailed
      BY <1>1 DEF Mail
    <2> QED BY <1>2, <2>1, <2>2
  <1>5. \A p \in Inquiries : Listed(p)' /\ Answered(p) => Answered(p)'
    <2>1. \A p \in Inquiries : Listed(p) /\ WillMail(r, p) => mailed'[p] > 0 BY <1>2, <1>4 DEF WillMail
    <2> QED BY <1>1, <1>3, <1>4, <2>1, AnsweredStays DEF OffersInv, Listed
  <1>6. ApprovalsAnswered' BY <1>3, <1>5, OneMoves DEF OffersInv, Listed
  <1>7. OfferTypes' BY <1>3, <1>4, OneMovesType DEF OffersInv, OfferTypes
  <1>8. StatusNoticed'
    <2>1. \A d \in Requests : request'[d] = IF d = c THEN Idle ELSE request[d] BY <1>3 DEF Goes, OffersInv, OfferTypes
    <2> QED BY <1>1, <1>2, <1>3, <2>1 DEF OffersInv, StatusNoticed, Listed
  <1> QED BY <1>6, <1>7, <1>8 DEF OffersInv

\* What was due of a request that fails is known to be lost.
LEMMA FailKeeps ==
    ASSUME OfferConstants, OffersInv, NEW c \in Requests, Fail(c)
    PROVE  OffersInv'
  <1>1. PICK r : r = request[c] OBVIOUS
  <1>2. r \in Request /\ r.q \in Inquiries /\ r # Idle
    BY <1>1 DEF Fail, OffersInv, OfferTypes, Request
  <1>3. Goes(c, Idle) /\ UNCHANGED <<inquiry, notices, mailed, silent, desk>> /\ Loses(r.q, Due(r))
    BY <1>1 DEF Fail
  <1>4. NoticesDue(r) \subseteq NoticeTypes /\ Due(r) \subseteq NoticeTypes \cup {"mail"}
    BY DEF NoticesDue, Due
  <1>5. /\ lost' \in [Inquiries -> SUBSET (NoticeTypes \cup {"mail"})]
        /\ \A p \in Inquiries : lost[p] \subseteq lost'[p]
        /\ Due(r) \subseteq lost'[r.q]
    <2>1. lost \in [Inquiries -> SUBSET (NoticeTypes \cup {"mail"})] BY DEF OffersInv, OfferTypes
    <2> QED BY <1>2, <1>3, <1>4, <2>1 DEF Loses
  <1>6. \A p \in Inquiries : Listed(p)' /\ Answered(p) => Answered(p)'
    <2>1. ASSUME NEW p \in Inquiries, Listed(p), WillMail(r, p) PROVE "mail" \in lost'[p]
      <3>1. "mail" \in Due(r) BY <2>1 DEF WillMail, Due
      <3> QED BY <1>5, <2>1, <3>1 DEF WillMail
    <2> QED BY <1>1, <1>3, <1>5, <2>1, AnsweredStays DEF OffersInv, Listed
  <1>7. ApprovalsAnswered' BY <1>3, <1>6, OneMoves DEF OffersInv, Listed
  <1>8. OfferTypes' BY <1>3, <1>5, OneMovesType DEF OffersInv, OfferTypes
  <1>9. StatusNoticed'
    <2>1. \A d \in Requests : request'[d] = IF d = c THEN Idle ELSE request[d]
      BY <1>3 DEF Goes, OffersInv, OfferTypes
    <2>2. ASSUME NEW p \in Inquiries, Listed(p), inquiry[p].status \in NoticeTypes, p \notin desk
          PROVE  \/ inquiry[p].status \in notices[p] \cup lost'[p]
                 \/ \E d \in Requests : /\ request'[d] # Idle /\ request'[d].q = p
                                        /\ request'[d].stage \in {"provisioning", "noticing"}
      <3>1. CASE inquiry[p].status \in notices[p] \cup lost[p] BY <1>5, <3>1
      <3>2. ASSUME NEW d \in Requests, request[d] # Idle, request[d].q = p,
                   request[d].stage \in {"provisioning", "noticing"}, d # c
            PROVE  request'[d] # Idle /\ request'[d].q = p /\ request'[d].stage \in {"provisioning", "noticing"}
        BY <2>1, <3>2
      <3>3. CASE r.q = p /\ r.stage \in {"provisioning", "noticing"}
        <4>1. inquiry[p].status \in notices[p] \cup Due(r) BY <2>2, <3>3 DEF Due, NoticesDue
        <4> QED BY <1>5, <3>3, <4>1
      <3> QED BY <1>1, <2>2, <3>1, <3>2, <3>3 DEF OffersInv, StatusNoticed
    <2> QED BY <1>3, <2>2 DEF StatusNoticed, Listed
  <1> QED BY <1>7, <1>8, <1>9 DEF OffersInv

-----------------------------------------------------------------------------
LEMMA OffersStep ==
    ASSUME OfferConstants, OffersInv, [Next]_vars
    PROVE  OffersInv'
  <1>1. CASE \E l \in Listings : ChangePrice(l)
    BY <1>1, QuietKeeps DEF ChangePrice, guest
  <1>2. CASE \E q \in Inquiries : GetLinkSummary(q) \/ StartPayment(q) \/ PaymentSucceeds(q)
    BY <1>2, QuietKeeps DEF GetLinkSummary, StartPayment, PaymentSucceeds, guest
  <1>3. ASSUME NEW q \in Inquiries, CreateInquiry(q) \/ CreateQuoteRequest(q) PROVE OffersInv'
    <2>1. PICK cart \in Carts \cup {<<QuoteLine(l)>> : l \in Listings}, total \in {0} \cup {StoredTotal(x) : x \in Carts},
               named \in BOOLEAN : Store(q, cart, total, named)
      BY <1>3 DEF CreateInquiry, CreateQuoteRequest
    <2>2. PICK x : x = [status |-> "pending_contact", cart |-> cart, stored |-> total, national |-> named] OBVIOUS
    <2>3. x \in StoredRows /\ x.status = "pending_contact" BY <2>2 DEF StoredRows, InquiryStatus
    <2>4. inquiry' = [inquiry EXCEPT ![q] = x] /\ inquiry[q] = None /\ UNCHANGED <<notices, request, mailed, silent, lost, desk>>
      BY <2>1, <2>2 DEF Store, guest
    <2> QED BY <2>3, <2>4, RowKeeps
  <1>4. ASSUME NEW q \in Inquiries, DeleteInquiry(q) PROVE OffersInv'
    BY <1>4, RowKeeps DEF DeleteInquiry, guest
  <1>5. ASSUME NEW c \in Requests, NEW q \in Inquiries, NEW s \in InquiryStatus,
               PortalSets(c, q, s) \/ OfficeSets(c, q, s) \/ UpdateInquiry(c, q, s)
        PROVE  OffersInv'
    BY <1>5, DecideKeeps DEF PortalSets, OfficeSets, UpdateInquiry
  <1>6. ASSUME NEW c \in Requests, NEW q \in Inquiries, CancelForCustomer(c, q) PROVE OffersInv'
    BY <1>6, DecideKeeps DEF CancelForCustomer, InquiryStatus
  <1>7. CASE UNCHANGED vars BY <1>7, QuietKeeps DEF vars, guest
  <1> QED BY <1>1, <1>2, <1>3, <1>4, <1>5, <1>6, <1>7, CommitKeeps, ProvisionKeeps, NotifyKeeps, MailKeeps, FailKeeps,
             DeskKeeps, LinkKeeps DEF Next

LEMMA OffersInit == ASSUME OfferConstants, Init PROVE OffersInv
  <1>1. OfferTypes BY DEF Init, OfferTypes
  <1>2. ApprovalsAnswered /\ StatusNoticed BY DEF Init, ApprovalsAnswered, StatusNoticed, Listed
  <1> QED BY <1>1, <1>2 DEF OffersInv

\* What follows about approvals and notices comes from the invariant, which no route that changes
\* a status breaks, whatever it has read (booking_inquiry_service.py:189, vendor_stays.py:463).
THEOREM OffersInvariant == ASSUME OfferConstants PROVE Spec => []OffersInv
  <1>1. Init => OffersInv BY OffersInit
  <1>2. OffersInv /\ [Next]_vars => OffersInv' BY OffersStep
  <1> QED BY <1>1, <1>2, PTL DEF Spec

\* Once no request is at work on an inquiry its guest has been told how it stands, for any number
\* of requests that each judge by a status read earlier whether the approval was mailed already
\* (inquiry_approval.py), but for the approvals of routes that mail nothing, for what the desk sets,
\* and for mails and notices that were due and failed (notification_service.py:91).
THEOREM GuestsAreTold == ASSUME OfferConstants PROVE Spec => []GuestIsTold
  <1>1. ASSUME OffersInv PROVE GuestIsTold
    <2>1. SUFFICES ASSUME NEW q \in Inquiries, Listed(q), Quiet(q)
          PROVE  /\ inquiry[q].status \in Approved /\ q \notin silent => mailed[q] > 0 \/ "mail" \in lost[q]
                 /\ inquiry[q].status \in NoticeTypes /\ q \notin desk =>
                        inquiry[q].status \in notices[q] \cup lost[q]
      BY DEF GuestIsTold
    <2>2. \A c \in Requests : ~WillMail(request[c], q) BY <2>1 DEF Quiet, WillMail
    <2> QED BY <1>1, <2>1, <2>2 DEF OffersInv, ApprovalsAnswered, Answered, StatusNoticed, Quiet
  <1> QED BY <1>1, OffersInvariant, PTL

-----------------------------------------------------------------------------
(***************************************************************************)
(* The amounts. No two of them are compared with each other, but each was  *)
(* compared with the prices that the cart names, line by line, when it was *)
(* computed (Near), or is the cart's own (FiguresKnown).                   *)
(***************************************************************************)

\* What a cart comes to by the prices in it, without rooms by the travelers of each line.
OwnLine(line) == line.price * (IF line.rooms > 0 THEN line.nights ELSE line.travelers)

OwnSum(cart) == SumOf([i \in DOMAIN cart |-> OwnLine(cart[i])])

\* An amount that is apart from the cart's own by a cent for each night of rooms at most, before tax.
Near(a, cart) ==
    \E s \in Nat : a = WithTax(s) /\ s <= OwnSum(cart) + NightsOf(cart) /\ OwnSum(cart) <= s + NightsOf(cart)

\* Every figure was computed from the cart's own prices, or from prices compared with them.
FiguresKnown ==
    /\ price \in [Listings -> Nat]
    /\ told \in [Inquiries -> SUBSET Nat]
    /\ \A q \in Inquiries : inquiry[q] = None => told[q] = {}
    /\ \A q \in Inquiries : Listed(q) =>
          /\ \A a \in told[q] : Near(a, inquiry[q].cart)
          /\ EndsWithoutRooms(inquiry[q].cart) \/ Near(inquiry[q].stored, inquiry[q].cart)

\* The carts that an inquiry may have.
CartsOf == Carts \cup {<<QuoteLine(l)>> : l \in Listings}

-----------------------------------------------------------------------------
(* Sums of figures. *)

LEMMA SumIsCount == ASSUME NEW q PROVE SumOf(q) = Cardinality(OneByOne(q))
BY DEF SumOf, OneByOne

LEMMA SumTyped ==
    ASSUME NEW V, IsFiniteSet(V), NEW p \in [V -> Nat]
    PROVE  SumOf(p) \in Nat
<1>1. DOMAIN p = V /\ \A v \in V : p[v] \in Nat OBVIOUS
<1> QED BY <1>1, SumIsCount, OneByOneFinite

\* A sum grows with what it sums.
LEMMA SumGrows ==
    ASSUME NEW V, IsFiniteSet(V), NEW p \in [V -> Nat], NEW q \in [V -> Nat], \A v \in V : p[v] <= q[v]
    PROVE  SumOf(p) <= SumOf(q)
<1> DEFINE P == OneByOne(p)  Q == OneByOne(q)
<1>1. IsFiniteSet(Q) BY OneByOneFinite
<1>2. P \subseteq Q
  <2>1. ASSUME NEW z \in P PROVE z \in Q
    <3>1. z = <<z[1], z[2]>> /\ z[1] \in V /\ z[2] \in 1..p[z[1]] BY OneByOneElements
    <3>2. z[2] \in 1..q[z[1]] BY <3>1
    <3> QED BY <3>1, <3>2, OneByOneElements
  <2> QED BY <2>1
<1> HIDE DEF P, Q
<1>3. Cardinality(P) <= Cardinality(Q) BY <1>1, <1>2, FS_Subset
<1> QED BY <1>3, SumIsCount DEF P, Q

\* Figures that are apart by at most d are so in the sum.
LEMMA SumsApart ==
    ASSUME NEW V, IsFiniteSet(V), NEW p \in [V -> Nat], NEW q \in [V -> Nat], NEW d \in [V -> Nat],
           \A v \in V : p[v] <= q[v] + d[v]
    PROVE  SumOf(p) <= SumOf(q) + SumOf(d)
<1> DEFINE r == [v \in V |-> q[v] + d[v]]
<1>1. r \in [V -> Nat] /\ \A v \in V : r[v] = q[v] + d[v] OBVIOUS
<1>2. \A v \in V : p[v] <= r[v] OBVIOUS
<1> HIDE DEF r
<1>3. SumOf(p) <= SumOf(r) BY <1>1, <1>2, SumGrows
<1>4. SumOf(r) = SumOf(q) + SumOf(d) BY <1>1, SumOfSums, SumIsCount
<1> QED BY <1>3, <1>4

-----------------------------------------------------------------------------
(* One cart. *)

LEMMA CartTyped ==
    ASSUME NEW cart \in CartsOf
    PROVE  cart \in Seq(Lines) /\ IsFiniteSet(DOMAIN cart) /\ \A i \in DOMAIN cart : cart[i] \in Lines
<1>1. cart \in Seq(Lines)
  <2>1. CASE cart \in Carts BY <2>1, OffersAssumption
  <2>2. CASE cart \notin Carts
    <3>1. PICK l \in Listings : cart = <<QuoteLine(l)>> BY <2>2 DEF CartsOf
    <3>2. QuoteLine(l) \in Lines BY DEF QuoteLine, Lines
    <3> QED BY <3>1, <3>2
  <2> QED BY <2>1, <2>2
<1>2. DOMAIN cart = 1..Len(cart) /\ Len(cart) \in Nat BY <1>1
<1>3. IsFiniteSet(1..Len(cart)) BY <1>2, FS_Interval
<1> QED BY <1>1, <1>2, <1>3

LEMMA Product == ASSUME NEW m \in Nat, NEW n \in Nat PROVE m * n \in Nat
BY SMT

\* Factors a unit apart.
LEMMA ProductsApart ==
    ASSUME NEW m \in Nat, NEW k \in Nat, NEW n \in Nat, m - k \in -1 .. 1
    PROVE  m * n \in Nat /\ k * n \in Nat /\ m * n <= k * n + n /\ k * n <= m * n + n
<1>1. CASE m = k BY <1>1, SMT
<1>2. CASE m = k + 1
  <2>1. (k + 1) * n = k * n + n BY SMT
  <2> QED BY <1>2, <2>1, Product
<1>3. CASE k = m + 1
  <2>1. (m + 1) * n = m * n + n BY SMT
  <2> QED BY <1>3, <2>1, Product
<1> QED BY <1>1, <1>2, <1>3

LEMMA LineFigures ==
    ASSUME NEW line \in Lines
    PROVE  /\ OwnLine(line) \in Nat /\ StoredLine(line) \in Nat
           /\ (IF line.rooms > 0 THEN line.nights ELSE 0) \in Nat
           /\ ~(line.ends /\ line.rooms = 0) => StoredLine(line) = OwnLine(line)
<1>1. PICK p \in Nat, n \in Nat \ {0}, t \in Nat \ {0}, r \in Nat :
        p = line.price /\ n = line.nights /\ t = line.travelers /\ r = line.rooms
  BY DEF Lines
<1>2. line.ends \in BOOLEAN BY DEF Lines
<1>3. p * n \in Nat /\ p * t \in Nat BY Product
<1>4. OwnLine(line) = p * (IF r > 0 THEN n ELSE t) BY <1>1 DEF OwnLine
<1>5. StoredLine(line) = p * (IF r > 0 \/ line.ends THEN n ELSE t) BY <1>1 DEF StoredLine
<1>6. ~(line.ends /\ r = 0) => StoredLine(line) = OwnLine(line)
  <2>1. CASE r > 0 BY <1>4, <1>5, <2>1
  <2>2. CASE r = 0 BY <1>4, <1>5, <2>2
  <2> QED BY <2>1, <2>2
<1>7. OwnLine(line) \in Nat BY <1>3, <1>4
<1>8. StoredLine(line) \in Nat BY <1>2, <1>3, <1>5
<1> QED BY <1>1, <1>6, <1>7, <1>8

\* The price of a line that was compared with the one in the cart.
LEMMA VerifiedLine ==
    ASSUME price \in [Listings -> Nat], NEW line \in Lines, Verified(line)
    PROVE  LET d == IF line.rooms > 0 THEN line.nights ELSE 0
           IN  /\ PricedLine(line) \in Nat
               /\ PricedLine(line) <= OwnLine(line) + d /\ OwnLine(line) <= PricedLine(line) + d
<1>1. PICK p \in Nat, n \in Nat \ {0}, t \in Nat \ {0}, r \in Nat, c \in Nat :
        p = line.price /\ n = line.nights /\ t = line.travelers /\ r = line.rooms /\ c = price[line.listing]
  BY DEF Lines, Verified
<1>2. CASE r > 0
  <2>1. p - c * r \in -1 .. 1 BY <1>1, <1>2 DEF Verified, Close
  <2>2. PICK m \in Nat : m = c * r BY Product
  <2>3. p * n \in Nat /\ m * n \in Nat /\ p * n <= m * n + n /\ m * n <= p * n + n
    BY <2>1, <2>2, ProductsApart
  <2>4. PricedLine(line) = m * n BY <1>1, <1>2, <2>2 DEF PricedLine
  <2>5. OwnLine(line) = p * n BY <1>1, <1>2 DEF OwnLine
  <2> QED BY <1>1, <1>2, <2>3, <2>4, <2>5
<1>3. CASE r = 0
  <2>1. PricedLine(line) = p * t /\ OwnLine(line) = p * t BY <1>1, <1>3 DEF PricedLine, OwnLine
  <2>2. p * t \in Nat BY Product
  <2> QED BY <1>1, <1>3, <2>1, <2>2
<1> QED BY <1>2, <1>3

\* The sums of a cart.
LEMMA CartSums ==
    ASSUME NEW cart \in CartsOf
    PROVE  OwnSum(cart) \in Nat /\ NightsOf(cart) \in Nat
<1> DEFINE V == DOMAIN cart
           p == [i \in V |-> OwnLine(cart[i])]
           d == [i \in V |-> IF cart[i].rooms > 0 THEN cart[i].nights ELSE 0]
<1>1. IsFiniteSet(V) /\ \A i \in V : cart[i] \in Lines BY CartTyped
<1>2. p \in [V -> Nat] /\ d \in [V -> Nat] BY <1>1, LineFigures
<1>3. OwnSum(cart) = SumOf(p) /\ NightsOf(cart) = SumOf(d) BY DEF OwnSum, NightsOf
<1> HIDE DEF V, p, d
<1> QED BY <1>1, <1>2, <1>3, SumTyped

\* What is stored is the cart's own sum, unless a line has an end date but no rooms.
LEMMA StoredIsOwn ==
    ASSUME NEW cart \in CartsOf, ~EndsWithoutRooms(cart)
    PROVE  StoredTotal(cart) = WithTax(OwnSum(cart)) /\ Near(StoredTotal(cart), cart)
<1>1. \A i \in DOMAIN cart : StoredLine(cart[i]) = OwnLine(cart[i])
  BY CartTyped, LineFigures DEF EndsWithoutRooms
<1>2. [i \in DOMAIN cart |-> StoredLine(cart[i])] = [i \in DOMAIN cart |-> OwnLine(cart[i])] BY <1>1
<1>3. StoredTotal(cart) = WithTax(OwnSum(cart)) BY <1>2 DEF StoredTotal, OwnSum
<1> QED BY <1>3, CartSums DEF Near

\* What is told was compared with the cart, line by line.
LEMMA AmountIsNear ==
    ASSUME price \in [Listings -> Nat], NEW cart \in CartsOf, Priced(cart)
    PROVE  Near(Amount(cart), cart) /\ Amount(cart) \in Nat
<1> DEFINE V == DOMAIN cart
           p == [i \in V |-> OwnLine(cart[i])]
           s == [i \in V |-> PricedLine(cart[i])]
           d == [i \in V |-> IF cart[i].rooms > 0 THEN cart[i].nights ELSE 0]
<1>1. IsFiniteSet(V) /\ \A i \in V : cart[i] \in Lines BY CartTyped
<1>2. p \in [V -> Nat] /\ d \in [V -> Nat] BY <1>1, LineFigures
<1>3. s \in [V -> Nat] /\ \A i \in V : s[i] <= p[i] + d[i] /\ p[i] <= s[i] + d[i]
  <2>1. ASSUME NEW i \in V PROVE s[i] \in Nat /\ s[i] <= p[i] + d[i] /\ p[i] <= s[i] + d[i]
    <3>1. PICK line \in Lines : line = cart[i] BY <1>1
    <3>2. Verified(line) BY <3>1 DEF Priced
    <3>3. s[i] = PricedLine(line) /\ p[i] = OwnLine(line) /\ d[i] = IF line.rooms > 0 THEN line.nights ELSE 0
      BY <3>1
    <3> QED BY <3>2, <3>3, VerifiedLine
  <2> QED BY <2>1
<1>4. OwnSum(cart) = SumOf(p) /\ NightsOf(cart) = SumOf(d) /\ Amount(cart) = WithTax(SumOf(s))
  BY DEF OwnSum, NightsOf, Amount
<1> HIDE DEF V, p, s, d
<1>5. SumOf(s) \in Nat /\ SumOf(s) <= SumOf(p) + SumOf(d) /\ SumOf(p) <= SumOf(s) + SumOf(d)
  BY <1>1, <1>2, <1>3, SumsApart, SumTyped
<1>6. WithTax(SumOf(s)) \in Nat
  <2>1. \A n \in Nat : n + (12 * n + 50) \div 100 \in Nat BY SMT
  <2> QED BY <1>5, <2>1 DEF WithTax
<1> QED BY <1>4, <1>5, <1>6 DEF Near

\* Two such amounts are apart by at most two cents a night, and what tax and rounding add.
LEMMA NearAgree ==
    ASSUME NEW cart \in CartsOf, NEW a, NEW b, Near(a, cart), Near(b, cart)
    PROVE  Agree(a, b, cart)
<1>1. PICK s \in Nat : a = WithTax(s) /\ s <= OwnSum(cart) + NightsOf(cart) /\ OwnSum(cart) <= s + NightsOf(cart)
  BY DEF Near
<1>2. PICK t \in Nat : b = WithTax(t) /\ t <= OwnSum(cart) + NightsOf(cart) /\ OwnSum(cart) <= t + NightsOf(cart)
  BY DEF Near
<1>3. PICK o \in Nat, n \in Nat : o = OwnSum(cart) /\ n = NightsOf(cart) BY CartSums
<1>4. s <= t + 2 * n BY <1>1, <1>2, <1>3
<1>5. 100 * ((s + (12 * s + 50) \div 100) - (t + (12 * t + 50) \div 100)) <= 224 * n + 100
  BY <1>4, SMTT(30)
<1> QED BY <1>1, <1>2, <1>3, <1>5 DEF Agree, WithTax

-----------------------------------------------------------------------------
(* The steps. *)

\* The carts of the rows, and that a deleted row is none.
LEMMA RowsCarts ==
    ASSUME OfferConstants, OfferTypes, NEW q \in Inquiries, Listed(q)
    PROVE  inquiry[q] \in StoredRows /\ inquiry[q].cart \in CartsOf
BY DEF OfferTypes, Listed, StoredRows, CartsOf

\* No figure is told, and the rows keep theirs.
LEMMA FiguresKept ==
    ASSUME FiguresKnown, price' \in [Listings -> Nat], told' = told,
           \A q \in Inquiries : inquiry'[q] = None => inquiry[q] = None,
           \A q \in Inquiries : Listed(q)' =>
               Listed(q) /\ inquiry'[q].cart = inquiry[q].cart /\ inquiry'[q].stored = inquiry[q].stored
    PROVE  FiguresKnown'
BY DEF FiguresKnown, Near, EndsWithoutRooms, OwnSum, NightsOf

LEMMA StatusKeepsFigures ==
    ASSUME OfferConstants, OfferTypes, FiguresKnown, NEW q \in Inquiries, Listed(q), NEW s \in InquiryStatus,
           SetStatus(q, s), price' = price, told' = told
    PROVE  FiguresKnown'
<1>1. inquiry[q] \in StoredRows BY RowsCarts
<1>2. \A p \in Inquiries : inquiry'[p] = IF p = q THEN [inquiry[q] EXCEPT !.status = s] ELSE inquiry[p]
  BY DEF SetStatus, OfferTypes
<1>3. /\ inquiry'[q].cart = inquiry[q].cart /\ inquiry'[q].stored = inquiry[q].stored
      /\ inquiry'[q] # None
  BY <1>1, <1>2 DEF StoredRows, OfferConstants
<1> QED BY <1>2, <1>3, FiguresKept DEF Listed, FiguresKnown

LEMMA TellingKeepsFigures ==
    ASSUME OfferConstants, OfferTypes, FiguresKnown, NEW q \in Inquiries, Listed(q), Priced(inquiry[q].cart),
           Tells(q), price' = price, inquiry' = inquiry
    PROVE  FiguresKnown'
<1>1. PICK a : a = Amount(inquiry[q].cart) OBVIOUS
<1>2. Near(a, inquiry[q].cart) /\ a \in Nat BY <1>1, RowsCarts, AmountIsNear DEF FiguresKnown
<1>3. told' = [told EXCEPT ![q] = @ \cup {a}] BY <1>1 DEF Tells
<1>4. told' \in [Inquiries -> SUBSET Nat] /\ \A p \in Inquiries : told'[p] = IF p = q THEN told[q] \cup {a} ELSE told[p]
  BY <1>2, <1>3 DEF FiguresKnown
<1>5. \A p \in Inquiries : Listed(p) => \A x \in told'[p] : Near(x, inquiry[p].cart)
  BY <1>2, <1>4 DEF FiguresKnown
<1>6. \A p \in Inquiries : inquiry[p] = None => told'[p] = {} BY <1>4 DEF FiguresKnown, Listed
<1> QED BY <1>4, <1>5, <1>6 DEF FiguresKnown, Listed, Near, OwnSum, NightsOf, EndsWithoutRooms

LEMMA QuoteIsNear == ASSUME NEW l \in Listings PROVE Near(0, <<QuoteLine(l)>>)
<1> DEFINE cart == <<QuoteLine(l)>>
           p == [i \in DOMAIN cart |-> OwnLine(cart[i])]
<1>1. cart \in CartsOf BY DEF CartsOf
<1>2. \A i \in DOMAIN cart : OwnLine(cart[i]) = 0 BY DEF OwnLine, QuoteLine
<1>3. p \in [DOMAIN cart -> Nat] /\ \A i \in DOMAIN cart : ~(p[i] > 0) BY <1>2
<1>4. IsFiniteSet(DOMAIN cart) BY <1>1, CartTyped
<1>5. OwnSum(cart) = SumOf(p) BY DEF OwnSum
<1> HIDE DEF cart, p
<1>6. SumOf(p) \in Nat /\ ~(SumOf(p) > 0) BY <1>3, <1>4, SumTyped, SumIsCount, PositiveSum
<1>7. OwnSum(cart) = 0 /\ NightsOf(cart) \in Nat BY <1>1, <1>5, <1>6, CartSums
<1>8. WithTax(0) = 0 BY DEF WithTax
<1>9. Near(0, cart) BY <1>7, <1>8 DEF Near
<1> QED BY <1>9 DEF cart

LEMMA MakingKeepsFigures ==
    ASSUME OfferConstants, OfferTypes, FiguresKnown, NEW q \in Inquiries, CreateInquiry(q) \/ CreateQuoteRequest(q)
    PROVE  FiguresKnown'
<1>1. PICK cart \in CartsOf, total \in {0} \cup {StoredTotal(x) : x \in Carts}, named \in BOOLEAN :
        Store(q, cart, total, named) /\ (EndsWithoutRooms(cart) \/ Near(total, cart))
  <2>1. CASE CreateInquiry(q) BY <2>1, StoredIsOwn DEF CreateInquiry, CartsOf
  <2>2. CASE CreateQuoteRequest(q) BY <2>2, QuoteIsNear DEF CreateQuoteRequest, CartsOf
  <2> QED BY <2>1, <2>2
<1>2. PICK x : x = [status |-> "pending_contact", cart |-> cart, stored |-> total, national |-> named] OBVIOUS
<1>3. x.cart = cart /\ x.stored = total BY <1>2
<1>4. inquiry[q] = None /\ inquiry' = [inquiry EXCEPT ![q] = x] /\ price' = price /\ told' = told
  BY <1>1, <1>2 DEF Store, guest
<1>5. \A p \in Inquiries : inquiry'[p] = IF p = q THEN x ELSE inquiry[p] BY <1>4 DEF OfferTypes
<1>6. told[q] = {} BY <1>4 DEF FiguresKnown
<1>7. \A p \in Inquiries : p # q /\ Listed(p)' => Listed(p) BY <1>5 DEF Listed
<1>8. \A p \in Inquiries : inquiry'[p] = None => told[p] = {} BY <1>5, <1>6 DEF FiguresKnown
<1>9. \A p \in Inquiries : Listed(p)' =>
          /\ \A a \in told[p] : Near(a, inquiry'[p].cart)
          /\ EndsWithoutRooms(inquiry'[p].cart) \/ Near(inquiry'[p].stored, inquiry'[p].cart)
  BY <1>1, <1>3, <1>5, <1>6, <1>7 DEF FiguresKnown
<1> QED BY <1>4, <1>8, <1>9 DEF FiguresKnown, Near, OwnSum, NightsOf, EndsWithoutRooms

LEMMA FiguresStep ==
    ASSUME OfferConstants, OffersInv, FiguresKnown, [Next]_vars
    PROVE  FiguresKnown'
<1> USE DEF OffersInv
<1>1. CASE \E l \in Listings : ChangePrice(l)
  <2>1. price' \in [Listings -> Nat]
    <3>1. PICK l \in Listings : \E p \in Prices[l] : price' = [price EXCEPT ![l] = p] BY <1>1 DEF ChangePrice
    <3>2. PICK p \in Prices[l] : price' = [price EXCEPT ![l] = p] BY <3>1
    <3>3. p \in Nat BY OffersAssumption
    <3> QED BY <3>2, <3>3 DEF FiguresKnown
  <2> QED BY <1>1, <2>1, FiguresKept DEF ChangePrice, guest, Listed
<1>2. ASSUME NEW q \in Inquiries, GetLinkSummary(q) \/ StartPayment(q) PROVE FiguresKnown'
  BY <1>2, TellingKeepsFigures DEF GetLinkSummary, StartPayment, Payable
<1>3. ASSUME NEW q \in Inquiries, CreateInquiry(q) \/ CreateQuoteRequest(q) PROVE FiguresKnown'
  BY <1>3, MakingKeepsFigures
<1>4. ASSUME NEW q \in Inquiries, DeleteInquiry(q) PROVE FiguresKnown'
  <2>1. \A p \in Inquiries : inquiry'[p] = IF p = q THEN Gone ELSE inquiry[p]
    BY <1>4 DEF DeleteInquiry, OfferTypes
  <2>2. told' = told /\ price' = price BY <1>4 DEF DeleteInquiry, guest
  <2>3. \A p \in Inquiries : inquiry'[p] = None => inquiry[p] = None BY <2>1 DEF OfferConstants
  <2>4. \A p \in Inquiries : Listed(p)' =>
            Listed(p) /\ inquiry'[p].cart = inquiry[p].cart /\ inquiry'[p].stored = inquiry[p].stored
    BY <2>1 DEF Listed
  <2>5. price' \in [Listings -> Nat] BY <2>2 DEF FiguresKnown
  <2> QED BY <2>2, <2>3, <2>4, <2>5, FiguresKept
<1>5. ASSUME NEW c \in Requests, Mail(c) PROVE FiguresKnown'
  <2>1. PICK r : r = request[c] OBVIOUS
  <2>2. r.q \in Inquiries BY <1>5, <2>1 DEF Mail, OfferTypes, Request
  <2>3. CASE Offered(r.q)
    <3>1. Tells(r.q) /\ price' = price /\ inquiry' = inquiry BY <1>5, <2>1, <2>3 DEF Mail
    <3> QED BY <2>2, <2>3, <3>1, TellingKeepsFigures DEF Offered
  <2>4. CASE ~Offered(r.q)
    <3>1. told' = told /\ price' = price /\ inquiry' = inquiry BY <1>5, <2>1, <2>4 DEF Mail
    <3> QED BY <3>1, FiguresKept DEF FiguresKnown, Listed
  <2> QED BY <2>3, <2>4
<1>6. ASSUME NEW c \in Requests, CommitStatus(c) PROVE FiguresKnown'
  <2>1. PICK r : r = request[c] OBVIOUS
  <2>2. r.q \in Inquiries /\ r.target \in InquiryStatus BY <1>6, <2>1 DEF CommitStatus, OfferTypes, Request
  <2>3. told' = told /\ price' = price BY <1>6 DEF CommitStatus, guest
  <2>4. CASE Listed(r.q)
    <3>1. SetStatus(r.q, r.target) BY <1>6, <2>1, <2>4 DEF CommitStatus
    <3> QED BY <2>2, <2>3, <2>4, <3>1, StatusKeepsFigures
  <2>5. CASE ~Listed(r.q)
    <3>1. inquiry' = inquiry BY <1>6, <2>1, <2>5 DEF CommitStatus
    <3> QED BY <2>3, <3>1, FiguresKept DEF FiguresKnown, Listed
  <2> QED BY <2>4, <2>5
<1>7. ASSUME NEW c \in Requests, Provision(c) PROVE FiguresKnown'
  <2>1. PICK r : r = request[c] OBVIOUS
  <2>2. r.q \in Inquiries BY <1>7, <2>1 DEF Provision, OfferTypes, Request
  <2>3. told' = told /\ price' = price BY <1>7 DEF Provision, guest
  <2>4. CASE inquiry' = inquiry BY <2>3, <2>4, FiguresKept DEF FiguresKnown, Listed
  <2>5. CASE Listed(r.q) /\ SetStatus(r.q, "converted_to_booking")
    BY <2>2, <2>3, <2>5, StatusKeepsFigures DEF InquiryStatus
  <2> QED BY <1>7, <2>1, <2>4, <2>5 DEF Provision
<1>8. ASSUME NEW c \in Requests, NEW q \in Inquiries, NEW s \in {"quoted", "pending_contact", "cancelled"},
             DeskSets(c, q, s)
      PROVE  FiguresKnown'
  <2>1. s \in InquiryStatus BY DEF InquiryStatus
  <2> QED BY <1>8, <2>1, StatusKeepsFigures DEF DeskSets, guest
<1>9. CASE UNCHANGED <<price, inquiry, told>> BY <1>9, FiguresKept DEF FiguresKnown, Listed
<1>10. ASSUME NEW c \in Requests, NEW q \in Inquiries, NEW s \in InquiryStatus,
              PortalSets(c, q, s) \/ OfficeSets(c, q, s) \/ UpdateInquiry(c, q, s)
       PROVE  UNCHANGED <<price, inquiry, told>>
  BY <1>10 DEF PortalSets, OfficeSets, UpdateInquiry, Decide, guest
<1>11. ASSUME NEW c \in Requests, Notify(c) \/ Fail(c) PROVE UNCHANGED <<price, inquiry, told>>
  BY <1>11 DEF Notify, Fail, guest
<1>12. ASSUME NEW q \in Inquiries, PaymentSucceeds(q) PROVE UNCHANGED <<price, inquiry, told>>
  BY <1>12 DEF PaymentSucceeds, guest
<1>13. ASSUME NEW c \in Requests, NEW q \in Inquiries, CancelForCustomer(c, q) \/ SendPaymentLink(c, q)
       PROVE  UNCHANGED <<price, inquiry, told>>
  BY <1>13 DEF CancelForCustomer, Decide, SendPaymentLink, guest
<1>14. CASE UNCHANGED vars BY <1>9, <1>14 DEF vars, guest
<1> QED
  BY <1>1, <1>2, <1>3, <1>4, <1>5, <1>6, <1>7, <1>8, <1>9, <1>10, <1>11, <1>12, <1>13, <1>14 DEF Next

LEMMA FiguresInit == ASSUME OfferConstants, Init PROVE FiguresKnown
<1>1. price \in [Listings -> Nat]
  <2>1. price \in [Listings -> UNION {Prices[l] : l \in Listings}] BY DEF Init
  <2>2. UNION {Prices[l] : l \in Listings} \subseteq Nat BY OffersAssumption
  <2> QED BY <2>1, <2>2
<1> QED BY <1>1 DEF Init, FiguresKnown, Listed

\* All amounts that a guest is told of a request, those of the mailed offers, of the pay page and of
\* every checkout, and the stored total unless a line has an end date but no rooms, agree, whatever
\* the prices do meanwhile, since each is compared with the cart's own (pricing.py:110).
THEOREM AllFiguresAgree == ASSUME OfferConstants PROVE Spec => []FiguresAgree
<1>1. OffersInv /\ Init => FiguresKnown BY FiguresInit
<1>2. OffersInv /\ FiguresKnown /\ [Next]_vars => FiguresKnown' BY FiguresStep
<1>3. ASSUME OffersInv, FiguresKnown PROVE FiguresAgree
  <2>1. SUFFICES ASSUME NEW q \in Inquiries, Listed(q),
                        NEW a \in told[q] \cup IF EndsWithoutRooms(inquiry[q].cart) THEN {} ELSE ShownTotal(q) \cup Preview(q),
                        NEW b \in told[q] \cup IF EndsWithoutRooms(inquiry[q].cart) THEN {} ELSE ShownTotal(q) \cup Preview(q)
                 PROVE  Agree(a, b, inquiry[q].cart)
    BY DEF FiguresAgree
  <2>2. Near(a, inquiry[q].cart) /\ Near(b, inquiry[q].cart)
    BY <1>3, <2>1 DEF FiguresKnown, ShownTotal, Preview
  <2>3. inquiry[q].cart \in CartsOf BY <1>3, <2>1, RowsCarts DEF OffersInv
  <2> QED BY <2>2, <2>3, NearAgree
<1> QED BY <1>1, <1>2, <1>3, OffersInvariant, PTL DEF Spec
=============================================================================
