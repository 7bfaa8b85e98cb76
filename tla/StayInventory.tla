--------------------------- MODULE StayInventory ---------------------------
(***************************************************************************)
(* The rooms of one stay property: app/services/stay_inventory_service.py, *)
(* the vendor desk of app/api/v1/vendor_stays.py, and the part of          *)
(* booking_inquiry_service.py that gives rooms to an inquiry.              *)
(*                                                                         *)
(* Two kinds of request give rooms away.  Bookings run in the server's     *)
(* thread pool and lock the units they choose from.  The desk's requests   *)
(* (blocks, new dates, reopening, changes of units) are coroutines that    *)
(* never await: they run one at a time, but beside the bookings, and they  *)
(* check without a lock.  A request of either kind chooses in one step and *)
(* commits in a later one.                                                 *)
(*                                                                         *)
(* Pending and confirmed bookings hold their rooms alike and are "active". *)
(***************************************************************************)
EXTENDS Naturals, FiniteSets, FiniteSetsExt

CONSTANTS
    Units,              \* units, ordered by their room number
    RoomTypes,
    Nights,
    Stays,              \* the sets of nights that can be booked, blocked or moved to
    Bookings,           \* stay bookings
    InquiryBookings,    \* those provisioned for an inquiry; the others are made directly
    Items,              \* the lines of the requests
    ItemsOf,            \* the lines of each booking's request
    ItemType,           \* the room type of a line
    ItemCount,          \* how many rooms a line asks for
    Blocks              \* ids of room blocks; a released id may be used again

ASSUME InventoryAssumption ==
    /\ Units \subseteq Nat
    /\ IsFiniteSet(Units) /\ IsFiniteSet(Bookings) /\ IsFiniteSet(Items)
    /\ Stays \subseteq SUBSET Nights \ {{}}
    /\ InquiryBookings \subseteq Bookings
    /\ ItemsOf \in [Bookings -> SUBSET Items]
    /\ ItemType \in [Items -> RoomTypes]
    /\ ItemCount \in [Items -> Nat \ {0}]
    /\ Bookings \cap Blocks = {}

VARIABLES
    unitType,   \* stay_room_units.room_type_id
    unitStatus, \* stay_room_units.status; "absent" is no row
    booking,    \* stay_bookings with its rooms, and whether its parent Booking is active
    blocks,     \* stay_room_blocks that are active
    allocs,     \* booking transactions in flight, holding locks on units
    desk,       \* the desk's transaction in flight, if any
    loose       \* history: claims that a racing request may have missed, or that were reopened

inventory == <<unitType, unitStatus, booking, blocks>>
vars == <<unitType, unitStatus, booking, blocks, allocs, desk, loose>>

Rooms == [unit: Units, item: Items]

StayBookings == [stay: {"none", "active", "cancelled"}, parent: BOOLEAN,
                 nights: Stays \cup {{}}, rooms: SUBSET Rooms]

NoBooking == [stay |-> "none", parent |-> FALSE, nights |-> {}, rooms |-> {}]

Allocations == [id: Bookings, nights: Stays, rooms: SUBSET Rooms, locks: SUBSET Units]

RoomBlocks == [id: Blocks, unit: Units, nights: Stays]

Moves == [id: Bookings, nights: Stays, rooms: SUBSET Rooms]

\* Rooms only name units that exist.
TypeOK ==
    /\ unitType \in [Units -> RoomTypes]
    /\ unitStatus \in [Units -> {"absent", "usable", "inactive"}]
    /\ booking \in [Bookings -> StayBookings]
    /\ \A b \in Bookings : \A r \in booking[b].rooms : unitStatus[r.unit] # "absent"
    /\ blocks \subseteq RoomBlocks
    /\ allocs \subseteq Allocations
    /\ desk \subseteq RoomBlocks \cup Moves
    /\ Cardinality(desk) <= 1
    /\ loose \subseteq Bookings \cup Blocks

Init ==
    /\ unitType \in [Units -> RoomTypes]
    /\ unitStatus = [u \in Units |-> "usable"]
    /\ booking = [b \in Bookings |-> NoBooking]
    /\ blocks = {}
    /\ allocs = {}
    /\ desk = {}
    /\ loose = {}

-----------------------------------------------------------------------------
(* What is taken.                                                          *)

\* Neither the stay booking nor its parent Booking has ended.
Active(b) == booking[b].stay = "active" /\ booking[b].parent

Holds(b, u, n) == Active(b) /\ n \in booking[b].nights /\ \E r \in booking[b].rooms : r.unit = u

Booked(u, nights, others) == \E b \in others, n \in nights : Holds(b, u, n)

Blocked(u, nights) == \E k \in blocks : k.unit = u /\ k.nights \cap nights # {}

\* Not inactive, not booked by the given bookings, not blocked.
Free(u, nights, others) ==
    unitStatus[u] = "usable" /\ ~Booked(u, nights, others) /\ ~Blocked(u, nights)

FreeUnits(t, nights) == {u \in Units : unitType[u] = t /\ Free(u, nights, Bookings)}

UnitsOf(t) == {u \in Units : unitType[u] = t /\ unitStatus[u] # "absent"}

\* Faulty: nobody waits for the row locks of others.
NothingLocked == {}

LockedUnits == UNION {a.locks : a \in allocs}

-----------------------------------------------------------------------------
(* Bookings: units are locked, chosen and frozen in stay_booking_rooms.    *)

\* The first free units of the line's type by room number; the rooms of the other
\* lines are not flushed yet and do not count.
FirstFree(i, nights) ==
    LET free == FreeUnits(ItemType[i], nights)
    IN  {u \in free : Cardinality({v \in free : v < u}) < ItemCount[i]}

\* create_booking gives every line all its rooms or fails.
DirectChoices(b, nights) ==
    IF \A i \in ItemsOf[b] : Cardinality(FirstFree(i, nights)) = ItemCount[i]
    THEN {[i \in ItemsOf[b] |-> FirstFree(i, nights)]}
    ELSE {}

\* Provisioning flushes after each line, and gives what is left when a line cannot be filled.
InquiryChoices(b, nights) ==
    LET free(i) == FreeUnits(ItemType[i], nights)
    IN  {f \in [ItemsOf[b] -> SUBSET Units] :
            /\ \A i \in ItemsOf[b] :
                /\ f[i] \subseteq free(i)
                /\ Cardinality(f[i]) <= ItemCount[i]
                /\ \/ Cardinality(f[i]) = ItemCount[i]
                   \/ free(i) \subseteq UNION {f[j] : j \in ItemsOf[b]}
            /\ \A i, j \in ItemsOf[b] : i # j => f[i] \cap f[j] = {}}

\* Whatever the desk is doing was checked before these rooms were taken.
ChooseRooms(b) ==
    LET locks == UNION {UnitsOf(ItemType[i]) : i \in ItemsOf[b]}
    IN  /\ booking[b] = NoBooking
        /\ \A a \in allocs : a.id # b
        /\ locks \cap LockedUnits = {}
        /\ \E nights \in Stays :
            \E f \in IF b \in InquiryBookings
                     THEN InquiryChoices(b, nights) ELSE DirectChoices(b, nights) :
                allocs' = allocs \cup
                    {[id |-> b, nights |-> nights, locks |-> locks,
                      rooms |-> {r \in Rooms : r.item \in ItemsOf[b] /\ r.unit \in f[r.item]}]}
        /\ loose' = loose \cup {d.id : d \in desk}
        /\ UNCHANGED <<inventory, desk>>

CommitRooms(a) ==
    /\ booking' = [booking EXCEPT ![a.id] =
            [stay |-> "active", parent |-> TRUE, nights |-> a.nights, rooms |-> a.rooms]]
    /\ allocs' = allocs \ {a}
    /\ UNCHANGED <<unitType, unitStatus, blocks, desk, loose>>

\* The request fails before its commit.
AbortRooms(a) ==
    /\ allocs' = allocs \ {a}
    /\ UNCHANGED <<inventory, desk, loose>>

-----------------------------------------------------------------------------
(* The desk: one request at a time, no locks.                              *)

\* A desk request that starts beside a booking may have missed it.
Start(d) ==
    /\ desk' = {d}
    /\ loose' = IF allocs = {} THEN loose \ ({d.id} \cap Blocks) ELSE loose \cup {d.id}
    /\ UNCHANGED <<inventory, allocs>>

MayBlock(u, nights) == unitStatus[u] = "usable" /\ ~Booked(u, nights, Bookings)

CheckBlock(k) ==
    /\ desk = {}
    /\ \A x \in blocks : x.id # k
    /\ \E u \in Units, nights \in Stays :
        MayBlock(u, nights) /\ Start([id |-> k, unit |-> u, nights |-> nights])

CommitBlock(d) ==
    /\ d \in RoomBlocks
    /\ blocks' = blocks \cup {d}
    /\ desk' = {}
    /\ UNCHANGED <<unitType, unitStatus, booking, allocs, loose>>

ReleaseBlock(x) ==
    /\ desk = {}
    /\ blocks' = blocks \ {x}
    /\ UNCHANGED <<unitType, unitStatus, booking, allocs, desk, loose>>

\* Where a room may go: its own unit, or one of its type.
Candidates(b, r, nights) ==
    {u \in Units : /\ u = r.unit \/ unitType[u] = ItemType[r.item]
                   /\ Free(u, nights, Bookings \ {b})}

\* Faulty: two rooms may be given one unit (no used_unit_ids).
AnyPlacements(b, nights) ==
    {f \in [booking[b].rooms -> Units] : \A r \in booking[b].rooms : f[r] \in Candidates(b, r, nights)}

\* Each room keeps its unit if it can and no other room was given it; no unit is given twice.
Placements(b, nights) ==
    {f \in [booking[b].rooms -> Units] :
        /\ \A r \in booking[b].rooms :
            /\ f[r] \in Candidates(b, r, nights)
            /\ r.unit \in Candidates(b, r, nights) => \E s \in booking[b].rooms : f[s] = r.unit
        /\ \A r, s \in booking[b].rooms : r # s => f[r] # f[s]}

ChooseMove(b) ==
    /\ desk = {}
    /\ booking[b].stay = "active"
    /\ \E nights \in Stays \ {booking[b].nights} : \E f \in Placements(b, nights) :
        Start([id |-> b, nights |-> nights,
               rooms |-> {[unit |-> f[r], item |-> r.item] : r \in booking[b].rooms}])

CommitMove(d) ==
    /\ d \in Moves
    /\ booking' = [booking EXCEPT ![d.id].nights = d.nights, ![d.id].rooms = d.rooms]
    /\ desk' = {}
    /\ UNCHANGED <<unitType, unitStatus, blocks, allocs, loose>>

AbortDesk ==
    /\ desk # {}
    /\ desk' = {}
    /\ UNCHANGED <<inventory, allocs, loose>>

SetBooking(b, stay, parent) ==
    /\ booking[b].stay # "none"
    /\ booking' = [booking EXCEPT ![b].stay = stay, ![b].parent = parent]
    /\ UNCHANGED <<unitType, unitStatus, blocks, allocs, desk>>

\* The desk confirms or reopens a booking without looking whether its rooms were given away.
Reopen(b) ==
    /\ desk = {}
    /\ SetBooking(b, "active", TRUE)
    /\ loose' = IF Active(b) THEN loose ELSE loose \cup {b}

\* A rejected or cancelled booking gives its rooms back; inquiries do so from the thread pool.
Release(b) ==
    /\ desk = {} \/ b \in InquiryBookings
    /\ SetBooking(b, "cancelled", FALSE)
    /\ UNCHANGED loose

\* The parent Booking ends on its own: cancelled, expired or refunded.
EndParent(b) == SetBooking(b, booking[b].stay, FALSE) /\ UNCHANGED loose

\* PaymentService.handle_webhook_event confirms the parent Booking, whatever its status.
RestoreParent(b) ==
    /\ desk = {}
    /\ SetBooking(b, booking[b].stay, TRUE)
    /\ loose' = IF Active(b) THEN loose ELSE loose \cup {b}

SetUnit(u, t, s) ==
    /\ desk = {}
    /\ u \notin LockedUnits
    /\ unitType' = [unitType EXCEPT ![u] = t]
    /\ unitStatus' = [unitStatus EXCEPT ![u] = s]
    /\ UNCHANGED <<booking, allocs, desk, loose>>

CreateUnit(u) ==
    /\ unitStatus[u] = "absent"
    /\ \E t \in RoomTypes : SetUnit(u, t, "usable")
    /\ UNCHANGED blocks

UpdateUnit(u) ==
    /\ unitStatus[u] # "absent"
    /\ \E t \in RoomTypes, s \in {"usable", "inactive"} : SetUnit(u, t, s)
    /\ UNCHANGED blocks

\* A unit with booking history stays; its blocks go with it.
DeleteUnit(u) ==
    /\ \A b \in Bookings : \A r \in booking[b].rooms : r.unit # u
    /\ SetUnit(u, unitType[u], "absent")
    /\ blocks' = {k \in blocks : k.unit # u}

-----------------------------------------------------------------------------
Next ==
    \/ \E b \in Bookings :
        ChooseRooms(b) \/ ChooseMove(b) \/ Reopen(b) \/ Release(b) \/ EndParent(b) \/ RestoreParent(b)
    \/ \E a \in allocs : CommitRooms(a) \/ AbortRooms(a)
    \/ \E k \in Blocks : CheckBlock(k)
    \/ \E x \in blocks : ReleaseBlock(x)
    \/ \E d \in desk : CommitBlock(d) \/ CommitMove(d)
    \/ AbortDesk
    \/ \E u \in Units : CreateUnit(u) \/ UpdateUnit(u) \/ DeleteUnit(u)

Spec == Init /\ [][Next]_vars

-----------------------------------------------------------------------------
(* The availability search, computed live from the rows above.             *)

BookedRows(t, n) ==
    {p \in Bookings \X Rooms :
        Active(p[1]) /\ n \in booking[p[1]].nights /\ p[2] \in booking[p[1]].rooms /\ ItemType[p[2].item] = t}

\* Faulty: blocks are not subtracted.
OfferIgnoringBlocks(t, n) ==
    LET total == Cardinality({u \in Units : unitType[u] = t /\ unitStatus[u] = "usable"})
        taken == Cardinality(BookedRows(t, n))
    IN  IF taken < total THEN total - taken ELSE 0

\* available_units of a night: usable units minus booked rooms minus blocked units
Offer(t, n) ==
    LET total == Cardinality({u \in Units : unitType[u] = t /\ unitStatus[u] = "usable"})
        taken == Cardinality(BookedRows(t, n))
                   + Cardinality({u \in UnitsOf(t) : Blocked(u, {n})})
    IN  IF taken < total THEN total - taken ELSE 0

\* get_available_stay_property_ids: some room is offered on every night.
Listed(nights) == \A n \in nights : \E t \in RoomTypes : Offer(t, n) > 0

\* search_availability: a type has the rooms of the night of the stay that has the fewest.
AvailableCount(t, nights) == Min({Offer(t, n) : n \in nights})

-----------------------------------------------------------------------------
(* Properties.                                                             *)

\* A claim is an active booking's hold on a unit, or a block of it.
Claims(u, n) == {b \in Bookings : Holds(b, u, n)}
                  \cup {k.id : k \in {x \in blocks : x.unit = u /\ n \in x.nights}}

\* No unit is given twice on a night, nor blocked while it is booked, unless a desk
\* request ran beside a booking request or somebody reopened an ended booking: the
\* unit locks suffice between bookings, and the checks suffice in sequence.
UnitsGivenOnce ==
    \A u \in Units, n \in Nights : \A c, d \in Claims(u, n) :
        c # d /\ {c, d} \cap Bookings # {} => {c, d} \cap loose # {}

\* New dates are all or nothing: a booking that is moved keeps a room for each room
\* it had, and no two of them are one unit (used_unit_ids).
MovesAreComplete ==
    [][\A b \in Bookings :
        booking[b].stay # "none" /\ booking'[b].nights # booking[b].nights =>
            /\ \A i \in Items : Cardinality({r \in booking'[b].rooms : r.item = i})
                                  = Cardinality({r \in booking[b].rooms : r.item = i})
            /\ \A r, s \in booking'[b].rooms : r.unit = s.unit => r = s]_vars

\* The search of a stay never counts more rooms of a type than are free on each of its nights,
\* as long as booked units keep the type they were booked under: whatever was moved, blocked,
\* released or reopened, no unit is counted as booked and as free.
OfferedRoomsAreFree ==
    (\A b \in Bookings : Active(b) => \A r \in booking[b].rooms : unitType[r.unit] = ItemType[r.item])
        => \A t \in RoomTypes, nights \in Stays : \A n \in nights :
            AvailableCount(t, nights) <= Cardinality(FreeUnits(t, {n}))

-----------------------------------------------------------------------------
(* What documents say, and the code does not keep.                         *)

\* STAY_INVENTORY_PHASE3.md:70 and :78: a booking is given exact available units, and
\* enough of them remain for every night, so its rooms are different units.
NoUnitTwice ==
    \A b \in Bookings : Active(b) =>
        \A r, s \in booking[b].rooms : r.unit = s.unit => r = s

\* STAY_INVENTORY_PHASE3.md:101 with :78: the available count of a search is of units that remain
\* available for every night, so that a booking of the stay could have them.
CountedRoomsCanBeBooked ==
    \A t \in RoomTypes : AvailableCount(t, Nights) <= Cardinality(FreeUnits(t, Nights))

\* stay_inventory_service.py:397: the listing names every property with a unit that is
\* neither booked nor blocked, for every night.
FreePropertyIsListed ==
    \A nights \in Stays :
        (\A n \in nights : \E t \in RoomTypes : FreeUnits(t, {n}) # {}) => Listed(nights)
=============================================================================
