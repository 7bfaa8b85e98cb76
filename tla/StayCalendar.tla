----------------------------- MODULE StayCalendar -----------------------------
(***************************************************************************)
(* stay_room_type_calendar: the counts of rooms per room type and night    *)
(* that StayInventoryService.refresh_calendar stores beside the bookings   *)
(* and blocks they are computed from, that the vendor's calendar shows,    *)
(* and that a direct booking is tested on                                  *)
(* (app/services/stay_inventory_service.py, booking_service.py,            *)
(* booking_inquiry_service.py).                                            *)
(*                                                                         *)
(* A request computes the counts in its transaction, where it may or may   *)
(* not see what it is about to commit itself (sessions do not flush by     *)
(* themselves), and commits them later.  Which units a booking is given is *)
(* the matter of StayInventory: here their number is all that counts.      *)
(***************************************************************************)
EXTENDS Integers, FiniteSets

CONSTANTS
    Types,      \* room types of the property
    FirstType,  \* property_record.room_types[0]
    Units,      \* room units, of which some may not exist yet
    UnitType,   \* the room type of each unit
    Serviced,   \* units that may be taken out of service, deleted and added
    Nights,
    Bookings,   \* stay bookings that may be made
    Kinds,      \* which of "desk", "direct" and "inquiry" they may be
    Blocks,     \* room blocks that may be made
    Rooms,      \* how many rooms a booking may ask for
    Handlers,   \* handlers that may run at the same time
    Free,       \* a handler that serves nobody
    Missing,    \* a night without an entry
    MaxServed   \* bound on the requests that are served

ASSUME TypesAssumption ==
    /\ FirstType \in Types /\ UnitType \in [Units -> Types] /\ Missing \notin Units /\ Serviced \subseteq Units
    /\ Kinds # {} /\ Kinds \subseteq {"desk", "direct", "inquiry"}

ASSUME NumbersAssumption ==
    /\ IsFiniteSet(Units) /\ IsFiniteSet(Bookings)
    /\ Nights \subseteq Nat /\ Rooms \subseteq Nat /\ Rooms # {}

VARIABLES
    unit,       \* stay_room_units.status, "none" for a unit that does not exist
    booking,    \* stay_bookings with their rooms and their parents
    block,      \* stay_room_blocks
    calendar,   \* stay_room_type_calendar
    handler,    \* what each handler has computed and will commit
    due,        \* history: nights that a change left without a refresh that saw it
    served      \* history: how many requests have begun

calendarVars == <<unit, booking, block, calendar, handler, due, served>>
world == <<unit, booking, block>>

Keys == Types \X Nights
Entry == [total: Nat, booked: Nat, blocked: Nat, available: Nat]

Status == {"none", "pending", "confirmed", "cancelled", "expired"}
Active == {"pending", "confirmed"}

Span(first, last) == {n \in Nights : first <= n /\ n <= last}
Spans == {Span(i, j) : i \in Nights, j \in Nights} \ {{}}

Stay == [status: Status, kind: Kinds, type: Types, nights: Spans \cup {{}}, rooms: Rooms]
NoStay == [status |-> "none", kind |-> CHOOSE k \in Kinds : TRUE, type |-> FirstType,
           nights |-> {}, rooms |-> CHOOSE r \in Rooms : TRUE]

Block == [status: {"none", "active", "released"}, unit: Units \cup {Missing}, nights: Spans \cup {{}}]
NoBlock == [status |-> "none", unit |-> Missing, nights |-> {}]

IsPartOf(f, S, T) == DOMAIN f \subseteq S /\ \A x \in DOMAIN f : f[x] \in T

\* make, lay, cancel: the rows it will commit; sees: whether its counts include them; rows: the
\* entries it holds FOR UPDATE; later: entries to compute when it has committed; crossed: another
\* commit changed what it has read
IsWork(w) ==
    /\ w \in [make: {w.make}, lay: {w.lay}, cancel: SUBSET Bookings, sees: BOOLEAN, rows: SUBSET Keys,
              later: SUBSET Keys, entries: {w.entries}, read: {w.read}, crossed: BOOLEAN]
    /\ IsPartOf(w.make, Bookings, Stay) /\ IsPartOf(w.lay, Blocks, Block)
    /\ IsPartOf(w.entries, Keys, Entry) /\ IsPartOf(w.read, Keys, Entry \cup {Missing})

InitCalendar ==
    /\ unit = [u \in Units |-> "open"]
    /\ booking = [b \in Bookings |-> NoStay]
    /\ block = [l \in Blocks |-> NoBlock]
    /\ calendar = [k \in Keys |-> Missing]
    /\ handler = [c \in Handlers |-> Free]
    /\ due = {}
    /\ served = 0

KeysOf(stay) == {stay.type} \X stay.nights

-----------------------------------------------------------------------------
(* What refresh_calendar computes. *)

\* The rooms of these bookings, one by one.
RoomsOf(books, bs) == UNION {{b} \X (1 .. books[b].rooms) : b \in bs}

\* Faulty: a cancelled stay is counted as long as its row exists.
EveryRoom(books, k) ==
    Cardinality(RoomsOf(books, {b \in Bookings : books[b].status # "none" /\ k \in KeysOf(books[b])}))

BookedRooms(books, k) ==
    Cardinality(RoomsOf(books, {b \in Bookings : books[b].status \in Active /\ k \in KeysOf(books[b])}))

\* Units under a block, each once, whether the unit is open or not
BlockedUnits(lies, k) ==
    Cardinality({u \in Units : UnitType[u] = k[1]
                     /\ \E l \in Blocks : lies[l].status = "active" /\ lies[l].unit = u /\ k[2] \in lies[l].nights})

TotalUnits(k) == Cardinality({u \in Units : unit[u] = "open" /\ UnitType[u] = k[1]})

Left(books, lies, k) == TotalUnits(k) - BookedRooms(books, k) - BlockedUnits(lies, k)

AtLeastZero(n) == IF n > 0 THEN n ELSE 0

Computed(books, lies, k) ==
    [total |-> TotalUnits(k), booked |-> BookedRooms(books, k), blocked |-> BlockedUnits(lies, k),
     available |-> AtLeastZero(Left(books, lies, k))]

\* get_calendar: a night without an entry is computed, and not saved, for its route never commits.
Shown(k) == IF calendar[k] = Missing THEN Computed(booking, block, k) ELSE calendar[k]

\* An entry that was read is written in the columns that differ; one that was not there is
\* inserted or replaced as a whole (ON CONFLICT DO UPDATE).
Store(now, read, new) ==
    IF read = Missing \/ now = Missing THEN new
    ELSE [col \in DOMAIN new |-> IF new[col] = read[col] THEN now[col] ELSE new[col]]

-----------------------------------------------------------------------------
(* Requests *)

\* Faulty: the entries are read without FOR UPDATE, and the units too.
Unlocked(by, keys) == FALSE

\* Another request holds these entries FOR UPDATE.
Locked(by, keys) == \E x \in Handlers \ by : handler[x] # Free /\ handler[x].rows \cap keys # {}

\* Another request has allocated units of this type, which _allocate_room_units locks.
Allocating(c, type) ==
    \E x \in Handlers \ {c} : handler[x] # Free /\ \E b \in DOMAIN handler[x].make : handler[x].make[b].type = type

Taken == {b \in Bookings : booking[b].status # "none"}
            \cup UNION {DOMAIN handler[x].make : x \in {y \in Handlers : handler[y] # Free}}

BookingsAfter(w) ==
    [b \in Bookings |-> IF b \in DOMAIN w.make THEN w.make[b]
                        ELSE IF b \in w.cancel THEN [booking[b] EXCEPT !.status = "cancelled"]
                        ELSE booking[b]]

BlocksAfter(w) == [l \in Blocks |-> IF l \in DOMAIN w.lay THEN w.lay[l] ELSE block[l]]

Nothing == [make |-> <<>>, lay |-> <<>>, cancel |-> {}, sees |-> TRUE, rows |-> {}, later |-> {},
            entries |-> <<>>, read |-> <<>>, crossed |-> FALSE]

\* One new row.
Row(x, new) == [y \in {x} |-> new]

\* The others have read what changes now.
Crossing(by, keys) ==
    [x \in Handlers |-> IF x \notin by /\ handler[x] # Free /\ DOMAIN handler[x].entries \cap keys # {}
                        THEN [handler[x] EXCEPT !.crossed = TRUE] ELSE handler[x]]

\* refresh_calendar: the counts of the nights keys, in a session that sees w's own rows or not
Compute(c, w, keys) ==
    LET books == IF w.sees THEN BookingsAfter(w) ELSE booking
        lies == IF w.sees THEN BlocksAfter(w) ELSE block
    IN  /\ handler' = [handler EXCEPT ![c] =
              [w EXCEPT !.entries = [k \in keys |-> Computed(books, lies, k)],
                        !.read = [k \in keys |-> calendar[k]]]]
        /\ UNCHANGED <<world, calendar, due>>

Serve(c, w, keys) == handler[c] = Free /\ Compute(c, w, keys)

\* The request commits its rows and the entries it has computed.
Commit(c) ==
    LET w == handler[c]
        keys == DOMAIN w.entries
        gone == UNION {KeysOf(booking[b]) : b \in w.cancel}
    IN  /\ w # Free /\ DOMAIN w.entries # {}
        /\ ~Locked({c}, keys)
        /\ booking' = BookingsAfter(w)
        /\ block' = BlocksAfter(w)
        /\ calendar' = [k \in Keys |-> IF k \in keys THEN Store(calendar[k], w.read[k], w.entries[k]) ELSE calendar[k]]
        /\ handler' = [Crossing({c}, keys \cup gone) EXCEPT ![c] = Free]
        /\ due' = IF w.sees /\ ~w.crossed THEN due \ keys
                  ELSE due \cup keys \cup gone
        /\ UNCHANGED unit

\* The refresh that was to follow a commit fails, which is logged, or the process dies.  (A
\* transaction that is rolled back leaves nothing, as if it had not begun.)
Abandon(c) ==
    /\ handler[c] # Free
    /\ handler[c].later # {}
    /\ handler' = [handler EXCEPT ![c] = Free]
    /\ UNCHANGED <<world, calendar, due>>

\* A change of these nights is committed without a refresh; later: what the request refreshes next
Silently(c, keys, later) ==
    /\ handler[c] = Free
    /\ handler' = [Crossing({c}, keys) EXCEPT ![c] = IF later = {} THEN Free ELSE [Nothing EXCEPT !.later = later]]
    /\ due' = due \cup keys
    /\ UNCHANGED calendar

\* What _allocate_room_units needs at least: that many units left on every night
Fits(stay) == \A k \in KeysOf(stay) : Left(booking, block, k) >= stay.rooms

-----------------------------------------------------------------------------
(* Bookings *)

As(kind, status, asked) == [status |-> status, kind |-> kind, type |-> asked.type,
                            nights |-> asked.nights, rooms |-> asked.rooms]

NewStay(c, b, stay) ==
    /\ stay.kind \in Kinds
    /\ b \notin Taken
    /\ ~Allocating(c, stay.type)
    /\ Fits(stay)

\* create_booking by the desk: its rooms are not flushed when the nights are refreshed.
CreateBooking(c, b, stay) ==
    /\ NewStay(c, b, stay)
    /\ Serve(c, [Nothing EXCEPT !.make = Row(b, stay), !.sees = FALSE], KeysOf(stay))

\* A night without an entry is opened with every unit there is.
Offered(k) == IF calendar[k] = Missing
              THEN LET every == Cardinality({u \in Units : unit[u] # "none" /\ UnitType[u] = k[1]})
                   IN  IF every = 0 THEN 1 ELSE every
              ELSE calendar[k].available

\* A guest's own booking: the entries are locked and tested, and the nights refreshed for all types.
DirectBooking(c, b, stay) ==
    /\ NewStay(c, b, stay)
    /\ ~Locked({c}, KeysOf(stay))
    /\ \A k \in KeysOf(stay) : Offered(k) >= stay.rooms
    /\ Serve(c, [Nothing EXCEPT !.make = Row(b, stay), !.rows = KeysOf(stay)], Types \X stay.nights)

\* An inquiry is approved: its stay is committed first and its nights are refreshed after that.
ProvisionStay(c, b, stay) ==
    /\ NewStay(c, b, stay)
    /\ booking' = [booking EXCEPT ![b] = stay]
    /\ Silently(c, KeysOf(stay), KeysOf(stay))
    /\ UNCHANGED <<unit, block>>

OldAndNew(b, nights) == {booking[b].type} \X (nights \cup booking[b].nights)

\* reschedule_booking: any stay that is not cancelled; the move is committed first.
Reschedule(c, b, nights) ==
    /\ booking[b].status \notin {"none", "cancelled"}
    /\ nights # booking[b].nights
    /\ LET moved == [booking EXCEPT ![b].nights = nights]
       IN  /\ \A k \in KeysOf(moved[b]) : Left([moved EXCEPT ![b].status = "cancelled"], block, k) >= booking[b].rooms
           /\ booking' = moved
    /\ Silently(c, OldAndNew(b, nights), OldAndNew(b, nights))
    /\ UNCHANGED <<unit, block>>

\* The refresh after the commit; an error is logged and the nights stay as they are (Abandon).
RefreshLater(c) ==
    /\ handler[c] # Free
    /\ handler[c].later # {}
    /\ Compute(c, Nothing, handler[c].later)

\* The inquiry of a stay is cancelled: the stay is flushed and its nights refreshed.
ReleaseStay(c, b) ==
    /\ booking[b].kind = "inquiry" /\ booking[b].status \in Active
    /\ Serve(c, [Nothing EXCEPT !.cancel = {b}], KeysOf(booking[b]))

\* The desk cancels a stay without an inquiry, or anybody cancels its parent.
CancelStay(c, b) ==
    /\ booking[b].kind # "inquiry" /\ booking[b].status \in Active
    /\ booking' = [booking EXCEPT ![b].status = "cancelled"]
    /\ Silently(c, KeysOf(booking[b]), {})
    /\ UNCHANGED <<unit, block>>

\* The desk sets any other status, also of a stay that was cancelled or has expired.
SetStatus(c, b, status) ==
    /\ booking[b].status \notin {"none", status}
    /\ booking' = [booking EXCEPT ![b].status = status]
    /\ Silently(c, IF booking[b].status \in Active THEN {} ELSE KeysOf(booking[b]), {})
    /\ UNCHANGED <<unit, block>>

\* release_expired_bank_transfer_holds gives back the rooms in the entries of the first room
\* type, whatever type was booked.
GivenBack(e, rooms) ==
    [e EXCEPT !.booked = AtLeastZero(e.booked - rooms),
              !.available = IF e.available + rooms < e.total THEN e.available + rooms ELSE e.total]

Expire(b) ==
    LET s == booking[b]
        keys == {k \in {FirstType} \X s.nights : calendar[k] # Missing}
        exact == {k \in keys : s.type = FirstType /\ Left(booking, block, k) >= 0}
    IN  /\ s.kind = "direct" /\ s.status = "pending"
        /\ ~Locked({}, keys)
        /\ booking' = [booking EXCEPT ![b].status = "expired"]
        /\ calendar' = [k \in Keys |-> IF k \in keys THEN GivenBack(calendar[k], s.rooms) ELSE calendar[k]]
        /\ due' = due \cup ((keys \cup KeysOf(s)) \ exact)
        /\ handler' = Crossing({}, keys \cup KeysOf(s))
        /\ UNCHANGED <<unit, block>>

-----------------------------------------------------------------------------
(* Blocks and units *)

\* create_room_block: flushed before the nights are refreshed
CreateBlock(c, l, u, nights) ==
    /\ block[l].status = "none"
    /\ \A x \in Handlers : handler[x] # Free => l \notin DOMAIN handler[x].lay
    /\ unit[u] = "open"
    /\ Serve(c, [Nothing EXCEPT !.lay = Row(l, [status |-> "active", unit |-> u, nights |-> nights])],
               {UnitType[u]} \X nights)

\* release_room_block: the status is not flushed when the nights are refreshed.
ReleaseBlock(c, l) ==
    /\ block[l].status = "active"
    /\ Serve(c, [Nothing EXCEPT !.lay = Row(l, [block[l] EXCEPT !.status = "released"]), !.sees = FALSE],
               {UnitType[block[l].unit]} \X block[l].nights)

\* A unit is created, taken out of service, brought back, or deleted with its blocks: no refresh
ChangeUnit(c, u, status) ==
    /\ unit[u] # status
    /\ unit' = [unit EXCEPT ![u] = status]
    /\ block' = [l \in Blocks |-> IF status = "none" /\ block[l].unit = u THEN [NoBlock EXCEPT !.status = "released"] ELSE block[l]]
    /\ Silently(c, {UnitType[u]} \X Nights, {})
    /\ UNCHANGED booking

Start(c) ==
    \/ \E b \in Bookings, asked \in [type: Types, nights: Spans, rooms: Rooms] :
         \/ CreateBooking(c, b, As("desk", "confirmed", asked))
         \/ DirectBooking(c, b, As("direct", "pending", asked))
         \/ ProvisionStay(c, b, As("inquiry", "confirmed", asked))
    \/ \E b \in Bookings, nights \in Spans : Reschedule(c, b, nights)
    \/ \E b \in Bookings : ReleaseStay(c, b) \/ CancelStay(c, b)
    \/ \E b \in Bookings, status \in Active : SetStatus(c, b, status)
    \/ \E l \in Blocks, u \in Units, nights \in Spans : CreateBlock(c, l, u, nights)
    \/ \E l \in Blocks : ReleaseBlock(c, l)
    \/ \E u \in Serviced, status \in {"open", "closed", "none"} : ChangeUnit(c, u, status)

Counts == served < MaxServed /\ served' = served + 1

NextCalendar ==
    \/ \E c \in Handlers : handler[c] = Free /\ Counts /\ Start(c)
    \/ \E c \in Handlers : (RefreshLater(c) \/ Commit(c) \/ Abandon(c)) /\ UNCHANGED served
    \/ \E b \in Bookings : Counts /\ Expire(b)

SpecCalendar == InitCalendar /\ [][NextCalendar]_calendarVars

-----------------------------------------------------------------------------
\* Whatever crosses whatever, no entry counts below nothing.
CalendarTypeOK ==
    /\ unit \in [Units -> {"open", "closed", "none"}]
    /\ booking \in [Bookings -> Stay]
    /\ block \in [Blocks -> Block]
    /\ calendar \in [Keys -> Entry \cup {Missing}]
    /\ \A c \in Handlers : handler[c] # Free => IsWork(handler[c])
    /\ due \subseteq Keys /\ served \in 0 .. MaxServed

\* The calendar shows every night as the bookings and blocks have it, unless the night waits for
\* a refresh: a change that is refreshed is refreshed on every night and type it touches, what a
\* request computed before another committed is known, and an expired hold gives back exactly
\* its rooms when they are of the first type.
ShownCalendarIsRight == \A k \in Keys \ due : Shown(k) = Computed(booking, block, k)

\* A direct booking never sells a room of a night whose entry was right twice: however it is
\* interleaved with other bookings, blocks, moves and holds, the night is not oversold by its
\* commit ("Selected room is sold out").
DirectBookingsFit ==
    [][\A b \in Bookings :
         booking[b].status = "none" /\ booking'[b].status = "pending" /\ booking'[b].kind = "direct" =>
             \A k \in KeysOf(booking'[b]) \ due : Left(booking', block', k) >= 0]_calendarVars
=============================================================================
