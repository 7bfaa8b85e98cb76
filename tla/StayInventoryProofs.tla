------------------------- MODULE StayInventoryProofs -------------------------
(***************************************************************************)
(* Theorems about StayInventory, for any finite sets of units, bookings    *)
(* and lines of bookings, and any nights, types and blocks.                *)
(*                                                                         *)
(* A booking reserves units in two steps: it tests them under their locks, *)
(* and its rows appear when it commits.  The invariant says what the test  *)
(* is still worth in between.  Allocations in flight hold their units'     *)
(* locks, so two of them never choose the same unit (AllocsLocked); what   *)
(* no lock keeps out is the desk, which blocks, moves and reopens without  *)
(* one, and whoever does so beside a booking is loose from then on         *)
(* (AllocsFree, DeskRaced, DeskFree).                                      *)
(***************************************************************************)
EXTENDS StayInventory, FiniteSetTheorems, FunctionTheorems, WellFoundedInduction, TLAPS

\* A booking in flight has no row yet, and its rooms are among the units it has locked, alone.
AllocsLocked ==
    /\ \A a \in allocs : booking[a.id] = NoBooking /\ \A r \in a.rooms : r.unit \in a.locks
    /\ \A a, c \in allocs : a # c => a.id # c.id /\ a.locks \cap c.locks = {}

\* Rooms in flight name units that exist.
RoomsExist ==
    /\ \A a \in allocs : \A r \in a.rooms : unitStatus[r.unit] # "absent"
    /\ \A d \in desk \cap Moves : \A r \in d.rooms : unitStatus[r.unit] # "absent"

\* Whoever has come to claim a unit since a booking has chosen it is loose.
AllocsFree ==
    \A a \in allocs : \A r \in a.rooms : \A n \in a.nights : Claims(r.unit, n) \subseteq loose

\* A desk's request beside a booking is loose, and what the desk chose alone stays its own.
DeskRaced == allocs # {} => \A d \in desk : d.id \in loose

DeskFree ==
    /\ \A d \in desk \cap RoomBlocks :
         d.id \in loose \/ \A n \in d.nights : Claims(d.unit, n) \cap Bookings \subseteq loose
    /\ \A d \in desk \cap Moves :
         d.id \in loose \/ \A r \in d.rooms : \A n \in d.nights : Claims(r.unit, n) \subseteq loose \cup {d.id}

LinesOf(rooms, i) == {r \in rooms : r.item = i}

\* A move has found a unit of its own for each room of its booking.
MovesWhole ==
    \A d \in desk \cap Moves :
        /\ booking[d.id].stay # "none"
        /\ \A i \in Items : Cardinality(LinesOf(d.rooms, i)) = Cardinality(LinesOf(booking[d.id].rooms, i))
        /\ \A r, s \in d.rooms : r.unit = s.unit => r = s

StockInv ==
    TypeOK /\ AllocsLocked /\ RoomsExist /\ AllocsFree /\ DeskRaced /\ DeskFree /\ MovesWhole /\ UnitsGivenOnce

-----------------------------------------------------------------------------
(* Numbers of rooms. *)

LEMMA SameNumber ==
    ASSUME NEW S, NEW T, IsFiniteSet(S), NEW f \in [S -> T],
           \A x, y \in S : f[x] = f[y] => x = y, \A y \in T : \E x \in S : f[x] = y
    PROVE  IsFiniteSet(T) /\ Cardinality(T) = Cardinality(S)
  <1>1. f \in Bijection(S, T) BY Fun_IsBij
  <1> QED BY <1>1, Fun_ExistsBij, FS_Bijection

LEMMA RoomsFinite == \A s \in SUBSET Rooms : IsFiniteSet(s)
  <1> DEFINE f == [p \in Units \X Items |-> [unit |-> p[1], item |-> p[2]]]
  <1>1. IsFiniteSet(Units \X Items) BY InventoryAssumption, FS_Product
  <1>2. f \in [Units \X Items -> Rooms] BY DEF Rooms
  <1>3. \A r \in Rooms : \E p \in Units \X Items : f[p] = r
    <2>1. ASSUME NEW r \in Rooms PROVE \E p \in Units \X Items : f[p] = r
      <3>1. <<r.unit, r.item>> \in Units \X Items /\ f[<<r.unit, r.item>>] = r BY DEF Rooms
      <3> QED BY <3>1
    <2> QED BY <2>1
  <1> HIDE DEF f
  <1>4. f \in Surjection(Units \X Items, Rooms) BY <1>2, <1>3, Fun_IsSurj
  <1>5. IsFiniteSet(Rooms) BY <1>1, <1>4, FS_Surjection
  <1> QED BY <1>5, FS_Subset

-----------------------------------------------------------------------------
(* Claims. *)

LEMMA ClaimsAre ==
    ASSUME NEW u, NEW n, NEW c
    PROVE  c \in Claims(u, n) <=> \/ c \in Bookings /\ Holds(c, u, n)
                                  \/ \E k \in blocks : k.id = c /\ k.unit = u /\ n \in k.nights
  BY DEF Claims

\* Every new claim is loose.
LEMMA LooserClaims ==
    ASSUME StockInv, loose \subseteq loose', allocs' \subseteq allocs, desk' \subseteq desk,
           \A u \in Units : \A n \in Nights : Claims(u, n)' \subseteq Claims(u, n) \cup loose'
    PROVE  AllocsFree' /\ DeskRaced' /\ DeskFree' /\ UnitsGivenOnce'
  <1>1. UnitsGivenOnce'
    <2>1. SUFFICES ASSUME NEW u \in Units, NEW n \in Nights, NEW c \in Claims(u, n)', NEW d \in Claims(u, n)', c # d,
                          {c, d} \cap Bookings # {}
          PROVE  {c, d} \cap loose' # {}
      BY DEF UnitsGivenOnce
    <2>2. CASE c \in loose' \/ d \in loose' BY <2>2
    <2>3. CASE c \in Claims(u, n) /\ d \in Claims(u, n) BY <2>1, <2>3 DEF StockInv, UnitsGivenOnce
    <2> QED BY <2>2, <2>3
  <1>2. AllocsFree'
    <2>1. SUFFICES ASSUME NEW a \in allocs', NEW r \in a.rooms, NEW n \in a.nights
          PROVE  Claims(r.unit, n)' \subseteq loose'
      BY DEF AllocsFree
    <2>2. r.unit \in Units /\ n \in Nights
      BY InventoryAssumption DEF StockInv, TypeOK, Allocations, Rooms
    <2>3. Claims(r.unit, n) \subseteq loose BY DEF StockInv, AllocsFree
    <2>4. Claims(r.unit, n)' \subseteq Claims(r.unit, n) \cup loose' BY <2>2
    <2> QED BY <2>3, <2>4
  <1>3. DeskRaced' BY DEF StockInv, DeskRaced
  <1>4. DeskFree'
    <2>1. ASSUME NEW d \in desk' \cap RoomBlocks
          PROVE  d.id \in loose' \/ \A n \in d.nights : Claims(d.unit, n)' \cap Bookings \subseteq loose'
      <3>1. d.unit \in Units /\ d.nights \subseteq Nights BY <2>1, InventoryAssumption DEF RoomBlocks
      <3>2. d.id \in loose \/ \A n \in d.nights : Claims(d.unit, n) \cap Bookings \subseteq loose
        BY <2>1 DEF StockInv, DeskFree
      <3>3. \A n \in d.nights : Claims(d.unit, n)' \subseteq Claims(d.unit, n) \cup loose' BY <3>1
      <3> QED BY <3>2, <3>3
    <2>2. ASSUME NEW d \in desk' \cap Moves
          PROVE  d.id \in loose' \/ \A r \in d.rooms : \A n \in d.nights : Claims(r.unit, n)' \subseteq loose' \cup {d.id}
      <3>1. (\A r \in d.rooms : r.unit \in Units) /\ d.nights \subseteq Nights
        BY <2>2, InventoryAssumption DEF Moves, Rooms
      <3>2. d.id \in loose \/ \A r \in d.rooms : \A n \in d.nights : Claims(r.unit, n) \subseteq loose \cup {d.id}
        BY <2>2 DEF StockInv, DeskFree
      <3>3. \A r \in d.rooms : \A n \in d.nights : Claims(r.unit, n)' \subseteq Claims(r.unit, n) \cup loose' BY <3>1
      <3> QED BY <3>2, <3>3
    <2> QED BY <2>1, <2>2 DEF DeskFree
  <1> QED BY <1>1, <1>2, <1>3, <1>4

\* Bookings change as SetBooking does: no claim is new but that of the booking.
LEMMA SetClaims ==
    ASSUME TypeOK, NEW b \in Bookings, NEW stay, NEW parent, SetBooking(b, stay, parent),
           NEW u, NEW n
    PROVE  /\ Claims(u, n)' \subseteq Claims(u, n) \cup {b}
           /\ ~(stay = "active" /\ parent) => Claims(u, n)' \subseteq Claims(u, n)
           /\ Active(b) => Claims(u, n)' \subseteq Claims(u, n)
  <1>1. /\ blocks' = blocks /\ \A c \in Bookings : c # b => booking'[c] = booking[c]
        /\ booking'[b].stay = stay /\ booking'[b].parent = parent
        /\ booking'[b].nights = booking[b].nights /\ booking'[b].rooms = booking[b].rooms
    BY DEF SetBooking, TypeOK, StayBookings
  <1> QED BY <1>1, ClaimsAre DEF Claims, Holds, Active

LEMMA SetKeeps ==
    ASSUME StockInv, NEW b \in Bookings, NEW stay \in {"active", "cancelled"}, NEW parent \in BOOLEAN,
           SetBooking(b, stay, parent), loose \subseteq loose', loose' \subseteq loose \cup {b},
           Active(b) \/ ~(stay = "active" /\ parent) \/ b \in loose'
    PROVE  StockInv'
  <1>1. /\ UNCHANGED <<unitType, unitStatus, blocks, allocs, desk>>
        /\ booking[b].stay # "none"
        /\ booking' \in [Bookings -> StayBookings]
        /\ \A c \in Bookings : c # b => booking'[c] = booking[c]
        /\ booking'[b].stay = stay
        /\ \A c \in Bookings : booking'[c].nights = booking[c].nights /\ booking'[c].rooms = booking[c].rooms
    <2>1. booking \in [Bookings -> StayBookings] BY DEF StockInv, TypeOK
    <2> QED BY <2>1 DEF SetBooking, StayBookings
  <1>2. \A u \in Units : \A n \in Nights : Claims(u, n)' \subseteq Claims(u, n) \cup loose'
    BY SetClaims DEF StockInv
  <1>3. AllocsFree' /\ DeskRaced' /\ DeskFree' /\ UnitsGivenOnce' BY <1>1, <1>2, LooserClaims
  <1>4. TypeOK'
    <2>1. \A c \in Bookings : \A r \in booking'[c].rooms : unitStatus'[r.unit] # "absent"
      BY <1>1 DEF StockInv, TypeOK
    <2>2. loose' \subseteq Bookings \cup Blocks BY DEF StockInv, TypeOK
    <2> QED BY <1>1, <2>1, <2>2 DEF StockInv, TypeOK
  <1>5. AllocsLocked'
    <2>1. \A a \in allocs : a.id \in Bookings /\ a.id # b
      BY <1>1 DEF StockInv, TypeOK, Allocations, AllocsLocked, NoBooking
    <2> QED BY <1>1, <2>1 DEF StockInv, AllocsLocked
  <1>6. RoomsExist' BY <1>1 DEF StockInv, RoomsExist
  <1>7. MovesWhole'
    <2>1. \A d \in desk \cap Moves : d.id \in Bookings BY DEF Moves
    <2>2. \A d \in desk \cap Moves : booking'[d.id].stay # "none" /\ booking'[d.id].rooms = booking[d.id].rooms
      BY <1>1, <2>1 DEF StockInv, MovesWhole
    <2> QED BY <1>1, <2>2 DEF StockInv, MovesWhole
  <1> QED BY <1>3, <1>4, <1>5, <1>6, <1>7 DEF StockInv

LEMMA BookingKeeps ==
    ASSUME StockInv, NEW b \in Bookings, Reopen(b) \/ Release(b) \/ EndParent(b) \/ RestoreParent(b)
    PROVE  StockInv'
  <1>1. booking[b].stay # "none" => booking[b].stay \in {"active", "cancelled"}
    BY DEF StockInv, TypeOK, StayBookings
  <1>2. CASE Reopen(b)
    <2>1. SetBooking(b, "active", TRUE) /\ loose \subseteq loose' /\ loose' \subseteq loose \cup {b}
          /\ (Active(b) \/ b \in loose')
      BY <1>2 DEF Reopen
    <2> QED BY <2>1, SetKeeps
  <1>3. CASE Release(b)
    <2>1. SetBooking(b, "cancelled", FALSE) /\ loose' = loose BY <1>3 DEF Release
    <2> QED BY <2>1, SetKeeps
  <1>4. CASE EndParent(b)
    <2>1. SetBooking(b, booking[b].stay, FALSE) /\ loose' = loose BY <1>4 DEF EndParent
    <2>2. booking[b].stay \in {"active", "cancelled"} BY <1>1, <2>1 DEF SetBooking
    <2> QED BY <2>1, <2>2, SetKeeps
  <1>5. CASE RestoreParent(b)
    <2>1. SetBooking(b, booking[b].stay, TRUE) /\ loose \subseteq loose' /\ loose' \subseteq loose \cup {b}
          /\ (Active(b) \/ b \in loose')
      BY <1>5 DEF RestoreParent
    <2>2. booking[b].stay \in {"active", "cancelled"} BY <1>1, <2>1 DEF SetBooking
    <2> QED BY <2>1, <2>2, SetKeeps
  <1> QED BY <1>2, <1>3, <1>4, <1>5

\* Blocks go, transactions end without a commit, or nothing happens.
LEMMA FewerKeeps ==
    ASSUME StockInv, UNCHANGED <<unitType, unitStatus, booking, loose>>,
           blocks' \subseteq blocks, allocs' \subseteq allocs, desk' = desk \/ desk' = {}
    PROVE  StockInv'
  <1>1. \A u \in Units : \A n \in Nights : Claims(u, n)' \subseteq Claims(u, n) \cup loose'
    BY ClaimsAre DEF Claims, Holds, Active
  <1>2. AllocsFree' /\ DeskRaced' /\ DeskFree' /\ UnitsGivenOnce' BY <1>1, LooserClaims
  <1>3. TypeOK'
    <2>1. Cardinality(desk') <= 1
      <3>1. CASE desk' = desk BY <3>1 DEF StockInv, TypeOK
      <3>2. CASE desk' = {} BY <3>2, FS_EmptySet
      <3> QED BY <3>1, <3>2
    <2> QED BY <2>1 DEF StockInv, TypeOK
  <1>4. AllocsLocked' BY DEF StockInv, AllocsLocked
  <1>5. RoomsExist' BY DEF StockInv, RoomsExist
  <1>6. MovesWhole' BY DEF StockInv, MovesWhole
  <1> QED BY <1>2, <1>3, <1>4, <1>5, <1>6 DEF StockInv

-----------------------------------------------------------------------------
(* Units. *)

LEMMA UnitKeeps ==
    ASSUME StockInv, NEW u \in Units, CreateUnit(u) \/ UpdateUnit(u) \/ DeleteUnit(u)
    PROVE  StockInv'
  <1>1. PICK t \in RoomTypes, s \in {"absent", "usable", "inactive"} :
          /\ desk = {} /\ u \notin LockedUnits
          /\ unitType' = [unitType EXCEPT ![u] = t]
          /\ unitStatus' = [unitStatus EXCEPT ![u] = s]
          /\ s = "absent" => \A b \in Bookings : \A r \in booking[b].rooms : r.unit # u
          /\ UNCHANGED <<booking, allocs, desk, loose>>
          /\ blocks' \subseteq blocks
    <2>1. unitType[u] \in RoomTypes BY DEF StockInv, TypeOK
    <2>2. CASE CreateUnit(u) BY <2>2 DEF CreateUnit, SetUnit
    <2>3. CASE UpdateUnit(u) BY <2>3 DEF UpdateUnit, SetUnit
    <2>4. CASE DeleteUnit(u) BY <2>1, <2>4 DEF DeleteUnit, SetUnit
    <2> QED BY <2>2, <2>3, <2>4
  <1>2. \A v \in Units : \A n \in Nights : Claims(v, n)' \subseteq Claims(v, n) \cup loose'
    BY <1>1, ClaimsAre DEF Claims, Holds, Active
  <1>3. AllocsFree' /\ DeskRaced' /\ DeskFree' /\ UnitsGivenOnce' BY <1>1, <1>2, LooserClaims
  <1>4. TypeOK'
    <2>1. \A b \in Bookings : \A r \in booking[b].rooms : r.unit \in Units /\ unitStatus[r.unit] # "absent"
      BY DEF StockInv, TypeOK, StayBookings, Rooms
    <2>2. \A b \in Bookings : \A r \in booking'[b].rooms : unitStatus'[r.unit] # "absent"
      BY <1>1, <2>1 DEF StockInv, TypeOK
    <2> QED BY <1>1, <2>2 DEF StockInv, TypeOK
  <1>5. AllocsLocked' BY <1>1 DEF StockInv, AllocsLocked
  <1>6. RoomsExist'
    <2>1. \A a \in allocs : \A r \in a.rooms : r.unit \in Units /\ r.unit # u /\ unitStatus[r.unit] # "absent"
      BY <1>1 DEF StockInv, TypeOK, Allocations, Rooms, AllocsLocked, RoomsExist, LockedUnits
    <2> QED BY <1>1, <2>1 DEF RoomsExist, StockInv, TypeOK
  <1>7. MovesWhole' BY <1>1 DEF MovesWhole
  <1> QED BY <1>3, <1>4, <1>5, <1>6, <1>7 DEF StockInv

-----------------------------------------------------------------------------
(* Bookings. *)

\* What the two ways of choosing have in common: units of the line's type that are free.
LEMMA ChosenUnits ==
    ASSUME NEW b \in Bookings, NEW nights \in Stays,
           NEW f \in IF b \in InquiryBookings THEN InquiryChoices(b, nights) ELSE DirectChoices(b, nights),
           NEW i \in ItemsOf[b]
    PROVE  f[i] \subseteq FreeUnits(ItemType[i], nights)
  <1>1. CASE b \in InquiryBookings BY <1>1 DEF InquiryChoices
  <1>2. CASE b \notin InquiryBookings BY <1>2 DEF DirectChoices, FirstFree
  <1> QED BY <1>1, <1>2

\* A free unit exists, is among those that are locked, and has no claim.
LEMMA FreeUnitsAre ==
    ASSUME NEW t, NEW nights, NEW u \in FreeUnits(t, nights)
    PROVE  /\ u \in UnitsOf(t) /\ unitStatus[u] # "absent"
           /\ \A n \in nights : Claims(u, n) = {}
  BY DEF FreeUnits, UnitsOf, Free, Booked, Blocked, Claims

LEMMA ChooseKeeps ==
    ASSUME StockInv, NEW b \in Bookings, ChooseRooms(b)
    PROVE  StockInv'
  <1> DEFINE l == UNION {UnitsOf(ItemType[i]) : i \in ItemsOf[b]}
  <1>1. /\ booking[b] = NoBooking
        /\ \A a \in allocs : a.id # b
        /\ l \cap LockedUnits = {}
        /\ loose' = loose \cup {d.id : d \in desk}
        /\ UNCHANGED <<unitType, unitStatus, booking, blocks, desk>>
    BY DEF ChooseRooms, inventory
  <1>2. PICK nights \in Stays :
          \E f \in IF b \in InquiryBookings THEN InquiryChoices(b, nights) ELSE DirectChoices(b, nights) :
            allocs' = allocs \cup
               {[id |-> b, nights |-> nights, locks |-> l,
                 rooms |-> {r \in Rooms : r.item \in ItemsOf[b] /\ r.unit \in f[r.item]}]}
    BY DEF ChooseRooms
  <1>3. PICK f \in IF b \in InquiryBookings THEN InquiryChoices(b, nights) ELSE DirectChoices(b, nights) :
            allocs' = allocs \cup
               {[id |-> b, nights |-> nights, locks |-> l,
                 rooms |-> {r \in Rooms : r.item \in ItemsOf[b] /\ r.unit \in f[r.item]}]}
    BY <1>2
  <1>4. PICK x : x = {r \in Rooms : r.item \in ItemsOf[b] /\ r.unit \in f[r.item]} OBVIOUS
  <1>5. \A r \in x : /\ r.unit \in l /\ unitStatus[r.unit] # "absent"
                     /\ \A n \in nights : Claims(r.unit, n) = {}
    <2>1. SUFFICES ASSUME NEW r \in x
          PROVE  /\ r.unit \in l /\ unitStatus[r.unit] # "absent"
                 /\ \A n \in nights : Claims(r.unit, n) = {}
      OBVIOUS
    <2>2. PICK i \in ItemsOf[b] : i = r.item /\ r.unit \in f[i] BY <1>4
    <2>3. r.unit \in FreeUnits(ItemType[i], nights) BY <2>2, ChosenUnits
    <2> QED BY <2>3, FreeUnitsAre
  <1>6. PICK m : m = l OBVIOUS
  <1>7. PICK new : new = [id |-> b, nights |-> nights, locks |-> m, rooms |-> x] OBVIOUS
  <1>8. /\ new \in Allocations /\ new.id = b /\ new.nights = nights /\ new.locks = m /\ new.rooms = x
        /\ allocs' = allocs \cup {new}
    <2>1. m \subseteq Units /\ x \subseteq Rooms BY <1>4, <1>6 DEF UnitsOf
    <2> QED BY <1>3, <1>4, <1>6, <1>7, <2>1 DEF Allocations
  <1>9. \A u, n : Claims(u, n)' = Claims(u, n) BY <1>1 DEF Claims, Holds, Active
  <1>10. AllocsFree'
    <2>1. \A r \in x : \A n \in nights : Claims(r.unit, n)' = {} BY <1>5, <1>9
    <2>2. \A a \in allocs : \A r \in a.rooms : \A n \in a.nights : Claims(r.unit, n)' \subseteq loose'
      BY <1>1, <1>9 DEF StockInv, AllocsFree
    <2> QED BY <1>8, <2>1, <2>2 DEF AllocsFree
  <1>11. DeskRaced' BY <1>1 DEF DeskRaced
  <1>12. DeskFree' BY <1>1 DEF DeskFree
  <1>13. UnitsGivenOnce' BY <1>1, <1>9 DEF StockInv, UnitsGivenOnce
  <1>14. AllocsLocked'
    <2>1. \A a \in allocs : a.locks \cap m = {} BY <1>1, <1>6 DEF LockedUnits
    <2> QED BY <1>1, <1>5, <1>6, <1>8, <2>1 DEF StockInv, AllocsLocked
  <1>15. RoomsExist' BY <1>1, <1>5, <1>8 DEF StockInv, RoomsExist
  <1>16. MovesWhole' BY <1>1 DEF StockInv, MovesWhole
  <1>17. TypeOK'
    <2>1. \A d \in desk : d.id \in Bookings \cup Blocks BY DEF StockInv, TypeOK, RoomBlocks, Moves
    <2>2. loose' \subseteq Bookings \cup Blocks BY <1>1, <2>1 DEF StockInv, TypeOK
    <2>3. \A c \in Bookings : \A r \in booking'[c].rooms : unitStatus'[r.unit] # "absent"
      BY <1>1 DEF StockInv, TypeOK
    <2> QED BY <1>1, <1>8, <2>2, <2>3 DEF StockInv, TypeOK
  <1> QED BY <1>10, <1>11, <1>12, <1>13, <1>14, <1>15, <1>16, <1>17 DEF StockInv

\* A booking commits what it has locked: whoever claims its rooms meanwhile is loose.
LEMMA CommitKeeps ==
    ASSUME StockInv, NEW a \in allocs, CommitRooms(a)
    PROVE  StockInv'
  <1> DEFINE x == [stay |-> "active", parent |-> TRUE, nights |-> a.nights, rooms |-> a.rooms]
  <1>1. /\ a.id \in Bookings /\ a.nights \in Stays /\ a.rooms \subseteq Rooms
        /\ booking[a.id] = NoBooking /\ booking \in [Bookings -> StayBookings]
    BY DEF StockInv, TypeOK, Allocations, AllocsLocked
  <1>2. /\ booking' = [booking EXCEPT ![a.id] = x] /\ allocs' = allocs \ {a}
        /\ UNCHANGED <<unitType, unitStatus, blocks, desk, loose>>
    BY DEF CommitRooms
  <1>3. x \in StayBookings /\ x.nights = a.nights /\ x.rooms = a.rooms /\ x.stay = "active"
    BY <1>1 DEF StayBookings
  <1>4. \A c \in allocs' : c \in allocs /\ c # a /\ c.id \in Bookings /\ c.id # a.id /\ c.locks \cap a.locks = {}
    BY <1>2 DEF StockInv, TypeOK, Allocations, AllocsLocked
  <1>5. \A d \in desk : d.id \in loose BY DEF StockInv, DeskRaced
  <1> HIDE DEF x
  <1>6. \A u, n : Claims(u, n)' \subseteq Claims(u, n) \cup {a.id}
    BY <1>1, <1>2 DEF Claims, Holds, Active
  <1>7. ASSUME NEW u, NEW n, a.id \in Claims(u, n)'
        PROVE  n \in a.nights /\ \E r \in a.rooms : r.unit = u
    <2>1. a.id \notin Blocks BY <1>1, InventoryAssumption
    <2>2. Holds(a.id, u, n)' BY <1>2, <1>7, <2>1, ClaimsAre DEF Claims, StockInv, TypeOK, RoomBlocks
    <2> QED BY <1>1, <1>2, <1>3, <2>2 DEF Holds
  <1>8. UnitsGivenOnce'
    <2>1. SUFFICES ASSUME NEW u \in Units, NEW n \in Nights, NEW c \in Claims(u, n)', NEW d \in Claims(u, n)', c # d,
                          {c, d} \cap Bookings # {}
          PROVE  {c, d} \cap loose' # {}
      BY DEF UnitsGivenOnce
    <2>2. a.id \in Claims(u, n)' => Claims(u, n) \subseteq loose
      BY <1>7 DEF StockInv, AllocsFree
    <2>3. CASE c = a.id \/ d = a.id BY <1>2, <1>6, <2>1, <2>2, <2>3
    <2>4. CASE c # a.id /\ d # a.id
      <3>1. c \in Claims(u, n) /\ d \in Claims(u, n) BY <1>6, <2>4
      <3> QED BY <1>2, <2>1, <3>1 DEF StockInv, UnitsGivenOnce
    <2> QED BY <2>3, <2>4
  <1>9. AllocsFree'
    <2>1. SUFFICES ASSUME NEW c \in allocs', NEW r \in c.rooms, NEW n \in c.nights
          PROVE  Claims(r.unit, n)' \subseteq loose'
      BY DEF AllocsFree
    <2>2. r.unit \in c.locks /\ Claims(r.unit, n) \subseteq loose BY <1>4 DEF StockInv, AllocsLocked, AllocsFree
    <2>3. a.id \notin Claims(r.unit, n)'
      <3>1. ASSUME a.id \in Claims(r.unit, n)' PROVE FALSE
        <4>1. PICK s \in a.rooms : s.unit = r.unit BY <1>7, <3>1
        <4>2. r.unit \in a.locks BY <4>1 DEF StockInv, AllocsLocked
        <4> QED BY <1>4, <2>2, <4>2
      <3> QED BY <3>1
    <2> QED BY <1>2, <1>6, <2>2, <2>3
  <1>10. DeskRaced' BY <1>2, <1>5 DEF DeskRaced
  <1>11. DeskFree' BY <1>2, <1>5 DEF DeskFree
  <1>12. AllocsLocked' BY <1>1, <1>2, <1>4 DEF StockInv, AllocsLocked
  <1>13. RoomsExist' BY <1>2 DEF StockInv, RoomsExist
  <1>14. MovesWhole'
    <2>1. \A d \in desk \cap Moves : d.id \in Bookings /\ d.id # a.id
      BY <1>1 DEF Moves, StockInv, MovesWhole, NoBooking
    <2>2. \A d \in desk \cap Moves : booking'[d.id] = booking[d.id] BY <1>1, <1>2, <2>1
    <2> QED BY <1>2, <2>2 DEF StockInv, MovesWhole
  <1>15. TypeOK'
    <2>1. \A r \in a.rooms : unitStatus[r.unit] # "absent" BY DEF StockInv, RoomsExist
    <2>2. \A c \in Bookings : \A r \in booking'[c].rooms : unitStatus'[r.unit] # "absent"
      BY <1>1, <1>2, <1>3, <2>1 DEF StockInv, TypeOK
    <2> QED BY <1>1, <1>2, <1>3, <2>2 DEF StockInv, TypeOK
  <1> QED BY <1>8, <1>9, <1>10, <1>11, <1>12, <1>13, <1>14, <1>15 DEF StockInv

-----------------------------------------------------------------------------
(* The desk. *)

\* A desk's request starts with units that nobody claims, or that no booking claims if it is a
\* block; the id of a block that was released is nobody's any more.
LEMMA StartKeeps ==
    ASSUME StockInv, desk = {}, NEW d \in RoomBlocks \cup Moves, Start(d),
           d \in RoomBlocks => /\ \A x \in blocks : x.id # d.id
                               /\ \A n \in d.nights : Claims(d.unit, n) \cap Bookings = {},
           d \in Moves => /\ \A r \in d.rooms : \A n \in d.nights : Claims(r.unit, n) \subseteq {d.id}
                          /\ \A r \in d.rooms : unitStatus[r.unit] # "absent"
                          /\ booking[d.id].stay # "none"
                          /\ \A i \in Items : Cardinality(LinesOf(d.rooms, i)) = Cardinality(LinesOf(booking[d.id].rooms, i))
                          /\ \A r, s \in d.rooms : r.unit = s.unit => r = s
    PROVE  StockInv'
  <1>1. /\ desk' = {d} /\ UNCHANGED <<unitType, unitStatus, booking, blocks, allocs>>
        /\ loose' = IF allocs = {} THEN loose \ ({d.id} \cap Blocks) ELSE loose \cup {d.id}
    BY DEF Start, inventory
  <1>2. \A u, n : Claims(u, n)' = Claims(u, n) BY <1>1 DEF Claims, Holds, Active
  <1>3. \A u, n : d.id \in Blocks => d.id \notin Claims(u, n)
    <2>1. d.id \in Blocks => d \in RoomBlocks BY InventoryAssumption DEF Moves
    <2> QED BY <2>1, InventoryAssumption DEF Claims
  <1>4. \A u, n : Claims(u, n) \cap loose \subseteq loose' BY <1>1, <1>3
  <1>5. UnitsGivenOnce'
    <2>1. SUFFICES ASSUME NEW u \in Units, NEW n \in Nights, NEW c \in Claims(u, n), NEW e \in Claims(u, n), c # e,
                          {c, e} \cap Bookings # {}
          PROVE  {c, e} \cap loose' # {}
      BY <1>2 DEF UnitsGivenOnce
    <2>2. {c, e} \cap loose # {} BY <2>1 DEF StockInv, UnitsGivenOnce
    <2> QED BY <1>4, <2>2
  <1>6. AllocsFree'
    <2>1. \A a \in allocs : \A r \in a.rooms : \A n \in a.nights : Claims(r.unit, n) \subseteq loose
      BY DEF StockInv, AllocsFree
    <2>2. \A a \in allocs : \A r \in a.rooms : \A n \in a.nights : Claims(r.unit, n)' \subseteq loose'
      BY <1>2, <1>4, <2>1
    <2> QED BY <1>1, <2>2 DEF AllocsFree
  <1>7. DeskRaced' BY <1>1 DEF DeskRaced
  <1>8. DeskFree' BY <1>1, <1>2 DEF DeskFree
  <1>9. AllocsLocked' BY <1>1 DEF StockInv, AllocsLocked
  <1>10. RoomsExist' BY <1>1 DEF StockInv, RoomsExist
  <1>11. MovesWhole' BY <1>1 DEF MovesWhole
  <1>12. TypeOK'
    <2>1. Cardinality(desk') <= 1
      <3>1. Cardinality({d}) = 1 BY FS_Singleton
      <3> QED BY <1>1, <3>1
    <2>2. d.id \in Bookings \cup Blocks BY DEF RoomBlocks, Moves
    <2>3. loose' \subseteq Bookings \cup Blocks BY <1>1, <2>2 DEF StockInv, TypeOK
    <2>4. \A c \in Bookings : \A r \in booking'[c].rooms : unitStatus'[r.unit] # "absent"
      BY <1>1 DEF StockInv, TypeOK
    <2> QED BY <1>1, <2>1, <2>3, <2>4 DEF StockInv, TypeOK
  <1> QED BY <1>5, <1>6, <1>7, <1>8, <1>9, <1>10, <1>11, <1>12 DEF StockInv

LEMMA CheckBlockKeeps ==
    ASSUME StockInv, NEW k \in Blocks, CheckBlock(k)
    PROVE  StockInv'
  <1>1. PICK u \in Units, nights \in Stays :
          /\ desk = {} /\ \A x \in blocks : x.id # k
          /\ MayBlock(u, nights) /\ Start([id |-> k, unit |-> u, nights |-> nights])
    BY DEF CheckBlock
  <1>2. PICK d : d = [id |-> k, unit |-> u, nights |-> nights] OBVIOUS
  <1>3. d \in RoomBlocks /\ d.id = k /\ d.unit = u /\ d.nights = nights BY <1>2 DEF RoomBlocks
  <1>4. d \notin Moves BY <1>3, InventoryAssumption DEF Moves
  <1>5. \A n \in nights : Claims(u, n) \cap Bookings = {}
    <2>1. \A n \in nights : \A b \in Bookings : ~Holds(b, u, n) BY <1>1 DEF MayBlock, Booked
    <2>2. \A x \in blocks : x.id \notin Bookings BY InventoryAssumption DEF StockInv, TypeOK, RoomBlocks
    <2> QED BY <2>1, <2>2 DEF Claims
  <1>6. Start(d) BY <1>1, <1>2
  <1> QED BY <1>1, <1>3, <1>4, <1>5, <1>6, StartKeeps

LEMMA MoveKeeps ==
    ASSUME StockInv, NEW b \in Bookings, ChooseMove(b)
    PROVE  StockInv'
  <1>1. desk = {} /\ booking[b].stay = "active" BY DEF ChooseMove
  <1>2. PICK nights \in Stays : \E f \in Placements(b, nights) :
          Start([id |-> b, nights |-> nights,
                 rooms |-> {[unit |-> f[r], item |-> r.item] : r \in booking[b].rooms}])
    BY DEF ChooseMove
  <1>3. PICK f \in Placements(b, nights) :
          Start([id |-> b, nights |-> nights,
                 rooms |-> {[unit |-> f[r], item |-> r.item] : r \in booking[b].rooms}])
    BY <1>2
  <1>4. PICK old : old = booking[b].rooms OBVIOUS
  <1>5. PICK x : x = {[unit |-> f[r], item |-> r.item] : r \in old} OBVIOUS
  <1>6. PICK d : d = [id |-> b, nights |-> nights, rooms |-> x] OBVIOUS
  <1>7. Start(d) BY <1>3, <1>4, <1>5, <1>6
  <1>8. old \in SUBSET Rooms BY <1>4 DEF StockInv, TypeOK, StayBookings
  <1>9. /\ f \in [old -> Units]
        /\ \A r \in old : f[r] \in Candidates(b, r, nights)
        /\ \A r, s \in old : f[r] = f[s] => r = s
    BY <1>4 DEF Placements
  <1>10. x \in SUBSET Rooms BY <1>5, <1>8, <1>9 DEF Rooms
  <1>11. d \in Moves /\ d.id = b /\ d.nights = nights /\ d.rooms = x BY <1>6, <1>10 DEF Moves
  <1>12. d \notin RoomBlocks BY <1>11, InventoryAssumption DEF RoomBlocks
  <1>13. ASSUME NEW r \in x
         PROVE  unitStatus[r.unit] # "absent" /\ \A n \in nights : Claims(r.unit, n) \subseteq {b}
    <2>1. PICK q \in old : r.unit = f[q] BY <1>5, <1>13
    <2>2. Free(r.unit, nights, Bookings \ {b}) BY <1>9, <2>1 DEF Candidates
    <2> QED BY <2>2 DEF Free, Booked, Blocked, Claims
  <1>14. \A r, s \in x : r.unit = s.unit => r = s BY <1>5, <1>9
  <1>15. ASSUME NEW i \in Items PROVE Cardinality(LinesOf(x, i)) = Cardinality(LinesOf(old, i))
    <2>1. PICK g : g = [r \in LinesOf(old, i) |-> [unit |-> f[r], item |-> r.item]] OBVIOUS
    <2>2. g \in [LinesOf(old, i) -> LinesOf(x, i)] BY <1>5, <2>1 DEF LinesOf
    <2>3. \A r, s \in LinesOf(old, i) : g[r] = g[s] => r = s BY <1>9, <2>1 DEF LinesOf
    <2>4. \A y \in LinesOf(x, i) : \E r \in LinesOf(old, i) : g[r] = y BY <1>5, <2>1 DEF LinesOf
    <2>5. LinesOf(old, i) \in SUBSET Rooms BY <1>8 DEF LinesOf
    <2>6. IsFiniteSet(LinesOf(old, i)) BY <2>5, RoomsFinite
    <2> QED BY <2>2, <2>3, <2>4, <2>6, SameNumber
  <1> QED BY <1>1, <1>4, <1>7, <1>11, <1>12, <1>13, <1>14, <1>15, StartKeeps

LEMMA CommitBlockKeeps ==
    ASSUME StockInv, NEW d \in desk, CommitBlock(d)
    PROVE  StockInv'
  <1>1. /\ d \in RoomBlocks /\ blocks' = blocks \cup {d} /\ desk' = {}
        /\ UNCHANGED <<unitType, unitStatus, booking, allocs, loose>>
    BY DEF CommitBlock
  <1>2. d.id \notin Bookings BY <1>1, InventoryAssumption DEF RoomBlocks
  <1>3. \A u, n : Claims(u, n)' \subseteq Claims(u, n) \cup {d.id}
    BY <1>1 DEF Claims, Holds, Active
  <1>4. \A u, n : d.id \in Claims(u, n)' /\ d.id \notin Claims(u, n) => u = d.unit /\ n \in d.nights
    BY <1>1 DEF Claims, Holds, Active
  <1>5. UnitsGivenOnce'
    <2>1. SUFFICES ASSUME NEW u \in Units, NEW n \in Nights, NEW c \in Claims(u, n)', NEW e \in Claims(u, n)', c # e,
                          {c, e} \cap Bookings # {}
          PROVE  {c, e} \cap loose' # {}
      BY DEF UnitsGivenOnce
    <2>2. CASE c \in Claims(u, n) /\ e \in Claims(u, n) BY <1>1, <2>1, <2>2 DEF StockInv, UnitsGivenOnce
    <2>3. CASE ~(c \in Claims(u, n) /\ e \in Claims(u, n))
      <3>1. PICK b \in Bookings : b \in {c, e} /\ b \in Claims(u, n) BY <1>2, <1>3, <2>1, <2>3
      <3>2. d.id \in {c, e} /\ u = d.unit /\ n \in d.nights BY <1>3, <1>4, <2>1, <2>3
      <3>3. d.id \in loose \/ b \in loose BY <1>1, <3>1, <3>2 DEF StockInv, DeskFree
      <3> QED BY <1>1, <3>1, <3>2, <3>3
    <2> QED BY <2>2, <2>3
  <1>6. AllocsFree'
    <2>1. \A a \in allocs : d.id \in loose BY DEF StockInv, DeskRaced
    <2>2. \A a \in allocs : \A r \in a.rooms : \A n \in a.nights : Claims(r.unit, n) \subseteq loose
      BY DEF StockInv, AllocsFree
    <2>3. \A a \in allocs : \A r \in a.rooms : \A n \in a.nights : Claims(r.unit, n)' \subseteq loose'
      BY <1>1, <1>3, <2>1, <2>2
    <2> QED BY <1>1, <2>3 DEF AllocsFree
  <1>7. DeskRaced' /\ DeskFree' /\ MovesWhole' BY <1>1 DEF DeskRaced, DeskFree, MovesWhole
  <1>8. AllocsLocked' /\ RoomsExist' BY <1>1 DEF StockInv, AllocsLocked, RoomsExist
  <1>9. TypeOK'
    <2>1. Cardinality(desk') <= 1 BY <1>1, FS_EmptySet
    <2> QED BY <1>1, <2>1 DEF StockInv, TypeOK
  <1> QED BY <1>5, <1>6, <1>7, <1>8, <1>9 DEF StockInv

LEMMA CommitMoveKeeps ==
    ASSUME StockInv, NEW d \in desk, CommitMove(d)
    PROVE  StockInv'
  <1>1. /\ d \in Moves /\ d.id \in Bookings /\ d.nights \in Stays /\ d.rooms \subseteq Rooms
        /\ booking[d.id].stay # "none"
        /\ booking \in [Bookings -> StayBookings]
    BY DEF CommitMove, Moves, StockInv, TypeOK, MovesWhole
  <1>2. /\ desk' = {} /\ UNCHANGED <<unitType, unitStatus, blocks, allocs, loose>>
        /\ booking' \in [Bookings -> StayBookings]
        /\ \A b \in Bookings : b # d.id => booking'[b] = booking[b]
        /\ booking'[d.id].stay = booking[d.id].stay /\ booking'[d.id].parent = booking[d.id].parent
        /\ booking'[d.id].nights = d.nights /\ booking'[d.id].rooms = d.rooms
    BY <1>1 DEF CommitMove, StayBookings
  <1>3. \A u, n : Claims(u, n)' \subseteq Claims(u, n) \cup {d.id}
    BY <1>1, <1>2 DEF Claims, Holds, Active
  <1>4. \A x \in blocks : x.id # d.id BY <1>1, InventoryAssumption DEF StockInv, TypeOK, RoomBlocks
  <1>5. ASSUME NEW u, NEW n, d.id \in Claims(u, n)'
        PROVE  d.id \in loose \/ Claims(u, n) \subseteq loose \cup {d.id}
    <2>1. Holds(d.id, u, n)' BY <1>2, <1>4, <1>5 DEF Claims
    <2>2. n \in d.nights /\ \E r \in d.rooms : r.unit = u BY <1>2, <2>1 DEF Holds
    <2> QED BY <1>1, <2>2 DEF StockInv, DeskFree
  <1>6. UnitsGivenOnce'
    <2>1. SUFFICES ASSUME NEW u \in Units, NEW n \in Nights, NEW c \in Claims(u, n)', NEW e \in Claims(u, n)', c # e,
                          {c, e} \cap Bookings # {}
          PROVE  {c, e} \cap loose' # {}
      BY DEF UnitsGivenOnce
    <2>2. CASE c # d.id /\ e # d.id
      <3>1. c \in Claims(u, n) /\ e \in Claims(u, n) BY <1>3, <2>2
      <3> QED BY <1>2, <2>1, <3>1 DEF StockInv, UnitsGivenOnce
    <2>3. CASE c = d.id \/ e = d.id BY <1>2, <1>3, <1>5, <2>1, <2>3
    <2> QED BY <2>2, <2>3
  <1>7. AllocsFree'
    <2>1. \A a \in allocs : d.id \in loose BY DEF StockInv, DeskRaced
    <2>2. \A a \in allocs : \A r \in a.rooms : \A n \in a.nights : Claims(r.unit, n) \subseteq loose
      BY DEF StockInv, AllocsFree
    <2>3. \A a \in allocs : \A r \in a.rooms : \A n \in a.nights : Claims(r.unit, n)' \subseteq loose'
      BY <1>2, <1>3, <2>1, <2>2
    <2> QED BY <1>2, <2>3 DEF AllocsFree
  <1>8. DeskRaced' /\ DeskFree' /\ MovesWhole' BY <1>2 DEF DeskRaced, DeskFree, MovesWhole
  <1>9. AllocsLocked'
    <2>1. \A a \in allocs : a.id \in Bookings /\ a.id # d.id
      BY <1>1 DEF StockInv, TypeOK, Allocations, AllocsLocked, NoBooking
    <2> QED BY <1>2, <2>1 DEF StockInv, AllocsLocked
  <1>10. RoomsExist' BY <1>2 DEF StockInv, RoomsExist
  <1>11. TypeOK'
    <2>1. Cardinality(desk') <= 1 BY <1>2, FS_EmptySet
    <2>2. \A r \in d.rooms : unitStatus[r.unit] # "absent" BY <1>1 DEF StockInv, RoomsExist
    <2>3. \A b \in Bookings : \A r \in booking'[b].rooms : unitStatus'[r.unit] # "absent"
      BY <1>2, <2>2 DEF StockInv, TypeOK
    <2> QED BY <1>2, <2>1, <2>3 DEF StockInv, TypeOK
  <1> QED BY <1>6, <1>7, <1>8, <1>9, <1>10, <1>11 DEF StockInv

-----------------------------------------------------------------------------
LEMMA StockStep ==
    ASSUME StockInv, [Next]_vars
    PROVE  StockInv'
  <1>1. CASE \E b \in Bookings :
               ChooseRooms(b) \/ ChooseMove(b) \/ Reopen(b) \/ Release(b) \/ EndParent(b) \/ RestoreParent(b)
    BY <1>1, ChooseKeeps, MoveKeeps, BookingKeeps
  <1>2. CASE \E a \in allocs : CommitRooms(a) \/ AbortRooms(a)
    <2>1. ASSUME NEW a \in allocs, AbortRooms(a) PROVE StockInv'
      <3>1. UNCHANGED <<unitType, unitStatus, booking, blocks, desk, loose>> /\ allocs' \subseteq allocs
        BY <2>1 DEF AbortRooms, inventory
      <3> QED BY <3>1, FewerKeeps
    <2> QED BY <1>2, <2>1, CommitKeeps
  <1>3. CASE \E k \in Blocks : CheckBlock(k) BY <1>3, CheckBlockKeeps
  <1>4. CASE \E x \in blocks : ReleaseBlock(x)
    <2>1. UNCHANGED <<unitType, unitStatus, booking, allocs, desk, loose>> /\ blocks' \subseteq blocks
      BY <1>4 DEF ReleaseBlock
    <2> QED BY <2>1, FewerKeeps
  <1>5. CASE \E d \in desk : CommitBlock(d) \/ CommitMove(d) BY <1>5, CommitBlockKeeps, CommitMoveKeeps
  <1>6. CASE AbortDesk
    <2>1. UNCHANGED <<unitType, unitStatus, booking, blocks, allocs, loose>> /\ desk' = {}
      BY <1>6 DEF AbortDesk, inventory
    <2> QED BY <2>1, FewerKeeps
  <1>7. CASE \E u \in Units : CreateUnit(u) \/ UpdateUnit(u) \/ DeleteUnit(u) BY <1>7, UnitKeeps
  <1>8. CASE UNCHANGED vars
    <2>1. UNCHANGED <<unitType, unitStatus, booking, blocks, allocs, desk, loose>> BY <1>8 DEF vars
    <2> QED BY <2>1, FewerKeeps
  <1> QED BY <1>1, <1>2, <1>3, <1>4, <1>5, <1>6, <1>7, <1>8 DEF Next

LEMMA StockInit == Init => StockInv
  <1> SUFFICES ASSUME Init PROVE StockInv OBVIOUS
  <1>1. NoBooking \in StayBookings /\ NoBooking.rooms = {} /\ NoBooking.stay # "active" BY DEF NoBooking, StayBookings
  <1>2. \A b \in Bookings : booking[b] = NoBooking BY DEF Init
  <1>3. TypeOK BY <1>1, FS_EmptySet DEF Init, TypeOK
  <1>4. \A u, n : Claims(u, n) = {} BY <1>1, <1>2 DEF Init, Claims, Holds, Active
  <1>5. AllocsLocked /\ RoomsExist /\ AllocsFree /\ DeskRaced /\ DeskFree /\ MovesWhole
    BY DEF Init, AllocsLocked, RoomsExist, AllocsFree, DeskRaced, DeskFree, MovesWhole
  <1>6. UnitsGivenOnce BY <1>4 DEF UnitsGivenOnce
  <1> QED BY <1>3, <1>5, <1>6 DEF StockInv

\* Everything below follows from the invariant, under InventoryAssumption: it
\* holds at first, and every way to book, block, move, reopen, cancel or
\* change units (stay_inventory_service.py) keeps it.
THEOREM StockInvariant == Spec => []StockInv
  BY StockInit, StockStep, PTL DEF Spec

\* Whatever the number of bookings, moves and blocks in flight, two claims on
\* one unit for one night, one of them a booking's, come from a step that no
\* lock covers: the locks of _allocate_room_units (stay_inventory_service.py:985)
\* keep bookings off each other's units.
THEOREM UnitsAreGivenOnce == Spec => []UnitsGivenOnce
  <1>1. StockInv => UnitsGivenOnce BY DEF StockInv
  <1> QED BY <1>1, StockInvariant, PTL

LEMMA OnlyMovesChangeNights ==
    ASSUME StockInv, [Next]_vars, NEW b \in Bookings, booking[b].stay # "none",
           booking'[b].nights # booking[b].nights
    PROVE  \E d \in desk \cap Moves : d.id = b /\ booking'[b].rooms = d.rooms
  <1>1. booking \in [Bookings -> StayBookings] BY DEF StockInv, TypeOK
  <1>2. CASE booking' = booking BY <1>2
  <1>3. ASSUME NEW c \in Bookings, NEW stay, NEW parent, SetBooking(c, stay, parent) PROVE FALSE
    BY <1>1, <1>3 DEF SetBooking, StayBookings
  <1>4. ASSUME NEW a \in allocs, CommitRooms(a) PROVE FALSE
    <2>1. a.id # b BY DEF StockInv, AllocsLocked, NoBooking
    <2> QED BY <1>1, <1>4, <2>1 DEF CommitRooms
  <1>5. ASSUME NEW d \in desk, CommitMove(d) PROVE d \in Moves /\ d.id = b /\ booking'[b].rooms = d.rooms
    BY <1>1, <1>5 DEF CommitMove, StayBookings
  <1>6. CASE \E c \in Bookings : Reopen(c) \/ Release(c) \/ EndParent(c) \/ RestoreParent(c)
    BY <1>3, <1>6 DEF Reopen, Release, EndParent, RestoreParent
  <1>7. CASE (\E c \in Bookings : ChooseRooms(c) \/ ChooseMove(c)) \/ (\E k \in Blocks : CheckBlock(k))
    BY <1>2, <1>7 DEF ChooseRooms, ChooseMove, CheckBlock, Start, inventory
  <1>8. CASE \E a \in allocs : CommitRooms(a) \/ AbortRooms(a)
    BY <1>2, <1>4, <1>8 DEF AbortRooms, inventory
  <1>9. CASE \E d \in desk : CommitBlock(d) \/ CommitMove(d)
    BY <1>2, <1>5, <1>9 DEF CommitBlock
  <1>10. CASE \/ \E x \in blocks : ReleaseBlock(x)
              \/ AbortDesk
              \/ \E u \in Units : CreateUnit(u) \/ UpdateUnit(u) \/ DeleteUnit(u)
              \/ UNCHANGED vars
    BY <1>2, <1>10 DEF ReleaseBlock, AbortDesk, inventory, CreateUnit, UpdateUnit, DeleteUnit, SetUnit, vars
  <1> QED BY <1>6, <1>7, <1>8, <1>9, <1>10 DEF Next

\* A booking whose nights change keeps as many rooms of each line as it had,
\* each in a unit of its own (reschedule_booking, stay_inventory_service.py:638-693).
THEOREM MovesKeepRooms == Spec => MovesAreComplete
  <1>1. ASSUME StockInv, [Next]_vars
        PROVE  \A b \in Bookings :
                 booking[b].stay # "none" /\ booking'[b].nights # booking[b].nights =>
                   /\ \A i \in Items : Cardinality({r \in booking'[b].rooms : r.item = i})
                                         = Cardinality({r \in booking[b].rooms : r.item = i})
                   /\ \A r, s \in booking'[b].rooms : r.unit = s.unit => r = s
    <2>1. SUFFICES ASSUME NEW b \in Bookings, booking[b].stay # "none", booking'[b].nights # booking[b].nights
          PROVE  /\ \A i \in Items : Cardinality({r \in booking'[b].rooms : r.item = i})
                                       = Cardinality({r \in booking[b].rooms : r.item = i})
                 /\ \A r, s \in booking'[b].rooms : r.unit = s.unit => r = s
      OBVIOUS
    <2>2. PICK d \in desk \cap Moves : d.id = b /\ booking'[b].rooms = d.rooms
      BY <1>1, <2>1, OnlyMovesChangeNights
    <2> QED BY <1>1, <2>2 DEF StockInv, MovesWhole, LinesOf
  <1>2. StockInv /\ [Next]_vars =>
          [\A b \in Bookings :
              booking[b].stay # "none" /\ booking'[b].nights # booking[b].nights =>
                /\ \A i \in Items : Cardinality({r \in booking'[b].rooms : r.item = i})
                                      = Cardinality({r \in booking[b].rooms : r.item = i})
                /\ \A r, s \in booking'[b].rooms : r.unit = s.unit => r = s]_vars
    BY <1>1
  <1> QED BY <1>2, StockInvariant, PTL DEF Spec, MovesAreComplete

-----------------------------------------------------------------------------
(* The search. *)

LEMMA MinIsLeast ==
    ASSUME NEW S \in SUBSET Nat, NEW x \in S
    PROVE  Min(S) \in S /\ Min(S) <= x
  <1> DEFINE Below(y) == {z \in S : z < y}
  <1>1. PICK T : T = {Below(y) : y \in S} OBVIOUS
  <1>2. T \subseteq FiniteSubsetsOf(S) /\ T # {}
    <2>1. ASSUME NEW y \in S PROVE IsFiniteSet(Below(y)) /\ Below(y) \subseteq S
      <3>1. y \in Nat OBVIOUS
      <3>2. Below(y) \in SUBSET Nat OBVIOUS
      <3>3. \A z \in Below(y) : z <= y
        <4>1. ASSUME NEW z \in S, z < y PROVE z <= y
          <5>1. z \in Nat OBVIOUS
          <5> QED BY <3>1, <4>1, <5>1
        <4> QED BY <4>1
      <3> HIDE DEF Below
      <3>4. IsFiniteSet(Below(y)) BY <3>1, <3>2, <3>3, FS_BoundedSetOfNaturals
      <3> QED BY <3>4 DEF Below
    <2> HIDE DEF Below
    <2> QED BY <1>1, <2>1 DEF FiniteSubsetsOf
  <1>3. PICK U \in T : \A V \in T : ~ (<<V, U>> \in StrictSubsetOrdering(S))
    BY <1>2, FS_StrictSubsetOrderingWellFounded, WFMin
  <1>4. PICK m \in S : U = Below(m) BY <1>1
  <1>5. \A y \in S : m <= y
    <2>1. SUFFICES ASSUME NEW y \in S, y < m PROVE FALSE OBVIOUS
    <2>2. Below(y) \in T /\ Below(y) \subseteq Below(m) /\ y \in Below(m) /\ y \notin Below(y)
      <3>1. Below(y) \in T BY <1>1
      <3>2. y \in Nat /\ m \in Nat OBVIOUS
      <3>3. ASSUME NEW z \in S, z < y PROVE z < m
        <4>1. z \in Nat OBVIOUS
        <4> QED BY <2>1, <3>2, <3>3, <4>1
      <3>4. Below(y) \subseteq Below(m) BY <3>3
      <3>5. y \in Below(m) /\ y \notin Below(y) BY <2>1, <3>2
      <3> QED BY <3>1, <3>4, <3>5
    <2>3. Below(y) \in SUBSET S /\ Below(m) \in SUBSET S OBVIOUS
    <2> HIDE DEF Below
    <2>4. <<Below(y), U>> \in StrictSubsetOrdering(S) BY <1>4, <2>2, <2>3 DEF StrictSubsetOrdering
    <2> QED BY <1>3, <2>2, <2>4
  <1> HIDE DEF Below
  <1> QED BY <1>5 DEF Min

\* Each booked unit of the type is a row of the bookings of the type.
LEMMA BookedUnits ==
    ASSUME TypeOK, NEW t, NEW n, NEW S \in SUBSET Units,
           \A b \in Bookings : Active(b) => \A r \in booking[b].rooms : unitType[r.unit] = ItemType[r.item],
           \A u \in S : unitType[u] = t /\ Booked(u, {n}, Bookings)
    PROVE  /\ IsFiniteSet(BookedRows(t, n)) /\ IsFiniteSet(S)
           /\ Cardinality(S) <= Cardinality(BookedRows(t, n))
  <1>1. IsFiniteSet(BookedRows(t, n))
    <2>1. Rooms \in SUBSET Rooms OBVIOUS
    <2>2. IsFiniteSet(Bookings \X Rooms) BY <2>1, RoomsFinite, InventoryAssumption, FS_Product
    <2>3. BookedRows(t, n) \in SUBSET (Bookings \X Rooms) BY DEF BookedRows
    <2> QED BY <2>2, <2>3, FS_Subset
  <1>2. \A u \in S : \E p \in BookedRows(t, n) : p[2].unit = u
    <2>1. SUFFICES ASSUME NEW u \in S PROVE \E p \in BookedRows(t, n) : p[2].unit = u OBVIOUS
    <2>2. PICK b \in Bookings : Holds(b, u, n) BY DEF Booked
    <2>3. PICK r \in booking[b].rooms : r.unit = u BY <2>2 DEF Holds
    <2>4. r \in Rooms BY DEF TypeOK, StayBookings
    <2>5. ItemType[r.item] = t BY <2>2, <2>3 DEF Holds
    <2>6. <<b, r>> \in BookedRows(t, n) BY <2>2, <2>4, <2>5 DEF BookedRows, Holds
    <2> QED BY <2>3, <2>6
  <1>3. PICK f : f = [u \in S |-> CHOOSE p \in BookedRows(t, n) : p[2].unit = u] OBVIOUS
  <1>4. \A u \in S : f[u] \in BookedRows(t, n) /\ f[u][2].unit = u BY <1>2, <1>3
  <1>5. f \in [S -> BookedRows(t, n)] /\ \A u, v \in S : f[u] = f[v] => u = v BY <1>3, <1>4
  <1>6. f \in Injection(S, BookedRows(t, n)) BY <1>5, Fun_IsInj
  <1> QED BY <1>1, <1>6, FS_Injection

LEMMA OfferIsFree ==
    ASSUME TypeOK, NEW t, NEW n,
           \A b \in Bookings : Active(b) => \A r \in booking[b].rooms : unitType[r.unit] = ItemType[r.item]
    PROVE  Offer(t, n) \in Nat /\ Offer(t, n) <= Cardinality(FreeUnits(t, {n}))
  <1> DEFINE usable == {u \in Units : unitType[u] = t /\ unitStatus[u] = "usable"}
             free == FreeUnits(t, {n})
             taken == {u \in usable : Booked(u, {n}, Bookings)}
             shut == {u \in UnitsOf(t) : Blocked(u, {n})}
  <1>1. IsFiniteSet(usable) /\ IsFiniteSet(free) /\ IsFiniteSet(taken) /\ IsFiniteSet(shut)
    <2>1. usable \in SUBSET Units /\ free \in SUBSET Units /\ taken \in SUBSET Units /\ shut \in SUBSET Units
      BY DEF FreeUnits, UnitsOf
    <2> HIDE DEF usable, free, taken, shut
    <2> QED BY <2>1, InventoryAssumption, FS_Subset
  <1>2. IsFiniteSet(BookedRows(t, n)) /\ Cardinality(taken) <= Cardinality(BookedRows(t, n))
    <2>1. taken \in SUBSET Units /\ \A u \in taken : unitType[u] = t /\ Booked(u, {n}, Bookings) OBVIOUS
    <2> HIDE DEF taken
    <2> QED BY <2>1, BookedUnits
  <1>3. usable \subseteq free \cup (taken \cup shut) BY DEF FreeUnits, Free, UnitsOf
  <1> PICK U, F, T, B : U = usable /\ F = free /\ T = taken /\ B = shut OBVIOUS
  <1>4. Offer(t, n) = LET x == Cardinality(BookedRows(t, n)) + Cardinality(B)
                      IN  IF x < Cardinality(U) THEN Cardinality(U) - x ELSE 0
    BY DEF Offer
  <1> HIDE DEF usable, free, taken, shut
  <1>5. /\ Cardinality(U) \in Nat /\ Cardinality(F) \in Nat /\ Cardinality(T) \in Nat /\ Cardinality(B) \in Nat
        /\ Cardinality(BookedRows(t, n)) \in Nat
    BY <1>1, <1>2, FS_CardinalityType
  <1>6. IsFiniteSet(T \cup B) /\ Cardinality(T \cup B) \in Nat /\ Cardinality(T \cup B) <= Cardinality(T) + Cardinality(B)
    <2>1. IsFiniteSet(T) /\ IsFiniteSet(B) BY <1>1
    <2>2. Cardinality(T \cap B) \in Nat BY <2>1, FS_Intersection, FS_CardinalityType
    <2>3. IsFiniteSet(T \cup B) /\ Cardinality(T \cup B) = Cardinality(T) + Cardinality(B) - Cardinality(T \cap B)
      BY <2>1, FS_Union
    <2>4. Cardinality(T \cup B) \in Nat BY <2>3, FS_CardinalityType
    <2> QED BY <1>5, <2>2, <2>3, <2>4
  <1>7. /\ IsFiniteSet(F \cup (T \cup B)) /\ Cardinality(F \cup (T \cup B)) \in Nat
        /\ Cardinality(F \cup (T \cup B)) <= Cardinality(F) + Cardinality(T \cup B)
    <2>1. PICK V : V = T \cup B OBVIOUS
    <2>2. IsFiniteSet(F) /\ IsFiniteSet(V) /\ Cardinality(V) \in Nat BY <1>1, <1>6, <2>1
    <2>3. Cardinality(F \cap V) \in Nat BY <2>2, FS_Intersection, FS_CardinalityType
    <2>4. IsFiniteSet(F \cup V) /\ Cardinality(F \cup V) = Cardinality(F) + Cardinality(V) - Cardinality(F \cap V)
      BY <2>2, FS_Union
    <2>5. Cardinality(F \cup V) \in Nat BY <2>4, FS_CardinalityType
    <2> QED BY <1>5, <2>1, <2>2, <2>3, <2>4, <2>5
  <1>8. Cardinality(U) <= Cardinality(F \cup (T \cup B))
    <2>1. U \in SUBSET (F \cup (T \cup B)) BY <1>3
    <2> QED BY <1>7, <2>1, FS_Subset
  <1>9. Cardinality(T) <= Cardinality(BookedRows(t, n)) BY <1>2
  <1>10. Offer(t, n) \in Nat /\ Offer(t, n) <= Cardinality(F) BY <1>4, <1>5, <1>6, <1>7, <1>8, <1>9
  <1> QED BY <1>10 DEF free

\* The nightly counts that a search adds up (stay_inventory_service.py:1135-1242)
\* never promise more rooms of a type than are free on any night of the stay,
\* as long as no unit was retyped under a booking, for any number of units.
THEOREM OfferedAreFree == Spec => []OfferedRoomsAreFree
  <1>1. ASSUME TypeOK PROVE OfferedRoomsAreFree
    <2>1. SUFFICES ASSUME \A b \in Bookings : Active(b) => \A r \in booking[b].rooms : unitType[r.unit] = ItemType[r.item],
                          NEW t \in RoomTypes, NEW nights \in Stays, NEW n \in nights
          PROVE  AvailableCount(t, nights) <= Cardinality(FreeUnits(t, {n}))
      BY DEF OfferedRoomsAreFree
    <2>2. \A m : Offer(t, m) \in Nat /\ Offer(t, m) <= Cardinality(FreeUnits(t, {m})) BY <1>1, <2>1, OfferIsFree
    <2>3. PICK S : S = {Offer(t, m) : m \in nights} OBVIOUS
    <2>4. S \in SUBSET Nat /\ Offer(t, n) \in S BY <2>2, <2>3
    <2>5. Min(S) <= Offer(t, n) /\ AvailableCount(t, nights) = Min(S) BY <2>3, <2>4, MinIsLeast DEF AvailableCount
    <2>6. Min(S) \in Nat BY <2>4, MinIsLeast
    <2>7. FreeUnits(t, {n}) \in SUBSET Units BY DEF FreeUnits
    <2>8. Cardinality(FreeUnits(t, {n})) \in Nat BY <2>7, InventoryAssumption, FS_Subset, FS_CardinalityType
    <2> QED BY <2>2, <2>4, <2>5, <2>6, <2>8
  <1>2. StockInv => OfferedRoomsAreFree BY <1>1 DEF StockInv
  <1> QED BY <1>2, StockInvariant, PTL

=============================================================================
