------------------------------- MODULE Catalogue -------------------------------
(***************************************************************************)
(* The two records of a place to stay: the vendor's property with its room *)
(* types (stay_properties, stay_room_types) and the listing with its       *)
(* variants that the public sees, which every save of the property         *)
(* overwrites (app/repositories/stay_repo.py), which administrators decide *)
(* on (app/services/admin/dashboard_service.py) and which routes of its    *)
(* own change (app/repositories/listing_repo.py, app/api/v1/listing.py).   *)
(*                                                                         *)
(* A row is what the transactions have committed; a request holds what it  *)
(* has loaded and writes the columns that differ from that.  Photographs,  *)
(* amenities, prices, names and destinations, which the same statements    *)
(* copy, and who owns a property are left out, and so is the inactive      *)
(* fallback variant, which is never offered.                               *)
(***************************************************************************)
EXTENDS Naturals, FiniteSets

CONSTANTS
    Properties,
    Listings,
    RoomTypes,
    Asked,      \* the statuses that vendors' payloads name
    Decisions,  \* the statuses that administrators give
    Requests,   \* requests that may run at the same time
    None,       \* nothing, or a row that has not been made
    Gone,       \* a listing that was deleted
    Idle,
    MaxServed   \* bound on the requests that are served

VARIABLES
    property,
    listing,
    request,
    apart,      \* history: listings whose last change did not look at the property, or had been overtaken
    served      \* history: how many requests have begun

vars == <<property, listing, request, apart, served>>

ListingStatus == {"DRAFT", "SUBMITTED", "PUBLISHED", "REJECTED", "ARCHIVED"}
Lower == [DRAFT |-> "draft", SUBMITTED |-> "submitted", APPROVED |-> "approved",
          REJECTED |-> "rejected", ARCHIVED |-> "archived",
          draft |-> "draft", submitted |-> "submitted", approved |-> "approved",
          published |-> "published", rejected |-> "rejected", archived |-> "archived"]
PropertyStatus == DOMAIN Lower

ASSUME StatusesAssumption == Asked \subseteq PropertyStatus /\ Decisions \subseteq ListingStatus

PropertyRow == [listing: Listings \cup {None}, status: PropertyStatus, rooms: SUBSET RoomTypes]
ListingRow == [status: ListingStatus, active: BOOLEAN, variants: SUBSET RoomTypes]

\* seen: the property as it was loaded; asked: the status that a vendor's payload names; new: the
\* property as it will be saved; shown: the listing as it was loaded; locks: the property's row is written
\* already; overtaken: another request has committed a change of what this one has loaded
Request == [stage: {"loaded", "saving", "deciding", "adopting"}, admin: BOOLEAN,
            p: Properties \cup {None}, seen: PropertyRow \cup {None},
            asked: PropertyStatus \cup {None}, new: PropertyRow \cup {None},
            l: Listings \cup {None}, shown: ListingRow \cup {None}, locks: BOOLEAN, overtaken: BOOLEAN]

\* Nothing, a deleted listing and an idle request are told from rows and from their keys.
ASSUME MarksAssumption ==
    /\ None \notin Properties /\ None \notin Listings
    /\ None \notin PropertyRow /\ None \notin ListingRow
    /\ Gone \notin ListingRow /\ Gone # None
    /\ Idle \notin Request
    /\ MaxServed \in Nat

Init ==
    /\ property = [p \in Properties |-> None]
    /\ listing = [l \in Listings |-> None]
    /\ request = [c \in Requests |-> Idle]
    /\ apart = {}
    /\ served = 0

Listed(l) == listing[l] \notin {None, Gone}

Approved(status) == Lower[status] \in {"approved", "published"}

\* What the public routes show: they ask for both.
Public(l) == listing[l].status = "PUBLISHED" /\ listing[l].active

Of(l) == {p \in Properties : property[p] # None /\ property[p].listing = l}

-----------------------------------------------------------------------------
(* What a save makes of a status, and of the listing *)

\* Faulty: a vendor's save takes the status it names.
TakenStatus(previous, asked, admin, whole) == IF admin THEN "approved" ELSE asked

\* An approved property stays approved unless draft is asked for, but an administrator's patch may
\* ask for anything (whole: the property is replaced, not patched).
SavedStatus(previous, asked, admin, whole) ==
    IF Approved(previous) /\ Lower[asked] # "draft" /\ (whole \/ ~admin) THEN Lower[previous]
    ELSE IF admin /\ Lower[asked] \in {"submitted", "approved", "published"} THEN "approved"
    ELSE asked

status_map ==
    [draft |-> "DRAFT", submitted |-> "SUBMITTED", approved |-> "PUBLISHED", published |-> "PUBLISHED",
     rejected |-> "REJECTED", archived |-> "ARCHIVED"]

\* The room types that the session has loaded: rows that the save adds are not among them, and
\* rows that it deletes are.  Without any the variants stay as they are.
ProjectedVariants(rooms, old) == IF rooms = {} THEN old ELSE rooms

\* _ensure_listing_projection
Projected(status, rooms, old) ==
    [status |-> status_map[Lower[status]],
     active |-> status_map[Lower[status]] = "PUBLISHED",
     variants |-> ProjectedVariants(rooms, old.variants)]

NewListing == [status |-> "DRAFT", active |-> TRUE, variants |-> {}]

-----------------------------------------------------------------------------
(* Transactions *)

\* Only the columns that differ from what was loaded are written; room types and variants are rows
\* of their own.
Merged(now, seen, new) ==
    [col \in DOMAIN now |->
        IF col \in {"rooms", "variants"} THEN (now[col] \ (seen[col] \ new[col])) \cup (new[col] \ seen[col])
        ELSE IF new[col] = seen[col] THEN now[col] ELSE new[col]]

Unlocked(c, ps) == \A x \in Requests \ {c} : request[x] # Idle /\ request[x].locks => request[x].p \notin ps

\* Request c goes on with w; the others that have loaded one of these rows are overtaken.
Goes(c, w, ps, ls) ==
    request' = [x \in Requests |->
        IF x = c THEN w
        ELSE IF request[x] = Idle \/ (request[x].p \notin ps /\ request[x].l \notin ls) THEN request[x]
        ELSE [request[x] EXCEPT !.overtaken = TRUE]]

Fails(c) == Goes(c, Idle, {}, {}) /\ UNCHANGED <<property, listing, apart>>

Work == [stage |-> "loaded", admin |-> FALSE, p |-> None, seen |-> None, asked |-> None, new |-> None,
         l |-> None, shown |-> None, locks |-> FALSE, overtaken |-> FALSE]

-----------------------------------------------------------------------------
(* The vendor's routes *)

\* create_for_vendor: listing and property in one transaction
CreateProperty(p, l, asked, rooms) ==
    /\ property[p] = None /\ listing[l] = None
    /\ rooms # {}
    /\ property' = [property EXCEPT ![p] = [listing |-> l, status |-> asked, rooms |-> rooms]]
    /\ listing' = [listing EXCEPT ![l] = Projected(asked, {}, NewListing)]
    /\ UNCHANGED <<request, apart>>

\* get_by_id, get_for_vendor: the first query of a read and of a save
OpenProperty(c, p, admin) ==
    /\ request[c] = Idle /\ property[p] # None
    /\ Goes(c, [Work EXCEPT !.admin = admin, !.p = p, !.seen = property[p]], {}, {})
    /\ UNCHANGED <<property, listing, apart>>

Has(c, stage) == request[c] # Idle /\ request[c].stage = stage

\* A property that was found without a listing is given one, and read again.
ProjectMissing(c, l) ==
    /\ Has(c, "loaded")
    /\ LET w == request[c]
           row == [property[w.p] EXCEPT !.listing = l]
       IN  /\ w.seen.listing = None
           /\ listing[l] = None
           /\ Unlocked(c, {w.p})
           /\ property' = [property EXCEPT ![w.p] = row]
           /\ listing' = [listing EXCEPT ![l] = Projected(w.seen.status, w.seen.rooms, NewListing)]
           /\ apart' = IF w.overtaken THEN apart \cup {l} ELSE apart
           /\ Goes(c, [w EXCEPT !.seen = row, !.overtaken = FALSE], {w.p}, {})

\* A read is over; a payload that is refused ends here too.
CloseProperty(c) ==
    /\ Has(c, "loaded")
    /\ request[c].seen.listing # None
    /\ Fails(c)

\* update_property and patch_property up to the last flush of the children; None stands for a
\* field that a patch does not name.  The row is locked if one of its columns changes.
WriteProperty(c, asked, rooms, whole, other) ==
    /\ Has(c, "loaded")
    /\ whole => asked # None /\ rooms \notin {None, {}}
    /\ LET w == request[c]
           new == [w.seen EXCEPT
                     !.status = IF asked = None THEN @ ELSE SavedStatus(@, asked, w.admin, whole),
                     !.rooms = IF rooms = None THEN @ ELSE rooms]
           locks == other \/ new.status # w.seen.status
       IN  /\ w.seen.listing # None
           /\ locks => Unlocked(c, {w.p})
           /\ Goes(c, [w EXCEPT !.stage = "saving", !.asked = IF w.admin THEN None ELSE asked, !.new = new,
                                !.locks = locks, !.l = w.seen.listing, !.shown = IF Listed(w.seen.listing) THEN listing[w.seen.listing] ELSE None], {}, {})
           /\ UNCHANGED <<property, listing, apart>>

\* ... and their commit, with the projection onto the listing that was loaded, or onto a new one
\* when it was gone.  One that goes in between, or a variant that another save has added, fails it.
SaveProperty(c, l) ==
    /\ Has(c, "saving")
    /\ LET w == request[c]
           old == IF w.shown = None THEN NewListing ELSE w.shown
           now == IF w.shown = None THEN NewListing ELSE listing[l]
           new == Projected(w.new.status, w.seen.rooms, old)
       IN  /\ IF w.shown = None THEN listing[l] = None ELSE l = w.l
           /\ Unlocked(c, {w.p})
           /\ IF now = Gone THEN Fails(c)
              ELSE IF (new.variants \ old.variants) \cap now.variants # {} THEN Fails(c)
              ELSE /\ property' = [property EXCEPT ![w.p] = Merged(@, w.seen, [w.new EXCEPT !.listing = l])]
                   /\ listing' = [listing EXCEPT ![l] = Merged(now, old, new)]
                   /\ apart' = IF w.overtaken THEN apart \cup ({l, property'[w.p].listing} \ {None}) ELSE apart \ {l}
                   /\ Goes(c, Idle, {w.p}, {l})

\* StayInventoryService: room types change without a projection.
ChangeRoomTypes(p, rooms) ==
    /\ property[p] # None
    /\ \E r \in RoomTypes : rooms \in {property[p].rooms \cup {r}, property[p].rooms \ {r}} \ {property[p].rooms}
    /\ property' = [property EXCEPT ![p].rooms = rooms]
    /\ UNCHANGED <<listing, request, apart>>

\* ensure_property_access, get_by_id: the id of a hotel listing that no property has
OpenOrphan(c, l) ==
    /\ request[c] = Idle /\ Listed(l) /\ Of(l) = {}
    /\ Goes(c, [Work EXCEPT !.stage = "adopting", !.l = l, !.shown = listing[l]], {}, {})
    /\ UNCHANGED <<property, listing, apart>>

\* create_from_listing: a property is made of it.
CreateFromListing(c, p, rooms) ==
    /\ Has(c, "adopting")
    /\ LET w == request[c]
       IN  /\ property[p] = None
           /\ IF w.shown.variants = {} THEN Cardinality(rooms) = 1 ELSE rooms = w.shown.variants
           /\ IF ~Listed(w.l) THEN Fails(c)
              ELSE /\ property' = [property EXCEPT ![p] =
                         [listing |-> w.l, status |-> IF w.shown.active THEN "published" ELSE "draft", rooms |-> rooms]]
                   /\ apart' = apart \cup {w.l}
                   /\ Goes(c, Idle, {}, {w.l})
                   /\ UNCHANGED listing

-----------------------------------------------------------------------------
(* The office *)

OpenListing(c, l) ==
    /\ request[c] = Idle /\ Listed(l)
    /\ Goes(c, [Work EXCEPT !.stage = "deciding", !.l = l, !.shown = listing[l]], {}, {})
    /\ UNCHANGED <<property, listing, apart>>

\* Faulty: the property is not told.
ToldListing(l, status) == property

ToldProperties(l, status) ==
    [p \in Properties |->
        IF p \notin Of(l) THEN property[p]
        ELSE [property[p] EXCEPT !.status = IF status = "PUBLISHED" THEN "APPROVED" ELSE status]]

\* update_listing_status
DecideListing(c, status) ==
    /\ Has(c, "deciding")
    /\ LET w == request[c]
           new == [w.shown EXCEPT !.status = status, !.active = (status = "PUBLISHED")]
       IN  /\ Unlocked(c, Of(w.l))
           /\ IF ~Listed(w.l) THEN Fails(c)
              ELSE /\ property' = ToldProperties(w.l, status)
                   /\ listing' = [listing EXCEPT ![w.l] = Merged(@, w.shown, new)]
                   /\ apart' = IF w.overtaken THEN apart \cup {w.l} ELSE apart \ {w.l}
                   /\ Goes(c, Idle, Of(w.l), {w.l})

Unlisted(l) == [p \in Properties |-> IF p \in Of(l) THEN [property[p] EXCEPT !.listing = None] ELSE property[p]]

\* delete_listing: its property is left without one.
DeleteListing(l) ==
    /\ Listed(l)
    /\ Unlocked(None, Of(l))
    /\ property' = Unlisted(l)
    /\ listing' = [listing EXCEPT ![l] = Gone]
    /\ apart' = apart \ {l}
    /\ Goes(None, Idle, Of(l), {l})

\* The routes of listings alone: a listing is created, or changed.
CreateListing(l, active, variants) ==
    /\ listing[l] = None
    /\ listing' = [listing EXCEPT ![l] = [status |-> "DRAFT", active |-> active, variants |-> variants]]
    /\ apart' = apart \cup {l}
    /\ UNCHANGED <<property, request>>

UpdateListing(l, status, active, variants) ==
    /\ Listed(l)
    /\ listing' = [listing EXCEPT ![l] = [status |-> status, active |-> active, variants |-> variants]]
    /\ listing' # listing
    /\ apart' = apart \cup {l}
    /\ Goes(None, Idle, {}, {l})
    /\ UNCHANGED property

\* archive_listing and draft_listing, publish_listing: the status stays as it is.
ActivateListing(l, active) ==
    /\ Listed(l)
    /\ UpdateListing(l, listing[l].status, active, listing[l].variants)

-----------------------------------------------------------------------------
Counts == served < MaxServed /\ served' = served + 1

Next ==
    \/ /\ Counts
       /\ \/ \E p \in Properties, l \in Listings, asked \in Asked, rooms \in SUBSET RoomTypes :
                CreateProperty(p, l, asked, rooms)
          \/ \E p \in Properties, rooms \in SUBSET RoomTypes : ChangeRoomTypes(p, rooms)
          \/ \E c \in Requests, p \in Properties, admin \in BOOLEAN : OpenProperty(c, p, admin)
          \/ \E c \in Requests, l \in Listings : OpenOrphan(c, l) \/ OpenListing(c, l)
          \/ \E l \in Listings :
                \/ DeleteListing(l)
                \/ \E active \in BOOLEAN, variants \in SUBSET RoomTypes :
                      \/ CreateListing(l, active, variants)
                      \/ ActivateListing(l, active)
                      \/ \E status \in Decisions : UpdateListing(l, status, active, variants)
    \/ /\ UNCHANGED served
       /\ \E c \in Requests :
             \/ CloseProperty(c)
             \/ \E l \in Listings : ProjectMissing(c, l) \/ SaveProperty(c, l)
             \/ \E asked \in Asked \cup {None}, rooms \in (SUBSET RoomTypes) \cup {None}, whole, other \in BOOLEAN :
                   WriteProperty(c, asked, rooms, whole, other)
             \/ \E p \in Properties, rooms \in SUBSET RoomTypes : CreateFromListing(c, p, rooms)
             \/ \E status \in Decisions : DecideListing(c, status)

Spec == Init /\ [][Next]_vars

-----------------------------------------------------------------------------
\* The rows are well formed, and no property names a listing that is gone.
TypeOK ==
    /\ property \in [Properties -> PropertyRow \cup {None}]
    /\ listing \in [Listings -> ListingRow \cup {None, Gone}]
    /\ request \in [Requests -> Request \cup {Idle}]
    /\ \A p \in Properties :
         property[p] # None /\ property[p].listing # None => Listed(property[p].listing)
    /\ apart \subseteq Listings /\ served \in 0 .. MaxServed

\* The status that the vendor and the office see of a property and the one that decides whether the
\* public sees its listing agree, however saves and decisions interleave, unless a route of
\* listings alone made the last change or a request that another had overtaken did.
StatusesAgree ==
    \A p \in Properties :
        property[p] # None /\ property[p].listing # None =>
            LET l == property[p].listing
            IN  l \notin apart /\ Of(l) = {p} =>
                    /\ listing[l].status = status_map[Lower[property[p].status]]
                    /\ Public(l) <=> Approved(property[p].status)

\* A vendor's save approves a property only if its payload names an approved status, and takes an
\* approval away only if it names draft; what it overwrites beside that is a decision that came
\* after it had loaded the property, and then with the approval, or the want of one, that it found.
ApprovalsAreNamed ==
    [][\A p \in Properties :
         property[p] # None /\ (Approved(property'[p].status) # Approved(property[p].status)) =>
             \E c \in Requests :
                 LET w == request[c]
                 IN  /\ w # Idle /\ request'[c] = Idle
                     /\ \/ w.stage = "deciding"
                        \/ /\ w.stage = "saving" /\ w.p = p
                           /\ \/ w.admin
                              \/ /\ w.overtaken
                                 /\ Approved(w.seen.status) = Approved(property'[p].status)
                              \/ /\ w.asked # None
                                 /\ IF Approved(property'[p].status) THEN Approved(w.asked)
                                    ELSE Lower[w.asked] = "draft"]_vars

-----------------------------------------------------------------------------
(* What the comments say, and the code does not keep.                       *)


\* A save with room types leaves no variant on the listing but those of its room types: "When real
\* room types exist, prune any obsolete variants" (stay_repo.py:742).
ObsoleteVariantsPruned ==
    [][\A c \in Requests :
         Has(c, "saving") /\ listing' # listing /\ request'[c] = Idle /\ request[c].new.rooms # {} =>
             \A l \in Listings : listing'[l] # listing[l] => listing'[l].variants \subseteq request[c].new.rooms]_vars

\* "Admin updates for active listings also ensure approved status" (stay_repo.py:113): that a vendor's
\* save approves nothing.
VendorsApproveNothing ==
    [][\A c \in Requests :
         Has(c, "saving") /\ ~request[c].admin /\ request'[c] = Idle =>
             \A p \in Properties : property[p] # None /\ Approved(property'[p].status) => Approved(property[p].status)]_vars
=============================================================================
