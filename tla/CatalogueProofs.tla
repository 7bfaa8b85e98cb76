-------------------------- MODULE CatalogueProofs ---------------------------
(***************************************************************************)
(* Theorems about the catalogue: Catalogue, for any properties, listings,  *)
(* room types, statuses and requests, and ListingMedia (M), for any photos *)
(* and requests.                                                           *)
(*                                                                         *)
(* The two statuses of a place agree because a request that has not been   *)
(* overtaken still has the rows that it loaded (Fresh), and because two    *)
(* properties that share a listing stay with it: every request about one   *)
(* of them has seen it there (SharersStay), so that none of its saves      *)
(* leaves the other as the only one.                                       *)
(***************************************************************************)
EXTENDS Catalogue, TLAPS

\* What a request holds at each stage: rows that were there when it loaded them, and are still,
\* or are marked as gone.
Knows(w) ==
    w # Idle =>
        /\ w.stage \in {"loaded", "saving"} =>
             /\ w.p \in Properties /\ property[w.p] # None
             /\ w.seen \in PropertyRow
             /\ w.seen.listing # None => listing[w.seen.listing] # None
        /\ w.stage = "loaded" => w.l = None
        /\ w.stage = "saving" =>
             /\ w.new \in PropertyRow
             /\ w.new.listing = w.seen.listing /\ w.l = w.seen.listing /\ w.l # None
             /\ w.shown # None => w.shown \in ListingRow
             /\ w.shown = None => listing[w.l] = Gone
        /\ w.stage \in {"deciding", "adopting"} =>
             /\ w.p = None /\ w.l \in Listings /\ w.shown \in ListingRow
             /\ listing[w.l] # None

SameListing(l, row) == Listed(l) /\ listing[l].status = row.status /\ listing[l].active = row.active

\* What a request that was not overtaken has loaded is what the rows say.
Fresh(w) ==
    w # Idle /\ ~ w.overtaken =>
        /\ w.stage \in {"loaded", "saving"} =>
             /\ property[w.p].listing = w.seen.listing
             /\ property[w.p].status = w.seen.status
        /\ w.stage = "saving" => w.shown # None /\ SameListing(w.l, w.shown)
        /\ w.stage = "deciding" => SameListing(w.l, w.shown)

RequestsKnow == \A c \in Requests : Knows(request[c]) /\ Fresh(request[c])

Adopting(l) == \E c \in Requests : request[c] # Idle /\ request[c].stage = "adopting" /\ request[c].l = l

\* A listing that two properties name, or that one more may come to name.
Shared(l) == Adopting(l) \/ \E p, q \in Of(l) : p # q

\* A property that shares its listing keeps it: every request about it has seen it there.
SharersStay ==
    \A c \in Requests :
        request[c] # Idle /\ request[c].p # None =>
            \A l \in Listings :
                request[c].p \in Of(l) /\ Shared(l) => request[c].seen.listing = l

\* A vendor's save changes an approval that it loaded only as its payload names.
VendorSave(w) ==
    w # Idle /\ w.stage = "saving" /\ ~ w.admin =>
        \/ Approved(w.new.status) = Approved(w.seen.status)
        \/ /\ w.asked # None
           /\ IF Approved(w.new.status) THEN Approved(w.asked) ELSE Lower[w.asked] = "draft"

VendorSaves == \A c \in Requests : VendorSave(request[c])

CatalogueInv == TypeOK /\ RequestsKnow /\ SharersStay /\ StatusesAgree

-----------------------------------------------------------------------------
(* What the helpers return. *)

\* The tables of statuses, column by column.
LEMMA StatusTables ==
    /\ PropertyStatus = {"DRAFT", "SUBMITTED", "APPROVED", "REJECTED", "ARCHIVED",
                         "draft", "submitted", "approved", "published", "rejected", "archived"}
    /\ Lower["DRAFT"] = "draft" /\ Lower["SUBMITTED"] = "submitted" /\ Lower["APPROVED"] = "approved"
    /\ Lower["REJECTED"] = "rejected" /\ Lower["ARCHIVED"] = "archived"
    /\ \A s \in {"draft", "submitted", "approved", "published", "rejected", "archived"} : Lower[s] = s
BY DEF PropertyStatus, Lower

LEMMA LowerType ==
    ASSUME NEW s \in PropertyStatus
    PROVE  /\ Lower[s] \in {"draft", "submitted", "approved", "published", "rejected", "archived"}
           /\ Lower[s] \in PropertyStatus /\ Lower[Lower[s]] = Lower[s]
           /\ status_map[Lower[s]] \in ListingStatus
           /\ status_map[Lower[s]] = "PUBLISHED" <=> Approved(s)
           /\ Approved(s) \in BOOLEAN
BY StatusTables DEF status_map, ListingStatus, Approved

\* What the office decides is told to the property in its own words.
LEMMA ToldStatus ==
    ASSUME NEW status \in ListingStatus
    PROVE  LET told == IF status = "PUBLISHED" THEN "APPROVED" ELSE status
           IN  told \in PropertyStatus /\ status_map[Lower[told]] = status
BY StatusTables DEF status_map, ListingStatus

LEMMA SavedStatusType ==
    ASSUME NEW previous \in PropertyStatus, NEW asked \in PropertyStatus,
           NEW admin \in BOOLEAN, NEW whole \in BOOLEAN
    PROVE  /\ SavedStatus(previous, asked, admin, whole) \in PropertyStatus
           /\ ~ admin =>
                LET new == SavedStatus(previous, asked, admin, whole)
                IN  \/ Approved(new) = Approved(previous)
                    \/ IF Approved(new) THEN Approved(asked) ELSE Lower[asked] = "draft"
BY LowerType, StatusTables DEF SavedStatus, Approved

\* A save of a property writes the columns it changed.
LEMMA MergedProperty ==
    ASSUME NEW now \in PropertyRow, NEW seen \in PropertyRow, NEW new \in PropertyRow
    PROVE  /\ Merged(now, seen, new) \in PropertyRow
           /\ Merged(now, seen, new).status = IF new.status = seen.status THEN now.status ELSE new.status
           /\ Merged(now, seen, new).listing = IF new.listing = seen.listing THEN now.listing ELSE new.listing
<1>1. DOMAIN now = {"listing", "status", "rooms"} BY DEF PropertyRow
<1> DEFINE m == Merged(now, seen, new)
<1>a. \A col \in {"status", "listing"} : m[col] = IF new[col] = seen[col] THEN now[col] ELSE new[col]
  BY <1>1 DEF Merged
<1>b. m["rooms"] = (now.rooms \ (seen.rooms \ new.rooms)) \cup (new.rooms \ seen.rooms)
  BY <1>1 DEF Merged
<1>c. m = [col \in {"listing", "status", "rooms"} |-> m[col]]
  BY <1>1 DEF Merged
<1> HIDE DEF m
<1>d. m = [listing |-> m["listing"], status |-> m["status"], rooms |-> m["rooms"]]
  BY <1>c
<1>2. m.status \in PropertyStatus /\ m.listing \in Listings \cup {None} /\ m.rooms \in SUBSET RoomTypes
  BY <1>a, <1>b DEF PropertyRow
<1>3. m \in PropertyRow BY <1>2, <1>d DEF PropertyRow
<1>4. QED BY <1>3, <1>a DEF m

LEMMA MergedListing ==
    ASSUME NEW now \in ListingRow, NEW seen \in ListingRow, NEW new \in ListingRow
    PROVE  /\ Merged(now, seen, new) \in ListingRow
           /\ Merged(now, seen, new).status = IF new.status = seen.status THEN now.status ELSE new.status
           /\ Merged(now, seen, new).active = IF new.active = seen.active THEN now.active ELSE new.active
<1>1. DOMAIN now = {"status", "active", "variants"} BY DEF ListingRow
<1> DEFINE m == Merged(now, seen, new)
<1>a. \A col \in {"status", "active"} : m[col] = IF new[col] = seen[col] THEN now[col] ELSE new[col]
  BY <1>1 DEF Merged
<1>b. m["variants"] = (now.variants \ (seen.variants \ new.variants)) \cup (new.variants \ seen.variants)
  BY <1>1 DEF Merged
<1>c. m = [col \in {"status", "active", "variants"} |-> m[col]]
  BY <1>1 DEF Merged
<1> HIDE DEF m
<1>d. m = [status |-> m["status"], active |-> m["active"], variants |-> m["variants"]]
  BY <1>c
<1>2. m.status \in ListingStatus /\ m.active \in BOOLEAN /\ m.variants \in SUBSET RoomTypes
  BY <1>a, <1>b DEF ListingRow
<1>3. m \in ListingRow BY <1>2, <1>d DEF ListingRow
<1>4. QED BY <1>3, <1>a DEF m

LEMMA NewListingType == NewListing \in ListingRow
BY DEF NewListing, ListingRow, ListingStatus

LEMMA ProjectedType ==
    ASSUME NEW status \in PropertyStatus, NEW rooms \in SUBSET RoomTypes, NEW old \in ListingRow
    PROVE  /\ Projected(status, rooms, old) \in ListingRow
           /\ Projected(status, rooms, old).status = status_map[Lower[status]]
           /\ Projected(status, rooms, old).active <=> Approved(status)
<1>1. old.variants \in SUBSET RoomTypes BY DEF ListingRow
<1>3. ProjectedVariants(rooms, old.variants) \in SUBSET RoomTypes BY <1>1 DEF ProjectedVariants
<1>4. QED BY <1>3, LowerType DEF Projected, ListingRow

RowsOK ==
    /\ property \in [Properties -> PropertyRow \cup {None}]
    /\ listing \in [Listings -> ListingRow \cup {None, Gone}]
    /\ request \in [Requests -> Request \cup {Idle}]
    /\ \A p \in Properties :
         property[p] # None /\ property[p].listing # None => Listed(property[p].listing)
    /\ apart \subseteq Listings

\* The requests but those of cs are the same, or have been overtaken by a change of ps or ls.
OthersGoOn(cs, ps, ls) ==
    \A x \in Requests \ cs :
        /\ request'[x] = Idle <=> request[x] = Idle
        /\ request[x] # Idle =>
             /\ request[x] \in Request /\ request'[x] \in Request
             /\ request'[x].stage = request[x].stage /\ request'[x].admin = request[x].admin
             /\ request'[x].p = request[x].p /\ request'[x].l = request[x].l
             /\ request'[x].seen = request[x].seen /\ request'[x].new = request[x].new
             /\ request'[x].shown = request[x].shown
             /\ request'[x].overtaken \in BOOLEAN
             /\ ~ request'[x].overtaken =>
                  ~ request[x].overtaken /\ request[x].p \notin ps /\ request[x].l \notin ls

\* What Goes does to the requests: c goes on with w, and the others are the same but for the
\* mark that they have been overtaken.
LEMMA Going ==
    ASSUME TypeOK, NEW c, NEW w \in Request \cup {Idle}, NEW ps, NEW ls, Goes(c, w, ps, ls)
    PROVE  /\ request' \in [Requests -> Request \cup {Idle}]
           /\ c \in Requests => request'[c] = w
           /\ OthersGoOn({c}, ps, ls)
<1>1. request \in [Requests -> Request \cup {Idle}] BY DEF TypeOK
<1>2. ASSUME NEW r \in Request
      PROVE  /\ [r EXCEPT !.overtaken = TRUE] \in Request
             /\ [r EXCEPT !.overtaken = TRUE].stage = r.stage
             /\ [r EXCEPT !.overtaken = TRUE].admin = r.admin
             /\ [r EXCEPT !.overtaken = TRUE].p = r.p
             /\ [r EXCEPT !.overtaken = TRUE].l = r.l
             /\ [r EXCEPT !.overtaken = TRUE].seen = r.seen
             /\ [r EXCEPT !.overtaken = TRUE].new = r.new
             /\ [r EXCEPT !.overtaken = TRUE].shown = r.shown
             /\ [r EXCEPT !.overtaken = TRUE].overtaken = TRUE
             /\ r.overtaken \in BOOLEAN
  BY <1>2 DEF Request
<1>3. \A x \in Requests : request'[x] =
        IF x = c THEN w
        ELSE IF request[x] = Idle \/ (request[x].p \notin ps /\ request[x].l \notin ls) THEN request[x]
        ELSE [request[x] EXCEPT !.overtaken = TRUE]
  BY DEF Goes
<1>4. ASSUME NEW x \in Requests, x # c
      PROVE  /\ request'[x] \in Request \cup {Idle}
             /\ request'[x] = Idle <=> request[x] = Idle
             /\ request[x] # Idle =>
                     /\ request[x] \in Request /\ request'[x] \in Request
                     /\ request'[x].stage = request[x].stage /\ request'[x].admin = request[x].admin
                     /\ request'[x].p = request[x].p /\ request'[x].l = request[x].l
                     /\ request'[x].seen = request[x].seen /\ request'[x].new = request[x].new
                     /\ request'[x].shown = request[x].shown
                     /\ request'[x].overtaken \in BOOLEAN
                     /\ ~ request'[x].overtaken =>
                          ~ request[x].overtaken /\ request[x].p \notin ps /\ request[x].l \notin ls
  <2>1. CASE request[x] = Idle BY <1>3, <1>4, <2>1
  <2>2. CASE request[x] # Idle
    <3>1. request[x] \in Request BY <1>1, <2>2
    <3>2. CASE request[x].p \notin ps /\ request[x].l \notin ls
      <4>1. request'[x] = request[x] BY <1>3, <1>4, <3>2
      <4>2. QED BY <1>2, <2>2, <3>1, <3>2, <4>1
    <3>3. CASE ~ (request[x].p \notin ps /\ request[x].l \notin ls)
      <4>1. request'[x] = [request[x] EXCEPT !.overtaken = TRUE] BY <1>3, <1>4, <2>2, <3>3
      <4>2. [request[x] EXCEPT !.overtaken = TRUE] # Idle BY <1>2, <3>1, MarksAssumption
      <4>3. QED BY <1>2, <2>2, <3>1, <4>1, <4>2
    <3>4. QED BY <3>2, <3>3
  <2>3. QED BY <2>1, <2>2
<1>5. \A x \in Requests : request'[x] \in Request \cup {Idle} BY <1>3, <1>4
<1>6. request' \in [Requests -> Request \cup {Idle}] BY <1>5 DEF Goes
<1>7. c \in Requests => request'[c] = w BY <1>3
<1>8. \A x \in Requests \ {c} : x \in Requests /\ x # c OBVIOUS
<1>9. OthersGoOn({c}, ps, ls) BY <1>4, <1>8, Zenon DEF OthersGoOn
<1>10. QED BY <1>6, <1>7, <1>9

-----------------------------------------------------------------------------
(* What a step leaves as it was. *)

LEMMA UnchangedGoOn ==
    ASSUME TypeOK, UNCHANGED request
    PROVE  OthersGoOn({}, {}, {})
<1>1. \A x \in Requests : request[x] # Idle => request[x] \in Request /\ request[x].overtaken \in BOOLEAN
  BY DEF TypeOK, Request
<1>2. QED BY <1>1 DEF OthersGoOn

\* Rows stay, but for ps and ls, and a listing that is gone stays gone.
KeepsRows(ps, ls) ==
    /\ \A p \in Properties : property[p] # None =>
         /\ property'[p] # None
         /\ p \notin ps => /\ property'[p].listing = property[p].listing
                           /\ property'[p].status = property[p].status
    /\ \A l \in Listings :
         /\ listing[l] # None => listing'[l] # None
         /\ listing[l] = Gone => listing'[l] = Gone
         /\ listing[l] # None /\ l \notin ls => listing'[l] = listing[l]

\* The other requests go on knowing what they knew.
LEMMA OthersKnow ==
    ASSUME TypeOK, RequestsKnow, NEW cs, NEW ps, NEW ls, OthersGoOn(cs, ps, ls), KeepsRows(ps, ls),
           NEW x \in Requests \ cs
    PROVE  (Knows(request[x]) /\ Fresh(request[x]))'
<1> SUFFICES ASSUME request[x] # Idle, request'[x] # Idle
             PROVE  (Knows(request[x]) /\ Fresh(request[x]))'
  BY DEF Knows, Fresh, OthersGoOn
<1>1. /\ request'[x].stage = request[x].stage
      /\ request'[x].p = request[x].p /\ request'[x].l = request[x].l
      /\ request'[x].seen = request[x].seen /\ request'[x].new = request[x].new
      /\ request'[x].shown = request[x].shown
      /\ ~ request'[x].overtaken =>
           ~ request[x].overtaken /\ request[x].p \notin ps /\ request[x].l \notin ls
  BY DEF OthersGoOn
<1>2. Knows(request[x]) /\ Fresh(request[x]) BY DEF RequestsKnow
<1>3. \A row \in PropertyRow : row.listing \in Listings \cup {None} BY DEF PropertyRow
<1>4. Knows(request[x])' BY <1>1, <1>2, <1>3 DEF Knows, KeepsRows
<1>5. Fresh(request[x])'
  <2> SUFFICES ASSUME ~ request'[x].overtaken PROVE Fresh(request[x])'
    BY DEF Fresh
  <2>1. /\ ~ request[x].overtaken /\ request[x].p \notin ps /\ request[x].l \notin ls
    BY <1>1
  <2>2. request[x].stage \in {"loaded", "saving"} =>
             /\ property'[request[x].p].listing = request[x].seen.listing
             /\ property'[request[x].p].status = request[x].seen.status
    BY <1>2, <2>1 DEF Knows, Fresh, KeepsRows
  <2>3. request[x].stage \in {"saving", "deciding"} => request[x].l \in Listings
    BY <1>2, <1>3 DEF Knows
  <2>4. request[x].stage \in {"saving", "deciding"} /\ SameListing(request[x].l, request[x].shown) =>
            listing'[request[x].l] = listing[request[x].l]
    BY <2>1, <2>3 DEF KeepsRows, SameListing, Listed
  <2>5. QED BY <1>1, <1>2, <2>1, <2>2, <2>4 DEF Fresh, SameListing, Listed
<1>6. QED BY <1>4, <1>5

\* What SharersStay says of one request.
Stays(w) ==
    w # Idle /\ w.p # None =>
        \A l \in Listings : w.p \in Of(l) /\ Shared(l) => w.seen.listing = l

LEMMA OthersStay ==
    ASSUME SharersStay, NEW cs, NEW ps, NEW ls, OthersGoOn(cs, ps, ls),
           \A l \in Listings : (Of(l)' \subseteq Of(l)) \/ ~ Shared(l)',
           \A l \in Listings : Adopting(l)' => Adopting(l) \/ Of(l)' = {},
           NEW x \in Requests \ cs
    PROVE  Stays(request[x])'
<1> SUFFICES ASSUME request'[x] # Idle, request'[x].p # None, NEW l \in Listings,
                    request'[x].p \in Of(l)', Shared(l)'
             PROVE  request'[x].seen.listing = l
  BY DEF Stays
<1>1. Of(l)' \subseteq Of(l) OBVIOUS
<1>2. Shared(l) BY <1>1 DEF Shared
<1>3. /\ request[x] # Idle /\ request'[x].p = request[x].p /\ request'[x].seen = request[x].seen
  BY DEF OthersGoOn
<1>4. request[x].p \in Of(l) BY <1>1, <1>3
<1>5. QED BY <1>2, <1>3, <1>4 DEF SharersStay

\* What StatusesAgree says of one property.
Agrees(p) ==
    property[p] # None /\ property[p].listing # None =>
        LET l == property[p].listing
        IN  l \notin apart /\ Of(l) = {p} =>
                /\ listing[l].status = status_map[Lower[property[p].status]]
                /\ Public(l) <=> Approved(property[p].status)

LEMMA StillAgrees ==
    ASSUME NEW p \in Properties, Agrees(p), property[p] # None,
           property'[p].listing = property[p].listing, property'[p].status = property[p].status,
           NEW l, property[p].listing = l,
           l # None /\ l \notin apart' => l \notin apart /\ listing'[l] = listing[l],
           l # None /\ l \notin apart' /\ Of(l)' = {p} => Of(l) = {p}
    PROVE  Agrees(p)'
BY DEF Agrees, Public

\* A property and its listing agree after a step that writes both.
LEMMA NowAgrees ==
    ASSUME NEW p \in Properties, NEW status \in PropertyStatus, property'[p].status = status,
           NEW l, property'[p].listing = l,
           listing'[l].status = status_map[Lower[status]], listing'[l].active <=> Approved(status)
    PROVE  Agrees(p)'
BY LowerType DEF Agrees, Public, Approved

StepOK == RowsOK /\ RequestsKnow /\ SharersStay /\ StatusesAgree

\* A step of one request that changes no row.
LEMMA QuietStep ==
    ASSUME CatalogueInv, NEW c \in Requests, UNCHANGED <<property, listing, apart>>,
           request' \in [Requests -> Request \cup {Idle}], OthersGoOn({c}, {}, {}),
           (Knows(request[c]) /\ Fresh(request[c]) /\ Stays(request[c]))',
           request'[c] # Idle /\ request'[c].stage = "adopting" =>
               Adopting(request'[c].l) \/ Of(request'[c].l) = {}
    PROVE  StepOK'
<1>1. TypeOK /\ RequestsKnow /\ SharersStay /\ StatusesAgree BY DEF CatalogueInv
<1>2. RowsOK' BY <1>1 DEF TypeOK, RowsOK, Listed
<1>3. KeepsRows({}, {}) BY DEF KeepsRows
<1>4. RequestsKnow'
  <2>1. \A x \in Requests \ {c} : (Knows(request[x]) /\ Fresh(request[x]))'
    BY <1>1, <1>3, OthersKnow
  <2>2. QED BY <2>1 DEF RequestsKnow
<1>5. \A l \in Listings : Of(l)' = Of(l) BY DEF Of
<1>6. \A l \in Listings : Adopting(l)' => Adopting(l) \/ Of(l)' = {}
  <2> SUFFICES ASSUME NEW l \in Listings, NEW x \in Requests, request'[x] # Idle,
                      request'[x].stage = "adopting", request'[x].l = l
               PROVE  Adopting(l) \/ Of(l) = {}
    BY <1>5 DEF Adopting
  <2>1. CASE x = c BY <2>1
  <2>2. CASE x # c BY <2>2 DEF OthersGoOn, Adopting
  <2>3. QED BY <2>1, <2>2
<1>7. \A x \in Requests \ {c} : Stays(request[x])'
  BY <1>1, <1>5, <1>6, OthersStay
<1>8. SharersStay' BY <1>7 DEF SharersStay, Stays
<1>9. StatusesAgree' BY <1>1 DEF StatusesAgree, Of, Public
<1>10. QED BY <1>2, <1>4, <1>8, <1>9 DEF StepOK

\* A request that only ends.
LEMMA EndStep ==
    ASSUME CatalogueInv, NEW c \in Requests, Fails(c)
    PROVE  StepOK'
<1>1. TypeOK BY DEF CatalogueInv
<1>2. Goes(c, Idle, {}, {}) /\ UNCHANGED <<property, listing, apart>> /\ Idle \in Request \cup {Idle}
  BY DEF Fails
<1>3. /\ request' \in [Requests -> Request \cup {Idle}] /\ request'[c] = Idle
      /\ OthersGoOn({c}, {}, {})
  BY <1>1, <1>2, Going
<1>4. (Knows(request[c]) /\ Fresh(request[c]) /\ Stays(request[c]))' BY <1>3 DEF Knows, Fresh, Stays
<1>5. QED BY <1>2, <1>3, <1>4, QuietStep


\* A step that changes rows: what is left to show of it.
LEMMA RowStep ==
    ASSUME CatalogueInv, RowsOK', NEW cs, NEW ps, NEW ls, OthersGoOn(cs, ps, ls), KeepsRows(ps, ls),
           \A x \in cs : x \in Requests =>
               /\ request'[x] = Idle \/ request'[x].stage # "adopting"
               /\ (Knows(request[x]) /\ Fresh(request[x]) /\ Stays(request[x]))',
           \A l \in Listings : (Of(l)' \subseteq Of(l)) \/ (~ Adopting(l) /\ \A q, r \in Of(l)' : q = r),
           \A p \in Properties : Agrees(p)'
    PROVE  StepOK'
<1>1. TypeOK /\ RequestsKnow /\ SharersStay BY DEF CatalogueInv
<1>2. RequestsKnow'
  <2>1. \A x \in Requests \ cs : (Knows(request[x]) /\ Fresh(request[x]))'
    BY <1>1, OthersKnow
  <2>2. QED BY <2>1 DEF RequestsKnow
<1>3. \A l \in Listings : Adopting(l)' => Adopting(l)
  <2> SUFFICES ASSUME NEW l \in Listings, NEW x \in Requests, request'[x] # Idle,
                      request'[x].stage = "adopting", request'[x].l = l
               PROVE  Adopting(l)
    BY DEF Adopting
  <2>1. x \notin cs OBVIOUS
  <2>2. QED BY <2>1 DEF OthersGoOn, Adopting
<1>4. \A l \in Listings : (Of(l)' \subseteq Of(l)) \/ ~ Shared(l)'
  BY <1>3 DEF Shared
<1>5. \A l \in Listings : Adopting(l)' => Adopting(l) \/ Of(l)' = {} BY <1>3
<1>6. \A x \in Requests \ cs : Stays(request[x])'
  BY <1>1, <1>4, <1>5, OthersStay
<1>7. SharersStay' BY <1>6 DEF SharersStay, Stays
<1>8. StatusesAgree' BY DEF StatusesAgree, Agrees
<1>9. QED BY <1>2, <1>7, <1>8 DEF StepOK

\* A listing that has not been made is nobody's.
LEMMA UnmadeListing ==
    ASSUME CatalogueInv, NEW l \in Listings, listing[l] = None
    PROVE  Of(l) = {} /\ ~ Adopting(l)
<1>1. TypeOK /\ RequestsKnow BY DEF CatalogueInv
<1>2. l # None BY MarksAssumption
<1>3. Of(l) = {} BY <1>1, <1>2 DEF TypeOK, Of, Listed
<1>4. ~ Adopting(l) BY <1>1 DEF RequestsKnow, Knows, Adopting
<1>5. QED BY <1>3, <1>4

LEMMA InvParts ==
    ASSUME CatalogueInv
    PROVE  /\ property \in [Properties -> PropertyRow \cup {None}]
           /\ listing \in [Listings -> ListingRow \cup {None, Gone}]
           /\ request \in [Requests -> Request \cup {Idle}]
           /\ \A p \in Properties : property[p] # None => property[p] \in PropertyRow
           /\ \A p \in Properties :
                property[p] # None /\ property[p].listing # None =>
                    property[p].listing \in Listings /\ Listed(property[p].listing)
           /\ \A l \in Listings : Listed(l) => listing[l] \in ListingRow
           /\ apart \subseteq Listings
           /\ \A p \in Properties : Agrees(p)
           /\ \A c \in Requests : Knows(request[c]) /\ Fresh(request[c]) /\ Stays(request[c])
           /\ \A c \in Requests : request[c] # Idle => request[c] \in Request
<1>1. TypeOK /\ RequestsKnow /\ SharersStay /\ StatusesAgree BY DEF CatalogueInv
<1>2. \A row \in PropertyRow : row.listing \in Listings \cup {None} BY DEF PropertyRow
<1>3. \A p \in Properties : property[p] # None => property[p] \in PropertyRow BY <1>1 DEF TypeOK
<1>4. \A l \in Listings : Listed(l) => listing[l] \in ListingRow BY <1>1 DEF TypeOK, Listed
<1>5. \A p \in Properties : Agrees(p) BY <1>1 DEF StatusesAgree, Agrees
<1>6. \A c \in Requests : Knows(request[c]) /\ Fresh(request[c]) /\ Stays(request[c])
  BY <1>1 DEF RequestsKnow, SharersStay, Stays
<1>7. QED BY <1>1, <1>2, <1>3, <1>4, <1>5, <1>6 DEF TypeOK

-----------------------------------------------------------------------------
(* The steps that change rows. *)

LEMMA CreatePropertyStep ==
    ASSUME CatalogueInv, NEW p \in Properties, NEW l \in Listings, NEW asked \in Asked,
           NEW rooms \in SUBSET RoomTypes, CreateProperty(p, l, asked, rooms)
    PROVE  StepOK'
<1> DEFINE row == [listing |-> l, status |-> asked, rooms |-> rooms]
           new == Projected(asked, {}, NewListing)
<1>1. asked \in PropertyStatus BY StatusesAssumption
<1>2. /\ property[p] = None /\ listing[l] = None
      /\ property' = [property EXCEPT ![p] = row] /\ listing' = [listing EXCEPT ![l] = new]
      /\ UNCHANGED <<request, apart>>
  BY DEF CreateProperty
<1>3. row \in PropertyRow /\ row.listing = l /\ row.status = asked BY <1>1 DEF PropertyRow
<1>4. new \in ListingRow /\ new.status = status_map[Lower[asked]] /\ (new.active <=> Approved(asked))
  BY <1>1, ProjectedType, NewListingType
<1> HIDE DEF row, new
<1>5. row # None /\ new \notin {None, Gone} /\ l # None BY <1>3, <1>4, MarksAssumption
<1>6. Of(l) = {} /\ ~ Adopting(l) BY <1>2, UnmadeListing
<1>7. /\ property'[p] = row /\ listing'[l] = new
      /\ \A q \in Properties : q # p => property'[q] = property[q]
      /\ \A k \in Listings : k # l => listing'[k] = listing[k]
  BY <1>2, InvParts
<1>8. RowsOK'
  BY <1>2, <1>3, <1>4, <1>5, <1>7, InvParts DEF RowsOK, Listed
<1>9. KeepsRows({}, {}) BY <1>2, <1>7, MarksAssumption DEF KeepsRows
<1>10. OthersGoOn({}, {}, {}) BY <1>2, UnchangedGoOn DEF CatalogueInv
<1>11. \A k \in Listings : k # l => Of(k)' \subseteq Of(k)
  BY <1>3, <1>7 DEF Of
<1>12. Of(l)' = {p} BY <1>3, <1>5, <1>6, <1>7 DEF Of
<1>13. ASSUME NEW q \in Properties PROVE Agrees(q)'
  <2>1. CASE q = p BY <1>1, <1>3, <1>4, <1>7, <2>1, NowAgrees
  <2>2. CASE q # p /\ property[q] = None BY <1>7, <2>2 DEF Agrees
  <2>3. CASE q # p /\ property[q] # None
    <3>1. property[q].listing # l BY <1>2, <1>5, <2>3, InvParts DEF Listed
    <3>2. property'[q] = property[q] BY <1>7, <2>3
    <3>3. property[q].listing # None => property[q].listing \in Listings BY <2>3, InvParts
    <3>4. QED BY <1>2, <1>7, <1>11, <2>3, <3>1, <3>2, <3>3, InvParts DEF Agrees, Public, Of
  <2>4. QED BY <2>1, <2>2, <2>3
<1>14. QED BY <1>6, <1>8, <1>9, <1>10, <1>11, <1>12, <1>13, RowStep

LEMMA ChangeRoomTypesStep ==
    ASSUME CatalogueInv, NEW p \in Properties, NEW rooms \in SUBSET RoomTypes, ChangeRoomTypes(p, rooms)
    PROVE  StepOK'
<1>1. /\ property[p] # None /\ property' = [property EXCEPT ![p] = [property[p] EXCEPT !.rooms = rooms]]
      /\ UNCHANGED <<listing, request, apart>>
  BY DEF ChangeRoomTypes
<1> DEFINE row == [property[p] EXCEPT !.rooms = rooms]
<1>2. row \in PropertyRow /\ row.listing = property[p].listing /\ row.status = property[p].status
  BY <1>1, InvParts DEF PropertyRow
<1>3. row # None BY <1>2, MarksAssumption
<1>4. property' = [property EXCEPT ![p] = row] BY <1>1
<1> HIDE DEF row
<1>5. /\ property'[p] = row
      /\ \A q \in Properties : q # p => property'[q] = property[q]
  BY <1>4, InvParts
<1>6. \A q \in Properties : /\ property'[q] = None <=> property[q] = None
                            /\ property[q] # None => /\ property'[q].listing = property[q].listing
                                                     /\ property'[q].status = property[q].status
  BY <1>1, <1>2, <1>3, <1>5
<1>7. RowsOK' BY <1>1, <1>2, <1>4, <1>6, InvParts DEF RowsOK, Listed
<1>8. KeepsRows({}, {}) BY <1>1, <1>6 DEF KeepsRows
<1>9. OthersGoOn({}, {}, {}) BY <1>1, UnchangedGoOn DEF CatalogueInv
<1>10. \A k : Of(k)' = Of(k) BY <1>6 DEF Of
<1>11. \A q \in Properties : Agrees(q)'
  BY <1>1, <1>6, <1>10, InvParts DEF Agrees, Public
<1>12. QED BY <1>7, <1>8, <1>9, <1>10, <1>11, RowStep

LEMMA CreateListingStep ==
    ASSUME CatalogueInv, NEW l \in Listings, NEW active \in BOOLEAN, NEW variants \in SUBSET RoomTypes,
           CreateListing(l, active, variants)
    PROVE  StepOK'
<1> DEFINE new == [status |-> "DRAFT", active |-> active, variants |-> variants]
<1>1. /\ listing[l] = None /\ listing' = [listing EXCEPT ![l] = new] /\ apart' = apart \cup {l}
      /\ UNCHANGED <<property, request>>
  BY DEF CreateListing
<1>2. new \in ListingRow BY DEF ListingRow, ListingStatus
<1>3. new \notin {None, Gone} BY <1>2, MarksAssumption
<1> HIDE DEF new
<1>4. listing'[l] = new /\ \A k \in Listings : k # l => listing'[k] = listing[k]
  BY <1>1, InvParts
<1>5. RowsOK' BY <1>1, <1>2, <1>3, <1>4, InvParts DEF RowsOK, Listed
<1>6. KeepsRows({}, {}) BY <1>1, <1>4, MarksAssumption DEF KeepsRows
<1>7. OthersGoOn({}, {}, {}) BY <1>1, UnchangedGoOn DEF CatalogueInv
<1>8. \A k : Of(k)' = Of(k) BY <1>1 DEF Of
<1>9. ASSUME NEW q \in Properties PROVE Agrees(q)'
  <2> SUFFICES ASSUME property[q] # None, property[q].listing # None, property[q].listing # l
               PROVE  Agrees(q)'
    BY <1>1 DEF Agrees
  <2>1. property[q].listing \in Listings BY InvParts
  <2>2. QED BY <1>1, <1>4, <1>8, <2>1, InvParts DEF Agrees, Public
<1>10. QED BY <1>5, <1>6, <1>7, <1>8, <1>9, RowStep

\* A step that writes one listing, with which it is apart, and no property.
LEMMA UpdateListingStep ==
    ASSUME CatalogueInv, NEW l \in Listings, NEW status \in ListingStatus, NEW active \in BOOLEAN,
           NEW variants \in SUBSET RoomTypes, UpdateListing(l, status, active, variants)
    PROVE  StepOK'
<1> DEFINE new == [status |-> status, active |-> active, variants |-> variants]
<1>1. /\ Listed(l) /\ listing' = [listing EXCEPT ![l] = new] /\ apart' = apart \cup {l}
      /\ Goes(None, Idle, {}, {l}) /\ UNCHANGED property
  BY DEF UpdateListing
<1>2. new \in ListingRow BY DEF ListingRow, ListingStatus
<1>3. new \notin {None, Gone} BY <1>2, MarksAssumption
<1> HIDE DEF new
<1>4. listing'[l] = new /\ \A k \in Listings : k # l => listing'[k] = listing[k]
  BY <1>1, InvParts
<1>5. /\ request' \in [Requests -> Request \cup {Idle}] /\ (None \in Requests => request'[None] = Idle)
      /\ OthersGoOn({None}, {}, {l})
  <2>1. Idle \in Request \cup {Idle} OBVIOUS
  <2>2. QED BY <1>1, <2>1, Going DEF CatalogueInv
<1>6. RowsOK' BY <1>1, <1>2, <1>3, <1>4, <1>5, InvParts DEF RowsOK, Listed
<1>7. KeepsRows({}, {l}) BY <1>1, <1>3, <1>4 DEF KeepsRows, Listed
<1>8. \A k : Of(k)' = Of(k) BY <1>1 DEF Of
<1>9. ASSUME NEW q \in Properties PROVE Agrees(q)'
  <2> SUFFICES ASSUME property[q] # None, property[q].listing # None, property[q].listing # l
               PROVE  Agrees(q)'
    BY <1>1 DEF Agrees
  <2>1. property[q].listing \in Listings BY InvParts
  <2>2. QED BY <1>1, <1>4, <1>8, <2>1, InvParts DEF Agrees, Public
<1>10. None \in Requests => (Knows(request[None]) /\ Fresh(request[None]) /\ Stays(request[None]))'
  BY <1>5 DEF Knows, Fresh, Stays
<1>11. QED BY <1>5, <1>6, <1>7, <1>8, <1>9, <1>10, RowStep

LEMMA ProjectMissingStep ==
    ASSUME CatalogueInv, NEW c \in Requests, NEW l \in Listings, ProjectMissing(c, l)
    PROVE  StepOK'
<1> DEFINE w == request[c]
           p == w.p
           row == [property[p] EXCEPT !.listing = l]
           new == Projected(w.seen.status, w.seen.rooms, NewListing)
           x == [w EXCEPT !.seen = row, !.overtaken = FALSE]
<1>1. /\ w # Idle /\ w.stage = "loaded" /\ w.seen.listing = None /\ listing[l] = None
      /\ property' = [property EXCEPT ![p] = row] /\ listing' = [listing EXCEPT ![l] = new]
      /\ apart' = IF w.overtaken THEN apart \cup {l} ELSE apart
      /\ Goes(c, x, {p}, {})
  BY DEF ProjectMissing, Has
<1>2. /\ w \in Request /\ p \in Properties /\ property[p] # None /\ property[p] \in PropertyRow
      /\ w.seen \in PropertyRow /\ w.l = None
      /\ ~ w.overtaken => property[p].listing = None /\ property[p].status = w.seen.status
      /\ \A k \in Listings : p \in Of(k) /\ Shared(k) => w.seen.listing = k
  <2>1. w \in Request /\ Knows(w) /\ Fresh(w) /\ Stays(w) BY <1>1, InvParts
  <2>2. /\ p \in Properties /\ property[p] # None /\ w.seen \in PropertyRow /\ w.l = None
    BY <1>1, <2>1 DEF Knows
  <2>3. property[p] \in PropertyRow BY <2>2, InvParts
  <2>4. ~ w.overtaken => property[p].listing = None /\ property[p].status = w.seen.status
    BY <1>1, <2>1 DEF Fresh
  <2>5. p # None BY <2>2, MarksAssumption
  <2>6. \A k \in Listings : p \in Of(k) /\ Shared(k) => w.seen.listing = k
    BY <1>1, <2>1, <2>5 DEF Stays
  <2>7. QED BY <2>1, <2>2, <2>3, <2>4, <2>6
<1>3. row \in PropertyRow /\ row.listing = l /\ row.status = property[p].status
  BY <1>2 DEF PropertyRow
<1>4. /\ new \in ListingRow /\ new.status = status_map[Lower[w.seen.status]]
      /\ (new.active <=> Approved(w.seen.status))
  <2>1. w.seen.status \in PropertyStatus /\ w.seen.rooms \in SUBSET RoomTypes BY <1>2 DEF PropertyRow
  <2>2. QED BY <2>1, ProjectedType, NewListingType
<1>5. x \in Request /\ x.stage = "loaded" /\ x.p = p /\ x.seen = row /\ x.l = None
  <2> HIDE DEF row
  <2> DEFINE u == [w EXCEPT !.seen = row]
  <2>1. /\ u \in Request /\ u.stage = w.stage /\ u.p = w.p /\ u.seen = row /\ u.l = w.l
    BY <1>2, <1>3 DEF Request
  <2>2. x = [u EXCEPT !.overtaken = FALSE] BY <1>2 DEF Request
  <2> HIDE DEF u, x
  <2>3. x \in Request /\ x.stage = u.stage /\ x.p = u.p /\ x.seen = u.seen /\ x.l = u.l
    BY <2>1, <2>2 DEF Request
  <2>4. QED BY <1>1, <1>2, <2>1, <2>3
<1> HIDE DEF row, new, x
<1>6. row # None /\ new \notin {None, Gone} /\ l # None /\ x # Idle BY <1>3, <1>4, <1>5, MarksAssumption
<1>7. Of(l) = {} /\ ~ Adopting(l) BY <1>1, UnmadeListing
<1>8. /\ property'[p] = row /\ listing'[l] = new
      /\ \A q \in Properties : q # p => property'[q] = property[q]
      /\ \A k \in Listings : k # l => listing'[k] = listing[k]
  BY <1>1, <1>2, InvParts
<1>9. /\ request' \in [Requests -> Request \cup {Idle}] /\ request'[c] = x
      /\ OthersGoOn({c}, {p}, {})
  <2>1. x \in Request \cup {Idle} BY <1>5
  <2>2. QED BY <1>1, <2>1, Going DEF CatalogueInv
<1>10. RowsOK'
  BY <1>1, <1>3, <1>4, <1>6, <1>8, <1>9, InvParts DEF RowsOK, Listed
<1>11. KeepsRows({p}, {}) BY <1>1, <1>2, <1>6, <1>8, MarksAssumption DEF KeepsRows
<1>12. \A k \in Listings : k # l => Of(k)' = Of(k) \ {p}
  BY <1>3, <1>8 DEF Of
<1>13. Of(l)' = {p} BY <1>2, <1>3, <1>6, <1>7, <1>8 DEF Of
<1>14. (Knows(request[c]) /\ Fresh(request[c]) /\ Stays(request[c]))'
  <2>1. Knows(request[c])' BY <1>2, <1>3, <1>5, <1>6, <1>8, <1>9 DEF Knows
  <2>2. Fresh(request[c])' BY <1>3, <1>5, <1>8, <1>9 DEF Fresh
  <2>3. Stays(request[c])' BY <1>3, <1>5, <1>8, <1>9 DEF Stays, Of
  <2>4. QED BY <2>1, <2>2, <2>3
<1>15. ASSUME NEW q \in Properties PROVE Agrees(q)'
  <2>1. CASE q = p
    <3>1. CASE w.overtaken BY <1>1, <1>3, <1>8, <2>1, <3>1 DEF Agrees
    <3>2. CASE ~ w.overtaken
      <4>1. property'[p].status = w.seen.status /\ w.seen.status \in PropertyStatus
        BY <1>2, <1>3, <1>8, <3>2 DEF PropertyRow
      <4>2. QED BY <1>3, <1>4, <1>8, <2>1, <4>1, NowAgrees
    <3>3. QED BY <3>1, <3>2
  <2>2. CASE q # p /\ (property[q] = None \/ property[q].listing = None) BY <1>8, <2>2 DEF Agrees
  <2>3. CASE q # p /\ property[q] # None /\ property[q].listing # None
    <3>1. PICK k \in Listings : k = property[q].listing /\ Listed(k) BY <2>3, InvParts
    <3>2. k # l BY <1>1, <3>1 DEF Listed
    <3>3. property'[q] = property[q] /\ listing'[k] = listing[k] BY <1>8, <2>3, <3>1, <3>2
    <3>4. q \in Of(k) BY <2>3, <3>1 DEF Of
    <3>5. p \notin Of(k)
      <4> SUFFICES ASSUME p \in Of(k) PROVE FALSE OBVIOUS
      <4>1. Shared(k) BY <2>3, <3>4 DEF Shared
      <4>2. w.seen.listing = k BY <1>2, <3>1, <4>1
      <4>3. QED BY <1>1, <2>3, <3>1, <4>2
    <3>6. Of(k)' = Of(k)
      <4>1. Of(k)' = Of(k) \ {p} BY <1>12, <3>2
      <4>2. \A S : p \notin S => S \ {p} = S OBVIOUS
      <4>3. QED BY <3>5, <4>1, <4>2, Zenon
    <3>7. k \notin apart' => k \notin apart BY <1>1, <3>2
    <3>8. Agrees(q) BY InvParts
    <3>9. QED BY <2>3, <3>1, <3>3, <3>6, <3>7, <3>8 DEF Agrees, Public
  <2>4. QED BY <2>1, <2>2, <2>3
<1>16. \A k \in Listings : (Of(k)' \subseteq Of(k)) \/ (~ Adopting(k) /\ \A q, r \in Of(k)' : q = r)
  BY <1>7, <1>12, <1>13
<1>17. \A y \in {c} : y \in Requests =>
               /\ request'[y] = Idle \/ request'[y].stage # "adopting"
               /\ (Knows(request[y]) /\ Fresh(request[y]) /\ Stays(request[y]))'
  BY <1>5, <1>9, <1>14
<1>18. QED BY <1>9, <1>10, <1>11, <1>15, <1>16, <1>17, RowStep

LEMMA CreateFromListingStep ==
    ASSUME CatalogueInv, NEW c \in Requests, NEW p \in Properties, NEW rooms \in SUBSET RoomTypes,
           CreateFromListing(c, p, rooms)
    PROVE  StepOK'
<1> DEFINE w == request[c]
           row == [listing |-> w.l, status |-> IF w.shown.active THEN "published" ELSE "draft", rooms |-> rooms]
<1>1. CASE ~ Listed(w.l) BY <1>1, EndStep DEF CreateFromListing
<1>2. CASE Listed(w.l)
  <2>1. /\ w # Idle /\ w.stage = "adopting" /\ property[p] = None
        /\ property' = [property EXCEPT ![p] = row] /\ apart' = apart \cup {w.l}
        /\ Goes(c, Idle, {}, {w.l}) /\ UNCHANGED listing
    BY <1>2 DEF CreateFromListing, Has
  <2>2. PICK l \in Listings : l = w.l
    <3>1. Knows(w) BY InvParts
    <3>2. QED BY <2>1, <3>1 DEF Knows
  <2>3. row \in PropertyRow /\ row.listing = l BY <2>2, StatusTables DEF PropertyRow
  <2> HIDE DEF row
  <2>4. row # None BY <2>3, MarksAssumption
  <2>5. property'[p] = row /\ \A q \in Properties : q # p => property'[q] = property[q]
    BY <2>1, InvParts
  <2>6. /\ request' \in [Requests -> Request \cup {Idle}] /\ request'[c] = Idle
        /\ OthersGoOn({c}, {}, {l})
    <3>1. Idle \in Request \cup {Idle} OBVIOUS
    <3>2. QED BY <2>1, <2>2, <3>1, Going DEF CatalogueInv
  <2>7. RowsOK' BY <1>2, <2>1, <2>2, <2>3, <2>4, <2>5, <2>6, InvParts DEF RowsOK, Listed
  <2>8. KeepsRows({}, {l}) BY <2>1, <2>5 DEF KeepsRows
  <2>9. \A k \in Listings : k # l => Of(k)' \subseteq Of(k) BY <2>3, <2>5 DEF Of
  <2>10. Of(l)' = Of(l) \cup {p}
    <3>1. l # None BY MarksAssumption
    <3>2. ASSUME NEW q \in Properties PROVE q \in Of(l)' <=> q \in Of(l) \/ q = p
      BY <2>1, <2>3, <2>4, <2>5 DEF Of
    <3>3. Of(l)' \subseteq Properties /\ Of(l) \cup {p} \subseteq Properties BY DEF Of
    <3>4. QED BY <3>2, <3>3
  <2>11. Adopting(l) BY <2>1, <2>2 DEF Adopting
  <2>12. ASSUME NEW x \in Requests \ {c}, request'[x] # Idle, request'[x].p # None
         PROVE  Stays(request[x])'
    <3>1. /\ request[x] # Idle /\ request'[x].p = request[x].p /\ request'[x].seen = request[x].seen
          /\ request[x].p # None /\ request'[x].stage = request[x].stage
      BY <2>6, <2>12 DEF OthersGoOn
    <3>2. Knows(request[x]) /\ Stays(request[x]) /\ request[x] \in Request BY <3>1, InvParts
    <3>3. request[x].p # p
      BY <2>1, <3>1, <3>2 DEF Knows, Request
    <3>4. QED
      <4> SUFFICES ASSUME NEW k \in Listings, request[x].p \in Of(k)', Shared(k)'
                   PROVE  request[x].seen.listing = k
        BY <3>1 DEF Stays
      <4>1. request[x].p \in Of(k)
          <5>1. Of(k)' \subseteq Of(k) \cup {p} BY <2>9, <2>10
          <5>2. QED BY <3>3, <5>1
      <4>2. Shared(k)
        <5>1. CASE k = l BY <2>11, <5>1 DEF Shared
        <5>2. CASE k # l
          <6>1. Adopting(k)' => Adopting(k) BY <2>6 DEF Adopting, OthersGoOn
          <6>2. QED BY <2>9, <5>2, <6>1 DEF Shared
        <5>3. QED BY <5>1, <5>2
      <4>3. QED BY <3>1, <3>2, <4>1, <4>2 DEF Stays
  <2>13. \A x \in Requests : (Knows(request[x]) /\ Fresh(request[x]))'
    <3>1. TypeOK /\ RequestsKnow BY DEF CatalogueInv
    <3>2. \A x \in Requests \ {c} : (Knows(request[x]) /\ Fresh(request[x]))'
      BY <2>6, <2>8, <3>1, OthersKnow
    <3>3. (Knows(request[c]) /\ Fresh(request[c]))' BY <2>6 DEF Knows, Fresh
    <3>4. QED BY <3>2, <3>3
  <2>14. SharersStay'
    <3>1. \A x \in Requests \ {c} : Stays(request[x])' BY <2>12 DEF Stays
    <3>2. QED BY <2>6, <3>1 DEF SharersStay, Stays
  <2>15. ASSUME NEW q \in Properties PROVE Agrees(q)'
    <3>1. CASE q = p BY <2>1, <2>2, <2>3, <2>5, <3>1 DEF Agrees
    <3>2. CASE q # p
      <4>1. property'[q] = property[q] BY <2>5, <3>2
      <4> SUFFICES ASSUME property[q] # None, property[q].listing # None, property[q].listing # l
                   PROVE  Agrees(q)'
        BY <2>1, <2>2, <4>1 DEF Agrees
      <4>2. PICK k \in Listings : k = property[q].listing BY InvParts
      <4>3. Of(k)' = Of(k)
        BY <2>1, <2>3, <2>5, <4>2 DEF Of
      <4>4. Agrees(q) BY InvParts
      <4>5. QED BY <2>1, <2>2, <4>1, <4>2, <4>3, <4>4 DEF Agrees, Public
    <3>3. QED BY <3>1, <3>2
  <2>16. QED BY <2>7, <2>13, <2>14, <2>15 DEF StepOK, RequestsKnow, StatusesAgree, Agrees
<1>3. QED BY <1>1, <1>2

LEMMA DecideListingStep ==
    ASSUME CatalogueInv, NEW c \in Requests, NEW status \in ListingStatus, DecideListing(c, status)
    PROVE  StepOK'
<1> DEFINE w == request[c]
           new == [w.shown EXCEPT !.status = status, !.active = (status = "PUBLISHED")]
           told == IF status = "PUBLISHED" THEN "APPROVED" ELSE status
<1>1. CASE ~ Listed(w.l) BY <1>1, EndStep DEF DecideListing
<1>2. CASE Listed(w.l)
  <2>1. /\ w # Idle /\ w.stage = "deciding"
        /\ property' = ToldProperties(w.l, status)
        /\ listing' = [listing EXCEPT ![w.l] = Merged(listing[w.l], w.shown, new)]
        /\ apart' = IF w.overtaken THEN apart \cup {w.l} ELSE apart \ {w.l}
        /\ Goes(c, Idle, Of(w.l), {w.l})
    BY <1>2 DEF DecideListing, Has
  <2>2. PICK l \in Listings : l = w.l
    <3>1. Knows(w) BY InvParts
    <3>2. QED BY <2>1, <3>1 DEF Knows
  <2>3. w.shown \in ListingRow /\ (~ w.overtaken => SameListing(l, w.shown))
    <3>1. Knows(w) /\ Fresh(w) BY InvParts
    <3>2. QED BY <2>1, <2>2, <3>1 DEF Knows, Fresh
  <2>4. new \in ListingRow /\ new.status = status /\ (new.active <=> status = "PUBLISHED")
    BY <2>3 DEF ListingRow
  <2>5. told \in PropertyStatus /\ status_map[Lower[told]] = status BY ToldStatus
  <2>6. Approved(told) <=> status = "PUBLISHED" BY <2>5, LowerType
  <2> DEFINE row == Merged(listing[l], w.shown, new)
  <2>7. /\ row \in ListingRow
        /\ ~ w.overtaken => row.status = status /\ (row.active <=> status = "PUBLISHED")
    <3>1. listing[l] \in ListingRow BY <1>2, <2>2, InvParts
    <3>2. /\ row \in ListingRow
          /\ row.status = IF new.status = w.shown.status THEN listing[l].status ELSE new.status
          /\ row.active = IF new.active = w.shown.active THEN listing[l].active ELSE new.active
      <4> HIDE DEF new, w
      <4>1. QED BY <2>3, <2>4, <3>1, MergedListing
    <3> HIDE DEF row, new
    <3>3. \A r \in ListingRow : r.active \in BOOLEAN BY DEF ListingRow
    <3>4. QED BY <2>3, <2>4, <3>1, <3>2, <3>3 DEF SameListing
  <2> HIDE DEF new, told, row
  <2>8. row \notin {None, Gone} /\ l # None BY <2>7, MarksAssumption
  <2>9. listing'[l] = row /\ \A k \in Listings : k # l => listing'[k] = listing[k]
    BY <2>1, <2>2, InvParts DEF row
  <2>10. ASSUME NEW q \in Properties
         PROVE  /\ q \notin Of(l) => property'[q] = property[q]
                /\ q \in Of(l) => /\ property[q] # None /\ property[q].listing = l
                                  /\ property'[q] \in PropertyRow
                                  /\ property'[q].listing = l /\ property'[q].status = told
    <3>1. property'[q] = IF q \notin Of(l) THEN property[q] ELSE [property[q] EXCEPT !.status = told]
      BY <2>1, <2>2 DEF ToldProperties, told
    <3>2. CASE q \notin Of(l) BY <3>1, <3>2
    <3>3. CASE q \in Of(l)
      <4>1. property[q] # None /\ property[q].listing = l BY <3>3 DEF Of
      <4>2. property[q] \in PropertyRow BY <4>1, InvParts
      <4>3. QED BY <2>5, <3>1, <3>3, <4>1, <4>2 DEF PropertyRow
    <3>4. QED BY <3>2, <3>3
  <2>11. \A q \in Properties : /\ property'[q] = None <=> property[q] = None
                               /\ property[q] # None => property'[q].listing = property[q].listing
    BY <2>10, MarksAssumption
  <2>12. /\ request' \in [Requests -> Request \cup {Idle}] /\ request'[c] = Idle
         /\ OthersGoOn({c}, Of(l), {l})
    <3>1. Idle \in Request \cup {Idle} OBVIOUS
    <3>2. QED BY <2>1, <2>2, <3>1, Going DEF CatalogueInv
  <2>13. RowsOK'
    <3>1. property' \in [Properties -> PropertyRow \cup {None}]
      <4>1. \A q \in Properties : property'[q] \in PropertyRow \cup {None} BY <2>10, InvParts
      <4>2. QED BY <2>1, <4>1 DEF ToldProperties
    <3>2. listing' \in [Listings -> ListingRow \cup {None, Gone}]
      BY <2>1, <2>2, <2>7, InvParts DEF row
    <3>3. apart' \subseteq Listings BY <2>1, <2>2, InvParts
    <3>4. ASSUME NEW q \in Properties, property'[q] # None, property'[q].listing # None
          PROVE  listing'[property'[q].listing] \notin {None, Gone}
      <4>1. property'[q].listing = property[q].listing /\ property[q] # None BY <2>11, <3>4
      <4>2. property[q].listing \in Listings /\ Listed(property[q].listing) BY <3>4, <4>1, InvParts
      <4>3. QED BY <2>8, <2>9, <4>1, <4>2 DEF Listed
    <3>5. QED BY <2>12, <3>1, <3>2, <3>3, <3>4 DEF RowsOK, Listed
  <2>14. KeepsRows(Of(l), {l})
    <3>1. Listed(l) BY <1>2, <2>2
    <3>2. QED BY <2>8, <2>9, <2>10, <2>11, <3>1 DEF KeepsRows, Listed
  <2>15. \A k : Of(k)' = Of(k) BY <2>11 DEF Of
  <2>16. ASSUME NEW q \in Properties PROVE Agrees(q)'
    <3>1. CASE q \in Of(l)
      <4>1. CASE w.overtaken BY <2>1, <2>2, <2>10, <3>1, <4>1 DEF Agrees
      <4>2. CASE ~ w.overtaken
        <5>1. /\ property'[q].status = told /\ property'[q].listing = l
              /\ listing'[l].status = status_map[Lower[told]] /\ (listing'[l].active <=> Approved(told))
          BY <2>5, <2>6, <2>7, <2>9, <2>10, <3>1, <4>2
        <5>2. QED BY <2>5, <5>1, NowAgrees
      <4>3. QED BY <4>1, <4>2
    <3>2. CASE q \notin Of(l)
      <4>1. property'[q] = property[q] BY <2>10, <3>2
      <4> SUFFICES ASSUME property[q] # None, property[q].listing # None
                   PROVE  Agrees(q)'
        BY <4>1 DEF Agrees
      <4>2. PICK k \in Listings : k = property[q].listing BY InvParts
      <4>3. k # l BY <3>2, <4>2 DEF Of
      <4>4. Of(k)' = Of(k) /\ listing'[k] = listing[k] /\ (k \notin apart' => k \notin apart)
        BY <2>1, <2>2, <2>9, <2>15, <4>3
      <4>5. Agrees(q) BY InvParts
      <4>6. QED BY <4>1, <4>2, <4>4, <4>5 DEF Agrees, Public
    <3>3. QED BY <3>1, <3>2
  <2>17. (Knows(request[c]) /\ Fresh(request[c]) /\ Stays(request[c]))'
    BY <2>12 DEF Knows, Fresh, Stays
  <2>18. QED BY <2>12, <2>13, <2>14, <2>15, <2>16, <2>17, RowStep
<1>3. QED BY <1>1, <1>2

LEMMA DeleteListingStep ==
    ASSUME CatalogueInv, NEW l \in Listings, DeleteListing(l)
    PROVE  StepOK'
<1>1. /\ Listed(l) /\ property' = Unlisted(l) /\ listing' = [listing EXCEPT ![l] = Gone]
      /\ apart' = apart \ {l} /\ Goes(None, Idle, Of(l), {l})
  BY DEF DeleteListing
<1>2. listing'[l] = Gone /\ \A k \in Listings : k # l => listing'[k] = listing[k]
  BY <1>1, InvParts
<1>3. ASSUME NEW q \in Properties
      PROVE  /\ q \notin Of(l) => property'[q] = property[q]
             /\ q \in Of(l) => /\ property[q] # None /\ property[q].listing = l
                               /\ property'[q] \in PropertyRow /\ property'[q].listing = None
  <2>1. property'[q] = IF q \in Of(l) THEN [property[q] EXCEPT !.listing = None] ELSE property[q]
    BY <1>1 DEF Unlisted
  <2>2. CASE q \notin Of(l) BY <2>1, <2>2
  <2>3. CASE q \in Of(l)
    <3>1. property[q] # None /\ property[q].listing = l BY <2>3 DEF Of
    <3>2. property[q] \in PropertyRow BY <3>1, InvParts
    <3>3. QED BY <2>1, <2>3, <3>1, <3>2 DEF PropertyRow
  <2>4. QED BY <2>2, <2>3
<1>4. \A q \in Properties : property'[q] = None <=> property[q] = None
  BY <1>3, MarksAssumption
<1>5. /\ request' \in [Requests -> Request \cup {Idle}] /\ (None \in Requests => request'[None] = Idle)
      /\ OthersGoOn({None}, Of(l), {l})
  <2>1. Idle \in Request \cup {Idle} OBVIOUS
  <2>2. QED BY <1>1, <2>1, Going DEF CatalogueInv
<1>6. l # None BY MarksAssumption
<1>7. RowsOK'
  <2>1. property' \in [Properties -> PropertyRow \cup {None}]
    <3>1. \A q \in Properties : property'[q] \in PropertyRow \cup {None} BY <1>3, InvParts
    <3>2. QED BY <1>1, <3>1 DEF Unlisted
  <2>2. listing' \in [Listings -> ListingRow \cup {None, Gone}] BY <1>1, InvParts
  <2>3. apart' \subseteq Listings BY <1>1, InvParts
  <2>4. ASSUME NEW q \in Properties, property'[q] # None, property'[q].listing # None
        PROVE  listing'[property'[q].listing] \notin {None, Gone}
    <3>1. q \notin Of(l) /\ property'[q] = property[q] BY <1>3, <2>4
    <3>2. property[q] # None /\ property[q].listing # l BY <1>4, <2>4, <3>1 DEF Of
    <3>3. property[q].listing \in Listings /\ Listed(property[q].listing) BY <2>4, <3>1, <3>2, InvParts
    <3>4. QED BY <1>2, <3>1, <3>2, <3>3 DEF Listed
  <2>5. QED BY <1>5, <2>1, <2>2, <2>3, <2>4 DEF RowsOK, Listed
<1>8. KeepsRows(Of(l), {l}) BY <1>2, <1>3, <1>4, MarksAssumption DEF KeepsRows
<1>9. \A k \in Listings : Of(k)' \subseteq Of(k)
  <2>1. \A k \in Listings : k # None BY MarksAssumption
  <2>2. QED BY <1>3, <1>4, <2>1 DEF Of
<1>10. ASSUME NEW q \in Properties PROVE Agrees(q)'
  <2>1. CASE q \in Of(l) BY <1>3, <2>1 DEF Agrees
  <2>2. CASE q \notin Of(l)
    <3>1. property'[q] = property[q] BY <1>3, <2>2
    <3> SUFFICES ASSUME property[q] # None, property[q].listing # None
                 PROVE  Agrees(q)'
      BY <3>1 DEF Agrees
    <3>2. PICK k \in Listings : k = property[q].listing BY InvParts
    <3>3. k # l /\ k # None BY <2>2, <3>2, MarksAssumption DEF Of
    <3>4. Of(k)' = Of(k)
      <4>1. \A r \in Properties : r \in Of(k) => r \notin Of(l) BY <3>3 DEF Of
      <4>2. QED BY <1>3, <1>4, <1>9, <3>3, <4>1 DEF Of
    <3>5. listing'[k] = listing[k] /\ (k \notin apart' => k \notin apart) BY <1>1, <1>2, <3>3
    <3>6. Agrees(q) BY InvParts
    <3>7. QED BY <3>1, <3>2, <3>4, <3>5, <3>6 DEF Agrees, Public
  <2>3. QED BY <2>1, <2>2
<1>11. None \in Requests => (Knows(request[None]) /\ Fresh(request[None]) /\ Stays(request[None]))'
  BY <1>5 DEF Knows, Fresh, Stays
<1>12. QED BY <1>5, <1>7, <1>8, <1>9, <1>10, <1>11, RowStep

\* A save that ends well, on the listing that it has loaded (old is the listing as it was) or on a
\* new one.
LEMMA SavePropertyStep ==
    ASSUME CatalogueInv, NEW c \in Requests, NEW l \in Listings, SaveProperty(c, l)
    PROVE  StepOK'
<1> DEFINE w == request[c]
<1>1. PICK old, now, new :
        /\ old = IF w.shown = None THEN NewListing ELSE w.shown
        /\ now = IF w.shown = None THEN NewListing ELSE listing[l]
        /\ new = Projected(w.new.status, w.seen.rooms, old)
  OBVIOUS
<1>2. CASE now = Gone \/ (new.variants \ old.variants) \cap now.variants # {}
  <2>1. Fails(c) BY <1>1, <1>2 DEF SaveProperty
  <2>2. QED BY <2>1, EndStep
<1>3. CASE ~ (now = Gone \/ (new.variants \ old.variants) \cap now.variants # {})
  <2> DEFINE saved == [w.new EXCEPT !.listing = l]
             prow == Merged(property[w.p], w.seen, saved)
             lrow == Merged(now, old, new)
  <2>1. /\ w # Idle /\ w.stage = "saving"
        /\ IF w.shown = None THEN listing[l] = None ELSE l = w.l
        /\ property' = [property EXCEPT ![w.p] = prow]
        /\ listing' = [listing EXCEPT ![l] = lrow]
        /\ apart' = IF w.overtaken THEN apart \cup ({l, property'[w.p].listing} \ {None}) ELSE apart \ {l}
        /\ Goes(c, Idle, {w.p}, {l})
    BY <1>1, <1>3 DEF SaveProperty, Has
  <2>2. Knows(w) /\ Fresh(w) /\ Stays(w) BY InvParts
  <2>3. PICK p \in Properties : p = w.p BY <2>1, <2>2 DEF Knows
  <2>4. /\ property[p] # None /\ w.seen \in PropertyRow /\ w.new \in PropertyRow
        /\ w.new.listing = w.seen.listing /\ w.l = w.seen.listing /\ w.l # None
        /\ listing[w.l] # None
        /\ w.shown # None => w.shown \in ListingRow
        /\ w.shown = None => listing[w.l] = Gone
    BY <2>1, <2>2, <2>3 DEF Knows
  <2>5. property[p] \in PropertyRow BY <2>4, InvParts
  <2>6. ~ w.overtaken => /\ property[p].listing = w.seen.listing /\ property[p].status = w.seen.status
                         /\ w.shown # None /\ SameListing(w.l, w.shown)
    BY <2>1, <2>2, <2>3 DEF Fresh
  <2>7. p # None /\ l # None BY MarksAssumption
  <2>8. \A k \in Listings : p \in Of(k) /\ Shared(k) => w.seen.listing = k
    BY <2>1, <2>2, <2>3, <2>7 DEF Stays
  <2>9. old \in ListingRow BY <1>1, <2>4, NewListingType
  <2>10. now \in ListingRow
    <3>1. w.shown # None => listing[l] \notin {None, Gone} BY <1>1, <1>3, <2>1, <2>4
    <3>2. QED BY <1>1, <3>1, NewListingType, InvParts DEF Listed
  <2>11. /\ new \in ListingRow /\ new.status = status_map[Lower[w.new.status]]
         /\ (new.active <=> Approved(w.new.status))
    <3>1. w.new.status \in PropertyStatus /\ w.seen.rooms \in SUBSET RoomTypes BY <2>4 DEF PropertyRow
    <3>2. QED BY <1>1, <2>9, <3>1, ProjectedType
  <2>12. saved \in PropertyRow /\ saved.status = w.new.status /\ saved.listing = l
    BY <2>4 DEF PropertyRow
  <2>13. /\ prow \in PropertyRow
         /\ prow.status = IF w.new.status = w.seen.status THEN property[p].status ELSE w.new.status
         /\ prow.listing = IF l = w.seen.listing THEN property[p].listing ELSE l
    <3> HIDE DEF saved, w
    <3>1. QED BY <2>3, <2>4, <2>5, <2>12, MergedProperty
  <2>14. /\ lrow \in ListingRow
         /\ lrow.status = IF new.status = old.status THEN now.status ELSE new.status
         /\ lrow.active = IF new.active = old.active THEN now.active ELSE new.active
    BY <2>9, <2>10, <2>11, MergedListing
  <2> HIDE DEF saved, prow, lrow
  <2>15. prow # None /\ lrow \notin {None, Gone} BY <2>13, <2>14, MarksAssumption
  <2>16. /\ property'[p] = prow /\ listing'[l] = lrow
         /\ \A q \in Properties : q # p => property'[q] = property[q]
         /\ \A k \in Listings : k # l => listing'[k] = listing[k]
    BY <2>1, <2>3, InvParts
  <2>17. apart' = IF w.overtaken THEN apart \cup ({l, prow.listing} \ {None}) ELSE apart \ {l}
    BY <2>1, <2>3, <2>16
  <2>18. prow.listing \in Listings \cup {None} BY <2>13 DEF PropertyRow
  <2>19. /\ request' \in [Requests -> Request \cup {Idle}] /\ request'[c] = Idle
         /\ OthersGoOn({c}, {p}, {l})
    <3>1. Idle \in Request \cup {Idle} OBVIOUS
    <3>2. QED BY <2>1, <2>3, <3>1, Going DEF CatalogueInv
  <2>20. listing[l] # Gone
    BY <1>1, <1>3, <2>1, MarksAssumption
  <2>21. RowsOK'
    <3>1. property' \in [Properties -> PropertyRow \cup {None}] BY <2>1, <2>3, <2>13, InvParts
    <3>2. listing' \in [Listings -> ListingRow \cup {None, Gone}] BY <2>1, <2>14, InvParts
    <3>3. apart' \subseteq Listings BY <2>17, <2>18, InvParts
    <3>4. ASSUME NEW q \in Properties, property'[q] # None, property'[q].listing # None
          PROVE  listing'[property'[q].listing] \notin {None, Gone}
      <4>1. CASE property'[q].listing = l BY <2>15, <2>16, <4>1
      <4>2. CASE property'[q].listing # l
        <5>1. property[q] # None /\ property'[q].listing = property[q].listing
          BY <2>4, <2>13, <2>16, <3>4, <4>2
        <5>2. property[q].listing \in Listings /\ Listed(property[q].listing)
          BY <3>4, <5>1, InvParts
        <5>3. QED BY <2>16, <4>2, <5>1, <5>2 DEF Listed
      <4>3. QED BY <4>1, <4>2
    <3>5. QED BY <2>19, <3>1, <3>2, <3>3, <3>4 DEF RowsOK, Listed
  <2>22. KeepsRows({p}, {l}) BY <2>15, <2>16, <2>20 DEF KeepsRows
  <2>23. (Knows(request[c]) /\ Fresh(request[c]) /\ Stays(request[c]))'
    BY <2>19 DEF Knows, Fresh, Stays
  <2>24. (\A k \in Listings : (Of(k)' \subseteq Of(k)) \/ (~ Adopting(k) /\ \A q, r \in Of(k)' : q = r))
           /\ \A q \in Properties : Agrees(q)'
    <3>1. CASE w.shown # None
      <4>1. l = w.seen.listing /\ prow.listing = property[p].listing /\ old = w.shown /\ now = listing[l]
        BY <1>1, <2>1, <2>4, <2>13, <3>1
      <4>2. \A k : Of(k)' = Of(k) BY <2>4, <2>15, <2>16, <4>1 DEF Of
      <4>3. ASSUME NEW q \in Properties PROVE Agrees(q)'
        <5> SUFFICES ASSUME property'[q] # None, property'[q].listing # None,
                            (property[q].listing \notin apart)', (Of(property[q].listing) = {q})'
                     PROVE  Agrees(q)'
          BY DEF Agrees
        <5>1. CASE q = p
          <6>1. ~ w.overtaken BY <2>16, <2>17, <5>1
          <6>2. prow.listing = l /\ prow.status = w.new.status BY <2>6, <2>13, <4>1, <6>1
          <6>3. /\ lrow.status = status_map[Lower[w.new.status]]
                /\ (lrow.active <=> Approved(w.new.status))
            <7>1. \A r \in ListingRow : r.active \in BOOLEAN BY DEF ListingRow
            <7>2. QED BY <2>4, <2>6, <2>9, <2>10, <2>11, <2>14, <4>1, <6>1, <7>1 DEF SameListing
          <6>4. w.new.status \in PropertyStatus BY <2>4 DEF PropertyRow
          <6>5. /\ property'[q].status = w.new.status /\ property'[q].listing = l
                /\ listing'[l].status = status_map[Lower[w.new.status]]
                /\ (listing'[l].active <=> Approved(w.new.status))
            BY <2>16, <5>1, <6>2, <6>3
          <6>6. QED BY <6>4, <6>5, NowAgrees
        <5>2. CASE q # p
          <6>1. property'[q] = property[q] BY <2>16, <5>2
          <6>2. PICK k \in Listings : k = property[q].listing BY <6>1, InvParts
          <6>3. k # l
            <7> SUFFICES ASSUME k = l PROVE FALSE OBVIOUS
            <7>1. ~ w.overtaken BY <2>7, <2>17, <6>1, <6>2
            <7>2. p \in Of(k) BY <2>4, <2>6, <4>1, <7>1 DEF Of
            <7>3. Of(k)' = {q} BY <6>1, <6>2 DEF Of
            <7>4. QED BY <4>2, <5>2, <7>2, <7>3
          <6>4. Of(k)' = Of(k) /\ listing'[k] = listing[k] /\ k \notin apart
            BY <2>16, <2>17, <4>2, <6>1, <6>2, <6>3
          <6>5. Agrees(q) BY InvParts
          <6>6. QED BY <6>1, <6>2, <6>4, <6>5 DEF Agrees, Public
        <5>3. QED BY <5>1, <5>2
      <4>4. QED BY <4>2, <4>3
    <3>2. CASE w.shown = None
      <4>1. listing[l] = None /\ listing[w.seen.listing] = Gone /\ w.overtaken
        BY <2>1, <2>4, <2>6, <3>2
      <4>2. l # w.seen.listing /\ prow.listing = l BY <2>13, <4>1, MarksAssumption
      <4>3. Of(l) = {} /\ ~ Adopting(l) BY <4>1, UnmadeListing
      <4>4. Of(l)' = {p} BY <2>15, <2>16, <4>2, <4>3 DEF Of
      <4>5. \A k \in Listings : k # l => Of(k)' = Of(k) \ {p} BY <2>16, <4>2 DEF Of
      <4>6. ASSUME NEW q \in Properties PROVE Agrees(q)'
        <5>1. CASE q = p BY <2>7, <2>16, <2>17, <4>1, <4>2, <5>1 DEF Agrees
        <5>2. CASE q # p
          <6>1. property'[q] = property[q] BY <2>16, <5>2
          <6> SUFFICES ASSUME property[q] # None, property[q].listing # None
                       PROVE  Agrees(q)'
            BY <6>1 DEF Agrees
          <6>2. PICK k \in Listings : k = property[q].listing /\ Listed(k) BY InvParts
          <6>3. k # l /\ q \in Of(k) BY <4>1, <6>2 DEF Listed, Of
          <6>4. p \notin Of(k)
            <7> SUFFICES ASSUME p \in Of(k) PROVE FALSE OBVIOUS
            <7>1. Shared(k) BY <5>2, <6>3 DEF Shared
            <7>2. w.seen.listing = k BY <2>8, <7>1
            <7>3. QED BY <4>1, <6>2, <7>2 DEF Listed
          <6>5. Of(k)' = Of(k)
            <7>1. Of(k)' = Of(k) \ {p} BY <4>5, <6>3
            <7>2. \A S : p \notin S => S \ {p} = S OBVIOUS
            <7>3. QED BY <6>4, <7>1, <7>2, Zenon
          <6>6. listing'[k] = listing[k] /\ (k \notin apart' => k \notin apart)
            BY <2>16, <2>17, <6>3
          <6>7. Agrees(q) BY InvParts
          <6>8. QED BY <6>1, <6>2, <6>5, <6>6, <6>7 DEF Agrees, Public
        <5>3. QED BY <5>1, <5>2
      <4>7. QED BY <4>3, <4>4, <4>5, <4>6
    <3>3. QED BY <3>1, <3>2
  <2>25. \A x \in {c} : x \in Requests =>
               /\ request'[x] = Idle \/ request'[x].stage # "adopting"
               /\ (Knows(request[x]) /\ Fresh(request[x]) /\ Stays(request[x]))'
    BY <2>19, <2>23
  <2>26. QED BY <2>19, <2>21, <2>22, <2>24, <2>25, RowStep
<1>4. QED BY <1>2, <1>3

-----------------------------------------------------------------------------
(* The steps that only load or end a request. *)

LEMMA WorkType == Work \in Request /\ Work.stage = "loaded" /\ Work.p = None /\ Work.l = None
BY DEF Work, Request

LEMMA OpenPropertyStep ==
    ASSUME CatalogueInv, NEW c \in Requests, NEW p \in Properties, NEW admin \in BOOLEAN,
           OpenProperty(c, p, admin)
    PROVE  StepOK'
<1> DEFINE x == [Work EXCEPT !.admin = admin, !.p = p, !.seen = property[p]]
<1>1. property[p] # None /\ Goes(c, x, {}, {}) /\ UNCHANGED <<property, listing, apart>>
  BY DEF OpenProperty
<1>2. property[p] \in PropertyRow BY <1>1, InvParts
<1>3. /\ x \in Request /\ x.stage = "loaded" /\ x.p = p /\ x.seen = property[p] /\ x.l = None
  <2> DEFINE u == [Work EXCEPT !.admin = admin]
             v == [u EXCEPT !.p = p]
  <2>1. x = [v EXCEPT !.seen = property[p]] OBVIOUS
  <2>2. u \in Request /\ u.stage = "loaded" /\ u.l = None BY WorkType DEF Request
  <2> HIDE DEF u
  <2>3. v \in Request /\ v.stage = "loaded" /\ v.l = None /\ v.p = p BY <2>2 DEF Request
  <2> HIDE DEF v, x
  <2>4. QED BY <1>2, <2>1, <2>3 DEF Request
<1> HIDE DEF x
<1>4. /\ request' \in [Requests -> Request \cup {Idle}] /\ request'[c] = x
      /\ OthersGoOn({c}, {}, {})
  <2>1. x \in Request \cup {Idle} BY <1>3
  <2>2. QED BY <1>1, <2>1, Going DEF CatalogueInv
<1>5. property[p].listing # None => property[p].listing \in Listings /\ listing[property[p].listing] # None
  BY <1>1, InvParts DEF Listed
<1>6. Knows(request[c])' BY <1>1, <1>2, <1>3, <1>4, <1>5 DEF Knows
<1>7. Fresh(request[c])' BY <1>1, <1>3, <1>4 DEF Fresh
<1>8. Stays(request[c])' BY <1>1, <1>3, <1>4 DEF Stays, Of
<1>9. QED BY <1>1, <1>3, <1>4, <1>6, <1>7, <1>8, QuietStep

LEMMA OpenListingStep ==
    ASSUME CatalogueInv, NEW c \in Requests, NEW l \in Listings, NEW stage \in {"deciding", "adopting"},
           Listed(l), stage = "adopting" => Of(l) = {},
           Goes(c, [Work EXCEPT !.stage = stage, !.l = l, !.shown = listing[l]], {}, {}),
           UNCHANGED <<property, listing, apart>>
    PROVE  StepOK'
<1> DEFINE x == [Work EXCEPT !.stage = stage, !.l = l, !.shown = listing[l]]
<1>1. listing[l] \in ListingRow BY InvParts
<1>2. /\ x \in Request /\ x.stage = stage /\ x.p = None /\ x.l = l /\ x.shown = listing[l]
  <2> DEFINE u == [Work EXCEPT !.stage = stage]
             v == [u EXCEPT !.l = l]
  <2>1. x = [v EXCEPT !.shown = listing[l]] OBVIOUS
  <2>2. u \in Request /\ u.stage = stage /\ u.p = None BY WorkType DEF Request
  <2> HIDE DEF u
  <2>3. v \in Request /\ v.stage = stage /\ v.l = l /\ v.p = None BY <2>2 DEF Request
  <2> HIDE DEF v, x
  <2>4. QED BY <1>1, <2>1, <2>3 DEF Request
<1> HIDE DEF x
<1>3. /\ request' \in [Requests -> Request \cup {Idle}] /\ request'[c] = x
      /\ OthersGoOn({c}, {}, {})
  <2>1. x \in Request \cup {Idle} BY <1>2
  <2>2. Goes(c, x, {}, {}) BY DEF x
  <2>3. QED BY <2>1, <2>2, Going DEF CatalogueInv
<1>4. Knows(request[c])' BY <1>1, <1>2, <1>3 DEF Knows, Listed
<1>5. Fresh(request[c])' BY <1>2, <1>3 DEF Fresh, SameListing, Listed
<1>6. Stays(request[c])' BY <1>2, <1>3 DEF Stays
<1>7. QED BY <1>2, <1>3, <1>4, <1>5, <1>6, QuietStep

LEMMA WritePropertyStep ==
    ASSUME CatalogueInv, NEW c \in Requests, NEW asked \in Asked \cup {None},
           NEW rooms \in (SUBSET RoomTypes) \cup {None}, NEW whole \in BOOLEAN, NEW other \in BOOLEAN,
           WriteProperty(c, asked, rooms, whole, other)
    PROVE  StepOK'
<1> DEFINE w == request[c]
           new == [w.seen EXCEPT
                     !.status = IF asked = None THEN @ ELSE SavedStatus(@, asked, w.admin, whole),
                     !.rooms = IF rooms = None THEN @ ELSE rooms]
           shown == IF Listed(w.seen.listing) THEN listing[w.seen.listing] ELSE None
           locks == other \/ new.status # w.seen.status
           named == IF w.admin THEN None ELSE asked
           x == [w EXCEPT !.stage = "saving", !.asked = named, !.new = new, !.locks = locks, !.l = w.seen.listing,
                          !.shown = shown]
<1>1. /\ w # Idle /\ w.stage = "loaded" /\ w.seen.listing # None
      /\ Goes(c, x, {}, {}) /\ UNCHANGED <<property, listing, apart>>
  BY DEF WriteProperty, Has
<1>2. w \in Request /\ Knows(w) /\ Fresh(w) /\ Stays(w) BY <1>1, InvParts
<1>3. /\ w.p \in Properties /\ property[w.p] # None /\ w.seen \in PropertyRow
      /\ listing[w.seen.listing] # None
  BY <1>1, <1>2 DEF Knows
<1>4. PICK l \in Listings : l = w.seen.listing BY <1>1, <1>3 DEF PropertyRow
<1>5. new \in PropertyRow /\ new.listing = l
  <2> DEFINE status == IF asked = None THEN w.seen.status ELSE SavedStatus(w.seen.status, asked, w.admin, whole)
             rooms1 == IF rooms = None THEN w.seen.rooms ELSE rooms
  <2>1. w.seen.status \in PropertyStatus /\ w.seen.rooms \in SUBSET RoomTypes /\ w.admin \in BOOLEAN
    BY <1>2, <1>3 DEF PropertyRow, Request
  <2>2. asked # None => asked \in PropertyStatus BY StatusesAssumption
  <2>3. status \in PropertyStatus BY <2>1, <2>2, SavedStatusType
  <2>4. rooms1 \in SUBSET RoomTypes BY <2>1
  <2> DEFINE u == [w.seen EXCEPT !.status = status]
  <2>5. new = [u EXCEPT !.rooms = rooms1]
    <3>1. PICK seen \in PropertyRow : seen = w.seen BY <1>3
    <3>2. \A a, b : [seen EXCEPT !.status = a, !.rooms = b] = [[seen EXCEPT !.status = a] EXCEPT !.rooms = b]
      OBVIOUS
    <3>3. new = [seen EXCEPT !.status = status, !.rooms = rooms1] BY <1>3, <3>1 DEF PropertyRow
    <3> HIDE DEF status, rooms1, w, new
    <3>4. QED BY <3>1, <3>2, <3>3
  <2> HIDE DEF status, rooms1, new
  <2>6. u \in PropertyRow /\ u.listing = l BY <1>3, <1>4, <2>3 DEF PropertyRow
  <2> HIDE DEF u
  <2>7. QED BY <2>4, <2>5, <2>6 DEF PropertyRow
<1>6. /\ shown \in ListingRow \cup {None}
      /\ shown # None => shown = listing[l] /\ shown \in ListingRow /\ Listed(l)
      /\ shown = None => listing[l] = Gone
  BY <1>3, <1>4, InvParts, MarksAssumption DEF Listed
<1>7. ~ w.overtaken => /\ property[w.p].listing = l /\ property[w.p].status = w.seen.status
                       /\ shown # None
  <2> SUFFICES ASSUME ~ w.overtaken
               PROVE  /\ property[w.p].listing = l /\ property[w.p].status = w.seen.status
                      /\ shown # None
    OBVIOUS
  <2>1. property[w.p].listing = l /\ property[w.p].status = w.seen.status
    BY <1>1, <1>2, <1>4 DEF Fresh
  <2>2. Listed(l) BY <1>1, <1>3, <1>4, <2>1, InvParts
  <2>3. QED BY <1>4, <1>6, <2>1, <2>2 DEF Listed
<1>8. \A k \in Listings : w.p \in Of(k) /\ Shared(k) => l = k
  <2>1. w.p # None BY <1>3, MarksAssumption
  <2>2. QED BY <1>1, <1>2, <1>4, <2>1 DEF Stays
<1>9. locks \in BOOLEAN OBVIOUS
<1>10. /\ x \in Request /\ x.stage = "saving" /\ x.p = w.p /\ x.seen = w.seen /\ x.new = new
       /\ x.l = l /\ x.shown = shown /\ x.overtaken = w.overtaken
  <2>1. named \in PropertyStatus \cup {None} BY StatusesAssumption
  <2> HIDE DEF w, new, shown, locks, named
  <2> DEFINE u1 == [w EXCEPT !.stage = "saving"]
             ua == [u1 EXCEPT !.asked = named]
             u2 == [ua EXCEPT !.new = new]
             u3 == [u2 EXCEPT !.locks = locks]
             u4 == [u3 EXCEPT !.l = w.seen.listing]
  <2>2. x = [u4 EXCEPT !.shown = shown] OBVIOUS
  <2>3. /\ u1 \in Request /\ u1.stage = "saving" /\ u1.p = w.p /\ u1.seen = w.seen
        /\ u1.overtaken = w.overtaken
    BY <1>2 DEF Request
  <2> HIDE DEF u1
  <2>4. /\ ua \in Request /\ ua.stage = "saving" /\ ua.p = w.p /\ ua.seen = w.seen
        /\ ua.overtaken = w.overtaken
    BY <2>1, <2>3 DEF Request
  <2> HIDE DEF ua
  <2>5. /\ u2 \in Request /\ u2.stage = "saving" /\ u2.p = w.p /\ u2.seen = w.seen /\ u2.new = new
        /\ u2.overtaken = w.overtaken
    BY <1>5, <2>4 DEF Request
  <2> HIDE DEF u2
  <2>6. /\ u3 \in Request /\ u3.stage = "saving" /\ u3.p = w.p /\ u3.seen = w.seen /\ u3.new = new
        /\ u3.overtaken = w.overtaken
    BY <1>9, <2>5 DEF Request
  <2> HIDE DEF u3
  <2>7. /\ u4 \in Request /\ u4.stage = "saving" /\ u4.p = w.p /\ u4.seen = w.seen /\ u4.new = new
        /\ u4.l = l /\ u4.overtaken = w.overtaken
    BY <1>4, <2>6 DEF Request
  <2> HIDE DEF u4, x
  <2>8. QED BY <1>6, <2>2, <2>7 DEF Request
<1>11. /\ request' \in [Requests -> Request \cup {Idle}] /\ request'[c] = x
      /\ OthersGoOn({c}, {}, {})
  <2> HIDE DEF x
  <2>1. x \in Request \cup {Idle} BY <1>10
  <2>2. QED BY <1>1, <2>1, Going DEF CatalogueInv
<1> HIDE DEF x, new, shown, locks, named
<1>12. l # None BY MarksAssumption
<1>13. Knows(request[c])'
  BY <1>1, <1>3, <1>4, <1>5, <1>6, <1>10, <1>11, <1>12 DEF Knows
<1>14. Fresh(request[c])'
  BY <1>1, <1>4, <1>6, <1>7, <1>10, <1>11 DEF Fresh, SameListing, Listed
<1>15. Stays(request[c])'
  <2>1. \A k \in Listings : Of(k)' = Of(k) BY <1>1 DEF Of
  <2>2. \A k \in Listings : Adopting(k)' => Adopting(k)
    BY <1>10, <1>11 DEF Adopting, OthersGoOn
  <2>3. \A k \in Listings : Shared(k)' => Shared(k) BY <2>1, <2>2 DEF Shared
  <2>4. QED BY <1>4, <1>8, <1>10, <1>11, <2>1, <2>3 DEF Stays
<1>16. QED BY <1>1, <1>10, <1>11, <1>13, <1>14, <1>15, QuietStep

-----------------------------------------------------------------------------
(* Every step, and what follows. *)

LEMMA CatalogueInit == Init => CatalogueInv
<1> SUFFICES ASSUME Init PROVE CatalogueInv OBVIOUS
<1>1. TypeOK BY MarksAssumption DEF Init, TypeOK
<1>2. RequestsKnow BY DEF Init, RequestsKnow, Knows, Fresh
<1>3. SharersStay BY DEF Init, SharersStay
<1>4. StatusesAgree BY DEF Init, StatusesAgree
<1>5. QED BY <1>1, <1>2, <1>3, <1>4 DEF CatalogueInv

LEMMA CatalogueStep == CatalogueInv /\ [Next]_vars => CatalogueInv'
<1> SUFFICES ASSUME CatalogueInv, [Next]_vars PROVE CatalogueInv' OBVIOUS
<1>1. CASE UNCHANGED vars
  BY <1>1 DEF CatalogueInv, vars, TypeOK, Listed, RequestsKnow, Knows, Fresh, SameListing, SharersStay,
              Shared, Adopting, Of, StatusesAgree, Public
<1>2. CASE Next
  <2>1. CASE /\ Counts
             /\ \/ \E p \in Properties, l \in Listings, asked \in Asked, rooms \in SUBSET RoomTypes :
                      CreateProperty(p, l, asked, rooms)
                \/ \E p \in Properties, rooms \in SUBSET RoomTypes : ChangeRoomTypes(p, rooms)
                \/ \E c \in Requests, p \in Properties, admin \in BOOLEAN : OpenProperty(c, p, admin)
                \/ \E c \in Requests, l \in Listings : OpenOrphan(c, l) \/ OpenListing(c, l)
                \/ \E l \in Listings :
                      \/ DeleteListing(l)
                      \/ \E active \in BOOLEAN, variants \in SUBSET RoomTypes :
                            \/ CreateListing(l, active, variants)
                            \/ ActivateListing(l, active)
                            \/ \E status \in Decisions : UpdateListing(l, status, active, variants)
    <3>1. served' \in 0 .. MaxServed
      BY <2>1, MarksAssumption DEF Counts, CatalogueInv, TypeOK
    <3>2. StepOK'
      <4>1. CASE \E p \in Properties, l \in Listings, asked \in Asked, rooms \in SUBSET RoomTypes :
                    CreateProperty(p, l, asked, rooms)
        BY <4>1, CreatePropertyStep
      <4>2. CASE \E p \in Properties, rooms \in SUBSET RoomTypes : ChangeRoomTypes(p, rooms)
        BY <4>2, ChangeRoomTypesStep
      <4>3. CASE \E c \in Requests, p \in Properties, admin \in BOOLEAN : OpenProperty(c, p, admin)
        BY <4>3, OpenPropertyStep
      <4>4. CASE \E c \in Requests, l \in Listings : OpenOrphan(c, l)
        BY <4>4, OpenListingStep DEF OpenOrphan
      <4>5. CASE \E c \in Requests, l \in Listings : OpenListing(c, l)
        BY <4>5, OpenListingStep DEF OpenListing
      <4>6. CASE \E l \in Listings : DeleteListing(l) BY <4>6, DeleteListingStep
      <4>7. CASE \E l \in Listings, active \in BOOLEAN, variants \in SUBSET RoomTypes :
                    CreateListing(l, active, variants)
        BY <4>7, CreateListingStep
      <4>8. CASE \E l \in Listings, active \in BOOLEAN, status \in Decisions, variants \in SUBSET RoomTypes :
                    UpdateListing(l, status, active, variants)
        BY <4>8, UpdateListingStep, StatusesAssumption
      <4>9. CASE \E l \in Listings, active \in BOOLEAN : ActivateListing(l, active)
        <5>1. PICK l \in Listings, active \in BOOLEAN : ActivateListing(l, active) BY <4>9
        <5>2. /\ listing[l] \in ListingRow
              /\ UpdateListing(l, listing[l].status, active, listing[l].variants)
          BY <5>1, InvParts DEF ActivateListing
        <5>3. listing[l].status \in ListingStatus /\ listing[l].variants \in SUBSET RoomTypes
          BY <5>2 DEF ListingRow
        <5>4. QED BY <5>2, <5>3, UpdateListingStep
      <4>10. QED BY <2>1, <4>1, <4>2, <4>3, <4>4, <4>5, <4>6, <4>7, <4>8, <4>9
    <3>3. QED BY <3>1, <3>2 DEF StepOK, RowsOK, CatalogueInv, TypeOK
  <2>2. CASE /\ UNCHANGED served
             /\ \E c \in Requests :
                   \/ CloseProperty(c)
                   \/ \E l \in Listings : ProjectMissing(c, l) \/ SaveProperty(c, l)
                   \/ \E asked \in Asked \cup {None}, rooms \in (SUBSET RoomTypes) \cup {None},
                         whole, other \in BOOLEAN : WriteProperty(c, asked, rooms, whole, other)
                   \/ \E p \in Properties, rooms \in SUBSET RoomTypes : CreateFromListing(c, p, rooms)
                   \/ \E status \in Decisions : DecideListing(c, status)
    <3>1. served' \in 0 .. MaxServed BY <2>2 DEF CatalogueInv, TypeOK
    <3>2. PICK c \in Requests :
                   \/ CloseProperty(c)
                   \/ \E l \in Listings : ProjectMissing(c, l) \/ SaveProperty(c, l)
                   \/ \E asked \in Asked \cup {None}, rooms \in (SUBSET RoomTypes) \cup {None},
                         whole, other \in BOOLEAN : WriteProperty(c, asked, rooms, whole, other)
                   \/ \E p \in Properties, rooms \in SUBSET RoomTypes : CreateFromListing(c, p, rooms)
                   \/ \E status \in Decisions : DecideListing(c, status)
      BY <2>2
    <3>3. StepOK'
      <4>1. CASE CloseProperty(c) BY <4>1, EndStep DEF CloseProperty
      <4>2. CASE \E l \in Listings : ProjectMissing(c, l) BY <4>2, ProjectMissingStep
      <4>3. CASE \E l \in Listings : SaveProperty(c, l) BY <4>3, SavePropertyStep
      <4>4. CASE \E asked \in Asked \cup {None}, rooms \in (SUBSET RoomTypes) \cup {None},
                    whole, other \in BOOLEAN : WriteProperty(c, asked, rooms, whole, other)
        BY <4>4, WritePropertyStep
      <4>5. CASE \E p \in Properties, rooms \in SUBSET RoomTypes : CreateFromListing(c, p, rooms)
        BY <4>5, CreateFromListingStep
      <4>6. CASE \E status \in Decisions : DecideListing(c, status)
        BY <4>6, DecideListingStep, StatusesAssumption
      <4>7. QED BY <3>2, <4>1, <4>2, <4>3, <4>4, <4>5, <4>6
    <3>4. QED BY <3>1, <3>3 DEF StepOK, RowsOK, CatalogueInv, TypeOK
  <2>3. QED BY <1>2, <2>1, <2>2 DEF Next
<1>3. QED BY <1>1, <1>2

\* In every state the rows are well formed, every request knows what its rows were, the properties
\* that share a listing stay with it, and the two statuses agree.
THEOREM CatalogueInvariant == Spec => []CatalogueInv
<1>1. QED BY CatalogueInit, CatalogueStep, PTL DEF Spec

\* However saves, decisions and deletions interleave (stay_repo.py, dashboard_service.py,
\* listing_repo.py): a property and the listing that the public sees agree on the status, unless a
\* route of listings alone, or a request that another had overtaken, made the last change.
THEOREM StatusesStayTogether == Spec => []StatusesAgree
<1>1. CatalogueInv => StatusesAgree BY DEF CatalogueInv
<1>2. QED BY <1>1, CatalogueInvariant, PTL

-----------------------------------------------------------------------------
(* Who approves. *)

LEMMA GoesVendor ==
    ASSUME CatalogueInv, VendorSaves, NEW c, NEW w, NEW ps, NEW ls, Goes(c, w, ps, ls), VendorSave(w)
    PROVE  VendorSaves'
<1> SUFFICES ASSUME NEW x \in Requests PROVE VendorSave(request'[x])
  BY DEF VendorSaves
<1>1. request'[x] = IF x = c THEN w
        ELSE IF request[x] = Idle \/ (request[x].p \notin ps /\ request[x].l \notin ls) THEN request[x]
        ELSE [request[x] EXCEPT !.overtaken = TRUE]
  BY DEF Goes
<1>2. VendorSave(request[x]) /\ (request[x] # Idle => request[x] \in Request)
  BY InvParts DEF VendorSaves
<1>3. CASE x = c BY <1>1, <1>3
<1>4. CASE x # c /\ request'[x] = request[x] BY <1>2, <1>4
<1>5. CASE x # c /\ request[x] # Idle /\ request'[x] = [request[x] EXCEPT !.overtaken = TRUE]
  <2>1. PICK r \in Request : r = request[x] BY <1>2, <1>5
  <2>2. LET o == [r EXCEPT !.overtaken = TRUE]
        IN  /\ o.stage = r.stage /\ o.admin = r.admin /\ o.asked = r.asked
            /\ o.new = r.new /\ o.seen = r.seen
    BY DEF Request
  <2>3. QED BY <1>2, <1>5, <2>1, <2>2 DEF VendorSave
<1>6. QED BY <1>1, <1>3, <1>4, <1>5

LEMMA WriteVendor ==
    ASSUME CatalogueInv, VendorSaves,
           NEW c \in Requests, NEW asked \in Asked \cup {None},
           NEW rooms \in (SUBSET RoomTypes) \cup {None}, NEW whole \in BOOLEAN, NEW other \in BOOLEAN,
           WriteProperty(c, asked, rooms, whole, other)
    PROVE  VendorSaves'
<1> DEFINE w == request[c]
           new == [w.seen EXCEPT
                     !.status = IF asked = None THEN @ ELSE SavedStatus(@, asked, w.admin, whole),
                     !.rooms = IF rooms = None THEN @ ELSE rooms]
           shown == IF Listed(w.seen.listing) THEN listing[w.seen.listing] ELSE None
           locks == other \/ new.status # w.seen.status
           named == IF w.admin THEN None ELSE asked
           x == [w EXCEPT !.stage = "saving", !.asked = named, !.new = new, !.locks = locks, !.l = w.seen.listing,
                          !.shown = shown]
<1>1. w # Idle /\ w.stage = "loaded" /\ Goes(c, x, {}, {})
  BY DEF WriteProperty, Has
<1>2. w \in Request /\ Knows(w) BY <1>1, InvParts
<1>3. w.seen \in PropertyRow /\ w.admin \in BOOLEAN BY <1>1, <1>2 DEF Knows, Request
<1>4. new.status = IF asked = None THEN w.seen.status ELSE SavedStatus(w.seen.status, asked, w.admin, whole)
  <2>1. PICK seen \in PropertyRow : seen = w.seen BY <1>3
  <2>2. \A a, b : [seen EXCEPT !.status = a, !.rooms = b].status = a BY DEF PropertyRow
  <2>3. QED BY <2>1, <2>2
<1>5. x.new = new /\ x.seen = w.seen /\ x.admin = w.admin /\ x.asked = named
  <2> HIDE DEF new, shown, locks, w, named
  <2>1. QED BY <1>2 DEF Request
<1>6. ~ w.admin => \/ Approved(new.status) = Approved(w.seen.status)
                   \/ /\ asked # None
                      /\ IF Approved(new.status) THEN Approved(asked) ELSE Lower[asked] = "draft"
  <2> HIDE DEF new
  <2>1. CASE asked = None BY <1>4, <2>1
  <2>2. CASE asked # None
    <3>1. asked \in PropertyStatus BY <2>2, StatusesAssumption
    <3>2. w.seen.status \in PropertyStatus BY <1>3 DEF PropertyRow
    <3>3. PICK previous \in PropertyStatus, admin \in BOOLEAN : previous = w.seen.status /\ admin = w.admin
      BY <1>3, <3>2
    <3>4. new.status = SavedStatus(previous, asked, admin, whole) BY <1>4, <2>2, <3>3
    <3>5. ~ admin => LET n == SavedStatus(previous, asked, admin, whole)
                     IN  \/ Approved(n) = Approved(previous)
                         \/ IF Approved(n) THEN Approved(asked) ELSE Lower[asked] = "draft"
      BY <3>1, SavedStatusType
    <3>6. QED BY <2>2, <3>3, <3>4, <3>5
  <2>3. QED BY <2>1, <2>2
<1>7. VendorSave(x)
  <2> HIDE DEF x, new, w
  <2>1. QED BY <1>5, <1>6 DEF VendorSave
<1>8. QED
  <2> HIDE DEF x
  <2>1. QED BY <1>1, <1>7, GoesVendor

LEMMA VendorStep ==
    ASSUME CatalogueInv, VendorSaves, [Next]_vars
    PROVE  VendorSaves'
<1>1. VendorSave(Idle) BY DEF VendorSave
<1>2. ASSUME NEW c, NEW ps, NEW ls, Goes(c, Idle, ps, ls) PROVE VendorSaves'
  BY <1>1, <1>2, GoesVendor
<1>3. CASE UNCHANGED request BY <1>3 DEF VendorSaves
<1>4. ASSUME NEW c \in Requests, NEW p \in Properties, NEW admin \in BOOLEAN, OpenProperty(c, p, admin)
      PROVE  VendorSaves'
  <2> DEFINE x == [Work EXCEPT !.admin = admin, !.p = p, !.seen = property[p]]
  <2>1. x.stage = "loaded" BY DEF Work
  <2>2. VendorSave(x) BY <2>1 DEF VendorSave
  <2>3. Goes(c, x, {}, {}) BY <1>4 DEF OpenProperty
  <2> HIDE DEF x
  <2>4. QED BY <2>2, <2>3, GoesVendor
<1>5. ASSUME NEW c \in Requests, NEW l \in Listings, NEW stage \in {"deciding", "adopting"},
             Goes(c, [Work EXCEPT !.stage = stage, !.l = l, !.shown = listing[l]], {}, {})
      PROVE  VendorSaves'
  <2> DEFINE x == [Work EXCEPT !.stage = stage, !.l = l, !.shown = listing[l]]
  <2>1. x.stage = stage BY DEF Work
  <2>2. VendorSave(x) BY <2>1 DEF VendorSave
  <2>3. Goes(c, x, {}, {}) BY <1>5
  <2> HIDE DEF x
  <2>4. QED BY <2>2, <2>3, GoesVendor
<1>6. ASSUME NEW c \in Requests, NEW l \in Listings, ProjectMissing(c, l) PROVE VendorSaves'
  <2> DEFINE w == request[c]
             x == [w EXCEPT !.seen = [property[w.p] EXCEPT !.listing = l], !.overtaken = FALSE]
  <2>1. w # Idle /\ w.stage = "loaded" /\ Goes(c, x, {w.p}, {}) BY <1>6 DEF ProjectMissing, Has
  <2>2. PICK r \in Request : r = w BY <2>1, InvParts
  <2>3. \A a, b : [r EXCEPT !.seen = a, !.overtaken = b].stage = r.stage BY DEF Request
  <2>4. x.stage = "loaded" BY <2>1, <2>2, <2>3
  <2>5. VendorSave(x) BY <2>4 DEF VendorSave
  <2> HIDE DEF x
  <2>6. QED BY <2>1, <2>5, GoesVendor
<1>7. ASSUME Next PROVE VendorSaves'
  <2>1. \/ UNCHANGED request
        \/ \E c \in Requests, p \in Properties, admin \in BOOLEAN : OpenProperty(c, p, admin)
        \/ \E c \in Requests, l \in Listings, stage \in {"deciding", "adopting"} :
              Goes(c, [Work EXCEPT !.stage = stage, !.l = l, !.shown = listing[l]], {}, {})
        \/ \E c \in Requests, l \in Listings : ProjectMissing(c, l)
        \/ \E c \in Requests, asked \in Asked \cup {None}, rooms \in (SUBSET RoomTypes) \cup {None},
              whole, other \in BOOLEAN : WriteProperty(c, asked, rooms, whole, other)
        \/ \E c, ps, ls : Goes(c, Idle, ps, ls)
    <3>1. ASSUME NEW l \in Listings, NEW status, NEW active, NEW variants,
                 UpdateListing(l, status, active, variants)
          PROVE  Goes(None, Idle, {}, {l})
      BY <3>1 DEF UpdateListing
    <3>2. ASSUME NEW l \in Listings, NEW active, ActivateListing(l, active)
          PROVE  Goes(None, Idle, {}, {l})
      BY <3>1, <3>2 DEF ActivateListing
    <3>3. ASSUME NEW l \in Listings, DeleteListing(l) PROVE Goes(None, Idle, Of(l), {l})
      BY <3>3 DEF DeleteListing
    <3>4. ASSUME NEW c \in Requests, NEW l \in Listings, OpenOrphan(c, l) \/ OpenListing(c, l)
          PROVE  \E stage \in {"deciding", "adopting"} :
                    Goes(c, [Work EXCEPT !.stage = stage, !.l = l, !.shown = listing[l]], {}, {})
      BY <3>4 DEF OpenOrphan, OpenListing
    <3>5. ASSUME NEW c \in Requests, NEW l \in Listings, SaveProperty(c, l)
          PROVE  \E ps, ls : Goes(c, Idle, ps, ls)
      BY <3>5 DEF SaveProperty, Fails
    <3>6. ASSUME NEW c \in Requests, CloseProperty(c) PROVE Goes(c, Idle, {}, {})
      BY <3>6 DEF CloseProperty, Fails
    <3>7. ASSUME NEW c \in Requests, NEW p \in Properties, NEW rooms, CreateFromListing(c, p, rooms)
          PROVE  \E ps, ls : Goes(c, Idle, ps, ls)
      BY <3>7 DEF CreateFromListing, Fails
    <3>8. ASSUME NEW c \in Requests, NEW status, DecideListing(c, status)
          PROVE  \E ps, ls : Goes(c, Idle, ps, ls)
      BY <3>8 DEF DecideListing, Fails
    <3>9. ASSUME NEW p \in Properties, NEW l \in Listings, NEW asked, NEW rooms, CreateProperty(p, l, asked, rooms)
          PROVE  UNCHANGED request
      BY <3>9 DEF CreateProperty
    <3>10. ASSUME NEW p \in Properties, NEW rooms, ChangeRoomTypes(p, rooms) PROVE UNCHANGED request
      BY <3>10 DEF ChangeRoomTypes
    <3>11. ASSUME NEW l \in Listings, NEW active, NEW variants, CreateListing(l, active, variants)
           PROVE  UNCHANGED request
      BY <3>11 DEF CreateListing
    <3>12. QED
      BY <1>7, <3>1, <3>2, <3>3, <3>4, <3>5, <3>6, <3>7, <3>8, <3>9, <3>10, <3>11, Zenon DEF Next
  <2>2. QED BY <1>2, <1>3, <1>4, <1>5, <1>6, <2>1, WriteVendor
<1>8. QED BY <1>3, <1>7 DEF vars

\* The steps that change an approval.
LEMMA ApprovalStep ==
    ASSUME CatalogueInv, VendorSaves, [Next]_vars, NEW p \in Properties, property[p] # None,
           Approved(property'[p].status) # Approved(property[p].status)
    PROVE  \E c \in Requests :
             LET w == request[c]
             IN  /\ w # Idle /\ request'[c] = Idle
                 /\ \/ w.stage = "deciding"
                    \/ /\ w.stage = "saving" /\ w.p = p
                       /\ \/ w.admin
                          \/ /\ w.overtaken
                             /\ Approved(w.seen.status) = Approved(property'[p].status)
                          \/ /\ w.asked # None
                             /\ IF Approved(property'[p].status) THEN Approved(w.asked)
                                ELSE Lower[w.asked] = "draft"
<1> DEFINE Done(c) ==
             LET w == request[c]
             IN  /\ w # Idle /\ request'[c] = Idle
                 /\ \/ w.stage = "deciding"
                    \/ /\ w.stage = "saving" /\ w.p = p
                       /\ \/ w.admin
                          \/ /\ w.overtaken
                             /\ Approved(w.seen.status) = Approved(property'[p].status)
                          \/ /\ w.asked # None
                             /\ IF Approved(property'[p].status) THEN Approved(w.asked)
                                ELSE Lower[w.asked] = "draft"
<1>1. property'[p].status # property[p].status OBVIOUS
<1>2. property' # property BY <1>1
<1>3. Next BY <1>2 DEF vars
<1>4. property[p] \in PropertyRow BY InvParts
<1>5. Idle \in Request \cup {Idle} OBVIOUS
<1>6. ASSUME NEW q \in Properties, NEW l \in Listings, NEW asked, NEW rooms, CreateProperty(q, l, asked, rooms)
      PROVE  FALSE
  BY <1>1, <1>6, InvParts DEF CreateProperty
<1>7. ASSUME NEW q \in Properties, NEW rooms, ChangeRoomTypes(q, rooms) PROVE FALSE
  <2>1. property' = [property EXCEPT ![q] = [property[q] EXCEPT !.rooms = rooms]]
    BY <1>7 DEF ChangeRoomTypes
  <2>2. CASE p = q BY <1>1, <1>4, <2>1, <2>2, InvParts DEF PropertyRow
  <2>3. CASE p # q BY <1>1, <2>1, <2>3, InvParts
  <2>4. QED BY <2>2, <2>3
<1>8. ASSUME NEW l \in Listings, DeleteListing(l) PROVE FALSE
  <2>1. property'[p] = IF p \in Of(l) THEN [property[p] EXCEPT !.listing = None] ELSE property[p]
    BY <1>8 DEF DeleteListing, Unlisted
  <2>2. QED BY <1>1, <1>4, <2>1 DEF PropertyRow
<1>9. ASSUME NEW c \in Requests, NEW l \in Listings, ProjectMissing(c, l) PROVE FALSE
  <2>1. property' = [property EXCEPT ![request[c].p] = [property[request[c].p] EXCEPT !.listing = l]]
    BY <1>9 DEF ProjectMissing
  <2>2. CASE p = request[c].p BY <1>1, <1>4, <2>1, <2>2, InvParts DEF PropertyRow
  <2>3. CASE p # request[c].p BY <1>1, <2>1, <2>3, InvParts
  <2>4. QED BY <2>2, <2>3
<1>10. ASSUME NEW c \in Requests, NEW q \in Properties, NEW rooms, CreateFromListing(c, q, rooms)
       PROVE  FALSE
  <2>1. CASE ~ Listed(request[c].l) BY <1>2, <1>10, <2>1 DEF CreateFromListing, Fails
  <2>2. CASE Listed(request[c].l) BY <1>1, <1>10, <2>2, InvParts DEF CreateFromListing
  <2>3. QED BY <2>1, <2>2
<1>11. ASSUME NEW c \in Requests, NEW status, DecideListing(c, status) PROVE Done(c)
  <2>1. CASE ~ Listed(request[c].l) BY <1>2, <1>11, <2>1 DEF DecideListing, Fails
  <2>2. CASE Listed(request[c].l)
    <3>1. /\ request[c] # Idle /\ request[c].stage = "deciding"
          /\ \E ps, ls : Goes(c, Idle, ps, ls)
      BY <1>11, <2>2 DEF DecideListing, Has
    <3>2. request'[c] = Idle BY <3>1 DEF Goes
    <3>3. QED BY <3>1, <3>2
  <2>3. QED BY <2>1, <2>2
<1>12. ASSUME NEW c \in Requests, NEW l \in Listings, SaveProperty(c, l) PROVE Done(c)
  <2> DEFINE w == request[c]
             saved == [w.new EXCEPT !.listing = l]
             row == Merged(property[w.p], w.seen, saved)
  <2>1. w # Idle /\ w.stage = "saving" /\ \E ps, ls : Goes(c, Idle, ps, ls)
    BY <1>12 DEF SaveProperty, Has, Fails
  <2>2. request'[c] = Idle BY <2>1 DEF Goes
  <2>3. property' = [property EXCEPT ![w.p] = row] BY <1>2, <1>12 DEF SaveProperty, Fails
  <2>4. w.p = p BY <1>1, <2>3, InvParts
  <2>5. property'[p] = row BY <2>3, <2>4, InvParts
  <2>6. Knows(w) /\ Fresh(w) /\ VendorSave(w) BY InvParts DEF VendorSaves
  <2>7. w.seen \in PropertyRow /\ w.new \in PropertyRow BY <2>1, <2>6 DEF Knows
  <2>8. saved \in PropertyRow /\ saved.status = w.new.status BY <2>7 DEF PropertyRow
  <2> DEFINE Reasons == \/ w.overtaken /\ Approved(w.seen.status) = Approved(property'[p].status)
                        \/ /\ w.asked # None
                           /\ IF Approved(property'[p].status) THEN Approved(w.asked)
                              ELSE Lower[w.asked] = "draft"
  <2> SUFFICES ASSUME ~ w.admin PROVE Reasons
    BY <2>1, <2>2, <2>4
  <2>9. ~ w.overtaken => property[p].status = w.seen.status BY <2>1, <2>4, <2>6 DEF Fresh
  <2>10. row.status = IF saved.status = w.seen.status THEN property[p].status ELSE saved.status
    <3> HIDE DEF saved, w
    <3>1. QED BY <1>4, <2>4, <2>7, <2>8, MergedProperty
  <2> HIDE DEF saved, row
  <2>11. property'[p].status = w.new.status BY <1>1, <2>5, <2>8, <2>10
  <2>12. \/ Approved(w.new.status) = Approved(w.seen.status)
         \/ /\ w.asked # None
            /\ IF Approved(w.new.status) THEN Approved(w.asked) ELSE Lower[w.asked] = "draft"
    BY <2>1, <2>6 DEF VendorSave
  <2>13. CASE w.asked # None /\ IF Approved(w.new.status) THEN Approved(w.asked)
                                ELSE Lower[w.asked] = "draft"
    BY <2>11, <2>13
  <2>14. CASE Approved(w.new.status) = Approved(w.seen.status)
    <3>1. w.overtaken BY <2>9, <2>11, <2>14
    <3>2. QED BY <2>11, <2>14, <3>1
  <2>15. QED BY <2>12, <2>13, <2>14
<1>13. \E c \in Requests : Done(c)
  <2> HIDE DEF Done
  <2>1. \/ \E c \in Requests, status \in Decisions : DecideListing(c, status)
        \/ \E c \in Requests, l \in Listings : SaveProperty(c, l)
    <3>1. ASSUME NEW c \in Requests, NEW q \in Properties, NEW admin, OpenProperty(c, q, admin) PROVE FALSE
      BY <1>2, <3>1 DEF OpenProperty
    <3>2. ASSUME NEW c \in Requests, NEW l \in Listings, OpenOrphan(c, l) \/ OpenListing(c, l) PROVE FALSE
      BY <1>2, <3>2 DEF OpenOrphan, OpenListing
    <3>3. ASSUME NEW l \in Listings, NEW status, NEW active, NEW variants,
                 UpdateListing(l, status, active, variants)
          PROVE  FALSE
      BY <1>2, <3>3 DEF UpdateListing
    <3>4. ASSUME NEW l \in Listings, NEW active, ActivateListing(l, active) PROVE FALSE
      BY <3>3, <3>4 DEF ActivateListing
    <3>5. ASSUME NEW l \in Listings, NEW active, NEW variants, CreateListing(l, active, variants) PROVE FALSE
      BY <1>2, <3>5 DEF CreateListing
    <3>6. ASSUME NEW c \in Requests, CloseProperty(c) PROVE FALSE
      BY <1>2, <3>6 DEF CloseProperty, Fails
    <3>7. ASSUME NEW c \in Requests, NEW asked, NEW rooms, NEW whole, NEW other,
                 WriteProperty(c, asked, rooms, whole, other)
          PROVE  FALSE
      BY <1>2, <3>7 DEF WriteProperty
    <3>8. QED
      BY <1>3, <1>6, <1>7, <1>8, <1>9, <1>10, <3>1, <3>2, <3>3, <3>4, <3>5, <3>6, <3>7, Zenon DEF Next
  <2>2. QED BY <1>11, <1>12, <2>1
<1>14. QED BY <1>13

\* Whatever statuses payloads name (stay_schema.py:61 takes any): a vendor's save approves a property
\* only if its payload names an approved status, and takes an approval away only if it names draft;
\* beside that it overwrites at most a decision that came after it had loaded the property, and then
\* with the approval, or the want of one, that it found (stay_repo.py:114, :159).
THEOREM ApprovalsChangeAsNamed == Spec => ApprovalsAreNamed
<1>1. Init => VendorSaves BY DEF Init, VendorSaves, VendorSave
<1>2. CatalogueInv /\ VendorSaves /\ [Next]_vars => VendorSaves' BY VendorStep
<1>3. Spec => []VendorSaves BY <1>1, <1>2, CatalogueInvariant, PTL DEF Spec
<1>4. CatalogueInv /\ VendorSaves /\ [Next]_vars =>
        [\A p \in Properties :
         property[p] # None /\ (Approved(property'[p].status) # Approved(property[p].status)) =>
             \E c \in Requests :
                 LET w == request[c]
                 IN  /\ w # Idle /\ request'[c] = Idle
                     /\ \/ w.stage = "deciding"
                        \/ /\ w.stage = "saving" /\ w.p = p
                           /\ \/ w.admin
                              \/ /\ w.overtaken
                                 /\ Approved(w.seen.status) = Approved(property'[p].status)
                              \/ /\ w.asked # None
                                 /\ IF Approved(property'[p].status) THEN Approved(w.asked)
                                    ELSE Lower[w.asked] = "draft"]_vars
  BY ApprovalStep
<1>5. QED BY <1>3, <1>4, CatalogueInvariant, PTL DEF Spec, ApprovalsAreNamed

-----------------------------------------------------------------------------
(***************************************************************************)
(* ListingMedia: an image that is taken back must not be one the listing   *)
(* shows, although nothing locks it. The invariant says whose it is: the   *)
(* photos of an upload have their images, are rows of nobody yet and are   *)
(* its own (Own, Apart), and a photo whose image is destroyed was asked    *)
(* for.                                                                    *)
(***************************************************************************)

CONSTANTS Photos, Uploads, NoCover, NoUpload
VARIABLES rows, primary, projected, cover, images, upload, deleted

M == INSTANCE ListingMedia
         WITH Requests <- Uploads, None <- NoCover, Idle <- NoUpload, request <- upload, asked <- deleted

\* What the theorems take of the constants.
MediaConstants == NoCover \notin Photos /\ NoUpload \notin M!Request

\* What a request has to itself, over the rows, images and asked-for photos given.
Own(q, rs, is, as) ==
    /\ q.op = "upload" => /\ q.added \subseteq is \ rs
                          /\ q.leads /\ q.added # {} => q.photo \in q.added /\ q.stage = "cleared"
    /\ q.op # "upload" => q.added = {}
    /\ q.op \in {"primary", "delete"} => q.photo \in Photos
    /\ q.op = "delete" => q.photo \in as

Apart(q, r) == q.added \cap (r.added \cup {r.photo}) = {}

RequestsOwn ==
    /\ \A c \in Uploads : upload[c] # NoUpload => Own(upload[c], rows, images, deleted)
    /\ \A c, d \in Uploads : c # d /\ upload[c] # NoUpload /\ upload[d] # NoUpload => Apart(upload[c], upload[d])

MediaInv == M!TypeOK /\ RequestsOwn /\ M!OnlyDeletedImagesAreLost

-----------------------------------------------------------------------------
(* One request moves to q; what the others own stays theirs. *)

LEMMA Moves ==
    ASSUME MediaConstants, MediaInv, NEW c \in Uploads, NEW q \in M!Request \cup {NoUpload}, M!Goes(c, q),
           q # NoUpload => Own(q, rows', images', deleted'),
           \A d \in Uploads : d # c /\ upload[d] # NoUpload =>
               /\ Own(upload[d], rows', images', deleted')
               /\ q # NoUpload => Apart(q, upload[d]) /\ Apart(upload[d], q)
    PROVE  upload' \in [Uploads -> M!Request \cup {NoUpload}] /\ RequestsOwn'
  <1>1. \A d \in Uploads : upload'[d] = IF d = c THEN q ELSE upload[d]
    BY DEF M!Goes, MediaInv, M!TypeOK
  <1>2. upload' \in [Uploads -> M!Request \cup {NoUpload}]
    BY DEF M!Goes, MediaInv, M!TypeOK
  <1>3. ASSUME NEW d \in Uploads, upload'[d] # NoUpload
        PROVE  Own(upload'[d], rows', images', deleted')
    BY <1>1, <1>3
  <1>4. ASSUME NEW d \in Uploads, NEW e \in Uploads, d # e, upload'[d] # NoUpload, upload'[e] # NoUpload
        PROVE  Apart(upload'[d], upload'[e])
    <2>1. CASE d = c
      BY <1>1, <1>4, <2>1
    <2>2. CASE e = c
      BY <1>1, <1>4, <2>2
    <2>3. CASE d # c /\ e # c
      BY <1>1, <1>4, <2>3 DEF MediaInv, RequestsOwn
    <2> QED
      BY <2>1, <2>2, <2>3
  <1> QED
    BY <1>2, <1>3, <1>4 DEF RequestsOwn

\* The common case: rows, images and asked-for photos stay, and q has no photos of its own.
LEMMA MovesQuietly ==
    ASSUME MediaConstants, MediaInv, NEW c \in Uploads, NEW q \in M!Request \cup {NoUpload}, M!Goes(c, q),
           q # NoUpload => Own(q, rows, images, deleted),
           q # NoUpload => q.added = {} /\ (q.photo \in rows \/ q.photo = NoCover
                                         \/ (upload[c] # NoUpload /\ q.photo = upload[c].photo)),
           UNCHANGED <<rows, primary, projected, cover, images>>, deleted \subseteq deleted', deleted' \subseteq Photos
    PROVE  MediaInv'
  <1>1. ASSUME NEW d \in Uploads, d # c, upload[d] # NoUpload
        PROVE  /\ Own(upload[d], rows', images', deleted')
               /\ q # NoUpload => Apart(q, upload[d]) /\ Apart(upload[d], q)
    <2>1. upload[d] \in M!Request /\ Own(upload[d], rows, images, deleted)
      BY <1>1 DEF MediaInv, M!TypeOK, RequestsOwn
    <2>2. Own(upload[d], rows', images', deleted')
      BY <2>1 DEF Own
    <2>3. upload[d].added \subseteq Photos /\ upload[d].added \cap rows = {}
      BY <2>1 DEF Own, M!Request
    <2>4. upload[c] # NoUpload => Apart(upload[d], upload[c])
      BY <1>1 DEF MediaInv, RequestsOwn
    <2>5. ASSUME q # NoUpload
          PROVE  Apart(q, upload[d]) /\ Apart(upload[d], q)
      BY <2>3, <2>4, <2>5 DEF Apart, MediaConstants
    <2> QED
      BY <2>2, <2>5
  <1>2. q # NoUpload => Own(q, rows', images', deleted')
    BY DEF Own
  <1>3. upload' \in [Uploads -> M!Request \cup {NoUpload}] /\ RequestsOwn'
    BY <1>1, <1>2, Moves
  <1>4. M!TypeOK'
    BY <1>3 DEF MediaInv, M!TypeOK
  <1>5. M!OnlyDeletedImagesAreLost'
    BY DEF MediaInv, M!OnlyDeletedImagesAreLost
  <1> QED
    BY <1>3, <1>4, <1>5 DEF MediaInv

\* A request that ends, leaving rows' and images' such that nobody else loses a photo.
LEMMA Ends ==
    ASSUME MediaConstants, MediaInv, NEW c \in Uploads, M!Goes(c, NoUpload),
           rows' \subseteq Photos, projected' \subseteq Photos, images' \subseteq Photos, primary' \subseteq rows',
           cover' \in rows' \cup {NoCover}, UNCHANGED deleted, rows' \ projected' \subseteq images' \cup deleted,
           \A d \in Uploads : d # c /\ upload[d] # NoUpload /\ upload[d].op = "upload" =>
               upload[d].added \subseteq images' \ rows'
    PROVE  MediaInv'
  <1>1. ASSUME NEW d \in Uploads, d # c, upload[d] # NoUpload
        PROVE  Own(upload[d], rows', images', deleted')
    BY <1>1 DEF MediaInv, RequestsOwn, Own
  <1>2. upload' \in [Uploads -> M!Request \cup {NoUpload}] /\ RequestsOwn'
    BY <1>1, Moves
  <1>3. M!TypeOK'
    BY <1>2 DEF MediaInv, M!TypeOK
  <1>4. M!OnlyDeletedImagesAreLost'
    BY DEF M!OnlyDeletedImagesAreLost
  <1> QED
    BY <1>2, <1>3, <1>4 DEF MediaInv

-----------------------------------------------------------------------------
(* Types of the records. *)

LEMMA LoadedType ==
    ASSUME MediaInv, NEW op \in {"upload", "primary", "delete", "project"}, NEW p \in Photos \cup {NoCover},
           NEW leads \in BOOLEAN
    PROVE  /\ M!Loaded(op, p, leads) \in M!Request
           /\ M!Loaded(op, p, leads).op = op /\ M!Loaded(op, p, leads).photo = p
           /\ M!Loaded(op, p, leads).added = {}
  <1> DEFINE old == IF op = "project" THEN projected ELSE {}
  <1>1. primary \subseteq Photos /\ cover \in Photos \cup {NoCover} /\ old \subseteq Photos
    BY DEF MediaInv, M!TypeOK
  <1>2. M!Loaded(op, p, leads) =
          [op |-> op, stage |-> "loaded", flags |-> primary, was |-> cover, leads |-> leads,
           added |-> {}, photo |-> p, cleared |-> {}, old |-> old]
    BY DEF M!Loaded
  <1> HIDE DEF old
  <1> QED
    BY <1>1, <1>2 DEF M!Request

LEMMA ClearType ==
    ASSUME MediaInv, NEW q \in M!Request
    PROVE  /\ M!ClearPrimary(q) \in M!Request
           /\ M!ClearPrimary(q).op = q.op /\ M!ClearPrimary(q).photo = q.photo
           /\ M!ClearPrimary(q).added = q.added /\ M!ClearPrimary(q).leads = q.leads
           /\ M!ClearPrimary(q).stage = "cleared" /\ M!ClearPrimary(q).cleared = primary
  BY DEF MediaInv, M!TypeOK, M!ClearPrimary, M!Request

LEMMA InRequest ==
    ASSUME MediaInv, NEW c \in Uploads, upload[c] # NoUpload
    PROVE  upload[c] \in M!Request /\ Own(upload[c], rows, images, deleted)
  BY DEF MediaInv, M!TypeOK, RequestsOwn

-----------------------------------------------------------------------------
(* One lemma per operation. *)

LEMMA StartUploadStep ==
    ASSUME MediaConstants, MediaInv, NEW c \in Uploads, M!StartUpload(c)
    PROVE  MediaInv'
  <1>1. PICK leads \in BOOLEAN : M!Goes(c, M!Loaded("upload", NoCover, leads))
    BY DEF M!StartUpload
  <1> DEFINE q == M!Loaded("upload", NoCover, leads)
  <1>2. q \in M!Request /\ q.op = "upload" /\ q.photo = NoCover /\ q.added = {}
    BY LoadedType
  <1>3. UNCHANGED <<rows, primary, projected, cover, images, deleted>>
    BY DEF M!StartUpload
  <1> HIDE DEF q
  <1>4. Own(q, rows, images, deleted)
    BY <1>2 DEF Own
  <1>5. deleted' \subseteq Photos
    BY <1>3 DEF MediaInv, M!TypeOK
  <1> QED
    BY <1>1, <1>2, <1>3, <1>4, <1>5, MovesQuietly DEF q

LEMMA StartsStep ==
    ASSUME MediaConstants, MediaInv, NEW c \in Uploads, NEW p \in Photos,
           M!StartSetPrimary(c, p) \/ M!StartDelete(c, p)
    PROVE  MediaInv'
  <1>1. CASE M!StartSetPrimary(c, p)
    <2> DEFINE q == M!Loaded("primary", p, FALSE)
    <2>1. q \in M!Request /\ q.op = "primary" /\ q.photo = p /\ q.added = {}
      BY LoadedType
    <2>2. p \in rows /\ M!Goes(c, q) /\ UNCHANGED <<rows, primary, projected, cover, images, deleted>>
      BY <1>1 DEF M!StartSetPrimary
    <2> HIDE DEF q
    <2>3. Own(q, rows, images, deleted)
      BY <2>1 DEF Own
    <2>4. deleted' \subseteq Photos
      BY <2>2 DEF MediaInv, M!TypeOK
    <2> QED
      BY <2>1, <2>2, <2>3, <2>4, MovesQuietly
  <1>2. CASE M!StartDelete(c, p)
    <2> DEFINE q == M!Loaded("delete", p, FALSE)
    <2>1. q \in M!Request /\ q.op = "delete" /\ q.photo = p /\ q.added = {}
      BY LoadedType
    <2>2. p \in rows /\ M!Goes(c, q) /\ UNCHANGED <<rows, primary, projected, cover, images>> /\ deleted' = deleted \cup {p}
      BY <1>2 DEF M!StartDelete
    <2> HIDE DEF q
    <2>3. Own(q, rows', images', deleted')
      BY <2>1, <2>2 DEF Own
    <2>4. deleted' \subseteq Photos
      BY <2>2 DEF MediaInv, M!TypeOK
    <2>5. ASSUME NEW d \in Uploads, d # c, upload[d] # NoUpload
          PROVE  Own(upload[d], rows', images', deleted') /\ Apart(q, upload[d]) /\ Apart(upload[d], q)
      <3>1. Own(upload[d], rows, images, deleted)
        BY <2>5, InRequest
      <3>2. p \notin upload[d].added
        BY <2>2, <3>1 DEF Own
      <3> QED
        BY <2>1, <2>2, <3>1, <3>2 DEF Own, Apart
    <2>6. upload' \in [Uploads -> M!Request \cup {NoUpload}] /\ RequestsOwn'
      BY <2>1, <2>2, <2>3, <2>5, Moves
    <2>7. M!TypeOK' /\ M!OnlyDeletedImagesAreLost'
      BY <2>2, <2>4, <2>6 DEF MediaInv, M!TypeOK, M!OnlyDeletedImagesAreLost
    <2> QED
      BY <2>6, <2>7 DEF MediaInv
  <1> QED
    BY <1>1, <1>2

LEMMA UploadImageStep ==
    ASSUME MediaConstants, MediaInv, NEW c \in Uploads, M!UploadImage(c)
    PROVE  MediaInv'
  <1> DEFINE q == upload[c]
  <1>1. q \in M!Request /\ q # NoUpload /\ q.op = "upload" /\ Own(q, rows, images, deleted)
    BY InRequest DEF M!UploadImage, M!At
  <1>2. PICK p \in M!Unused :
          /\ M!Goes(c, IF q.leads /\ q.added = {}
                     THEN [M!ClearPrimary([q EXCEPT !.added = @ \cup {p}]) EXCEPT !.photo = p]
                     ELSE [q EXCEPT !.added = @ \cup {p}])
          /\ images' = images \cup {p} /\ deleted' = deleted \ {p}
    BY DEF M!UploadImage
  <1>3. UNCHANGED <<rows, primary, projected, cover>>
    BY DEF M!UploadImage
  <1>4. p \in Photos /\ p \notin rows \cup images
        /\ \A d \in Uploads : upload[d] # NoUpload => p \notin upload[d].added \cup {upload[d].photo}
    BY DEF M!Unused
  <1> DEFINE more == [q EXCEPT !.added = @ \cup {p}]
             next == IF q.leads /\ q.added = {} THEN [M!ClearPrimary(more) EXCEPT !.photo = p] ELSE more
  <1>5. /\ more \in M!Request /\ more.op = "upload" /\ more.added = q.added \cup {p}
        /\ more.photo = q.photo /\ more.leads = q.leads /\ more.stage = q.stage
    BY <1>1, <1>4 DEF M!Request
  <1> HIDE DEF more
  <1>6. /\ M!ClearPrimary(more) \in M!Request /\ M!ClearPrimary(more).op = "upload"
        /\ M!ClearPrimary(more).added = q.added \cup {p} /\ M!ClearPrimary(more).stage = "cleared"
    BY <1>5, ClearType
  <1>7. /\ [M!ClearPrimary(more) EXCEPT !.photo = p] \in M!Request
        /\ [M!ClearPrimary(more) EXCEPT !.photo = p].op = "upload"
        /\ [M!ClearPrimary(more) EXCEPT !.photo = p].added = q.added \cup {p}
        /\ [M!ClearPrimary(more) EXCEPT !.photo = p].photo = p
        /\ [M!ClearPrimary(more) EXCEPT !.photo = p].stage = "cleared"
    <2> HIDE DEF q
    <2> QED
      BY <1>4, <1>6 DEF M!Request
  <1>8. /\ next \in M!Request /\ next.op = "upload" /\ next.added = q.added \cup {p}
        /\ next.photo \in {q.photo, p}
        /\ next.leads => next.photo \in q.added \cup {p} /\ next.stage = "cleared"
    <2>1. CASE q.leads /\ q.added = {}
      BY <1>7, <2>1
    <2>2. CASE ~(q.leads /\ q.added = {})
      <3>1. next = more
        BY <2>2
      <3>2. q.leads => q.photo \in q.added /\ q.stage = "cleared"
        BY <1>1, <2>2 DEF Own
      <3> QED
        BY <1>5, <3>1, <3>2
    <2> QED
      BY <2>1, <2>2
  <1>9. M!Goes(c, next)
    BY <1>2 DEF more
  <1> HIDE DEF next
  <1>10. Own(next, rows', images', deleted')
    BY <1>1, <1>2, <1>3, <1>4, <1>8 DEF Own
  <1>11. ASSUME NEW d \in Uploads, d # c, upload[d] # NoUpload
         PROVE  Own(upload[d], rows', images', deleted') /\ Apart(next, upload[d]) /\ Apart(upload[d], next)
    <2>1. Own(upload[d], rows, images, deleted) /\ Apart(q, upload[d]) /\ Apart(upload[d], q)
      BY <1>1, <1>11, InRequest DEF MediaInv, RequestsOwn
    <2>2. p \notin upload[d].added \cup {upload[d].photo}
      BY <1>4, <1>11
    <2>3. Own(upload[d], rows', images', deleted')
      BY <1>2, <1>3, <2>1, <2>2 DEF Own
    <2>4. Apart(next, upload[d]) /\ Apart(upload[d], next)
      BY <1>8, <2>1, <2>2 DEF Apart
    <2> QED
      BY <2>3, <2>4
  <1>12. upload' \in [Uploads -> M!Request \cup {NoUpload}] /\ RequestsOwn'
    BY <1>8, <1>9, <1>10, <1>11, Moves
  <1>15. M!TypeOK' /\ M!OnlyDeletedImagesAreLost'
    BY <1>2, <1>3, <1>4, <1>12 DEF MediaInv, M!TypeOK, M!OnlyDeletedImagesAreLost
  <1> QED
    BY <1>12, <1>15 DEF MediaInv

\* A photo that another upload has added is none of this one's, nor one that this request asked for.
LEMMA OthersPhotos ==
    ASSUME MediaInv, NEW c \in Uploads, upload[c] # NoUpload, NEW d \in Uploads, d # c,
           upload[d] # NoUpload, upload[d].op = "upload"
    PROVE  /\ upload[d].added \subseteq images \ rows
           /\ upload[d].added \cap (upload[c].added \cup {upload[c].photo}) = {}
  BY DEF MediaInv, RequestsOwn, Own, Apart

LEMMA EndsUploadStep ==
    ASSUME MediaConstants, MediaInv, NEW c \in Uploads, M!FinishUpload(c) \/ M!FailUpload(c)
    PROVE  MediaInv'
  <1> DEFINE q == upload[c]
  <1>1. q \in M!Request /\ q # NoUpload /\ q.op = "upload" /\ Own(q, rows, images, deleted)
    BY InRequest DEF M!FinishUpload, M!FailUpload, M!At
  <1>2. /\ q.added \subseteq images \ rows /\ q.added \subseteq Photos
        /\ q.leads /\ q.added # {} => q.photo \in q.added
    BY <1>1 DEF Own, M!Request
  <1>3. CASE M!FinishUpload(c)
    <2>1. /\ q.added # {} /\ rows' = rows \cup q.added /\ projected' = projected /\ images' = images /\ deleted' = deleted
          /\ primary' = IF q.leads THEN M!Flags(q, q.photo) ELSE primary
          /\ cover' = IF q.leads THEN M!UpdateOwnerCover(q, q.photo) ELSE cover
          /\ M!Goes(c, NoUpload)
      BY <1>3 DEF M!FinishUpload
    <2>2. primary' \subseteq primary \cup q.added /\ cover' \in {cover} \cup q.added
      BY <1>2, <2>1 DEF M!Flags, M!UpdateOwnerCover
    <2>3. /\ rows' \subseteq Photos /\ projected' \subseteq Photos /\ images' \subseteq Photos
          /\ primary' \subseteq rows' /\ cover' \in rows' \cup {NoCover}
          /\ rows' \ projected' \subseteq images' \cup deleted
      BY <1>2, <2>1, <2>2 DEF MediaInv, M!TypeOK, M!OnlyDeletedImagesAreLost
    <2>4. \A d \in Uploads : d # c /\ upload[d] # NoUpload /\ upload[d].op = "upload" =>
              upload[d].added \subseteq images' \ rows'
      BY <1>1, <2>1, OthersPhotos
    <2> QED
      BY <2>1, <2>3, <2>4, Ends
  <1>4. CASE M!FailUpload(c)
    <2>1. PICK gone \in SUBSET q.added : images' = images \ gone
      BY <1>4 DEF M!FailUpload
    <2>2. M!Goes(c, NoUpload) /\ UNCHANGED <<rows, primary, projected, cover, deleted>>
      BY <1>4 DEF M!FailUpload
    <2>3. /\ rows' \subseteq Photos /\ projected' \subseteq Photos /\ images' \subseteq Photos
          /\ primary' \subseteq rows' /\ cover' \in rows' \cup {NoCover}
          /\ rows' \ projected' \subseteq images' \cup deleted
      BY <1>2, <2>1, <2>2 DEF MediaInv, M!TypeOK, M!OnlyDeletedImagesAreLost
    <2>4. \A d \in Uploads : d # c /\ upload[d] # NoUpload /\ upload[d].op = "upload" =>
              upload[d].added \subseteq images' \ rows'
      BY <1>1, <2>1, <2>2, OthersPhotos
    <2> QED
      BY <2>2, <2>3, <2>4, Ends
  <1> QED
    BY <1>3, <1>4

LEMMA ClearsStep ==
    ASSUME MediaConstants, MediaInv, NEW c \in Uploads, M!ClearForPrimary(c) \/ M!ClearForDelete(c)
    PROVE  MediaInv'
  <1> DEFINE q == upload[c]
  <1>1. q \in M!Request /\ q # NoUpload /\ q.op \in {"primary", "delete"} /\ Own(q, rows, images, deleted)
    BY InRequest DEF M!ClearForPrimary, M!ClearForDelete, M!At
  <1>2. M!Goes(c, M!ClearPrimary(q)) /\ UNCHANGED <<rows, primary, projected, cover, images, deleted>>
    BY DEF M!ClearForPrimary, M!ClearForDelete
  <1>3. /\ M!ClearPrimary(q) \in M!Request /\ M!ClearPrimary(q).op = q.op
        /\ M!ClearPrimary(q).photo = q.photo /\ M!ClearPrimary(q).added = q.added
    BY <1>1, ClearType
  <1>4. Own(M!ClearPrimary(q), rows, images, deleted) /\ q.added = {}
    BY <1>1, <1>3 DEF Own
  <1>5. deleted' \subseteq Photos
    BY <1>2 DEF MediaInv, M!TypeOK
  <1> QED
    BY <1>1, <1>2, <1>3, <1>4, <1>5, MovesQuietly

LEMMA DestroyStep ==
    ASSUME MediaConstants, MediaInv, NEW c \in Uploads, M!DestroyImage(c)
    PROVE  MediaInv'
  <1> DEFINE q == upload[c]
             sent == [q EXCEPT !.stage = "sent"]
  <1>1. q \in M!Request /\ q # NoUpload /\ q.op = "delete" /\ Own(q, rows, images, deleted)
    BY InRequest DEF M!DestroyImage, M!At
  <1>2. M!Goes(c, sent) /\ images' = images \ {q.photo} /\ UNCHANGED <<rows, primary, projected, cover, deleted>>
    BY DEF M!DestroyImage
  <1>3. sent \in M!Request /\ sent.op = "delete" /\ sent.photo = q.photo /\ sent.added = q.added
    BY <1>1 DEF M!Request
  <1> HIDE DEF sent
  <1>4. Own(sent, rows', images', deleted')
    BY <1>1, <1>2, <1>3 DEF Own
  <1>5. ASSUME NEW d \in Uploads, d # c, upload[d] # NoUpload
        PROVE  Own(upload[d], rows', images', deleted') /\ Apart(sent, upload[d]) /\ Apart(upload[d], sent)
    <2>1. Own(upload[d], rows, images, deleted) /\ Apart(q, upload[d]) /\ Apart(upload[d], q)
      BY <1>1, <1>5, InRequest DEF MediaInv, RequestsOwn
    <2>2. Own(upload[d], rows', images', deleted')
      BY <1>2, <2>1 DEF Own, Apart
    <2> QED
      BY <1>3, <2>1, <2>2 DEF Apart
  <1>6. upload' \in [Uploads -> M!Request \cup {NoUpload}] /\ RequestsOwn'
    BY <1>2, <1>3, <1>4, <1>5, Moves
  <1>7. q.photo \in deleted
    BY <1>1 DEF Own
  <1>8. M!TypeOK' /\ M!OnlyDeletedImagesAreLost'
    BY <1>2, <1>6, <1>7 DEF MediaInv, M!TypeOK, M!OnlyDeletedImagesAreLost
  <1> QED
    BY <1>6, <1>8 DEF MediaInv

LEMMA EndsOthersStep ==
    ASSUME MediaConstants, MediaInv, NEW c \in Uploads,
           M!FinishSetPrimary(c) \/ M!FinishDelete(c) \/ M!Abort(c)
    PROVE  MediaInv'
  <1> DEFINE q == upload[c]
  <1>1. M!Goes(c, NoUpload) /\ UNCHANGED <<images, deleted>>
    BY DEF M!FinishSetPrimary, M!FinishDelete, M!Abort
  <1>2. /\ rows \subseteq Photos /\ projected \subseteq Photos /\ images \subseteq Photos /\ primary \subseteq rows
        /\ cover \in rows \cup {NoCover} /\ rows \ projected \subseteq images \cup deleted
    BY DEF MediaInv, M!TypeOK, M!OnlyDeletedImagesAreLost
  <1>3. /\ rows' \subseteq rows /\ projected' \subseteq projected /\ primary' \subseteq rows'
        /\ cover' \in rows' \cup {NoCover} /\ rows' \ projected' \subseteq rows \ projected
    <2>1. CASE M!FinishSetPrimary(c)
      BY <1>2, <2>1 DEF M!FinishSetPrimary, M!Flags, M!UpdateOwnerCover
    <2>2. CASE M!FinishDelete(c)
      <3> DEFINE left == rows \ {q.photo}
      <3>1. cover # q.photo /\ rows' = left /\ projected' = projected \ {q.photo}
        BY <2>2 DEF M!FinishDelete, M!MayGo
      <3>2. CASE q.photo \notin q.flags /\ q.photo # q.was
        BY <1>2, <2>2, <3>1, <3>2 DEF M!FinishDelete
      <3>3. CASE ~(q.photo \notin q.flags /\ q.photo # q.was) /\ left = {}
        BY <1>2, <2>2, <3>1, <3>3 DEF M!FinishDelete, M!UpdateOwnerCover
      <3>4. CASE ~(q.photo \notin q.flags /\ q.photo # q.was) /\ left # {}
        <4>1. PICK next \in left : /\ primary' = M!Flags(q, next) \ {q.photo}
                                   /\ cover' = M!UpdateOwnerCover(q, next)
          BY <2>2, <3>4 DEF M!FinishDelete
        <4> QED
          BY <1>2, <3>1, <4>1 DEF M!Flags, M!UpdateOwnerCover
      <3> QED
        BY <3>2, <3>3, <3>4
    <2>3. CASE M!Abort(c)
      BY <1>2, <2>3 DEF M!Abort
    <2> QED
      BY <2>1, <2>2, <2>3
  <1>4. \A d \in Uploads : d # c /\ upload[d] # NoUpload /\ upload[d].op = "upload" =>
            upload[d].added \subseteq images' \ rows'
    BY <1>1, <1>3, InRequest DEF Own
  <1> QED
    BY <1>1, <1>2, <1>3, <1>4, Ends

LEMMA ProjectStep ==
    ASSUME MediaConstants, MediaInv, NEW c \in Uploads, M!StartProject(c) \/ M!FinishProject(c)
    PROVE  MediaInv'
  <1>1. CASE M!StartProject(c)
    <2> DEFINE q == M!Loaded("project", NoCover, FALSE)
    <2>1. q \in M!Request /\ q.op = "project" /\ q.photo = NoCover /\ q.added = {}
      BY LoadedType
    <2>2. M!Goes(c, q) /\ UNCHANGED <<rows, primary, projected, cover, images, deleted>>
      BY <1>1 DEF M!StartProject
    <2> HIDE DEF q
    <2>3. Own(q, rows, images, deleted)
      BY <2>1 DEF Own
    <2>4. deleted' \subseteq Photos
      BY <2>2 DEF MediaInv, M!TypeOK
    <2> QED
      BY <2>1, <2>2, <2>3, <2>4, MovesQuietly
  <1>2. CASE M!FinishProject(c)
    <2> DEFINE q    == upload[c]
               kept == IF q.was = NoCover THEN cover ELSE NoCover
    <2>1. PICK new \in SUBSET M!Unused : \E leading \in SUBSET new :
            /\ rows' = (rows \ q.old) \cup new
            /\ projected' = (projected \ q.old) \cup new
            /\ primary' = (primary \ q.old) \cup leading
            /\ IF leading = {} THEN cover' = kept ELSE cover' \in leading
      BY <1>2 DEF M!FinishProject
    <2>2. kept \notin q.old /\ M!Goes(c, NoUpload) /\ UNCHANGED <<images, deleted>>
      BY <1>2 DEF M!FinishProject
    <2>3. new \subseteq Photos /\ new \cap images = {}
          /\ \A d \in Uploads : upload[d] # NoUpload => new \cap upload[d].added = {}
      BY DEF M!Unused
    <2>4. /\ rows \subseteq Photos /\ projected \subseteq Photos /\ images \subseteq Photos /\ primary \subseteq rows
          /\ cover \in rows \cup {NoCover} /\ rows \ projected \subseteq images \cup deleted
      BY DEF MediaInv, M!TypeOK, M!OnlyDeletedImagesAreLost
    <2>5. /\ rows' \subseteq Photos /\ projected' \subseteq Photos /\ images' \subseteq Photos
          /\ primary' \subseteq rows' /\ rows' \ projected' \subseteq images' \cup deleted
      BY <2>1, <2>2, <2>3, <2>4
    <2>6. kept \in (rows \ q.old) \cup {NoCover}
      BY <2>2, <2>4
    <2>7. cover' \in rows' \cup {NoCover}
      BY <2>1, <2>6
    <2>8. ASSUME NEW d \in Uploads, d # c, upload[d] # NoUpload, upload[d].op = "upload"
          PROVE  upload[d].added \subseteq images' \ rows'
      <3>1. upload[d].added \subseteq images \ rows
        BY <2>8, InRequest DEF Own
      <3> QED
        BY <2>1, <2>2, <2>3, <2>8, <3>1
    <2> QED
      BY <2>2, <2>5, <2>7, <2>8, Ends
  <1> QED
    BY <1>1, <1>2

LEMMA MediaInit == ASSUME MediaConstants PROVE M!Init => MediaInv
  BY DEF M!Init, MediaInv, M!TypeOK, RequestsOwn, M!OnlyDeletedImagesAreLost

LEMMA MediaStep ==
    ASSUME MediaConstants, MediaInv, [M!Next]_M!vars
    PROVE  MediaInv'
  <1>1. CASE UNCHANGED M!vars
    BY <1>1 DEF M!vars, MediaInv, M!TypeOK, RequestsOwn, M!OnlyDeletedImagesAreLost
  <1> QED
    BY <1>1, StartUploadStep, StartsStep, UploadImageStep, EndsUploadStep, ClearsStep, DestroyStep,
       EndsOthersStep, ProjectStep DEF M!Next

\* Whatever Cloudinary, the database or a request does, and however requests overlap: types, and
\* whose the photos are that are not shown yet or are being deleted.
THEOREM MediaInvariant ==
    ASSUME MediaConstants
    PROVE  M!Spec => []MediaInv
  <1>1. M!Init => MediaInv
    BY MediaInit
  <1>2. MediaInv /\ [M!Next]_M!vars => MediaInv'
    BY MediaStep
  <1> QED
    BY <1>1, <1>2, PTL DEF M!Spec

\* No uploaded photo of a listing loses its image unless somebody asked to delete that photo.
THEOREM ImagesAreKept ==
    ASSUME MediaConstants
    PROVE  M!Spec => []M!OnlyDeletedImagesAreLost
  <1>1. MediaInv => M!OnlyDeletedImagesAreLost
    BY DEF MediaInv
  <1> QED
    BY <1>1, MediaInvariant, PTL

-----------------------------------------------------------------------------
(* One request at a time: what it cleared is what is primary. *)

ClearedIsPrimary ==
    \A c \in Uploads : upload[c] # NoUpload /\ upload[c].stage = "cleared" => upload[c].cleared = primary

SerialInv == M!OneByOne => (\A p, q \in primary \ projected : p = q) /\ ClearedIsPrimary

LEMMA FlagsOfOne ==
    ASSUME NEW q, NEW p, q.cleared = primary
    PROVE  \A x, y \in M!Flags(q, p) : x = y
  BY DEF M!Flags

LEMMA SerialStep ==
    ASSUME MediaConstants, MediaInv, SerialInv, [M!Next]_M!vars
    PROVE  SerialInv'
  <1>1. SUFFICES ASSUME M!OneByOne
        PROVE  (\A p, q \in primary' \ projected' : p = q) /\ ClearedIsPrimary'
    BY DEF SerialInv, M!OneByOne
  <1>2. (\A p, q \in primary \ projected : p = q) /\ ClearedIsPrimary
    BY <1>1 DEF SerialInv
  <1>3. ASSUME NEW c \in Uploads, NEW q \in M!Request \cup {NoUpload}, M!Goes(c, q), UNCHANGED <<primary, projected>>,
               q # NoUpload /\ q.stage = "cleared" => q.cleared = primary
        PROVE  (\A p, r \in primary' \ projected' : p = r) /\ ClearedIsPrimary'
    <2>1. \A d \in Uploads : upload'[d] = q
      BY <1>1, <1>3 DEF M!OneByOne, M!Goes, MediaInv, M!TypeOK
    <2> QED
      BY <1>2, <1>3, <2>1 DEF ClearedIsPrimary
  <1>4. ASSUME NEW c \in Uploads, M!Goes(c, NoUpload), \A p, q \in primary' \ projected' : p = q
        PROVE  (\A p, q \in primary' \ projected' : p = q) /\ ClearedIsPrimary'
    <2>1. \A d \in Uploads : upload'[d] = NoUpload
      BY <1>1, <1>4 DEF M!OneByOne, M!Goes, MediaInv, M!TypeOK
    <2> QED
      BY <1>4, <2>1 DEF ClearedIsPrimary
  <1>5. ASSUME NEW c \in Uploads, M!StartUpload(c)
        PROVE  (\A p, q \in primary' \ projected' : p = q) /\ ClearedIsPrimary'
    <2>1. PICK leads \in BOOLEAN : M!Goes(c, M!Loaded("upload", NoCover, leads))
      BY <1>5 DEF M!StartUpload
    <2>2. M!Loaded("upload", NoCover, leads) \in M!Request
      BY LoadedType
    <2>3. M!Loaded("upload", NoCover, leads).stage = "loaded"
      BY DEF M!Loaded
    <2> QED
      BY <1>3, <1>5, <2>1, <2>2, <2>3 DEF M!StartUpload
  <1>6. ASSUME NEW c \in Uploads, NEW p \in Photos, M!StartSetPrimary(c, p) \/ M!StartDelete(c, p)
        PROVE  (\A r, q \in primary' \ projected' : r = q) /\ ClearedIsPrimary'
    <2>1. PICK op \in {"primary", "delete"} : M!Goes(c, M!Loaded(op, p, FALSE))
      BY <1>6 DEF M!StartSetPrimary, M!StartDelete
    <2>2. M!Loaded(op, p, FALSE) \in M!Request
      BY LoadedType
    <2>3. M!Loaded(op, p, FALSE).stage = "loaded"
      BY DEF M!Loaded
    <2> QED
      BY <1>3, <1>6, <2>1, <2>2, <2>3 DEF M!StartSetPrimary, M!StartDelete
  <1>7. ASSUME NEW c \in Uploads, M!UploadImage(c)
        PROVE  (\A p, q \in primary' \ projected' : p = q) /\ ClearedIsPrimary'
    <2>1. upload[c] \in M!Request
      BY <1>7, InRequest DEF M!UploadImage, M!At
    <2>2. PICK p \in M!Unused :
            M!Goes(c, IF upload[c].leads /\ upload[c].added = {}
                    THEN [M!ClearPrimary([upload[c] EXCEPT !.added = @ \cup {p}]) EXCEPT !.photo = p]
                    ELSE [upload[c] EXCEPT !.added = @ \cup {p}])
      BY <1>7 DEF M!UploadImage
    <2> DEFINE more == [upload[c] EXCEPT !.added = @ \cup {p}]
    <2>3. p \in Photos
      BY DEF M!Unused
    <2>4. more \in M!Request /\ more.stage = upload[c].stage /\ more.cleared = upload[c].cleared
      BY <2>1, <2>3 DEF M!Request
    <2> HIDE DEF more
    <2>5. M!ClearPrimary(more) \in M!Request /\ M!ClearPrimary(more).cleared = primary
      BY <2>4, ClearType
    <2>6. [M!ClearPrimary(more) EXCEPT !.photo = p] \in M!Request
          /\ [M!ClearPrimary(more) EXCEPT !.photo = p].cleared = primary
      BY <2>3, <2>5 DEF M!Request
    <2>7. upload[c] # NoUpload /\ upload[c].stage = "cleared" => upload[c].cleared = primary
      BY <1>2 DEF ClearedIsPrimary
    <2>8. upload[c] # NoUpload /\ UNCHANGED <<primary, projected>>
      BY <1>7 DEF M!UploadImage, M!At
    <2>9. CASE upload[c].leads /\ upload[c].added = {}
      BY <1>3, <2>2, <2>6, <2>8, <2>9 DEF more
    <2>10. CASE ~(upload[c].leads /\ upload[c].added = {})
      BY <1>3, <2>2, <2>4, <2>7, <2>8, <2>10 DEF more
    <2> QED
      BY <2>9, <2>10
  <1>8. ASSUME NEW c \in Uploads, M!FinishUpload(c)
        PROVE  (\A p, q \in primary' \ projected' : p = q) /\ ClearedIsPrimary'
    <2>1. Own(upload[c], rows, images, deleted) /\ upload[c].op = "upload" /\ upload[c].added # {}
          /\ upload[c] # NoUpload
      BY <1>8, InRequest DEF M!FinishUpload, M!At
    <2>2. upload[c].leads => upload[c].cleared = primary
      BY <1>2, <2>1 DEF Own, ClearedIsPrimary
    <2>3. \A p, q \in primary' \ projected' : p = q
      BY <1>2, <1>8, <2>2, FlagsOfOne DEF M!FinishUpload
    <2> QED
      BY <1>4, <1>8, <2>3 DEF M!FinishUpload
  <1>9. ASSUME NEW c \in Uploads, M!FailUpload(c) \/ M!Abort(c)
        PROVE  (\A p, q \in primary' \ projected' : p = q) /\ ClearedIsPrimary'
    <2>1. M!Goes(c, NoUpload) /\ UNCHANGED <<primary, projected>>
      BY <1>9 DEF M!FailUpload, M!Abort
    <2> QED
      BY <1>2, <1>4, <2>1
  <1>10. ASSUME NEW c \in Uploads, M!ClearForPrimary(c) \/ M!ClearForDelete(c)
         PROVE  (\A p, q \in primary' \ projected' : p = q) /\ ClearedIsPrimary'
    <2>1. upload[c] \in M!Request
      BY <1>10, InRequest DEF M!ClearForPrimary, M!ClearForDelete, M!At
    <2>2. M!ClearPrimary(upload[c]) \in M!Request /\ M!ClearPrimary(upload[c]).cleared = primary
      BY <2>1, ClearType
    <2>3. M!Goes(c, M!ClearPrimary(upload[c])) /\ UNCHANGED <<primary, projected>>
      BY <1>10 DEF M!ClearForPrimary, M!ClearForDelete
    <2> QED
      BY <1>3, <2>2, <2>3
  <1>11. ASSUME NEW c \in Uploads, M!DestroyImage(c)
         PROVE  (\A p, q \in primary' \ projected' : p = q) /\ ClearedIsPrimary'
    <2>1. upload[c] \in M!Request
      BY <1>11, InRequest DEF M!DestroyImage, M!At
    <2>2. /\ [upload[c] EXCEPT !.stage = "sent"] \in M!Request
          /\ [upload[c] EXCEPT !.stage = "sent"].stage = "sent"
      BY <2>1 DEF M!Request
    <2>3. M!Goes(c, [upload[c] EXCEPT !.stage = "sent"]) /\ UNCHANGED <<primary, projected>>
      BY <1>11 DEF M!DestroyImage
    <2> QED
      BY <1>3, <2>2, <2>3
  <1>12. ASSUME NEW c \in Uploads, M!FinishSetPrimary(c) \/ M!FinishDelete(c)
         PROVE  (\A p, q \in primary' \ projected' : p = q) /\ ClearedIsPrimary'
    <2>1. upload[c].cleared = primary
      BY <1>2, <1>12 DEF M!FinishSetPrimary, M!FinishDelete, M!At, ClearedIsPrimary
    <2>2. CASE M!FinishSetPrimary(c)
      BY <1>4, <2>1, <2>2, FlagsOfOne DEF M!FinishSetPrimary
    <2>3. CASE M!FinishDelete(c)
      <3>1. \A next : \A x, y \in M!Flags(upload[c], next) : x = y
        BY <2>1, FlagsOfOne
      <3>2. \A p, q \in primary' \ projected' : p = q
        BY <1>2, <2>3, <3>1 DEF M!FinishDelete
      <3> QED
        BY <1>4, <2>3, <3>2 DEF M!FinishDelete
    <2> QED
      BY <1>12, <2>2, <2>3
  <1>13. ASSUME NEW c \in Uploads, M!StartProject(c)
         PROVE  (\A p, q \in primary' \ projected' : p = q) /\ ClearedIsPrimary'
    <2>1. /\ M!Goes(c, M!Loaded("project", NoCover, FALSE)) /\ UNCHANGED <<primary, projected>>
          /\ M!Loaded("project", NoCover, FALSE).stage = "loaded"
      BY <1>13 DEF M!StartProject, M!Loaded
    <2>2. M!Loaded("project", NoCover, FALSE) \in M!Request
      BY LoadedType
    <2> QED
      BY <1>3, <2>1, <2>2
  <1>14. ASSUME NEW c \in Uploads, M!FinishProject(c)
         PROVE  (\A p, q \in primary' \ projected' : p = q) /\ ClearedIsPrimary'
    <2>1. M!Goes(c, NoUpload) /\ primary' \ projected' \subseteq primary \ projected
      BY <1>14 DEF M!FinishProject
    <2> QED
      BY <1>2, <1>4, <2>1
  <1>15. CASE UNCHANGED M!vars
    BY <1>2, <1>15 DEF M!vars, ClearedIsPrimary
  <1> QED
    BY <1>5, <1>6, <1>7, <1>8, <1>9, <1>10, <1>11, <1>12, <1>13, <1>14, <1>15 DEF M!Next

\* Requests that never overlap leave a listing with one primary photo at most among those that were
\* uploaded.
THEOREM OnePrimaryPhoto ==
    ASSUME MediaConstants
    PROVE  M!Spec => []M!OnePrimary
  <1>1. M!Init => SerialInv
    BY DEF M!Init, SerialInv, ClearedIsPrimary
  <1>2. MediaInv /\ SerialInv /\ [M!Next]_M!vars => SerialInv'
    BY SerialStep
  <1>3. SerialInv => M!OnePrimary
    BY DEF SerialInv, M!OnePrimary
  <1> QED
    BY <1>1, <1>2, <1>3, MediaInvariant, PTL DEF M!Spec
=============================================================================
