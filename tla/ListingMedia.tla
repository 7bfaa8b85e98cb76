---------------------------- MODULE ListingMedia ----------------------------
(***************************************************************************)
(* The photos of one listing: their rows in media_assets, which of them is *)
(* primary, the listing's cover_media_id, and the images the rows stand    *)
(* for, which Cloudinary keeps (app/services/media_service.py,             *)
(* app/repositories/media_repo.py). The save of a stay writes photos of its *)
(* property beside them (stay_repo.py, _create_listing_media_assets); their *)
(* images are the property's, and are not represented.                     *)
(*                                                                         *)
(* A request first loads the listing with all its photos, talks to         *)
(* Cloudinary, and then clears the primary photo by a statement that sees  *)
(* what is committed at that moment, sets the new one and commits;         *)
(* requests that are served by several workers interleave between these    *)
(* steps. A flag is only written when it differs from the one that was     *)
(* loaded. Captions and the order of the photos are not represented.       *)
(***************************************************************************)
EXTENDS FiniteSets, Integers

CONSTANTS
    Photos,
    Requests,
    None,       \* no cover
    Idle        \* no request is being served

VARIABLES
    rows,       \* media_assets of the listing
    primary,    \* the rows with is_primary
    projected,  \* the rows that the save of a stay wrote
    cover,      \* listings.cover_media_id
    images,     \* Cloudinary's
    request,    \* the requests in flight
    asked       \* history: the photos that somebody asked to delete

vars == <<rows, primary, projected, cover, images, request, asked>>

\* flags, was: is_primary of the photos and cover_media_id, as loaded;
\* added: the photos of an upload; photo: the one that is to be primary, or to be deleted;
\* cleared: the photos whose flag the request has cleared;
\* old: the projected photos that the save of a stay has loaded.
Request ==
    [op: {"upload", "primary", "delete", "project"}, stage: {"loaded", "sent", "cleared"},
     flags: SUBSET Photos, was: Photos \cup {None}, leads: BOOLEAN,
     added: SUBSET Photos, photo: Photos \cup {None}, cleared: SUBSET Photos,
     old: SUBSET Photos]

Init ==
    /\ rows = {} /\ primary = {} /\ projected = {} /\ cover = None /\ images = {} /\ asked = {}
    /\ request = [c \in Requests |-> Idle]

Goes(c, q) == request' = [request EXCEPT ![c] = q]

At(c, op, stage) == request[c] # Idle /\ request[c].op = op /\ request[c].stage = stage

Loaded(op, p, leads) ==
    [op |-> op, stage |-> "loaded", flags |-> primary, was |-> cover, leads |-> leads,
     added |-> {}, photo |-> p, cleared |-> {},
     old |-> IF op = "project" THEN projected ELSE {}]

\* The update of clear_primary: it sees the rows that are committed when it starts.
ClearPrimary(q) == [q EXCEPT !.stage = "cleared", !.cleared = primary]

\* What is left of the flags, for a photo that becomes primary: its own is written only if the
\* request did not load it as primary already.
Flags(q, p) == (primary \ q.cleared) \cup (IF p \in q.flags THEN {} ELSE {p})

\* listing.cover_media_id, written if it differs from what was loaded.
UpdateOwnerCover(q, p) == IF p = q.was THEN cover ELSE p

-----------------------------------------------------------------------------
(* Uploading *)

\* The first photo leads if that is asked for or no photo is primary.
StartUpload(c) ==
    /\ request[c] = Idle
    /\ \E wanted \in BOOLEAN : Goes(c, Loaded("upload", None, wanted \/ primary = {}))
    /\ UNCHANGED <<rows, primary, projected, cover, images, asked>>

\* Photos that nothing stands for yet.
Unused ==
    {p \in Photos : /\ p \notin rows \cup images
                    /\ \A d \in Requests : request[d] # Idle =>
                           p \notin request[d].added \cup request[d].old \cup {request[d].photo}}

\* An image reaches Cloudinary and its row the transaction; the first of a leading upload clears
\* the flag of the others.
UploadImage(c) ==
    /\ At(c, "upload", "loaded") \/ At(c, "upload", "cleared")
    /\ \E p \in Unused :
           LET q    == request[c]
               more == [q EXCEPT !.added = @ \cup {p}]
           IN  /\ Goes(c, IF q.leads /\ q.added = {} THEN [ClearPrimary(more) EXCEPT !.photo = p] ELSE more)
               /\ images' = images \cup {p}
               /\ asked' = asked \ {p}
    /\ UNCHANGED <<rows, primary, projected, cover>>

\* Other photos of the upload are not primary.
FinishUpload(c) ==
    LET q == request[c]
    IN  /\ At(c, "upload", "loaded") \/ At(c, "upload", "cleared")
        /\ q.added # {}
        /\ rows' = rows \cup q.added
        /\ primary' = IF q.leads THEN Flags(q, q.photo) ELSE primary
        /\ cover' = IF q.leads THEN UpdateOwnerCover(q, q.photo) ELSE cover
        /\ Goes(c, Idle)
        /\ UNCHANGED <<projected, images, asked>>

\* Cloudinary or the database fails: the images are taken back, those that can be.
FailUpload(c) ==
    /\ At(c, "upload", "loaded") \/ At(c, "upload", "cleared")
    /\ \E gone \in SUBSET request[c].added : images' = images \ gone
    /\ Goes(c, Idle)
    /\ UNCHANGED <<rows, primary, projected, cover, asked>>

-----------------------------------------------------------------------------
(* The primary photo *)

StartSetPrimary(c, p) ==
    /\ request[c] = Idle
    /\ p \in rows
    /\ Goes(c, Loaded("primary", p, FALSE))
    /\ UNCHANGED <<rows, primary, projected, cover, images, asked>>

ClearForPrimary(c) ==
    /\ At(c, "primary", "loaded")
    /\ Goes(c, ClearPrimary(request[c]))
    /\ UNCHANGED <<rows, primary, projected, cover, images, asked>>

\* A row that is gone by now fails the request.
FinishSetPrimary(c) ==
    LET q == request[c]
    IN  /\ At(c, "primary", "cleared")
        /\ q.photo \in rows
        /\ primary' = Flags(q, q.photo)
        /\ cover' = UpdateOwnerCover(q, q.photo)
        /\ Goes(c, Idle)
        /\ UNCHANGED <<rows, projected, images, asked>>

-----------------------------------------------------------------------------
(* Deleting *)

StartDelete(c, p) ==
    /\ request[c] = Idle
    /\ p \in rows
    /\ Goes(c, Loaded("delete", p, FALSE))
    /\ asked' = asked \cup {p}
    /\ UNCHANGED <<rows, primary, projected, cover, images>>

\* First of all the image is destroyed.
DestroyImage(c) ==
    /\ At(c, "delete", "loaded")
    /\ images' = images \ {request[c].photo}
    /\ Goes(c, [request[c] EXCEPT !.stage = "sent"])
    /\ UNCHANGED <<rows, primary, projected, cover, asked>>

ClearForDelete(c) ==
    /\ At(c, "delete", "sent")
    /\ Goes(c, ClearPrimary(request[c]))
    /\ UNCHANGED <<rows, primary, projected, cover, images, asked>>

\* The listing refers to its cover, so the database refuses to delete that row.
MayGo(p) == p # cover

\* Another photo becomes primary if this one was, or was the cover, when it was loaded.
FinishDelete(c) ==
    LET q    == request[c]
        left == rows \ {q.photo}
    IN  /\ At(c, "delete", "cleared")
        /\ MayGo(q.photo)
        /\ rows' = left
        /\ projected' = projected \ {q.photo}
        /\ IF q.photo \notin q.flags /\ q.photo # q.was
           THEN primary' = primary \ {q.photo} /\ UNCHANGED cover
           ELSE IF left = {}
           THEN primary' = {} /\ cover' = UpdateOwnerCover(q, None)
           ELSE \E next \in left : /\ primary' = Flags(q, next) \ {q.photo}
                                   /\ cover' = UpdateOwnerCover(q, next)
        /\ Goes(c, Idle)
        /\ UNCHANGED <<images, asked>>

-----------------------------------------------------------------------------
(* The photos of a stay's property *)

StartProject(c) ==
    /\ request[c] = Idle
    /\ Goes(c, Loaded("project", None, FALSE))
    /\ UNCHANGED <<rows, primary, projected, cover, images, asked>>

\* The projected photos that were loaded give way to new ones. The first of the property's photos
\* and those whose role is cover are primary, whichever photo was so before; and the first of
\* these is the cover.
FinishProject(c) ==
    LET q    == request[c]
        kept == IF q.was = None THEN cover ELSE None
    IN  /\ At(c, "project", "loaded")
        /\ kept \notin q.old
        /\ \E new \in SUBSET Unused : \E leading \in SUBSET new :
               /\ rows' = (rows \ q.old) \cup new
               /\ projected' = (projected \ q.old) \cup new
               /\ primary' = (primary \ q.old) \cup leading
               /\ IF leading = {} THEN cover' = kept ELSE cover' \in leading
        /\ Goes(c, Idle)
        /\ UNCHANGED <<images, asked>>

-----------------------------------------------------------------------------
\* Cloudinary or the database fails, the request is refused or dies: what was not committed is undone.
Abort(c) ==
    /\ request[c] # Idle
    /\ Goes(c, Idle)
    /\ UNCHANGED <<rows, primary, projected, cover, images, asked>>

-----------------------------------------------------------------------------
Next ==
    \E c \in Requests :
        \/ StartUpload(c) \/ UploadImage(c) \/ FinishUpload(c) \/ FailUpload(c)
        \/ \E p \in Photos : StartSetPrimary(c, p) \/ StartDelete(c, p)
        \/ ClearForPrimary(c) \/ FinishSetPrimary(c)
        \/ DestroyImage(c) \/ ClearForDelete(c) \/ FinishDelete(c)
        \/ StartProject(c) \/ FinishProject(c)
        \/ Abort(c)

Spec == Init /\ [][Next]_vars

-----------------------------------------------------------------------------
(* Properties *)

TypeOK ==
    /\ rows \subseteq Photos /\ primary \subseteq Photos /\ projected \subseteq Photos
    /\ images \subseteq Photos /\ asked \subseteq Photos
    /\ cover \in Photos \cup {None}
    /\ request \in [Requests -> Request \cup {Idle}]

\* Whatever fails between Cloudinary and the database, an uploaded photo that the listing shows has
\* lost its image only if somebody asked to delete it; and the cover and the primary photos are photos of
\* the listing.
OnlyDeletedImagesAreLost ==
    /\ rows \ projected \subseteq images \cup asked
    /\ primary \subseteq rows
    /\ cover \in rows \cup {None}

OneByOne == \A c, d \in Requests : c = d

\* As long as one request is served at a time, at most one uploaded photo is primary.  (Two uploads
\* that overlap each make their first photo primary; and the save of a stay makes photos of its
\* property primary beside it.)
OnePrimary == OneByOne => \A p, q \in primary \ projected : p = q

\* What the name says: at most one photo is primary.
PrimaryIsOne == OneByOne => \A p, q \in primary : p = q

\* What the names say: the cover is the primary photo.
CoverIsPrimary == cover # None => primary = {cover}

\* What the routes' message says of a deletion that fails: nothing happened to the photo.
ShownPhotosAreStored ==
    (\A c \in Requests : request[c] = Idle) => rows \ projected \subseteq images
=============================================================================
