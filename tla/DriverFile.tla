------------------------------ MODULE DriverFile ------------------------------
(***************************************************************************)
(* The file of one driver: his sign-up with its documents                  *)
(* (app/api/v1/auth.py, app/services/driver_service.py), the decisions of  *)
(* admins about the account (app/repositories/driver_repository.py), and   *)
(* what an admin must approve before anybody sees it: changes of the       *)
(* profile (app/services/driver_profile_change_service.py) and photos,     *)
(* whose files are kept in Cloudinary                                      *)
(* (app/services/driver_avatar_service.py).                                *)
(*                                                                         *)
(* No row is locked.  A request reads what is pending and checks it; its   *)
(* commit writes the columns it changed; and a photo that nobody needs any *)
(* more is deleted from Cloudinary after that.                             *)
(***************************************************************************)
EXTENDS Naturals, Sequences, FiniteSets, SequencesExt

CONSTANTS
    Fields,     \* EDITABLE_FIELDS
    BankFields, \* BANK_FIELDS
    Values,     \* what a field may hold
    Null,       \* a column that is NULL, or a field that is not proposed
    Assets,     \* files that Cloudinary may be sent
    Documents,  \* the documents of a sign-up
    Requests,   \* handlers that may run at the same time
    Idle,       \* a handler that serves nobody
    Deployments,\* which of the two review tables may have been created
    Decisions,  \* the statuses admins give the account
    Edits,      \* what the page of users may make of an account
    MaxChanges, \* bound on the change requests of the driver
    MaxPhotos   \* bound on the photos of the driver

ASSUME BankAssumption == BankFields \subseteq Fields /\ BankFields # {}
ASSUME NullAssumption == Null \notin Values /\ Null \notin Assets
ASSUME BoundsAssumption ==
    /\ MaxChanges \in Nat /\ MaxPhotos \in Nat
    /\ Deployments \subseteq SUBSET {"change", "photo"}
    /\ Decisions \subseteq {"pending_review", "approved", "rejected", "suspended"}

VARIABLES
    tables,     \* the review tables that exist
    driver,     \* drivers.status, "none" before the sign-up
    account,    \* users.role and users.vendor_status
    live,       \* the editable columns of the drivers row
    changes,    \* driver_profile_change_requests, oldest first
    photos,     \* driver_avatar_submissions, oldest first
    stored,     \* photos that are in Cloudinary
    stray,      \* documents in Cloudinary that no row names
    request,    \* what each handler is doing
    crossed     \* history: where a commit changed what it had not read, or, of the account,
                \* another route changed its status since the last decision

vars == <<tables, driver, account, live, changes, photos, stored, stray, request, crossed>>
reviews == <<live, changes, photos, stored>>

DriverStatus == {"pending_review", "approved", "rejected", "suspended"}
ReviewStatus == {"pending", "approved", "rejected", "withdrawn"}
EditableStatuses == {"pending_review", "approved"}

Proposals == [Fields -> Values \cup {Null}]
Nothing == [f \in Fields |-> Null]

Change == [status: ReviewStatus, proposed: Proposals]
\* approval: the place of reviewed_at among the approvals, 0 when it has none
Photo == [status: ReviewStatus, asset: Assets, approval: Nat]

VendorStatus == {"none", "pending", "approved", "rejected", "suspended"}
Accounts == [role: {"none", "TOURIST", "VENDOR", "DRIVER", "ADMIN"},
             vendor: VendorStatus]

ASSUME EditsAssumption == Edits \subseteq {a \in Accounts : a.role # "none"}

\* row: the pending row that was found, 0 for none; live: the profile that approve read
Work == [op: {"submit", "withdraw", "approve", "reject", "photo", "unphoto", "show", "refuse", "discard"},
         row: Nat, asset: Assets \cup {Null}, proposal: Proposals, live: Proposals]
        \cup [op: {"status"}, to: DriverStatus, driver: DriverStatus, vendor: VendorStatus]

\* A handler that serves nobody is told from one that works.
ASSUME IdleAssumption == Idle \notin Work

Init ==
    /\ tables \in Deployments
    /\ driver = "none"
    /\ account \in [role: {"none"}, vendor: {"none"}]
                   \cup [role: {"TOURIST"}, vendor: {"none"}]
                   \cup [role: {"VENDOR"}, vendor: {"approved"}]
    /\ live = Nothing
    /\ changes = <<>> /\ photos = <<>>
    /\ stored = {} /\ stray = {}
    /\ request = [c \in Requests |-> Idle]
    /\ crossed = {}

-----------------------------------------------------------------------------
(* Cloudinary *)

\* An upload never overwrites: a photo that is sent has a name of its own.
Fresh(a) ==
    /\ a \in Assets \ stored
    /\ \A i \in DOMAIN photos : photos[i].asset # a
    /\ \A c \in Requests : request[c] # Idle /\ request[c].op # "status" => request[c].asset # a

\* A deletion may fail, which is logged and forgotten.
MayBeLeft(files) == SUBSET files

-----------------------------------------------------------------------------
(* driver_signup: the documents are uploaded first, whatever comes of it.  A second sign-up, once *)
(* there is a driver, is refused in the same way and is left out.                               *)

\* Cloudinary fails: the documents uploaded before are deleted again.
UploadFails(sent) ==
    /\ driver = "none"
    /\ \E kept \in MayBeLeft(sent) : stray' = stray \cup kept
    /\ UNCHANGED <<tables, driver, account, reviews, request, crossed>>

\* A document is of a wrong type, a driver has this e-mail, licence or plate, a luggage size is
\* unknown, or another sign-up inserted first: the request is refused and nothing is deleted.
RefuseSignUp(sent) ==
    /\ driver = "none"
    /\ stray' = stray \cup sent
    /\ UNCHANGED <<tables, driver, account, reviews, request, crossed>>

\* The row of a driver who has signed up.
NewDriver == "pending_review"

\* An account that has the e-mail already becomes a driver's and keeps its vendor_status.
SignUp ==
    /\ driver = "none"
    /\ driver' = NewDriver
    /\ account' = [account EXCEPT !.role = "DRIVER"]
    /\ UNCHANGED <<tables, reviews, stray, request, crossed>>

-----------------------------------------------------------------------------
(* The newest row, if it waits for review. *)

\* Faulty: the newest row, whatever has become of it.
Newest(rows) == Len(rows)

Pending(rows) == IF rows # <<>> /\ Last(rows).status = "pending" THEN Len(rows) ELSE 0

Do(c, w) == request' = [request EXCEPT ![c] = w]

\* A handler about a review begins: it has read the newest row.  It answers 503 when the table
\* has not been created.
Begin(c, table, op, row, proposal, asset) ==
    /\ table \in tables
    /\ request[c] = Idle
    /\ driver # "none"
    /\ Do(c, [op |-> op, row |-> row, asset |-> asset, proposal |-> proposal,
              live |-> IF op = "approve" THEN live ELSE Nothing])
    /\ UNCHANGED <<tables, driver, account, stray, crossed>>

Ready(c, op) == request[c] # Idle /\ request[c].op = op

\* Another request has taken, replaced or inserted the row this one decided on.
Crossing(w, rows, kind) ==
    crossed' = IF Pending(rows) = w.row THEN crossed ELSE crossed \cup {kind}

\* Fields that differ from what is saved
Differing(p) == [f \in Fields |-> IF p[f] = live[f] THEN Null ELSE p[f]]
Merged(p, base) == [f \in Fields |-> IF p[f] = Null THEN base[f] ELSE p[f]]

BankWhole(p) == (\A f \in BankFields : p[f] # Null) \/ (\A f \in BankFields : p[f] = Null)

Acceptable(p) == p # Nothing /\ BankWhole(Merged(p, live))

\* submit: the proposal is what the driver asks for, without what is saved already
ReadForSubmit(c, asked) ==
    /\ driver \in EditableStatuses
    /\ Acceptable(Differing(asked))
    /\ Pending(changes) = 0 => Len(changes) < MaxChanges
    /\ Begin(c, "change", "submit", Pending(changes), Differing(asked), Null)
    /\ UNCHANGED reviews

\* One that waits is replaced in place.
Submit(c) ==
    LET w == request[c]
    IN  /\ Ready(c, "submit")
        /\ w.row = 0 => Len(changes) < MaxChanges
        /\ changes' = IF w.row = 0
                      THEN Append(changes, [status |-> "pending", proposed |-> w.proposal])
                      ELSE [changes EXCEPT ![w.row].proposed = w.proposal]
        /\ Crossing(w, changes, "change")
        /\ Do(c, Idle)
        /\ UNCHANGED <<tables, driver, account, live, photos, stored, stray>>

ReadForDecision(c, op) ==
    /\ Pending(changes) # 0
    /\ Begin(c, "change", op, Pending(changes), changes[Pending(changes)].proposed, Null)
    /\ UNCHANGED reviews

Decide(c, op, status) ==
    /\ Ready(c, op)
    /\ changes' = [changes EXCEPT ![request[c].row].status = status]
    /\ Do(c, Idle)
    /\ UNCHANGED <<tables, driver, account, photos, stored, stray>>

Withdraw(c) ==
    /\ Decide(c, "withdraw", "withdrawn")
    /\ Crossing(request[c], changes, "change")
    /\ UNCHANGED live

Reject(c) ==
    /\ Decide(c, "reject", "rejected")
    /\ Crossing(request[c], changes, "change")
    /\ UNCHANGED live

\* Faulty: the row is marked approved and the driver's own columns stay.
NotSaved(w, now) == now

\* The columns that differ from the driver as it was read are written.
Saved(w, now) == [f \in Fields |-> IF w.proposal[f] \in {Null, w.live[f]} THEN now[f] ELSE w.proposal[f]]

\* approve: the proposal that was read is saved, whatever stands in the row by then
Approve(c) ==
    LET w == request[c]
    IN  /\ Decide(c, "approve", "approved")
        /\ live' = Saved(w, live)
        /\ crossed' = IF Pending(changes) = w.row /\ changes[w.row].proposed = w.proposal
                      THEN crossed ELSE crossed \cup {"change"}

-----------------------------------------------------------------------------
(* Photos. *)

\* submit uploads before it writes; a file that is no photo is refused before.
ReadForPhoto(c, a) ==
    /\ driver \in EditableStatuses
    /\ Len(photos) < MaxPhotos
    /\ Fresh(a)
    /\ Begin(c, "photo", "photo", Pending(photos), Nothing, a)
    /\ stored' = stored \cup {a}
    /\ UNCHANGED <<live, changes, photos>>

\* Faulty: the replaced photo goes on waiting.
LeftOpen(rows, i, status) == rows

Closed(rows, i, status) == IF i = 0 THEN rows ELSE [rows EXCEPT ![i].status = status]

\* A new photo replaces the one that waits, which is deleted next.
SubmitPhoto(c) ==
    LET w == request[c]
    IN  /\ Ready(c, "photo")
        /\ Len(photos) < MaxPhotos
        /\ photos' = Append(Closed(photos, w.row, "withdrawn"),
                            [status |-> "pending", asset |-> w.asset, approval |-> 0])
        /\ Do(c, IF w.row = 0 THEN Idle
                 ELSE [w EXCEPT !.op = "discard", !.asset = photos[w.row].asset])
        /\ Crossing(w, photos, "photo")
        /\ UNCHANGED <<tables, driver, account, live, changes, stored, stray>>

\* The table is missing: the photo just uploaded is deleted.
PhotoNotReady(c) ==
    /\ Ready(c, "photo")
    /\ Do(c, [request[c] EXCEPT !.op = "discard"])
    /\ UNCHANGED <<tables, driver, account, reviews, stray, crossed>>

ReadForReview(c, op) ==
    /\ Pending(photos) # 0
    /\ Begin(c, "photo", op, Pending(photos), Nothing, Null)
    /\ UNCHANGED reviews

WithdrawPhoto(c) ==
    LET w == request[c]
    IN  /\ Ready(c, "unphoto")
        /\ photos' = Closed(photos, w.row, "withdrawn")
        /\ Do(c, [w EXCEPT !.op = "discard", !.asset = photos[w.row].asset])
        /\ Crossing(w, photos, "photo")
        /\ UNCHANGED <<tables, driver, account, live, changes, stored, stray>>

DiscardAsset(c) ==
    /\ Ready(c, "discard")
    /\ \E kept \in MayBeLeft({request[c].asset}) : stored' = (stored \ {request[c].asset}) \cup kept
    /\ Do(c, Idle)
    /\ UNCHANGED <<tables, driver, account, live, changes, photos, stray, crossed>>

ApprovePhoto(c) ==
    LET w == request[c]
        approvals == {photos[i].approval : i \in DOMAIN photos}
    IN  /\ Ready(c, "show")
        /\ photos' = [photos EXCEPT ![w.row].status = "approved",
                                    ![w.row].approval = Cardinality(approvals \cup {0})]
        /\ Do(c, Idle)
        /\ Crossing(w, photos, "photo")
        /\ UNCHANGED <<tables, driver, account, live, changes, stored, stray>>

RejectPhoto(c) ==
    LET w == request[c]
    IN  /\ Ready(c, "refuse")
        /\ photos' = Closed(photos, w.row, "rejected")
        /\ Do(c, Idle)
        /\ Crossing(w, photos, "photo")
        /\ UNCHANGED <<tables, driver, account, live, changes, stored, stray>>

\* approved_url_for_driver: the photo approved last, 0 when there is none
Shown == LET approved == {i \in DOMAIN photos : photos[i].status = "approved"}
         IN  IF approved = {} THEN 0
             ELSE CHOOSE i \in approved : \A j \in approved : photos[j].approval <= photos[i].approval

-----------------------------------------------------------------------------
(* update_driver_status, which every decision about the account ends in. *)

ReadForStatus(c, s) ==
    /\ request[c] = Idle
    /\ driver # "none"
    /\ Do(c, [op |-> "status", to |-> s, driver |-> driver, vendor |-> account.vendor])
    /\ UNCHANGED <<tables, driver, account, reviews, stray, crossed>>

\* Faulty: the user's own status is left behind.
NoMirror(s, old) == old

\* vendor_status, by which the portal tells who still waits
Mirror(s, old) == IF s = "pending_review" THEN "pending" ELSE s

\* A column is written when its value differs from the one that was read.
UpdateDriverStatus(c) ==
    LET w == request[c]
    IN  /\ Ready(c, "status")
        /\ driver' = IF w.to = w.driver THEN driver ELSE w.to
        /\ account' = IF Mirror(w.to, w.vendor) = w.vendor THEN account
                      ELSE [account EXCEPT !.vendor = Mirror(w.to, w.vendor)]
        /\ crossed' = IF driver = w.driver /\ account.vendor = w.vendor THEN crossed \ {"status"}
                      ELSE crossed \cup {"status"}
        /\ Do(c, Idle)
        /\ UNCHANGED <<tables, reviews, stray>>

-----------------------------------------------------------------------------
(* The routes of app/api/v1/users.py write the account and know nothing of a driver's file. *)

ChangeAccount(role, vendor) ==
    /\ account.role # "none"
    /\ account' = [role |-> role, vendor |-> vendor]
    /\ crossed' = IF vendor = account.vendor THEN crossed ELSE crossed \cup {"status"}
    /\ UNCHANGED <<tables, driver, reviews, stray, request>>

\* apply_vendor: a column that already was so when the request read it is not written.
ApplyAsVendor ==
    \E role \in {account.role, "VENDOR"}, vendor \in {account.vendor, "pending"} :
        ChangeAccount(role, vendor)

\* update_user, by an admin
EditAccount == \E new \in Edits : ChangeAccount(new.role, new.vendor)

\* A request dies: what it uploaded or was going to delete stays in Cloudinary.
Abandon(c) ==
    /\ request[c] # Idle
    /\ Do(c, Idle)
    /\ UNCHANGED <<tables, driver, account, reviews, stray, crossed>>

Read(c) ==
    \/ \E asked \in Proposals : ReadForSubmit(c, asked)
    \/ \E op \in {"withdraw", "approve", "reject"} : ReadForDecision(c, op)
    \/ \E a \in Assets : ReadForPhoto(c, a)
    \/ \E op \in {"unphoto", "show", "refuse"} : ReadForReview(c, op)
    \/ \E s \in Decisions : ReadForStatus(c, s)

Finish(c) ==
    \/ Submit(c) \/ Withdraw(c) \/ Approve(c) \/ Reject(c)
    \/ SubmitPhoto(c) \/ PhotoNotReady(c) \/ WithdrawPhoto(c) \/ ApprovePhoto(c) \/ RejectPhoto(c)
    \/ DiscardAsset(c) \/ UpdateDriverStatus(c) \/ Abandon(c)

Next ==
    \/ SignUp \/ ApplyAsVendor \/ EditAccount
    \/ \E sent \in SUBSET Documents : UploadFails(sent) \/ RefuseSignUp(sent)
    \/ \E c \in Requests : Read(c) \/ Finish(c)

Spec == Init /\ [][Next]_vars

-----------------------------------------------------------------------------
\* The columns and the requests hold what the code writes; whoever has a driver's file has an
\* account, and there is no review without a file.
TypeOK ==
    /\ tables \subseteq {"change", "photo"}
    /\ driver \in DriverStatus \cup {"none"}
    /\ account \in Accounts
    /\ live \in Proposals
    /\ changes \in Seq(Change) /\ photos \in Seq(Photo)
    /\ stored \subseteq Assets /\ stray \subseteq Documents
    /\ request \in [Requests -> Work \cup {Idle}]
    /\ crossed \subseteq {"change", "photo", "status"}
    /\ driver = "none" => changes = <<>> /\ photos = <<>>
    /\ driver # "none" => account.role # "none"

\* The payout details of a driver are complete or empty, although a proposal names only the
\* fields that differ, was merged with a profile that may be older, and may be replaced while an
\* admin approves it ("Payout details only make sense as a complete set").
BankDetailsComplete == BankWhole(live)

\* Unless a commit crossed another, every column of the profile is what the newest approved
\* request that names it says: nothing that was withdrawn, rejected, replaced or still waits has
\* reached it.
LiveIsWhatWasApproved ==
    "change" \notin crossed =>
        \A f \in Fields :
            LET naming == {i \in DOMAIN changes : changes[i].status = "approved"
                                                  /\ changes[i].proposed[f] # Null}
            IN  \/ naming = {} /\ live[f] = Null
                \/ \E i \in naming : /\ \A j \in naming : j <= i
                                     /\ live[f] = changes[i].proposed[f]

\* Unless a commit crossed another, every photo that is shown, waits for review or was rejected
\* is still in Cloudinary, and only the newest one can wait ("Sending a new photo replaces the
\* one waiting for review").
KeptPhotosAreStored ==
    "photo" \notin crossed =>
        /\ Shown # 0 => photos[Shown].asset \in stored
        /\ \A i \in DOMAIN photos :
             /\ photos[i].status # "withdrawn" => photos[i].asset \in stored
             /\ photos[i].status = "pending" => i = Len(photos)

\* A decision is final: only a commit that crosses another changes a request or a photo that has
\* been decided on or withdrawn.
DecidedStays ==
    [][/\ "change" \notin crossed' =>
            \A i \in DOMAIN changes : changes[i].status # "pending" => changes'[i] = changes[i]
       /\ "photo" \notin crossed' =>
            \A i \in DOMAIN photos : photos[i].status # "pending" => photos'[i] = photos[i]]_vars

\* A decision about a driver is mirrored in his account, which the portal reads ("Without this an
\* approved driver stayed pending for good"): the two agree from each decision that finds both as it
\* read them until another route writes the account's status or the next decision is overtaken.
VendorStatusFollows ==
    "status" \notin crossed /\ driver \in {"approved", "rejected", "suspended"} =>
        account.vendor = driver

-----------------------------------------------------------------------------
(* What the documents say, and the code does not keep.                      *)

\* "Without this an approved driver stayed pending for good" (driver_repository.py:114): one who
\* applies as a vendor is on the screen of those who wait again.
ApprovedNeverWaits == driver = "approved" => account.vendor # "pending"
=============================================================================
