--------------------------- MODULE DriverFileProofs ---------------------------
(***************************************************************************)
(* Theorems about DriverFile, for any columns, values, photos, handlers    *)
(* and bounds.                                                             *)
(*                                                                         *)
(* Payout details stay whole whatever commits cross, because each proposal *)
(* that waits or is in flight would leave them whole (ProposalsAreSound).  *)
(* As long as none has crossed another, an admin who approves has read the *)
(* profile as it stands (ApproverSeesProfile), and a file that is being    *)
(* deleted belongs to no photo but a withdrawn one (DiscardedIsWithdrawn). *)
(***************************************************************************)
EXTENDS DriverFile, FiniteSetTheorems, TLAPS

ChangeOps == {"submit", "withdraw", "approve", "reject"}
PhotoOps == {"photo", "unphoto", "show", "refuse", "discard"}

\* A handler's row is one of the table it works on, and only a new row has no place yet.
Knows(w) ==
    w # Idle =>
        /\ w.op \in ChangeOps => w.row \in 0..Len(changes)
        /\ w.op \in PhotoOps => w.row \in 0..Len(photos)
        /\ w.op \in {"withdraw", "approve", "reject", "unphoto", "show", "refuse"} => w.row # 0
        /\ w.op \in {"photo", "discard"} => w.asset \in Assets
        /\ driver # "none"

RequestsKnow == \A c \in Requests : Knows(request[c])

\* What a set of payout details and a proposal for them must be.
BankSet(p) == \A f \in BankFields : p[f] # Null
Sound(p, base) == BankWhole(Merged(p, base))

\* The proposals that wait and those that requests hold would leave the payout details whole,
\* and no request remembers details which the profile has lost since.
ProposalsAreSound ==
    /\ \A i \in DOMAIN changes : Sound(changes[i].proposed, live)
    /\ \A c \in Requests :
         request[c] # Idle /\ request[c].op \in ChangeOps =>
            /\ Sound(request[c].proposal, live)
            /\ request[c].op = "approve" =>
                 /\ BankWhole(request[c].live)
                 /\ BankSet(request[c].live) => BankSet(live)

\* Unless a commit crossed another, an admin who approves the request that waits has read the
\* profile as it stands.
ApproverSeesProfile ==
    "change" \notin crossed =>
        \A c \in Requests :
            request[c] # Idle /\ request[c].op = "approve" /\ Pending(changes) = request[c].row =>
                request[c].live = live

Uploading(c) == request[c] # Idle /\ request[c].op = "photo"
Discarding(c) == request[c] # Idle /\ request[c].op = "discard"

\* No two rows or uploads share a file.
FilesAreApart ==
    /\ \A i, j \in DOMAIN photos : photos[i].asset = photos[j].asset => i = j
    /\ \A c \in Requests : Uploading(c) =>
         /\ request[c].asset \in stored
         /\ \A i \in DOMAIN photos : photos[i].asset # request[c].asset
         /\ \A d \in Requests \ {c} :
              Uploading(d) \/ Discarding(d) => request[d].asset # request[c].asset

\* A file that is being deleted belongs to no photo but one that was withdrawn.
DiscardedIsWithdrawn ==
    "photo" \notin crossed =>
        \A c \in Requests : Discarding(c) =>
            \A i \in DOMAIN photos :
                photos[i].asset = request[c].asset => photos[i].status = "withdrawn"

Approved == {i \in DOMAIN photos : photos[i].status = "approved"}

\* Some approved photo was approved last.
OneIsNewest ==
    "photo" \notin crossed /\ Approved # {} =>
        \E i \in Approved : \A j \in Approved : photos[j].approval <= photos[i].approval

\* What KeptPhotosAreStored says of the single photos.
KeptAreStored ==
    "photo" \notin crossed =>
        \A i \in DOMAIN photos :
            /\ photos[i].status # "withdrawn" => photos[i].asset \in stored
            /\ photos[i].status = "pending" => i = Len(photos)

DriverInv ==
    /\ TypeOK /\ RequestsKnow
    /\ BankDetailsComplete /\ ProposalsAreSound
    /\ ApproverSeesProfile /\ LiveIsWhatWasApproved
    /\ FilesAreApart /\ DiscardedIsWithdrawn /\ OneIsNewest /\ KeptAreStored
    /\ VendorStatusFollows

-----------------------------------------------------------------------------
(* What the helpers return. *)

LEMMA PendingRow ==
    ASSUME NEW R, NEW rows \in Seq(R)
    PROVE  /\ Pending(rows) \in 0..Len(rows)
           /\ Pending(rows) # 0 =>
                /\ Pending(rows) = Len(rows)
                /\ Len(rows) \in DOMAIN rows
                /\ rows[Len(rows)].status = "pending"
           /\ Pending(rows) = 0 /\ rows # <<>> => rows[Len(rows)].status # "pending"
           /\ DOMAIN rows = 1..Len(rows)
           /\ Len(rows) \in Nat
BY DEF Pending, Last

\* A handler that serves a review holds what a review needs.
LEMMA ReviewWork ==
    ASSUME NEW w \in Work, w.op # "status"
    PROVE  /\ w.op \in ChangeOps \cup PhotoOps
           /\ w.row \in Nat
           /\ w.asset \in Assets \cup {Null}
           /\ w.proposal \in Proposals
           /\ w.live \in Proposals
           /\ w = [op |-> w.op, row |-> w.row, asset |-> w.asset,
                   proposal |-> w.proposal, live |-> w.live]
BY DEF Work, ChangeOps, PhotoOps

\* A field that is overwritten holds what was written.
LEMMA Overwritten ==
    ASSUME NEW w \in Work, w.op # "status", NEW a
    PROVE  /\ [w EXCEPT !.op = "discard"].op = "discard"
           /\ [w EXCEPT !.op = "discard", !.asset = a].op = "discard"
<1>1. PICK op \in ChangeOps \cup PhotoOps, row \in Nat, old \in Assets \cup {Null},
           proposal \in Proposals, base \in Proposals :
        w = [op |-> op, row |-> row, asset |-> old, proposal |-> proposal, live |-> base]
  BY ReviewWork
<1> DEFINE u == [w EXCEPT !.op = "discard"]
<1>2. u = [op |-> "discard", row |-> row, asset |-> old, proposal |-> proposal, live |-> base]
  BY <1>1
<1>3. [w EXCEPT !.op = "discard", !.asset = a] = [u EXCEPT !.asset = a]
  OBVIOUS
<1> HIDE DEF u
<1>4. QED BY <1>2, <1>3

\* A handler that goes on to delete a file.
LEMMA DiscardWork ==
    ASSUME NEW w \in Work, w.op # "status", NEW a \in Assets
    PROVE  /\ [w EXCEPT !.op = "discard", !.asset = a] \in Work
           /\ [w EXCEPT !.op = "discard", !.asset = a].op = "discard"
           /\ [w EXCEPT !.op = "discard", !.asset = a].row = w.row
           /\ [w EXCEPT !.op = "discard", !.asset = a].asset = a
<1>1. PICK op \in ChangeOps \cup PhotoOps, row \in Nat, old \in Assets \cup {Null},
           proposal \in Proposals, base \in Proposals :
        w = [op |-> op, row |-> row, asset |-> old, proposal |-> proposal, live |-> base]
  BY ReviewWork
<1> DEFINE u == [w EXCEPT !.op = "discard"]
<1>a. u = [op |-> "discard", row |-> row, asset |-> old, proposal |-> proposal, live |-> base]
  BY <1>1
<1>b. [w EXCEPT !.op = "discard", !.asset = a] = [u EXCEPT !.asset = a]
  OBVIOUS
<1> HIDE DEF u
<1>c. [u EXCEPT !.asset = a]
        = [op |-> "discard", row |-> row, asset |-> a, proposal |-> proposal, live |-> base]
  BY <1>a
<1>2. [w EXCEPT !.op = "discard", !.asset = a]
        = [op |-> "discard", row |-> row, asset |-> a, proposal |-> proposal, live |-> base]
  BY <1>b, <1>c
<1>3. w.row = row BY <1>1
<1>4. QED BY <1>2, <1>3 DEF Work

LEMMA StatusWork ==
    ASSUME NEW w \in Work, w.op = "status"
    PROVE  w.to \in DriverStatus /\ w.driver \in DriverStatus /\ w.vendor \in VendorStatus
BY DEF Work

\* What Do does to the handlers.
LEMMA Doing ==
    ASSUME TypeOK, NEW c \in Requests, NEW w \in Work \cup {Idle}, Do(c, w)
    PROVE  /\ request' \in [Requests -> Work \cup {Idle}]
           /\ request'[c] = w
           /\ \A d \in Requests : d # c => request'[d] = request[d]
           /\ \A d \in Requests : request'[d] = IF d = c THEN w ELSE request[d]
BY DEF TypeOK, Do

\* A handler as it begins.
Started(op, row, proposal, asset) ==
    [op |-> op, row |-> row, asset |-> asset, proposal |-> proposal,
     live |-> IF op = "approve" THEN live ELSE Nothing]

LEMMA Beginning ==
    ASSUME TypeOK, NEW c \in Requests, NEW table, NEW op \in ChangeOps \cup PhotoOps,
           NEW row \in Nat, NEW proposal \in Proposals, NEW asset \in Assets \cup {Null},
           Begin(c, table, op, row, proposal, asset)
    PROVE  /\ Started(op, row, proposal, asset) \in Work
           /\ Do(c, Started(op, row, proposal, asset))
           /\ request[c] = Idle /\ driver # "none"
           /\ UNCHANGED <<tables, driver, account, stray, crossed>>
           /\ Started(op, row, proposal, asset) # Idle
           /\ Started(op, row, proposal, asset).op = op
           /\ Started(op, row, proposal, asset).row = row
           /\ Started(op, row, proposal, asset).asset = asset
           /\ Started(op, row, proposal, asset).proposal = proposal
           /\ op = "approve" => Started(op, row, proposal, asset).live = live
<1>1. Nothing \in Proposals BY DEF Nothing, Proposals
<1>2. live \in Proposals BY DEF TypeOK
<1>3. Started(op, row, proposal, asset) \in Work
  BY <1>1, <1>2 DEF Started, Work, ChangeOps, PhotoOps
<1>4. Do(c, Started(op, row, proposal, asset)) BY DEF Begin, Started
<1>5. request[c] = Idle /\ driver # "none" /\ UNCHANGED <<tables, driver, account, stray, crossed>>
  BY DEF Begin
<1>6. Started(op, row, proposal, asset) # Idle BY <1>3, IdleAssumption
<1>7. QED BY <1>3, <1>4, <1>5, <1>6 DEF Started

LEMMA NothingIsNull == Nothing \in Proposals
BY DEF Nothing, Proposals

LEMMA DifferingType ==
    ASSUME TypeOK, NEW p \in Proposals
    PROVE  Differing(p) \in Proposals
BY DEF TypeOK, Differing, Proposals

LEMMA SavedType ==
    ASSUME TypeOK, NEW w \in Work, w.op # "status"
    PROVE  Saved(w, live) \in Proposals
BY ReviewWork DEF TypeOK, Saved, Proposals

\* A row that is closed keeps the rest; no row is closed when there is none to close.
LEMMA ClosedRows ==
    ASSUME NEW rows \in Seq(Photo), NEW i \in 0..Len(rows), NEW status \in ReviewStatus
    PROVE  /\ Closed(rows, i, status) \in Seq(Photo)
           /\ Len(Closed(rows, i, status)) = Len(rows)
           /\ DOMAIN Closed(rows, i, status) = DOMAIN rows
           /\ \A j \in DOMAIN rows :
                /\ Closed(rows, i, status)[j].asset = rows[j].asset
                /\ Closed(rows, i, status)[j].approval = rows[j].approval
                /\ Closed(rows, i, status)[j].status = IF j = i THEN status ELSE rows[j].status
                /\ j # i => Closed(rows, i, status)[j] = rows[j]
<1>1. CASE i = 0 BY <1>1 DEF Closed
<1>2. CASE i # 0
  <2>1. i \in DOMAIN rows /\ rows[i] \in Photo BY <1>2
  <2>2. Closed(rows, i, status) = [rows EXCEPT ![i] = [rows[i] EXCEPT !.status = status]]
    BY <1>2 DEF Closed
  <2>3. [rows[i] EXCEPT !.status = status] \in Photo
        /\ [rows[i] EXCEPT !.status = status].asset = rows[i].asset
        /\ [rows[i] EXCEPT !.status = status].approval = rows[i].approval
        /\ [rows[i] EXCEPT !.status = status].status = status
    BY <2>1 DEF Photo
  <2>4. QED BY <2>1, <2>2, <2>3
<1>3. QED BY <1>1, <1>2

\* The place of a new approval is a number.
LEMMA ApprovalIsANumber ==
    ASSUME TypeOK
    PROVE  Cardinality({photos[i].approval : i \in DOMAIN photos} \cup {0}) \in Nat
<1> DEFINE S == DOMAIN photos
           T == {photos[i].approval : i \in DOMAIN photos}
           f == [i \in S |-> photos[i].approval]
<1>1. S = 1..Len(photos) /\ Len(photos) \in Nat BY DEF TypeOK
<1>2. IsFiniteSet(S) BY <1>1, FS_Interval
<1>3. f \in Surjection(S, T) BY DEF Surjection
<1>4. IsFiniteSet(T) BY <1>2, <1>3, FS_Surjection
<1>5. IsFiniteSet(T \cup {0}) BY <1>4, FS_AddElement
<1>6. QED BY <1>5, FS_CardinalityType

-----------------------------------------------------------------------------
(* The types, and what handlers hold. *)

\* A step of handler c, after which it holds w, keeps what the handlers know.
LEMMA StillKnown ==
    ASSUME TypeOK, RequestsKnow, NEW c \in Requests, NEW w \in Work \cup {Idle}, Do(c, w),
           Len(changes) \in Nat, Len(changes') \in Nat, Len(changes) <= Len(changes'),
           Len(photos) \in Nat, Len(photos') \in Nat, Len(photos) <= Len(photos'),
           driver # "none" => driver' # "none",
           w # Idle =>
             /\ w.op \in ChangeOps => w.row \in 0..Len(changes')
             /\ w.op \in PhotoOps => w.row \in 0..Len(photos')
             /\ w.op \in {"withdraw", "approve", "reject", "unphoto", "show", "refuse"} => w.row # 0
             /\ w.op \in {"photo", "discard"} => w.asset \in Assets
             /\ driver' # "none"
    PROVE  RequestsKnow'
<1> SUFFICES ASSUME NEW d \in Requests PROVE Knows(request[d])'
  BY DEF RequestsKnow
<1>1. CASE d = c
  <2>1. request'[d] = w BY <1>1, Doing
  <2>2. QED BY <2>1 DEF Knows
<1>2. CASE d # c
  <2>1. request'[d] = request[d] BY <1>2, Doing
  <2>2. Knows(request[d]) BY DEF RequestsKnow
  <2>3. QED BY <2>1, <2>2 DEF Knows
<1>3. QED BY <1>1, <1>2

LEMMA LengthsAreNumbers ==
    ASSUME TypeOK
    PROVE  /\ Len(changes) \in Nat /\ DOMAIN changes = 1..Len(changes)
           /\ Len(photos) \in Nat /\ DOMAIN photos = 1..Len(photos)
           /\ Pending(changes) \in 0..Len(changes) /\ Pending(photos) \in 0..Len(photos)
<1>1. changes \in Seq(Change) /\ photos \in Seq(Photo) BY DEF TypeOK
<1>2. QED BY <1>1, PendingRow

\* A handler that only ends.
LEMMA Ending ==
    ASSUME TypeOK, RequestsKnow, NEW c \in Requests, Do(c, Idle),
           driver # "none" => driver' # "none", UNCHANGED <<changes, photos>>
    PROVE  RequestsKnow'
<1>1. Len(changes) \in Nat /\ Len(photos) \in Nat BY LengthsAreNumbers
<1>2. Idle \in Work \cup {Idle} OBVIOUS
<1>3. QED BY <1>1, <1>2, StillKnown

\* A handler that begins.
LEMMA BeginningKnows ==
    ASSUME TypeOK, RequestsKnow, NEW c \in Requests, NEW table, NEW op \in ChangeOps \cup PhotoOps,
           NEW row \in Nat, NEW proposal \in Proposals, NEW asset \in Assets \cup {Null},
           Begin(c, table, op, row, proposal, asset),
           UNCHANGED <<changes, photos>>,
           op \in ChangeOps => row \in 0..Len(changes),
           op \in PhotoOps => row \in 0..Len(photos),
           op \in {"withdraw", "approve", "reject", "unphoto", "show", "refuse"} => row # 0,
           op \in {"photo", "discard"} => asset \in Assets
    PROVE  /\ request' \in [Requests -> Work \cup {Idle}]
           /\ RequestsKnow'
<1> DEFINE w == Started(op, row, proposal, asset)
<1>1. /\ w \in Work /\ Do(c, w) /\ driver # "none" /\ driver' = driver
      /\ w.op = op /\ w.row = row /\ w.asset = asset
  BY Beginning
<1>2. Len(changes) \in Nat /\ Len(photos) \in Nat BY LengthsAreNumbers
<1> HIDE DEF w
<1>3. request' \in [Requests -> Work \cup {Idle}] BY <1>1, Doing
<1>4. RequestsKnow' BY <1>1, <1>2, StillKnown
<1>5. QED BY <1>3, <1>4

LEMMA ReadTypes ==
    ASSUME TypeOK, RequestsKnow, NEW c \in Requests, Read(c)
    PROVE  TypeOK' /\ RequestsKnow'
<1> USE LengthsAreNumbers
<1>1. changes \in Seq(Change) /\ photos \in Seq(Photo) BY DEF TypeOK
<1>2. ASSUME NEW asked \in Proposals, ReadForSubmit(c, asked)
      PROVE  TypeOK' /\ RequestsKnow'
  <2>1. Differing(asked) \in Proposals BY DifferingType
  <2>2. /\ "submit" \in ChangeOps \cup PhotoOps /\ "submit" \notin PhotoOps
        /\ "submit" \notin {"withdraw", "approve", "reject", "unphoto", "show", "refuse"}
        /\ "submit" \notin {"photo", "discard"}
        /\ Null \in Assets \cup {Null} /\ Pending(changes) \in Nat
    BY DEF ChangeOps, PhotoOps
  <2>3. Begin(c, "change", "submit", Pending(changes), Differing(asked), Null)
        /\ UNCHANGED <<live, changes, photos, stored>>
    BY <1>2 DEF ReadForSubmit, reviews
  <2>4. request' \in [Requests -> Work \cup {Idle}] /\ RequestsKnow'
    BY <2>1, <2>2, <2>3, BeginningKnows, Zenon
  <2>5. UNCHANGED <<tables, driver, account, stray, crossed>> BY <2>3 DEF Begin
  <2>6. QED BY <2>3, <2>4, <2>5 DEF TypeOK
<1>3. ASSUME NEW op \in {"withdraw", "approve", "reject"}, ReadForDecision(c, op)
      PROVE  TypeOK' /\ RequestsKnow'
  <2>1. Pending(changes) # 0 BY <1>3 DEF ReadForDecision
  <2>2. changes[Pending(changes)].proposed \in Proposals
    <3>1. changes[Pending(changes)] \in Change BY <2>1, <1>1
    <3>2. QED BY <3>1 DEF Change
  <2>3. /\ op \in ChangeOps \cup PhotoOps /\ op \notin PhotoOps
        /\ op \notin {"photo", "discard"}
        /\ Null \in Assets \cup {Null} /\ Pending(changes) \in Nat
    BY DEF ChangeOps, PhotoOps
  <2>4. Begin(c, "change", op, Pending(changes), changes[Pending(changes)].proposed, Null)
        /\ UNCHANGED <<live, changes, photos, stored>>
    BY <1>3 DEF ReadForDecision, reviews
  <2>5. request' \in [Requests -> Work \cup {Idle}] /\ RequestsKnow'
    BY <2>1, <2>2, <2>3, <2>4, BeginningKnows, Zenon
  <2>6. UNCHANGED <<tables, driver, account, stray, crossed>> BY <2>4 DEF Begin
  <2>7. QED BY <2>4, <2>5, <2>6 DEF TypeOK
<1>4. ASSUME NEW a \in Assets, ReadForPhoto(c, a)
      PROVE  TypeOK' /\ RequestsKnow'
  <2>1. /\ "photo" \in ChangeOps \cup PhotoOps /\ "photo" \notin ChangeOps
        /\ "photo" \notin {"withdraw", "approve", "reject", "unphoto", "show", "refuse"}
        /\ a \in Assets \cup {Null} /\ Pending(photos) \in Nat
    BY DEF ChangeOps, PhotoOps
  <2>2. Begin(c, "photo", "photo", Pending(photos), Nothing, a)
        /\ UNCHANGED <<live, changes, photos>> /\ stored' = stored \cup {a}
    BY <1>4 DEF ReadForPhoto
  <2>3. request' \in [Requests -> Work \cup {Idle}] /\ RequestsKnow'
    BY <2>1, <2>2, NothingIsNull, BeginningKnows, Zenon
  <2>4. UNCHANGED <<tables, driver, account, stray, crossed>> BY <2>2 DEF Begin
  <2>5. QED BY <2>2, <2>3, <2>4 DEF TypeOK
<1>5. ASSUME NEW op \in {"unphoto", "show", "refuse"}, ReadForReview(c, op)
      PROVE  TypeOK' /\ RequestsKnow'
  <2>1. /\ op \in ChangeOps \cup PhotoOps /\ op \notin ChangeOps
        /\ op \notin {"photo", "discard"}
        /\ Null \in Assets \cup {Null} /\ Pending(photos) \in Nat
    BY DEF ChangeOps, PhotoOps
  <2>2. Begin(c, "photo", op, Pending(photos), Nothing, Null) /\ Pending(photos) # 0
        /\ UNCHANGED <<live, changes, photos, stored>>
    BY <1>5 DEF ReadForReview, reviews
  <2>3. request' \in [Requests -> Work \cup {Idle}] /\ RequestsKnow'
    BY <2>1, <2>2, NothingIsNull, BeginningKnows, Zenon
  <2>4. UNCHANGED <<tables, driver, account, stray, crossed>> BY <2>2 DEF Begin
  <2>5. QED BY <2>2, <2>3, <2>4 DEF TypeOK
<1>6. ASSUME NEW s \in Decisions, ReadForStatus(c, s)
      PROVE  TypeOK' /\ RequestsKnow'
  <2> DEFINE w == [op |-> "status", to |-> s, driver |-> driver, vendor |-> account.vendor]
  <2>1. driver # "none" /\ Do(c, w)
        /\ UNCHANGED <<tables, driver, account, live, changes, photos, stored, stray, crossed>>
    BY <1>6 DEF ReadForStatus, reviews
  <2>2. w \in Work
    BY <2>1, BoundsAssumption DEF Work, TypeOK, Accounts, DriverStatus
  <2>3. w.op = "status" OBVIOUS
  <2> HIDE DEF w
  <2>4. request' \in [Requests -> Work \cup {Idle}] BY <2>1, <2>2, Doing
  <2>5. RequestsKnow' BY <2>1, <2>2, <2>3, StillKnown DEF ChangeOps, PhotoOps
  <2>6. QED BY <2>1, <2>4, <2>5 DEF TypeOK
<1>7. QED BY <1>2, <1>3, <1>4, <1>5, <1>6 DEF Read

LEMMA FinishTypes ==
    ASSUME TypeOK, RequestsKnow, NEW c \in Requests, Finish(c)
    PROVE  TypeOK' /\ RequestsKnow'
<1> DEFINE w == request[c]
<1> USE LengthsAreNumbers
<1>1. /\ changes \in Seq(Change) /\ photos \in Seq(Photo) /\ w \in Work \cup {Idle}
      /\ Knows(w) /\ Idle \in Work \cup {Idle} /\ stored \subseteq Assets
      /\ crossed \subseteq {"change", "photo", "status"} /\ driver \in DriverStatus \cup {"none"}
  BY DEF TypeOK, RequestsKnow
<1>2. CASE Submit(c)
  <2>1. w # Idle /\ w \in Work /\ w.op = "submit" BY <1>1, <1>2 DEF Submit, Ready
  <2>2. /\ w.proposal \in Proposals /\ w.row \in 0..Len(changes) /\ driver # "none"
    BY <1>1, <2>1, ReviewWork DEF Knows, ChangeOps
  <2>3. /\ changes' \in Seq(Change) /\ Len(changes') \in Nat /\ Len(changes) <= Len(changes')
    <3>1. CASE w.row = 0
      <4>1. [status |-> "pending", proposed |-> w.proposal] \in Change
        BY <2>2 DEF Change, ReviewStatus
      <4>2. changes' = Append(changes, [status |-> "pending", proposed |-> w.proposal])
        BY <1>2, <3>1 DEF Submit
      <4>3. QED BY <1>1, <4>1, <4>2
    <3>2. CASE w.row # 0
      <4>1. w.row \in DOMAIN changes /\ changes[w.row] \in Change BY <1>1, <2>2, <3>2
      <4>2. [changes[w.row] EXCEPT !.proposed = w.proposal] \in Change
        BY <4>1, <2>2 DEF Change
      <4>3. changes' = [changes EXCEPT ![w.row] = [changes[w.row] EXCEPT !.proposed = w.proposal]]
        BY <1>2, <3>2 DEF Submit
      <4>4. QED BY <1>1, <4>1, <4>2, <4>3
    <3>3. QED BY <3>1, <3>2
  <2>4. /\ Do(c, Idle) /\ UNCHANGED <<tables, driver, account, live, photos, stored, stray>>
        /\ crossed' \subseteq {"change", "photo", "status"}
    BY <1>1, <1>2 DEF Submit, Crossing
  <2>5. RequestsKnow' BY <1>1, <2>3, <2>4, StillKnown
  <2>6. request' \in [Requests -> Work \cup {Idle}] BY <1>1, <2>4, Doing
  <2>7. QED BY <2>2, <2>3, <2>4, <2>5, <2>6 DEF TypeOK
<1>3. ASSUME NEW op \in {"withdraw", "approve", "reject"}, NEW status \in ReviewStatus,
             Decide(c, op, status), live' \in Proposals,
             crossed' \subseteq {"change", "photo", "status"}
      PROVE  TypeOK' /\ RequestsKnow'
  <2>1. w # Idle /\ w \in Work /\ w.op = op BY <1>1, <1>3 DEF Decide, Ready
  <2>2. w.row \in 0..Len(changes) /\ w.row # 0 /\ driver # "none"
    BY <1>1, <2>1 DEF Knows, ChangeOps
  <2>3. w.row \in DOMAIN changes /\ changes[w.row] \in Change BY <1>1, <2>2
  <2>4. [changes[w.row] EXCEPT !.status = status] \in Change BY <2>3 DEF Change
  <2>5. changes' = [changes EXCEPT ![w.row] = [changes[w.row] EXCEPT !.status = status]]
    BY <1>3 DEF Decide
  <2>6. changes' \in Seq(Change) /\ Len(changes') = Len(changes) BY <1>1, <2>3, <2>4, <2>5
  <2>7. Do(c, Idle) /\ UNCHANGED <<tables, driver, account, photos, stored, stray>>
    BY <1>3 DEF Decide
  <2>8. RequestsKnow' BY <1>1, <2>6, <2>7, StillKnown
  <2>9. request' \in [Requests -> Work \cup {Idle}] BY <1>1, <2>7, Doing
  <2>10. QED BY <1>3, <2>2, <2>6, <2>7, <2>8, <2>9 DEF TypeOK
<1>4. CASE Withdraw(c)
  <2>1. live' \in Proposals BY <1>4 DEF Withdraw, TypeOK
  <2>2. crossed' \subseteq {"change", "photo", "status"} BY <1>1, <1>4 DEF Withdraw, Crossing
  <2>3. Decide(c, "withdraw", "withdrawn") /\ "withdrawn" \in ReviewStatus
    BY <1>4 DEF Withdraw, ReviewStatus
  <2>4. QED BY <1>3, <2>1, <2>2, <2>3
<1>5. CASE Reject(c)
  <2>1. live' \in Proposals BY <1>5 DEF Reject, TypeOK
  <2>2. crossed' \subseteq {"change", "photo", "status"} BY <1>1, <1>5 DEF Reject, Crossing
  <2>3. Decide(c, "reject", "rejected") /\ "rejected" \in ReviewStatus
    BY <1>5 DEF Reject, ReviewStatus
  <2>4. QED BY <1>3, <2>1, <2>2, <2>3
<1>6. CASE Approve(c)
  <2>1. w # Idle /\ w \in Work /\ w.op = "approve" BY <1>1, <1>6 DEF Approve, Decide, Ready
  <2>2. live' \in Proposals BY <1>6, <2>1, SavedType DEF Approve
  <2>3. crossed' \subseteq {"change", "photo", "status"} BY <1>1, <1>6 DEF Approve
  <2>4. Decide(c, "approve", "approved") /\ "approved" \in ReviewStatus
    BY <1>6 DEF Approve, ReviewStatus
  <2>5. QED BY <1>3, <2>2, <2>3, <2>4
<1>7. CASE SubmitPhoto(c)
  <2> DEFINE new == [status |-> "pending", asset |-> w.asset, approval |-> 0]
             rest == Closed(photos, w.row, "withdrawn")
             v == IF w.row = 0 THEN Idle ELSE [w EXCEPT !.op = "discard", !.asset = photos[w.row].asset]
  <2>1. w # Idle /\ w \in Work /\ w.op = "photo" BY <1>1, <1>7 DEF SubmitPhoto, Ready
  <2>2. w.row \in 0..Len(photos) /\ driver # "none" /\ w.asset \in Assets
    BY <1>1, <2>1 DEF Knows, PhotoOps
  <2>3. new \in Photo BY <2>2 DEF Photo, ReviewStatus
  <2>4. rest \in Seq(Photo) /\ Len(rest) = Len(photos)
    <3>1. "withdrawn" \in ReviewStatus BY DEF ReviewStatus
    <3>2. QED BY <1>1, <2>2, <3>1, ClosedRows
  <2>5. photos' = Append(rest, new) BY <1>7 DEF SubmitPhoto
  <2> HIDE DEF rest, new
  <2>6. photos' \in Seq(Photo) /\ Len(photos') = Len(photos) + 1 BY <2>3, <2>4, <2>5
  <2>7. v \in Work \cup {Idle} /\ (v # Idle => v.op = "discard" /\ v.row = w.row /\ v.asset \in Assets)
    <3>1. CASE w.row = 0 BY <3>1
    <3>2. CASE w.row # 0
      <4>1. photos[w.row] \in Photo BY <1>1, <2>2, <3>2
      <4>2. photos[w.row].asset \in Assets BY <4>1 DEF Photo
      <4>3. w.op # "status" BY <2>1
      <4>4. v = [w EXCEPT !.op = "discard", !.asset = photos[w.row].asset] BY <3>2
      <4>5. QED BY <2>1, <4>2, <4>3, <4>4, DiscardWork
    <3>3. QED BY <3>1, <3>2
  <2>8. Do(c, v) /\ UNCHANGED <<tables, driver, account, live, changes, stored, stray>>
        /\ crossed' \subseteq {"change", "photo", "status"}
    BY <1>1, <1>7 DEF SubmitPhoto, Crossing
  <2> HIDE DEF v
  <2>9. request' \in [Requests -> Work \cup {Idle}] BY <2>7, <2>8, Doing
  <2>10. RequestsKnow'
    <3>1. v # Idle => v.row \in 0..Len(photos') BY <2>2, <2>6, <2>7
    <3>2. QED BY <2>2, <2>6, <2>7, <2>8, <3>1, StillKnown DEF ChangeOps
  <2>11. QED BY <2>2, <2>6, <2>8, <2>9, <2>10 DEF TypeOK
<1>8. CASE PhotoNotReady(c)
  <2> DEFINE v == [w EXCEPT !.op = "discard"]
  <2>1. w # Idle /\ w \in Work /\ w.op = "photo" BY <1>1, <1>8 DEF PhotoNotReady, Ready
  <2>2. w.row \in 0..Len(photos) /\ driver # "none" /\ w.asset \in Assets
    BY <1>1, <2>1 DEF Knows, PhotoOps
  <2>3. v = [op |-> "discard", row |-> w.row, asset |-> w.asset, proposal |-> w.proposal, live |-> w.live]
    BY <2>1, ReviewWork
  <2>4. v \in Work /\ v.op = "discard" /\ v.row = w.row /\ v.asset = w.asset
    BY <2>1, <2>3, ReviewWork DEF Work
  <2>5. Do(c, v) /\ UNCHANGED <<tables, driver, account, live, changes, photos, stored, stray, crossed>>
    BY <1>8 DEF PhotoNotReady, reviews
  <2> HIDE DEF v
  <2>6. request' \in [Requests -> Work \cup {Idle}] BY <2>4, <2>5, Doing
  <2>7. RequestsKnow' BY <2>2, <2>4, <2>5, StillKnown DEF ChangeOps
  <2>8. QED BY <2>5, <2>6, <2>7 DEF TypeOK
<1>9. CASE WithdrawPhoto(c)
  <2> DEFINE v == [w EXCEPT !.op = "discard", !.asset = photos[w.row].asset]
  <2>1. w # Idle /\ w \in Work /\ w.op = "unphoto" BY <1>1, <1>9 DEF WithdrawPhoto, Ready
  <2>2. w.row \in 0..Len(photos) /\ w.row # 0 /\ driver # "none"
    BY <1>1, <2>1 DEF Knows, PhotoOps
  <2>3. photos[w.row] \in Photo BY <1>1, <2>2
  <2>4. photos[w.row].asset \in Assets BY <2>3 DEF Photo
  <2>5. v \in Work /\ v.op = "discard" /\ v.row = w.row /\ v.asset \in Assets
    BY <2>1, <2>4, DiscardWork
  <2>6. Do(c, v) /\ UNCHANGED <<tables, driver, account, live, changes, stored, stray>>
        /\ crossed' \subseteq {"change", "photo", "status"}
        /\ photos' = Closed(photos, w.row, "withdrawn")
    BY <1>1, <1>9 DEF WithdrawPhoto, Crossing
  <2>7. photos' \in Seq(Photo) /\ Len(photos') = Len(photos)
    <3>1. "withdrawn" \in ReviewStatus BY DEF ReviewStatus
    <3>2. QED BY <1>1, <2>2, <2>6, <3>1, ClosedRows
  <2> HIDE DEF v
  <2>8. request' \in [Requests -> Work \cup {Idle}] BY <2>5, <2>6, Doing
  <2>9. RequestsKnow' BY <2>2, <2>5, <2>6, <2>7, StillKnown DEF ChangeOps
  <2>10. QED BY <2>2, <2>6, <2>7, <2>8, <2>9 DEF TypeOK
<1>10. CASE DiscardAsset(c)
  <2>1. Do(c, Idle) /\ UNCHANGED <<tables, driver, account, live, changes, photos, stray, crossed>>
    BY <1>10 DEF DiscardAsset
  <2>2. w # Idle /\ w \in Work /\ w.op = "discard" BY <1>1, <1>10 DEF DiscardAsset, Ready
  <2>3. w.asset \in Assets BY <1>1, <2>2 DEF Knows
  <2>4. stored' \subseteq Assets BY <1>1, <1>10, <2>3 DEF DiscardAsset, MayBeLeft
  <2>5. request' \in [Requests -> Work \cup {Idle}] BY <1>1, <2>1, Doing
  <2>6. RequestsKnow' BY <2>1, Ending
  <2>7. QED BY <2>1, <2>4, <2>5, <2>6 DEF TypeOK
<1>11. CASE ApprovePhoto(c)
  <2> DEFINE n == Cardinality({photos[i].approval : i \in DOMAIN photos} \cup {0})
             row == [photos[w.row] EXCEPT !.status = "approved", !.approval = n]
  <2>1. w # Idle /\ w \in Work /\ w.op = "show" BY <1>1, <1>11 DEF ApprovePhoto, Ready
  <2>2. w.row \in 0..Len(photos) /\ w.row # 0 /\ driver # "none"
    BY <1>1, <2>1 DEF Knows, PhotoOps
  <2>3. n \in Nat BY ApprovalIsANumber
  <2>4. Do(c, Idle) /\ UNCHANGED <<tables, driver, account, live, changes, stored, stray>>
        /\ crossed' \subseteq {"change", "photo", "status"}
    BY <1>1, <1>11 DEF ApprovePhoto, Crossing
  <2>5. photos' = [photos EXCEPT ![w.row].status = "approved", ![w.row].approval = n]
    BY <1>11 DEF ApprovePhoto
  <2> HIDE DEF n
  <2>6. photos[w.row] \in Photo /\ w.row \in DOMAIN photos BY <1>1, <2>2
  <2>7. row \in Photo BY <2>3, <2>6 DEF Photo, ReviewStatus
  <2>8. photos' = [photos EXCEPT ![w.row] = row] BY <2>5, <2>6
  <2> HIDE DEF row
  <2>9. photos' \in Seq(Photo) /\ Len(photos') = Len(photos) BY <1>1, <2>6, <2>7, <2>8
  <2>10. request' \in [Requests -> Work \cup {Idle}] BY <1>1, <2>4, Doing
  <2>11. RequestsKnow' BY <1>1, <2>4, <2>9, StillKnown
  <2>12. QED BY <2>2, <2>4, <2>9, <2>10, <2>11 DEF TypeOK
<1>12. CASE RejectPhoto(c)
  <2>1. w # Idle /\ w \in Work /\ w.op = "refuse" BY <1>1, <1>12 DEF RejectPhoto, Ready
  <2>2. w.row \in 0..Len(photos) /\ driver # "none"
    BY <1>1, <2>1 DEF Knows, PhotoOps
  <2>3. Do(c, Idle) /\ UNCHANGED <<tables, driver, account, live, changes, stored, stray>>
        /\ crossed' \subseteq {"change", "photo", "status"}
        /\ photos' = Closed(photos, w.row, "rejected")
    BY <1>1, <1>12 DEF RejectPhoto, Crossing
  <2>4. photos' \in Seq(Photo) /\ Len(photos') = Len(photos)
    <3>1. "rejected" \in ReviewStatus BY DEF ReviewStatus
    <3>2. QED BY <1>1, <2>2, <2>3, <3>1, ClosedRows
  <2>5. request' \in [Requests -> Work \cup {Idle}] BY <1>1, <2>3, Doing
  <2>6. RequestsKnow' BY <1>1, <2>3, <2>4, StillKnown
  <2>7. QED BY <2>2, <2>3, <2>4, <2>5, <2>6 DEF TypeOK
<1>13. CASE UpdateDriverStatus(c)
  <2>1. w # Idle /\ w \in Work /\ w.op = "status" BY <1>1, <1>13 DEF UpdateDriverStatus, Ready
  <2>2. w.to \in DriverStatus BY <2>1, StatusWork
  <2>3. driver # "none" BY <1>1, <2>1 DEF Knows
  <2>4. Do(c, Idle) /\ UNCHANGED <<tables, live, changes, photos, stored, stray>>
        /\ crossed' \subseteq {"change", "photo", "status"}
    BY <1>1, <1>13 DEF UpdateDriverStatus, reviews
  <2>5. driver' \in DriverStatus
    BY <1>1, <1>13, <2>2, <2>3 DEF UpdateDriverStatus
  <2>6. account' \in Accounts /\ account'.role = account.role
    BY <1>13, <2>2 DEF UpdateDriverStatus, TypeOK, Accounts, Mirror, DriverStatus, VendorStatus
  <2>7. request' \in [Requests -> Work \cup {Idle}] BY <1>1, <2>4, Doing
  <2>8. RequestsKnow' BY <2>4, <2>5, Ending DEF DriverStatus
  <2>9. QED BY <2>3, <2>4, <2>5, <2>6, <2>7, <2>8 DEF TypeOK, DriverStatus
<1>14. CASE Abandon(c)
  <2>1. Do(c, Idle) /\ UNCHANGED <<tables, driver, account, live, changes, photos, stored, stray, crossed>>
    BY <1>14 DEF Abandon, reviews
  <2>2. request' \in [Requests -> Work \cup {Idle}] BY <1>1, <2>1, Doing
  <2>3. RequestsKnow' BY <2>1, Ending
  <2>4. QED BY <2>1, <2>2, <2>3 DEF TypeOK
<1>15. QED
  BY <1>2, <1>4, <1>5, <1>6, <1>7, <1>8, <1>9, <1>10, <1>11, <1>12, <1>13, <1>14 DEF Finish

\* The routes of the users table write the account and nothing else.
LEMMA ElsewhereStep ==
    ASSUME ApplyAsVendor \/ EditAccount
    PROVE  /\ UNCHANGED <<tables, driver, live, changes, photos, stored, stray, request>>
           /\ crossed' = IF account'.vendor = account.vendor THEN crossed ELSE crossed \cup {"status"}
           /\ crossed \subseteq crossed' /\ crossed' \subseteq crossed \cup {"status"}
<1>1. PICK role, vendor : ChangeAccount(role, vendor)
  BY DEF ApplyAsVendor, EditAccount
<1>2. account'.vendor = vendor BY <1>1 DEF ChangeAccount
<1>3. QED BY <1>1, <1>2 DEF ChangeAccount, reviews

LEMMA ElsewhereType ==
    ASSUME TypeOK, ApplyAsVendor \/ EditAccount
    PROVE  account' \in Accounts /\ account'.role # "none"
<1>1. account \in Accounts BY DEF TypeOK
<1>2. CASE ApplyAsVendor
  BY <1>1, <1>2 DEF ApplyAsVendor, ChangeAccount, Accounts, VendorStatus
<1>3. CASE EditAccount
  BY <1>3, EditsAssumption DEF EditAccount, ChangeAccount, Accounts
<1>4. QED BY <1>2, <1>3

LEMMA TypesStay ==
    ASSUME TypeOK, RequestsKnow, [Next]_vars
    PROVE  TypeOK' /\ RequestsKnow'
<1>1. CASE UNCHANGED vars
  BY <1>1 DEF vars, TypeOK, RequestsKnow, Knows
<1>2. CASE SignUp
  <2>1. driver' = "pending_review" /\ account' = [account EXCEPT !.role = "DRIVER"]
        /\ UNCHANGED <<tables, live, changes, photos, stored, stray, request, crossed>>
    BY <1>2 DEF SignUp, NewDriver, reviews
  <2>2. account' \in Accounts /\ account'.role = "DRIVER" BY <2>1 DEF TypeOK, Accounts
  <2>3. TypeOK' BY <2>1, <2>2 DEF TypeOK, DriverStatus
  <2>4. QED BY <2>1, <2>3 DEF RequestsKnow, Knows
<1>3. ASSUME NEW sent \in SUBSET Documents, UploadFails(sent) \/ RefuseSignUp(sent)
      PROVE  TypeOK' /\ RequestsKnow'
  <2>1. UNCHANGED <<tables, driver, account, live, changes, photos, stored, request, crossed>>
        /\ stray' \subseteq Documents
    BY <1>3 DEF UploadFails, RefuseSignUp, MayBeLeft, reviews, TypeOK
  <2>2. QED BY <2>1 DEF TypeOK, RequestsKnow, Knows
<1>4. CASE ApplyAsVendor \/ EditAccount
  <2>1. account' \in Accounts /\ account'.role # "none" BY <1>4, ElsewhereType
  <2>2. UNCHANGED <<tables, driver, live, changes, photos, stored, stray, request>>
        /\ crossed' \subseteq crossed \cup {"status"}
    BY <1>4, ElsewhereStep
  <2>3. TypeOK' BY <2>1, <2>2 DEF TypeOK
  <2>4. QED BY <2>2, <2>3 DEF RequestsKnow, Knows
<1>5. QED BY <1>1, <1>2, <1>3, <1>4, ReadTypes, FinishTypes DEF Next

-----------------------------------------------------------------------------
(* Steps by the part of the file they touch. *)

\* The profile and the change requests are left alone, by requests and handlers alike.
KeepsChanges ==
    /\ UNCHANGED <<live, changes>>
    /\ \A d \in Requests :
         request'[d] = request[d] \/ request'[d] = Idle \/ request'[d].op \notin ChangeOps

\* The steps that do touch them.
ChangeStep(c) ==
    \/ \E asked \in Proposals : ReadForSubmit(c, asked)
    \/ \E op \in {"withdraw", "approve", "reject"} : ReadForDecision(c, op)
    \/ Submit(c) \/ Withdraw(c) \/ Reject(c) \/ Approve(c)

KeepsPhotos ==
    /\ UNCHANGED <<photos, stored>>
    /\ \A d \in Requests :
         request'[d] = request[d] \/ request'[d] = Idle
            \/ request'[d].op \notin {"photo", "discard"}

PhotoStep(c) ==
    \/ \E a \in Assets : ReadForPhoto(c, a)
    \/ SubmitPhoto(c) \/ PhotoNotReady(c) \/ WithdrawPhoto(c) \/ ApprovePhoto(c) \/ RejectPhoto(c)
    \/ DiscardAsset(c)

LEMMA StepsTouchOnePart ==
    ASSUME TypeOK, RequestsKnow, [Next]_vars
    PROVE  /\ KeepsChanges \/ \E c \in Requests : ChangeStep(c)
           /\ KeepsPhotos \/ \E c \in Requests : PhotoStep(c)
<1> USE LengthsAreNumbers, NothingIsNull
<1>0. /\ request \in [Requests -> Work \cup {Idle}] /\ Idle \in Work \cup {Idle}
      /\ Null \in Assets \cup {Null} /\ changes \in Seq(Change)
      /\ Pending(changes) \in Nat /\ Pending(photos) \in Nat
  BY DEF TypeOK
<1>1. CASE UNCHANGED vars BY <1>1 DEF vars, KeepsChanges, KeepsPhotos
<1>2. CASE SignUp BY <1>2 DEF SignUp, reviews, KeepsChanges, KeepsPhotos
<1>3. ASSUME NEW sent \in SUBSET Documents, UploadFails(sent) \/ RefuseSignUp(sent)
      PROVE  KeepsChanges /\ KeepsPhotos
  BY <1>3 DEF UploadFails, RefuseSignUp, reviews, KeepsChanges, KeepsPhotos
<1>4. ASSUME NEW c \in Requests, NEW asked \in Proposals, ReadForSubmit(c, asked)
      PROVE  ChangeStep(c) /\ KeepsPhotos
  <2>1. Differing(asked) \in Proposals BY DifferingType
  <2>2. "submit" \in ChangeOps \cup PhotoOps BY DEF ChangeOps
  <2>3. Begin(c, "change", "submit", Pending(changes), Differing(asked), Null)
        /\ UNCHANGED <<photos, stored>>
    BY <1>4 DEF ReadForSubmit, reviews
  <2>4. PICK w \in Work : Do(c, w) /\ w.op = "submit"
    BY <1>0, <2>1, <2>2, <2>3, Beginning
  <2>5. \A d \in Requests : request'[d] = IF d = c THEN w ELSE request[d] BY <2>4, Doing
  <2>6. QED BY <1>4, <2>3, <2>4, <2>5 DEF ChangeStep, KeepsPhotos
<1>5. ASSUME NEW c \in Requests, NEW op \in {"withdraw", "approve", "reject"}, ReadForDecision(c, op)
      PROVE  ChangeStep(c) /\ KeepsPhotos
  <2>1. changes[Pending(changes)].proposed \in Proposals
    <3>1. changes[Pending(changes)] \in Change BY <1>0, <1>5 DEF ReadForDecision
    <3>2. QED BY <3>1 DEF Change
  <2>2. op \in ChangeOps \cup PhotoOps BY DEF ChangeOps
  <2>3. Begin(c, "change", op, Pending(changes), changes[Pending(changes)].proposed, Null)
        /\ UNCHANGED <<photos, stored>>
    BY <1>5 DEF ReadForDecision, reviews
  <2>4. PICK w \in Work : Do(c, w) /\ w.op = op
    BY <1>0, <2>1, <2>2, <2>3, Beginning
  <2>5. \A d \in Requests : request'[d] = IF d = c THEN w ELSE request[d] BY <2>4, Doing
  <2>6. QED BY <1>5, <2>3, <2>4, <2>5 DEF ChangeStep, KeepsPhotos
<1>6. ASSUME NEW c \in Requests, Submit(c) \/ Withdraw(c) \/ Reject(c) \/ Approve(c)
      PROVE  ChangeStep(c) /\ KeepsPhotos
  <2>1. Do(c, Idle) /\ UNCHANGED <<photos, stored>>
    BY <1>6 DEF Submit, Withdraw, Reject, Approve, Decide
  <2>2. \A d \in Requests : request'[d] = IF d = c THEN Idle ELSE request[d] BY <1>0, <2>1, Doing
  <2>3. QED BY <1>6, <2>1, <2>2 DEF ChangeStep, KeepsPhotos
<1>7. ASSUME NEW c \in Requests, NEW a \in Assets, ReadForPhoto(c, a)
      PROVE  KeepsChanges /\ PhotoStep(c)
  <2>1. "photo" \in ChangeOps \cup PhotoOps /\ "photo" \notin ChangeOps BY DEF ChangeOps, PhotoOps
  <2>2. Begin(c, "photo", "photo", Pending(photos), Nothing, a) /\ UNCHANGED <<live, changes>>
    BY <1>7 DEF ReadForPhoto
  <2>3. PICK w \in Work : Do(c, w) /\ w.op = "photo"
    BY <1>0, <2>1, <2>2, Beginning
  <2>4. \A d \in Requests : request'[d] = IF d = c THEN w ELSE request[d] BY <2>3, Doing
  <2>5. QED BY <1>7, <2>1, <2>2, <2>3, <2>4 DEF PhotoStep, KeepsChanges
<1>8. ASSUME NEW c \in Requests, NEW op \in {"unphoto", "show", "refuse"}, ReadForReview(c, op)
      PROVE  KeepsChanges /\ KeepsPhotos
  <2>1. op \in ChangeOps \cup PhotoOps /\ op \notin ChangeOps BY DEF ChangeOps, PhotoOps
  <2>2. Begin(c, "photo", op, Pending(photos), Nothing, Null)
        /\ UNCHANGED <<live, changes, photos, stored>>
    BY <1>8 DEF ReadForReview, reviews
  <2>3. PICK w \in Work : Do(c, w) /\ w.op = op
    BY <1>0, <2>1, <2>2, Beginning
  <2>4. \A d \in Requests : request'[d] = IF d = c THEN w ELSE request[d] BY <2>3, Doing
  <2>5. QED BY <2>1, <2>2, <2>3, <2>4 DEF KeepsPhotos, KeepsChanges
<1>9. ASSUME NEW c \in Requests, NEW s \in Decisions, ReadForStatus(c, s)
      PROVE  KeepsChanges /\ KeepsPhotos
  <2> DEFINE w == [op |-> "status", to |-> s, driver |-> driver, vendor |-> account.vendor]
  <2>1. request' = [request EXCEPT ![c] = w] /\ UNCHANGED <<live, changes, photos, stored>>
    BY <1>9 DEF ReadForStatus, reviews, Do
  <2>2. w.op = "status" OBVIOUS
  <2> HIDE DEF w
  <2>3. \A d \in Requests : request'[d] = IF d = c THEN w ELSE request[d] BY <1>0, <2>1
  <2>4. QED BY <2>1, <2>2, <2>3 DEF KeepsPhotos, KeepsChanges, ChangeOps
<1>10. ASSUME NEW c \in Requests,
              SubmitPhoto(c) \/ PhotoNotReady(c) \/ WithdrawPhoto(c) \/ ApprovePhoto(c)
                \/ RejectPhoto(c) \/ DiscardAsset(c)
       PROVE  KeepsChanges /\ PhotoStep(c)
  <2>1. UNCHANGED <<live, changes>>
    BY <1>10 DEF SubmitPhoto, PhotoNotReady, WithdrawPhoto, ApprovePhoto, RejectPhoto, DiscardAsset, reviews
  <2>2. PhotoStep(c) BY <1>10 DEF PhotoStep
  <2>3. PICK w : Do(c, w) /\ (w = Idle \/ w.op = "discard")
    <3>1. CASE SubmitPhoto(c)
      <4> DEFINE v == [request[c] EXCEPT !.op = "discard", !.asset = photos[request[c].row].asset]
      <4>1. request[c] \in Work /\ request[c].op # "status" BY <1>0, <3>1 DEF SubmitPhoto, Ready
      <4>2. v.op = "discard" BY <4>1, Overwritten
      <4>3. Do(c, Idle) \/ Do(c, v) BY <3>1 DEF SubmitPhoto
      <4>4. QED BY <4>2, <4>3
    <3>2. CASE PhotoNotReady(c)
      <4>1. request[c] \in Work /\ request[c].op # "status" BY <1>0, <3>2 DEF PhotoNotReady, Ready
      <4>2. [request[c] EXCEPT !.op = "discard"].op = "discard" BY <4>1, Overwritten
      <4>3. QED BY <3>2, <4>2 DEF PhotoNotReady
    <3>3. CASE WithdrawPhoto(c)
      <4> DEFINE v == [request[c] EXCEPT !.op = "discard", !.asset = photos[request[c].row].asset]
      <4>1. request[c] \in Work /\ request[c].op # "status" BY <1>0, <3>3 DEF WithdrawPhoto, Ready
      <4>2. v.op = "discard" BY <4>1, Overwritten
      <4>3. Do(c, v) BY <3>3 DEF WithdrawPhoto
      <4>4. QED BY <4>2, <4>3
    <3>4. CASE ApprovePhoto(c) \/ RejectPhoto(c) \/ DiscardAsset(c)
      BY <3>4 DEF ApprovePhoto, RejectPhoto, DiscardAsset
    <3>5. QED BY <1>10, <3>1, <3>2, <3>3, <3>4
  <2>4. request' = [request EXCEPT ![c] = w] BY <2>3 DEF Do
  <2>5. \A d \in Requests : request'[d] = IF d = c THEN w ELSE request[d] BY <1>0, <2>4
  <2>6. QED BY <2>1, <2>2, <2>3, <2>5 DEF KeepsChanges, ChangeOps
<1>11. ASSUME NEW c \in Requests, UpdateDriverStatus(c) \/ Abandon(c)
       PROVE  KeepsChanges /\ KeepsPhotos
  <2>1. Do(c, Idle) /\ UNCHANGED <<live, changes, photos, stored>>
    BY <1>11 DEF UpdateDriverStatus, Abandon, reviews
  <2>2. \A d \in Requests : request'[d] = IF d = c THEN Idle ELSE request[d] BY <1>0, <2>1, Doing
  <2>3. QED BY <2>1, <2>2 DEF KeepsChanges, KeepsPhotos
<1>12. QED
  <2>1. ASSUME NEW c \in Requests, Read(c)
        PROVE  /\ KeepsChanges \/ \E d \in Requests : ChangeStep(d)
               /\ KeepsPhotos \/ \E d \in Requests : PhotoStep(d)
    BY <1>4, <1>5, <1>7, <1>8, <1>9, <2>1 DEF Read
  <2>2. ASSUME NEW c \in Requests, Finish(c)
        PROVE  /\ KeepsChanges \/ \E d \in Requests : ChangeStep(d)
               /\ KeepsPhotos \/ \E d \in Requests : PhotoStep(d)
    BY <1>6, <1>10, <1>11, <2>2 DEF Finish
  <2>3. ASSUME ApplyAsVendor \/ EditAccount PROVE KeepsChanges /\ KeepsPhotos
    BY <2>3, ElsewhereStep DEF KeepsChanges, KeepsPhotos
  <2>4. QED BY <1>1, <1>2, <1>3, <2>1, <2>2, <2>3 DEF Next

\* What was crossed stays so, but for the status of the account, which a decision sets right.
LEMMA CrossedStays ==
    ASSUME [Next]_vars
    PROVE  crossed \ {"status"} \subseteq crossed'
<1>1. ASSUME NEW c \in Requests, Read(c) PROVE crossed' = crossed
  BY <1>1 DEF Read, ReadForSubmit, ReadForDecision, ReadForPhoto, ReadForReview, ReadForStatus, Begin
<1>2. ASSUME NEW c \in Requests, Finish(c) PROVE crossed \ {"status"} \subseteq crossed'
  BY <1>2 DEF Finish, Submit, Withdraw, Approve, Reject, SubmitPhoto, PhotoNotReady, WithdrawPhoto,
              ApprovePhoto, RejectPhoto, DiscardAsset, UpdateDriverStatus, Abandon, Crossing
<1>3. QED BY <1>1, <1>2, ElsewhereStep DEF Next, SignUp, UploadFails, RefuseSignUp, vars

-----------------------------------------------------------------------------
(* Steps of the change requests, by what they do to the rows and to the handlers. *)

\* A handler that begins about a change request.
LEMMA ReadStep ==
    ASSUME TypeOK, RequestsKnow, NEW c \in Requests,
           \/ \E asked \in Proposals : ReadForSubmit(c, asked)
           \/ \E op \in {"withdraw", "approve", "reject"} : ReadForDecision(c, op)
    PROVE  /\ UNCHANGED <<live, changes, crossed>>
           /\ \E w \in Work :
                /\ w # Idle /\ w.op \in {"submit", "withdraw", "approve", "reject"}
                /\ \A d \in Requests : request'[d] = IF d = c THEN w ELSE request[d]
                /\ w.op = "submit" => Sound(w.proposal, live)
                /\ w.op # "submit" =>
                     \E i \in DOMAIN changes : w.proposal = changes[i].proposed
                /\ w.op = "approve" => w.live = live
<1> USE LengthsAreNumbers
<1>1. Null \in Assets \cup {Null} /\ changes \in Seq(Change) /\ Pending(changes) \in Nat
  BY DEF TypeOK
<1>2. ASSUME NEW asked \in Proposals, ReadForSubmit(c, asked)
      PROVE  \E w \in Work :
                /\ w # Idle /\ w.op = "submit" /\ Sound(w.proposal, live)
                /\ \A d \in Requests : request'[d] = IF d = c THEN w ELSE request[d]
                /\ UNCHANGED <<live, changes, crossed>>
  <2>1. Differing(asked) \in Proposals BY DifferingType
  <2>2. "submit" \in ChangeOps \cup PhotoOps BY DEF ChangeOps
  <2>3. Begin(c, "change", "submit", Pending(changes), Differing(asked), Null)
        /\ UNCHANGED <<live, changes>> /\ Sound(Differing(asked), live)
    BY <1>2 DEF ReadForSubmit, reviews, Acceptable, Sound
  <2>4. PICK w \in Work : Do(c, w) /\ w # Idle /\ w.op = "submit" /\ w.proposal = Differing(asked)
    BY <1>1, <2>1, <2>2, <2>3, Beginning
  <2>5. crossed' = crossed BY <2>3 DEF Begin
  <2>6. \A d \in Requests : request'[d] = IF d = c THEN w ELSE request[d] BY <2>4, Doing
  <2>7. QED BY <2>3, <2>4, <2>5, <2>6
<1>3. ASSUME NEW op \in {"withdraw", "approve", "reject"}, ReadForDecision(c, op)
      PROVE  \E w \in Work :
                /\ w # Idle /\ w.op = op /\ (op = "approve" => w.live = live)
                /\ \E i \in DOMAIN changes : w.proposal = changes[i].proposed
                /\ \A d \in Requests : request'[d] = IF d = c THEN w ELSE request[d]
                /\ UNCHANGED <<live, changes, crossed>>
  <2>1. Pending(changes) \in DOMAIN changes BY <1>3 DEF ReadForDecision
  <2>2. changes[Pending(changes)].proposed \in Proposals
    <3>1. changes[Pending(changes)] \in Change BY <1>1, <2>1
    <3>2. QED BY <3>1 DEF Change
  <2>3. op \in ChangeOps \cup PhotoOps BY DEF ChangeOps
  <2>4. Begin(c, "change", op, Pending(changes), changes[Pending(changes)].proposed, Null)
        /\ UNCHANGED <<live, changes>>
    BY <1>3 DEF ReadForDecision, reviews
  <2>5. PICK w \in Work : /\ Do(c, w) /\ w # Idle /\ w.op = op
                          /\ w.proposal = changes[Pending(changes)].proposed
                          /\ op = "approve" => w.live = live
    BY <1>1, <2>2, <2>3, <2>4, Beginning
  <2>6. crossed' = crossed BY <2>4 DEF Begin
  <2>7. \A d \in Requests : request'[d] = IF d = c THEN w ELSE request[d] BY <2>5, Doing
  <2>8. QED BY <2>1, <2>4, <2>5, <2>6, <2>7
<1>4. QED BY <1>2, <1>3

\* A driver's proposal is stored: as a new row, or in the place of the one that was found.
LEMMA SubmitStep ==
    ASSUME TypeOK, RequestsKnow, NEW c \in Requests, Submit(c)
    PROVE  /\ request[c] \in Work /\ request[c] # Idle /\ request[c].op = "submit"
           /\ live' = live
           /\ \A d \in Requests : request'[d] = IF d = c THEN Idle ELSE request[d]
           /\ "change" \notin crossed' => Pending(changes) = request[c].row
           /\ request[c].row = 0 =>
                /\ Len(changes') = Len(changes) + 1 /\ DOMAIN changes' = 1..Len(changes')
                /\ \A i \in DOMAIN changes : changes'[i] = changes[i]
                /\ changes'[Len(changes')].status = "pending"
                /\ changes'[Len(changes')].proposed = request[c].proposal
           /\ request[c].row # 0 =>
                /\ request[c].row \in DOMAIN changes
                /\ Len(changes') = Len(changes) /\ DOMAIN changes' = DOMAIN changes
                /\ \A i \in DOMAIN changes :
                     /\ changes'[i].status = changes[i].status
                     /\ i # request[c].row => changes'[i] = changes[i]
                     /\ i = request[c].row => changes'[i].proposed = request[c].proposal
<1> USE LengthsAreNumbers
<1> DEFINE w == request[c]
<1>1. /\ changes \in Seq(Change) /\ w \in Work \cup {Idle}
      /\ Knows(w) /\ Idle \in Work \cup {Idle}
  BY DEF TypeOK, RequestsKnow
<1>2. w # Idle /\ w \in Work /\ w.op = "submit" BY <1>1 DEF Submit, Ready
<1>3. /\ w.proposal \in Proposals /\ w.row \in 0..Len(changes)
  BY <1>1, <1>2, ReviewWork DEF Knows, ChangeOps
<1>4. Do(c, Idle) /\ live' = live /\ ("change" \notin crossed' => Pending(changes) = w.row)
  BY DEF Submit, Crossing
<1>5. \A d \in Requests : request'[d] = IF d = c THEN Idle ELSE request[d] BY <1>1, <1>4, Doing
<1>6. CASE w.row = 0
  <2> DEFINE new == [status |-> "pending", proposed |-> w.proposal]
  <2>1. changes' = Append(changes, new) BY <1>6 DEF Submit
  <2>2. new \in Change BY <1>3 DEF Change, ReviewStatus
  <2>3. new.status = "pending" /\ new.proposed = w.proposal OBVIOUS
  <2> HIDE DEF new
  <2>4. /\ Len(changes') = Len(changes) + 1 /\ DOMAIN changes' = 1..Len(changes')
        /\ \A i \in DOMAIN changes : changes'[i] = changes[i]
        /\ changes'[Len(changes')] = new
    BY <1>1, <2>1, <2>2
  <2>5. QED BY <1>2, <1>4, <1>5, <1>6, <2>3, <2>4
<1>7. CASE w.row # 0
  <2> DEFINE new == [changes[w.row] EXCEPT !.proposed = w.proposal]
  <2>1. w.row \in DOMAIN changes /\ changes[w.row] \in Change BY <1>1, <1>3, <1>7
  <2>2. new \in Change /\ new.status = changes[w.row].status /\ new.proposed = w.proposal
    BY <1>3, <2>1 DEF Change
  <2>3. changes' = [changes EXCEPT ![w.row] = new]
    BY <1>7 DEF Submit
  <2> HIDE DEF new
  <2>4. /\ Len(changes') = Len(changes) /\ DOMAIN changes' = DOMAIN changes
        /\ \A i \in DOMAIN changes : changes'[i] = IF i = w.row THEN new ELSE changes[i]
    BY <1>1, <2>1, <2>2, <2>3
  <2>5. QED BY <1>2, <1>4, <1>5, <1>7, <2>1, <2>2, <2>4
<1>8. QED BY <1>6, <1>7

\* A row is decided on: its status changes and nothing else about it.
LEMMA DecideStep ==
    ASSUME TypeOK, RequestsKnow, NEW c \in Requests, NEW op \in {"withdraw", "approve", "reject"},
           NEW status \in ReviewStatus, Decide(c, op, status)
    PROVE  /\ request[c] \in Work /\ request[c] # Idle /\ request[c].op = op
           /\ \A d \in Requests : request'[d] = IF d = c THEN Idle ELSE request[d]
           /\ request[c].row \in DOMAIN changes
           /\ Len(changes') = Len(changes) /\ DOMAIN changes' = DOMAIN changes
           /\ \A i \in DOMAIN changes :
                /\ changes'[i].proposed = changes[i].proposed
                /\ i # request[c].row => changes'[i] = changes[i]
                /\ i = request[c].row => changes'[i].status = status
<1> USE LengthsAreNumbers
<1> DEFINE w == request[c]
           new == [changes[w.row] EXCEPT !.status = status]
<1>1. /\ changes \in Seq(Change) /\ w \in Work \cup {Idle}
      /\ Knows(w) /\ Idle \in Work \cup {Idle}
  BY DEF TypeOK, RequestsKnow
<1>2. w # Idle /\ w \in Work /\ w.op = op BY <1>1 DEF Decide, Ready
<1>3. w.row \in 0..Len(changes) /\ w.row # 0 BY <1>1, <1>2 DEF Knows, ChangeOps
<1>4. \A d \in Requests : request'[d] = IF d = c THEN Idle ELSE request[d]
  <2>1. Do(c, Idle) BY DEF Decide
  <2>2. QED BY <1>1, <2>1, Doing
<1>5. w.row \in DOMAIN changes /\ changes[w.row] \in Change BY <1>1, <1>3
<1>6. new \in Change /\ new.status = status /\ new.proposed = changes[w.row].proposed
  BY <1>5 DEF Change
<1>7. changes' = [changes EXCEPT ![w.row] = new] BY DEF Decide
<1> HIDE DEF new
<1>8. /\ Len(changes') = Len(changes) /\ DOMAIN changes' = DOMAIN changes
      /\ \A i \in DOMAIN changes : changes'[i] = IF i = w.row THEN new ELSE changes[i]
  BY <1>1, <1>5, <1>6, <1>7
<1>9. QED BY <1>2, <1>4, <1>5, <1>6, <1>8

-----------------------------------------------------------------------------
(* The payout details. *)

LEMMA SoundStays ==
    ASSUME NEW base \in Proposals, NEW next \in Proposals, BankWhole(base), BankWhole(next),
           BankSet(base) => BankSet(next), NEW p \in Proposals, Sound(p, base)
    PROVE  Sound(p, next)
<1> USE BankAssumption
<1>1. \A f \in BankFields : /\ Merged(p, base)[f] = IF p[f] = Null THEN base[f] ELSE p[f]
                            /\ Merged(p, next)[f] = IF p[f] = Null THEN next[f] ELSE p[f]
  BY DEF Merged
<1>2. CASE BankSet(next)
  <2>1. \A f \in BankFields : Merged(p, next)[f] # Null BY <1>1, <1>2 DEF BankSet
  <2>2. QED BY <2>1 DEF Sound, BankWhole
<1>3. CASE ~ BankSet(next)
  <2>1. \A f \in BankFields : next[f] = Null /\ base[f] = Null
    BY <1>3 DEF BankWhole, BankSet
  <2>2. \A f \in BankFields : Merged(p, next)[f] = Merged(p, base)[f] BY <1>1, <2>1
  <2>3. QED BY <2>2 DEF Sound, BankWhole
<1>4. QED BY <1>2, <1>3

\* An approval leaves the payout details whole, and never empties them.
LEMMA SavedIsWhole ==
    ASSUME TypeOK, NEW w \in Work, w.op = "approve", BankWhole(live), BankWhole(w.live),
           BankSet(w.live) => BankSet(live), Sound(w.proposal, live)
    PROVE  BankWhole(Saved(w, live)) /\ (BankSet(live) => BankSet(Saved(w, live)))
<1> USE BankAssumption
<1>1. w.proposal \in Proposals /\ w.live \in Proposals /\ live \in Proposals
  BY ReviewWork DEF TypeOK
<1>2. \A f \in BankFields :
        Saved(w, live)[f] = IF w.proposal[f] \in {Null, w.live[f]} THEN live[f] ELSE w.proposal[f]
  BY DEF Saved
<1>3. CASE BankSet(live)
  <2>1. \A f \in BankFields : Saved(w, live)[f] # Null BY <1>2, <1>3 DEF BankSet
  <2>2. QED BY <2>1 DEF BankWhole, BankSet
<1>4. CASE ~ BankSet(live)
  <2>1. \A f \in BankFields : live[f] = Null /\ w.live[f] = Null
    BY <1>4 DEF BankWhole, BankSet
  <2>2. \A f \in BankFields : Saved(w, live)[f] = w.proposal[f] BY <1>2, <2>1
  <2>3. \A f \in BankFields : Merged(w.proposal, live)[f] = w.proposal[f]
    BY <2>1 DEF Merged
  <2>4. QED BY <1>4, <2>2, <2>3 DEF Sound, BankWhole
<1>5. QED BY <1>3, <1>4

LEMMA BankStays ==
    ASSUME TypeOK, TypeOK', RequestsKnow, BankDetailsComplete, ProposalsAreSound, [Next]_vars
    PROVE  BankDetailsComplete' /\ ProposalsAreSound'
<1>1. /\ request \in [Requests -> Work \cup {Idle}] /\ request' \in [Requests -> Work \cup {Idle}]
      /\ changes \in Seq(Change) /\ changes' \in Seq(Change) /\ live \in Proposals /\ live' \in Proposals
      /\ BankWhole(live)
  BY DEF TypeOK, BankDetailsComplete
<1>2. /\ \A i \in DOMAIN changes : Sound(changes[i].proposed, live)
      /\ \A c \in Requests :
           request[c] # Idle /\ request[c].op \in ChangeOps =>
              /\ Sound(request[c].proposal, live)
              /\ request[c].op = "approve" =>
                   /\ BankWhole(request[c].live)
                   /\ BankSet(request[c].live) => BankSet(live)
  BY DEF ProposalsAreSound
<1>3. CASE KeepsChanges
  BY <1>1, <1>2, <1>3 DEF KeepsChanges, ProposalsAreSound, BankDetailsComplete
<1>4. ASSUME NEW c \in Requests, ChangeStep(c)
      PROVE  BankDetailsComplete' /\ ProposalsAreSound'
  <2>1. CASE \/ \E asked \in Proposals : ReadForSubmit(c, asked)
             \/ \E op \in {"withdraw", "approve", "reject"} : ReadForDecision(c, op)
    <3>1. PICK w \in Work :
            /\ UNCHANGED <<live, changes, crossed>>
            /\ \A d \in Requests : request'[d] = IF d = c THEN w ELSE request[d]
            /\ w.op = "submit" => Sound(w.proposal, live)
            /\ w.op # "submit" => \E i \in DOMAIN changes : w.proposal = changes[i].proposed
            /\ w.op = "approve" => w.live = live
      BY <2>1, ReadStep
    <3>2. Sound(w.proposal, live) BY <1>2, <3>1
    <3>3. QED BY <1>1, <1>2, <3>1, <3>2 DEF ProposalsAreSound, BankDetailsComplete
  <2>2. CASE Submit(c)
    <3>1. request[c] # Idle /\ request[c].op \in ChangeOps /\ live' = live
          /\ \A d \in Requests : request'[d] = IF d = c THEN Idle ELSE request[d]
      BY <2>2, SubmitStep DEF ChangeOps
    <3>2. Sound(request[c].proposal, live) BY <1>2, <3>1
    <3>3. \A i \in DOMAIN changes' : Sound(changes'[i].proposed, live)
      <4>1. CASE request[c].row = 0
        <5>1. /\ Len(changes') = Len(changes) + 1 /\ DOMAIN changes' = 1..Len(changes')
              /\ DOMAIN changes = 1..Len(changes) /\ Len(changes) \in Nat
              /\ \A i \in DOMAIN changes : changes'[i] = changes[i]
              /\ changes'[Len(changes')].proposed = request[c].proposal
          BY <2>2, <4>1, SubmitStep, LengthsAreNumbers
        <5>2. \A i \in DOMAIN changes' : i \in DOMAIN changes \/ i = Len(changes') BY <5>1
        <5>3. QED BY <1>2, <3>2, <5>1, <5>2
      <4>2. CASE request[c].row # 0
        <5>1. /\ DOMAIN changes' = DOMAIN changes
              /\ \A i \in DOMAIN changes :
                   /\ i # request[c].row => changes'[i] = changes[i]
                   /\ i = request[c].row => changes'[i].proposed = request[c].proposal
          BY <2>2, <4>2, SubmitStep
        <5>2. QED BY <1>2, <3>2, <5>1
      <4>3. QED BY <4>1, <4>2
    <3>4. QED BY <1>1, <1>2, <3>1, <3>3 DEF ProposalsAreSound, BankDetailsComplete
  <2>3. ASSUME NEW op \in {"withdraw", "approve", "reject"}, NEW status \in ReviewStatus,
               Decide(c, op, status), BankWhole(live'), BankSet(live) => BankSet(live')
        PROVE  BankDetailsComplete' /\ ProposalsAreSound'
    <3>1. /\ DOMAIN changes' = DOMAIN changes
          /\ \A i \in DOMAIN changes : changes'[i].proposed = changes[i].proposed
          /\ \A d \in Requests : request'[d] = IF d = c THEN Idle ELSE request[d]
      BY <2>3, DecideStep
    <3>2. \A i \in DOMAIN changes' : changes'[i].proposed \in Proposals
      <4>1. \A i \in DOMAIN changes : changes[i] \in Change BY <1>1
      <4>2. QED BY <3>1, <4>1 DEF Change
    <3>3. \A i \in DOMAIN changes' : Sound(changes'[i].proposed, live')
      BY <1>1, <1>2, <2>3, <3>1, <3>2, SoundStays
    <3>4. ASSUME NEW d \in Requests, request'[d] # Idle, request'[d].op \in ChangeOps
          PROVE  /\ Sound(request'[d].proposal, live')
                 /\ request'[d].op = "approve" =>
                      /\ BankWhole(request'[d].live)
                      /\ BankSet(request'[d].live) => BankSet(live')
      <4>1. request'[d] = request[d] /\ request[d] \in Work BY <1>1, <3>1, <3>4
      <4>2. request[d].op # "status" BY <3>4, <4>1 DEF ChangeOps
      <4>3. request[d].proposal \in Proposals BY <4>1, <4>2, ReviewWork
      <4>4. /\ Sound(request[d].proposal, live)
            /\ request[d].op = "approve" =>
                   /\ BankWhole(request[d].live)
                   /\ BankSet(request[d].live) => BankSet(live)
        BY <1>2, <3>4, <4>1
      <4>5. Sound(request[d].proposal, live') BY <1>1, <2>3, <4>3, <4>4, SoundStays
      <4>6. QED BY <2>3, <4>1, <4>4, <4>5
    <3>5. QED BY <2>3, <3>3, <3>4 DEF ProposalsAreSound, BankDetailsComplete
  <2>4. CASE Withdraw(c)
    <3>1. "withdrawn" \in ReviewStatus BY DEF ReviewStatus
    <3>2. QED BY <1>1, <2>3, <2>4, <3>1 DEF Withdraw
  <2>5. CASE Reject(c)
    <3>1. "rejected" \in ReviewStatus BY DEF ReviewStatus
    <3>2. QED BY <1>1, <2>3, <2>5, <3>1 DEF Reject
  <2>6. CASE Approve(c)
    <3>1. Decide(c, "approve", "approved") /\ live' = Saved(request[c], live)
      BY <2>6 DEF Approve
    <3>2. "approved" \in ReviewStatus BY DEF ReviewStatus
    <3>3. request[c] \in Work /\ request[c] # Idle /\ request[c].op = "approve"
      BY <3>1, <3>2, DecideStep
    <3>4. /\ Sound(request[c].proposal, live) /\ BankWhole(request[c].live)
          /\ BankSet(request[c].live) => BankSet(live)
      BY <1>2, <3>3 DEF ChangeOps
    <3>5. BankWhole(live') /\ (BankSet(live) => BankSet(live'))
      BY <1>1, <3>1, <3>3, <3>4, SavedIsWhole
    <3>6. QED BY <2>3, <3>1, <3>2, <3>5
  <2>7. QED BY <1>4, <2>1, <2>2, <2>4, <2>5, <2>6 DEF ChangeStep
<1>5. QED BY <1>3, <1>4, StepsTouchOnePart

-----------------------------------------------------------------------------
(* What has reached the profile, and decisions that stay. *)

\* A request that decides on the row that waits, uncrossed, decides on the newest row.
LEMMA UncrossedRow ==
    ASSUME TypeOK, NEW row, Pending(changes) = row, row \in DOMAIN changes
    PROVE  row = Len(changes) /\ changes[row].status = "pending"
<1>1. changes \in Seq(Change) BY DEF TypeOK
<1>2. Pending(changes) # 0 BY <1>1
<1>3. QED BY <1>1, <1>2, PendingRow

\* Rows that do not change what is approved leave the profile what it was.
LEMMA SameApproved ==
    ASSUME LiveIsWhatWasApproved, "change" \notin crossed, live' = live,
           \A f \in Fields :
             {i \in DOMAIN changes' : changes'[i].status = "approved" /\ changes'[i].proposed[f] # Null}
               = {i \in DOMAIN changes : changes[i].status = "approved" /\ changes[i].proposed[f] # Null},
           \A i \in DOMAIN changes : changes[i].status = "approved" =>
               changes'[i].proposed = changes[i].proposed
    PROVE  LiveIsWhatWasApproved'
<1> SUFFICES ASSUME NEW f \in Fields
             PROVE  LET naming == {i \in DOMAIN changes' : changes'[i].status = "approved"
                                                          /\ changes'[i].proposed[f] # Null}
                    IN  \/ naming = {} /\ live'[f] = Null
                        \/ \E i \in naming : /\ \A j \in naming : j <= i
                                             /\ live'[f] = changes'[i].proposed[f]
  BY DEF LiveIsWhatWasApproved
<1> DEFINE naming == {i \in DOMAIN changes : changes[i].status = "approved"
                                            /\ changes[i].proposed[f] # Null}
<1>1. \/ naming = {} /\ live[f] = Null
      \/ \E i \in naming : /\ \A j \in naming : j <= i
                           /\ live[f] = changes[i].proposed[f]
  BY DEF LiveIsWhatWasApproved
<1>2. {i \in DOMAIN changes' : changes'[i].status = "approved" /\ changes'[i].proposed[f] # Null} = naming
  OBVIOUS
<1>3. \A i \in naming : changes'[i].proposed = changes[i].proposed OBVIOUS
<1> HIDE DEF naming
<1>4. QED BY <1>1, <1>2, <1>3

LEMMA ProfileStays ==
    ASSUME TypeOK, TypeOK', RequestsKnow, ApproverSeesProfile, LiveIsWhatWasApproved, [Next]_vars
    PROVE  /\ ApproverSeesProfile' /\ LiveIsWhatWasApproved'
           /\ "change" \notin crossed' =>
                \A i \in DOMAIN changes : changes[i].status # "pending" => changes'[i] = changes[i]
<1> SUFFICES ASSUME "change" \notin crossed'
             PROVE  /\ ApproverSeesProfile' /\ LiveIsWhatWasApproved'
                    /\ \A i \in DOMAIN changes :
                         changes[i].status # "pending" => changes'[i] = changes[i]
  BY DEF ApproverSeesProfile, LiveIsWhatWasApproved
<1>1. /\ request \in [Requests -> Work \cup {Idle}] /\ request' \in [Requests -> Work \cup {Idle}]
      /\ changes \in Seq(Change) /\ changes' \in Seq(Change) /\ live \in Proposals
  BY DEF TypeOK
<1>2. "change" \notin crossed BY CrossedStays
<1>3. \A c \in Requests :
        request[c] # Idle /\ request[c].op = "approve" /\ Pending(changes) = request[c].row =>
            request[c].live = live
  BY <1>2 DEF ApproverSeesProfile
<1>4. CASE KeepsChanges
  <2>1. changes' = changes /\ live' = live
        /\ \A d \in Requests :
              request'[d] = request[d] \/ request'[d] = Idle \/ request'[d].op # "approve"
    BY <1>4 DEF KeepsChanges, ChangeOps
  <2>2. ApproverSeesProfile' BY <1>3, <2>1 DEF ApproverSeesProfile
  <2>3. LiveIsWhatWasApproved' BY <1>2, <2>1, SameApproved
  <2>4. QED BY <2>1, <2>2, <2>3
<1>5. ASSUME NEW c \in Requests, ChangeStep(c)
      PROVE  /\ ApproverSeesProfile' /\ LiveIsWhatWasApproved'
             /\ \A i \in DOMAIN changes :
                  changes[i].status # "pending" => changes'[i] = changes[i]
  <2>1. CASE \/ \E asked \in Proposals : ReadForSubmit(c, asked)
             \/ \E op \in {"withdraw", "approve", "reject"} : ReadForDecision(c, op)
    <3>1. PICK w \in Work :
            /\ UNCHANGED <<live, changes, crossed>>
            /\ \A d \in Requests : request'[d] = IF d = c THEN w ELSE request[d]
            /\ w.op = "approve" => w.live = live
      BY <2>1, ReadStep
    <3>2. ApproverSeesProfile' BY <1>3, <3>1 DEF ApproverSeesProfile
    <3>3. LiveIsWhatWasApproved' BY <1>2, <3>1, SameApproved
    <3>4. QED BY <3>1, <3>2, <3>3
  <2>2. CASE Submit(c)
    <3> DEFINE w == request[c]
    <3>1. /\ live' = live /\ Pending(changes) = w.row
          /\ \A d \in Requests : request'[d] = IF d = c THEN Idle ELSE request[d]
          /\ DOMAIN changes = 1..Len(changes) /\ Len(changes) \in Nat
      BY <2>2, SubmitStep, LengthsAreNumbers
    <3>2. CASE w.row = 0
      <4>1. /\ Len(changes') = Len(changes) + 1 /\ DOMAIN changes' = 1..Len(changes')
            /\ \A i \in DOMAIN changes : changes'[i] = changes[i]
            /\ changes'[Len(changes')].status = "pending"
        BY <2>2, <3>2, SubmitStep
      <4>2. Pending(changes') \in {0, Len(changes')} BY <1>1, PendingRow
      <4>3. ASSUME NEW d \in Requests, request'[d] # Idle, request'[d].op = "approve",
                   Pending(changes') = request'[d].row
            PROVE  FALSE
        <5>1. request'[d] = request[d] BY <3>1, <4>3
        <5>2. Knows(request[d]) BY DEF RequestsKnow
        <5>3. request[d].row \in 0..Len(changes) /\ request[d].row # 0
          BY <4>3, <5>1, <5>2 DEF Knows, ChangeOps
        <5>4. QED BY <3>1, <4>1, <4>2, <4>3, <5>1, <5>3
      <4>4. ApproverSeesProfile' BY <4>3 DEF ApproverSeesProfile
      <4>5. \A i \in DOMAIN changes' : i \in DOMAIN changes \/ changes'[i].status = "pending"
        BY <3>1, <4>1
      <4>6. \A i \in DOMAIN changes : i \in DOMAIN changes' BY <3>1, <4>1
      <4>7. \A f \in Fields :
             {i \in DOMAIN changes' : changes'[i].status = "approved" /\ changes'[i].proposed[f] # Null}
               = {i \in DOMAIN changes : changes[i].status = "approved" /\ changes[i].proposed[f] # Null}
        BY <4>1, <4>5, <4>6
      <4>8. LiveIsWhatWasApproved' BY <1>2, <3>1, <4>1, <4>7, SameApproved
      <4>9. QED BY <4>1, <4>4, <4>8
    <3>3. CASE w.row # 0
      <4>1. /\ w.row \in DOMAIN changes /\ DOMAIN changes' = DOMAIN changes
            /\ Len(changes') = Len(changes)
            /\ \A i \in DOMAIN changes :
                 /\ changes'[i].status = changes[i].status
                 /\ i # w.row => changes'[i] = changes[i]
        BY <2>2, <3>3, SubmitStep
      <4>2. w.row = Len(changes) /\ changes[w.row].status = "pending" BY <3>1, <4>1, UncrossedRow
      <4>3. Pending(changes') = Pending(changes)
        <5>1. changes # <<>> /\ changes' # <<>> BY <1>1, <4>1
        <5>2. Last(changes').status = Last(changes).status BY <4>1, <4>2 DEF Last
        <5>3. QED BY <4>1, <5>1, <5>2 DEF Pending
      <4>4. ApproverSeesProfile' BY <1>3, <3>1, <4>3 DEF ApproverSeesProfile
      <4>5. LiveIsWhatWasApproved' BY <1>2, <3>1, <4>1, <4>2, SameApproved
      <4>6. QED BY <4>1, <4>2, <4>4, <4>5
    <3>4. QED BY <3>2, <3>3
  <2>3. ASSUME NEW op \in {"withdraw", "approve", "reject"},
               NEW status \in {"withdrawn", "rejected", "approved"},
               Decide(c, op, status), Pending(changes) = request[c].row
        PROVE  /\ ApproverSeesProfile'
               /\ request[c] \in Work /\ request[c] # Idle /\ request[c].op = op
               /\ request[c].row = Len(changes) /\ request[c].row \in DOMAIN changes
               /\ changes[request[c].row].status = "pending"
               /\ DOMAIN changes' = DOMAIN changes
               /\ \A i \in DOMAIN changes :
                    /\ changes'[i].proposed = changes[i].proposed
                    /\ i # request[c].row => changes'[i] = changes[i]
                    /\ i = request[c].row => changes'[i].status = status
    <3>0. status \in ReviewStatus BY DEF ReviewStatus
    <3>1. /\ request[c] \in Work /\ request[c] # Idle /\ request[c].op = op
          /\ \A d \in Requests : request'[d] = IF d = c THEN Idle ELSE request[d]
          /\ request[c].row \in DOMAIN changes
          /\ Len(changes') = Len(changes) /\ DOMAIN changes' = DOMAIN changes
          /\ \A i \in DOMAIN changes :
                /\ changes'[i].proposed = changes[i].proposed
                /\ i # request[c].row => changes'[i] = changes[i]
                /\ i = request[c].row => changes'[i].status = status
      BY <2>3, <3>0, DecideStep
    <3>2. request[c].row = Len(changes) /\ changes[request[c].row].status = "pending"
      BY <2>3, <3>1, UncrossedRow
    <3>3. changes'[Len(changes')].status # "pending" BY <3>1, <3>2
    <3>4. Pending(changes') = 0 BY <3>3 DEF Pending, Last
    <3>5. ASSUME NEW d \in Requests, request'[d] # Idle, request'[d].op = "approve",
                 Pending(changes') = request'[d].row
          PROVE  FALSE
      <4>1. request'[d] = request[d] BY <3>1, <3>5
      <4>2. Knows(request[d]) BY DEF RequestsKnow
      <4>3. request[d].row # 0 BY <3>5, <4>1, <4>2 DEF Knows
      <4>4. QED BY <3>4, <3>5, <4>1, <4>3
    <3>6. ApproverSeesProfile' BY <3>5 DEF ApproverSeesProfile
    <3>7. QED BY <3>1, <3>2, <3>6
  <2>4. CASE Withdraw(c) \/ Reject(c)
    <3>1. PICK op \in {"withdraw", "approve", "reject"}, status \in {"withdrawn", "rejected"} :
            Decide(c, op, status) /\ Pending(changes) = request[c].row /\ live' = live
      BY <2>4 DEF Withdraw, Reject, Crossing
    <3>2. /\ ApproverSeesProfile'
          /\ changes[request[c].row].status = "pending"
          /\ DOMAIN changes' = DOMAIN changes
          /\ \A i \in DOMAIN changes :
               /\ changes'[i].proposed = changes[i].proposed
               /\ i # request[c].row => changes'[i] = changes[i]
               /\ i = request[c].row => changes'[i].status = status
      BY <2>3, <3>1
    <3>3. \A i \in DOMAIN changes : changes'[i].status = "approved" <=> changes[i].status = "approved"
      BY <3>1, <3>2
    <3>4. LiveIsWhatWasApproved' BY <1>2, <3>1, <3>2, <3>3, SameApproved
    <3>5. QED BY <3>2, <3>4
  <2>5. CASE Approve(c)
    <3> DEFINE w == request[c]
    <3>1. /\ Decide(c, "approve", "approved") /\ Pending(changes) = w.row
          /\ changes[w.row].proposed = w.proposal /\ live' = Saved(w, live)
      BY <2>5 DEF Approve
    <3>2. /\ ApproverSeesProfile'
          /\ w \in Work /\ w # Idle /\ w.op = "approve"
          /\ w.row = Len(changes) /\ w.row \in DOMAIN changes
          /\ changes[w.row].status = "pending"
          /\ DOMAIN changes' = DOMAIN changes
          /\ \A i \in DOMAIN changes :
               /\ changes'[i].proposed = changes[i].proposed
               /\ i # w.row => changes'[i] = changes[i]
               /\ i = w.row => changes'[i].status = "approved"
      BY <2>3, <3>1
    <3>3. w.live = live BY <1>3, <3>1, <3>2
    <3>4. LiveIsWhatWasApproved'
      <4> SUFFICES ASSUME NEW f \in Fields
                   PROVE  LET naming == {i \in DOMAIN changes' : changes'[i].status = "approved"
                                                                /\ changes'[i].proposed[f] # Null}
                          IN  \/ naming = {} /\ live'[f] = Null
                              \/ \E i \in naming : /\ \A j \in naming : j <= i
                                                   /\ live'[f] = changes'[i].proposed[f]
        BY DEF LiveIsWhatWasApproved
      <4> DEFINE before == {i \in DOMAIN changes : changes[i].status = "approved"
                                                  /\ changes[i].proposed[f] # Null}
                 after == {i \in DOMAIN changes' : changes'[i].status = "approved"
                                                  /\ changes'[i].proposed[f] # Null}
      <4>1. \/ before = {} /\ live[f] = Null
            \/ \E i \in before : /\ \A j \in before : j <= i
                                 /\ live[f] = changes[i].proposed[f]
        BY <1>2 DEF LiveIsWhatWasApproved
      <4>2. live'[f] = IF w.proposal[f] = Null THEN live[f] ELSE w.proposal[f]
        BY <3>1, <3>3 DEF Saved
      <4>3. CASE w.proposal[f] = Null
        <5>1. after = before BY <3>1, <3>2, <4>3
        <5>2. \A i \in before : changes'[i].proposed = changes[i].proposed BY <3>2
        <5> HIDE DEF before, after
        <5>3. \/ after = {} /\ live'[f] = Null
              \/ \E i \in after : /\ \A j \in after : j <= i
                                   /\ live'[f] = changes'[i].proposed[f]
          BY <4>1, <4>2, <4>3, <5>1, <5>2
        <5>4. QED BY <5>3 DEF after
      <4>4. CASE w.proposal[f] # Null
        <5>1. w.row \in after BY <3>1, <3>2, <4>4
        <5>2. \A j \in after : j <= w.row
          <6>1. DOMAIN changes = 1..Len(changes) /\ Len(changes) \in Nat BY LengthsAreNumbers
          <6>2. QED BY <3>2, <6>1
        <5>3. live'[f] = changes'[w.row].proposed[f] BY <3>1, <3>2, <4>2, <4>4
        <5>4. QED BY <5>1, <5>2, <5>3
      <4>5. QED BY <4>3, <4>4
    <3>5. QED BY <3>2, <3>4
  <2>6. QED BY <1>5, <2>1, <2>2, <2>4, <2>5 DEF ChangeStep
<1>6. QED BY <1>4, <1>5, StepsTouchOnePart

-----------------------------------------------------------------------------
(* Steps of the photos, and the files they name. *)

LEMMA PhotoRow ==
    ASSUME TypeOK
    PROVE  /\ photos \in Seq(Photo) /\ DOMAIN photos = 1..Len(photos) /\ Len(photos) \in Nat
           /\ \A i \in DOMAIN photos : /\ photos[i] \in Photo
                                       /\ photos[i].asset \in Assets
                                       /\ photos[i].approval \in Nat
                                       /\ photos[i].status \in ReviewStatus
<1>1. photos \in Seq(Photo) BY DEF TypeOK
<1>2. \A i \in DOMAIN photos : photos[i] \in Photo BY <1>1
<1>3. QED BY <1>1, <1>2, LengthsAreNumbers DEF Photo

\* A photo that waits, uncrossed, is the newest.
LEMMA UncrossedPhoto ==
    ASSUME TypeOK, NEW row, Pending(photos) = row, row # 0
    PROVE  row = Len(photos) /\ row \in DOMAIN photos /\ photos[row].status = "pending"
<1>1. photos \in Seq(Photo) BY DEF TypeOK
<1>2. QED BY <1>1, PendingRow

\* An upload begins, and its file is one that nobody has.
LEMMA UploadStep ==
    ASSUME TypeOK, RequestsKnow, NEW c \in Requests, NEW a \in Assets, ReadForPhoto(c, a)
    PROVE  /\ photos' = photos /\ stored' = stored \cup {a} /\ crossed' = crossed
           /\ a \notin stored /\ (\A i \in DOMAIN photos : photos[i].asset # a)
           /\ \A d \in Requests : Uploading(d) \/ Discarding(d) => request[d].asset # a
           /\ \E w \in Work :
                /\ w # Idle /\ w.op = "photo" /\ w.asset = a
                /\ \A d \in Requests : request'[d] = IF d = c THEN w ELSE request[d]
<1>1. "photo" \in ChangeOps \cup PhotoOps BY DEF PhotoOps
<1>2. Begin(c, "photo", "photo", Pending(photos), Nothing, a) /\ UNCHANGED photos
      /\ stored' = stored \cup {a} /\ Fresh(a)
  BY DEF ReadForPhoto
<1>3. Pending(photos) \in Nat BY LengthsAreNumbers
<1>4. PICK w \in Work : Do(c, w) /\ w # Idle /\ w.op = "photo" /\ w.asset = a
  BY <1>1, <1>2, <1>3, NothingIsNull, Beginning
<1>5. crossed' = crossed BY <1>2 DEF Begin
<1>6. \A d \in Requests : request'[d] = IF d = c THEN w ELSE request[d] BY <1>4, Doing
<1>7. QED BY <1>2, <1>4, <1>5, <1>6 DEF Fresh, Uploading, Discarding

\* A row of the photos is closed, and its handler goes on to delete a file, or ends.
LEMMA CloseStep ==
    ASSUME TypeOK, RequestsKnow, NEW c \in Requests, WithdrawPhoto(c) \/ RejectPhoto(c)
    PROVE  /\ request[c] \in Work /\ request[c] # Idle /\ stored' = stored
           /\ request[c].row \in DOMAIN photos /\ DOMAIN photos' = DOMAIN photos
           /\ Len(photos') = Len(photos)
           /\ "photo" \notin crossed' => Pending(photos) = request[c].row
           /\ \E status \in {"withdrawn", "rejected"} : \A i \in DOMAIN photos :
                /\ photos'[i].asset = photos[i].asset
                /\ photos'[i].approval = photos[i].approval
                /\ photos'[i].status = IF i = request[c].row THEN status ELSE photos[i].status
                /\ i # request[c].row => photos'[i] = photos[i]
           /\ \E w \in Work \cup {Idle} :
                /\ \A d \in Requests : request'[d] = IF d = c THEN w ELSE request[d]
                /\ w # Idle => /\ w.op = "discard" /\ w.asset = photos[request[c].row].asset
                               /\ photos'[request[c].row].status = "withdrawn"
<1> DEFINE w == request[c]
<1>1. /\ w \in Work \cup {Idle} /\ Knows(w) /\ Idle \in Work \cup {Idle}
      /\ photos \in Seq(Photo) /\ DOMAIN photos = 1..Len(photos) /\ Len(photos) \in Nat
  BY PhotoRow DEF TypeOK, RequestsKnow
<1>2. w \in Work /\ w # Idle /\ w.op \in {"unphoto", "refuse"}
  BY <1>1 DEF WithdrawPhoto, RejectPhoto, Ready
<1>3. w.row \in 0..Len(photos) /\ w.row \in DOMAIN photos BY <1>1, <1>2 DEF Knows, PhotoOps
<1>4. stored' = stored /\ ("photo" \notin crossed' => Pending(photos) = w.row)
  BY DEF WithdrawPhoto, RejectPhoto, Crossing
<1>5. ASSUME NEW status \in {"withdrawn", "rejected"}, photos' = Closed(photos, w.row, status)
      PROVE  /\ DOMAIN photos' = DOMAIN photos /\ Len(photos') = Len(photos)
             /\ \A i \in DOMAIN photos :
                /\ photos'[i].asset = photos[i].asset
                /\ photos'[i].approval = photos[i].approval
                /\ photos'[i].status = IF i = w.row THEN status ELSE photos[i].status
                /\ i # w.row => photos'[i] = photos[i]
  <2>1. status \in ReviewStatus BY DEF ReviewStatus
  <2> HIDE DEF w
  <2>2. QED BY <1>1, <1>3, <1>5, <2>1, ClosedRows
<1>6. CASE WithdrawPhoto(c)
  <2> DEFINE v == [w EXCEPT !.op = "discard", !.asset = photos[w.row].asset]
  <2>1. photos[w.row].asset \in Assets BY <1>3, PhotoRow
  <2>2. v \in Work /\ v.op = "discard" /\ v.asset = photos[w.row].asset
    BY <1>2, <2>1, DiscardWork
  <2>3. Do(c, v) /\ photos' = Closed(photos, w.row, "withdrawn") BY <1>6 DEF WithdrawPhoto
  <2> HIDE DEF v
  <2>4. \A d \in Requests : request'[d] = IF d = c THEN v ELSE request[d] BY <2>2, <2>3, Doing
  <2>5. /\ DOMAIN photos' = DOMAIN photos /\ Len(photos') = Len(photos)
        /\ \A i \in DOMAIN photos :
                /\ photos'[i].asset = photos[i].asset
                /\ photos'[i].approval = photos[i].approval
                /\ photos'[i].status = IF i = w.row THEN "withdrawn" ELSE photos[i].status
                /\ i # w.row => photos'[i] = photos[i]
    BY <1>5, <2>3
  <2>6. QED BY <1>2, <1>3, <1>4, <2>2, <2>4, <2>5
<1>7. CASE RejectPhoto(c)
  <2>1. Do(c, Idle) /\ photos' = Closed(photos, w.row, "rejected") BY <1>7 DEF RejectPhoto
  <2>2. \A d \in Requests : request'[d] = IF d = c THEN Idle ELSE request[d] BY <1>1, <2>1, Doing
  <2>3. /\ DOMAIN photos' = DOMAIN photos /\ Len(photos') = Len(photos)
        /\ \A i \in DOMAIN photos :
                /\ photos'[i].asset = photos[i].asset
                /\ photos'[i].approval = photos[i].approval
                /\ photos'[i].status = IF i = w.row THEN "rejected" ELSE photos[i].status
                /\ i # w.row => photos'[i] = photos[i]
    BY <1>5, <2>1
  <2>4. QED BY <1>1, <1>2, <1>3, <1>4, <2>2, <2>3
<1>8. QED BY <1>6, <1>7

\* An admin shows a photo: its row is approved, and placed after the approvals so far.
LEMMA ShowStep ==
    ASSUME TypeOK, RequestsKnow, NEW c \in Requests, ApprovePhoto(c)
    PROVE  /\ request[c] # Idle /\ stored' = stored
           /\ request[c].row \in DOMAIN photos /\ DOMAIN photos' = DOMAIN photos
           /\ Len(photos') = Len(photos)
           /\ "photo" \notin crossed' => Pending(photos) = request[c].row
           /\ \A d \in Requests : request'[d] = IF d = c THEN Idle ELSE request[d]
           /\ photos'[request[c].row].asset = photos[request[c].row].asset
           /\ photos'[request[c].row].status = "approved"
           /\ photos'[request[c].row].approval \in Nat
           /\ \A i \in DOMAIN photos : i # request[c].row => photos'[i] = photos[i]
<1> DEFINE w == request[c]
           n == Cardinality({photos[i].approval : i \in DOMAIN photos} \cup {0})
           row == [photos[w.row] EXCEPT !.status = "approved", !.approval = n]
<1>1. /\ w \in Work \cup {Idle} /\ Knows(w) /\ Idle \in Work \cup {Idle}
      /\ photos \in Seq(Photo) /\ DOMAIN photos = 1..Len(photos) /\ Len(photos) \in Nat
  BY PhotoRow DEF TypeOK, RequestsKnow
<1>2. w \in Work /\ w # Idle /\ w.op = "show" BY <1>1 DEF ApprovePhoto, Ready
<1>3. w.row \in DOMAIN photos BY <1>1, <1>2 DEF Knows, PhotoOps
<1>4. /\ stored' = stored /\ ("photo" \notin crossed' => Pending(photos) = w.row) /\ Do(c, Idle)
  BY DEF ApprovePhoto, Crossing
<1>5. photos' = [photos EXCEPT ![w.row].status = "approved", ![w.row].approval = n]
  BY DEF ApprovePhoto
<1>6. n \in Nat BY ApprovalIsANumber
<1> HIDE DEF n
<1>7. photos[w.row] \in Photo BY <1>3, PhotoRow
<1>8. photos' = [photos EXCEPT ![w.row] = row] BY <1>3, <1>5
<1>9. row.asset = photos[w.row].asset /\ row.status = "approved" /\ row.approval = n /\ row \in Photo
  BY <1>6, <1>7 DEF Photo, ReviewStatus
<1>10. \A d \in Requests : request'[d] = IF d = c THEN Idle ELSE request[d] BY <1>1, <1>4, Doing
<1> HIDE DEF row, w
<1>11. /\ DOMAIN photos' = DOMAIN photos /\ Len(photos') = Len(photos)
       /\ \A i \in DOMAIN photos : photos'[i] = IF i = w.row THEN row ELSE photos[i]
  BY <1>1, <1>3, <1>8, <1>9
<1>12. QED BY <1>2, <1>3, <1>4, <1>6, <1>9, <1>10, <1>11 DEF w

\* A new photo replaces the one that waits, whose file the handler goes on to delete.
LEMMA SubmitPhotoStep ==
    ASSUME TypeOK, RequestsKnow, NEW c \in Requests, SubmitPhoto(c)
    PROVE  /\ request[c] # Idle /\ request[c].op = "photo" /\ stored' = stored
           /\ "photo" \notin crossed' => Pending(photos) = request[c].row
           /\ Len(photos') = Len(photos) + 1 /\ DOMAIN photos' = 1..Len(photos')
           /\ photos'[Len(photos')].status = "pending"
           /\ photos'[Len(photos')].asset = request[c].asset
           /\ \A i \in DOMAIN photos :
                /\ photos'[i].asset = photos[i].asset
                /\ photos'[i].approval = photos[i].approval
                /\ photos'[i].status = IF i = request[c].row THEN "withdrawn" ELSE photos[i].status
                /\ i # request[c].row => photos'[i] = photos[i]
           /\ \E w \in Work \cup {Idle} :
                /\ \A d \in Requests : request'[d] = IF d = c THEN w ELSE request[d]
                /\ w # Idle => /\ w.op = "discard" /\ request[c].row \in DOMAIN photos
                               /\ w.asset = photos[request[c].row].asset
<1> DEFINE w == request[c]
           new == [status |-> "pending", asset |-> w.asset, approval |-> 0]
           rest == Closed(photos, w.row, "withdrawn")
<1>1. /\ w \in Work \cup {Idle} /\ Knows(w) /\ Idle \in Work \cup {Idle}
      /\ photos \in Seq(Photo) /\ DOMAIN photos = 1..Len(photos) /\ Len(photos) \in Nat
  BY PhotoRow DEF TypeOK, RequestsKnow
<1>2. w \in Work /\ w # Idle /\ w.op = "photo" BY <1>1 DEF SubmitPhoto, Ready
<1>3. w.row \in 0..Len(photos) /\ w.asset \in Assets BY <1>1, <1>2 DEF Knows, PhotoOps
<1>4. /\ stored' = stored /\ ("photo" \notin crossed' => Pending(photos) = w.row)
      /\ photos' = Append(rest, new)
  BY DEF SubmitPhoto, Crossing
<1>5. new \in Photo /\ new.status = "pending" /\ new.asset = w.asset
  BY <1>3 DEF Photo, ReviewStatus
<1>6. /\ rest \in Seq(Photo) /\ Len(rest) = Len(photos) /\ DOMAIN rest = DOMAIN photos
      /\ \A i \in DOMAIN photos :
                /\ rest[i].asset = photos[i].asset
                /\ rest[i].approval = photos[i].approval
                /\ rest[i].status = IF i = w.row THEN "withdrawn" ELSE photos[i].status
                /\ i # w.row => rest[i] = photos[i]
  <2>1. "withdrawn" \in ReviewStatus BY DEF ReviewStatus
  <2> HIDE DEF w
  <2>2. QED BY <1>1, <1>3, <2>1, ClosedRows
<1>7. PICK v \in Work \cup {Idle} :
        /\ \A d \in Requests : request'[d] = IF d = c THEN v ELSE request[d]
        /\ v # Idle => v.op = "discard" /\ w.row \in DOMAIN photos /\ v.asset = photos[w.row].asset
  <2>1. CASE w.row = 0
    <3>1. Do(c, Idle) BY <2>1 DEF SubmitPhoto
    <3>2. \A d \in Requests : request'[d] = IF d = c THEN Idle ELSE request[d] BY <1>1, <3>1, Doing
    <3>3. QED BY <3>2
  <2>2. CASE w.row # 0
    <3> DEFINE v == [w EXCEPT !.op = "discard", !.asset = photos[w.row].asset]
    <3>1. w.row \in DOMAIN photos BY <1>1, <1>3, <2>2
    <3>2. photos[w.row].asset \in Assets BY <3>1, PhotoRow
    <3>3. v \in Work /\ v.op = "discard" /\ v.asset = photos[w.row].asset
      BY <1>2, <3>2, DiscardWork
    <3>4. Do(c, v) BY <2>2 DEF SubmitPhoto
    <3> HIDE DEF v
    <3>5. \A d \in Requests : request'[d] = IF d = c THEN v ELSE request[d] BY <3>3, <3>4, Doing
    <3>6. QED BY <3>1, <3>3, <3>5
  <2>3. QED BY <2>1, <2>2
<1> HIDE DEF rest, new
<1>8. /\ Len(photos') = Len(photos) + 1 /\ DOMAIN photos' = 1..Len(photos')
      /\ photos'[Len(photos')] = new
      /\ \A i \in DOMAIN photos : photos'[i] = rest[i]
  BY <1>1, <1>4, <1>5, <1>6
<1>9. QED BY <1>2, <1>4, <1>5, <1>6, <1>7, <1>8

\* A file is deleted: by the handler that replaced or withdrew its photo, or because there is no
\* table to write the upload to.
LEMMA DiscardStep ==
    ASSUME TypeOK, RequestsKnow, NEW c \in Requests, DiscardAsset(c)
    PROVE  /\ Discarding(c) /\ photos' = photos
           /\ stored' \subseteq stored \cup {request[c].asset}
           /\ stored \ {request[c].asset} \subseteq stored'
           /\ \A d \in Requests : request'[d] = IF d = c THEN Idle ELSE request[d]
<1>1. Do(c, Idle) /\ photos' = photos /\ Discarding(c)
  BY DEF DiscardAsset, Ready, Discarding
<1>2. Idle \in Work \cup {Idle} OBVIOUS
<1>3. \A d \in Requests : request'[d] = IF d = c THEN Idle ELSE request[d] BY <1>1, <1>2, Doing
<1>4. QED BY <1>1, <1>3 DEF DiscardAsset, MayBeLeft

LEMMA NotReadyStep ==
    ASSUME TypeOK, RequestsKnow, NEW c \in Requests, PhotoNotReady(c)
    PROVE  /\ Uploading(c) /\ UNCHANGED <<photos, stored, crossed>>
           /\ \E w \in Work :
                /\ w # Idle /\ w.op = "discard" /\ w.asset = request[c].asset
                /\ \A d \in Requests : request'[d] = IF d = c THEN w ELSE request[d]
<1> DEFINE w == request[c]
           v == [w EXCEPT !.op = "discard"]
<1>1. w \in Work \cup {Idle} /\ Uploading(c) /\ Do(c, v) /\ UNCHANGED <<photos, stored, crossed>>
  BY DEF TypeOK, PhotoNotReady, Ready, Uploading, reviews
<1>2. w \in Work /\ w.op = "photo" BY <1>1 DEF Uploading
<1>3. PICK row \in Nat, old \in Assets \cup {Null}, proposal \in Proposals, base \in Proposals :
        w = [op |-> "photo", row |-> row, asset |-> old, proposal |-> proposal, live |-> base]
  BY <1>2, ReviewWork
<1>4. v = [op |-> "discard", row |-> row, asset |-> old, proposal |-> proposal, live |-> base]
  BY <1>3
<1>5. v \in Work /\ v.op = "discard" /\ v.asset = w.asset BY <1>3, <1>4 DEF Work
<1> HIDE DEF v
<1>6. v # Idle BY <1>5, IdleAssumption
<1>7. \A d \in Requests : request'[d] = IF d = c THEN v ELSE request[d] BY <1>1, <1>5, Doing
<1>8. QED BY <1>1, <1>5, <1>6, <1>7

-----------------------------------------------------------------------------
(* The photos and their files. *)

LEMMA SamePhotosApproved ==
    ASSUME OneIsNewest, "photo" \notin crossed, Approved' = Approved,
           \A i \in Approved : photos'[i].approval = photos[i].approval
    PROVE  OneIsNewest'
BY DEF OneIsNewest

LEMMA FilesStayApart ==
    ASSUME TypeOK, RequestsKnow, FilesAreApart, [Next]_vars
    PROVE  FilesAreApart'
<1>1. /\ \A i, j \in DOMAIN photos : photos[i].asset = photos[j].asset => i = j
      /\ \A c \in Requests : Uploading(c) =>
         /\ request[c].asset \in stored
         /\ \A i \in DOMAIN photos : photos[i].asset # request[c].asset
         /\ \A d \in Requests \ {c} :
              Uploading(d) \/ Discarding(d) => request[d].asset # request[c].asset
  BY DEF FilesAreApart
<1>2. photos \in Seq(Photo) /\ DOMAIN photos = 1..Len(photos) /\ Len(photos) \in Nat BY PhotoRow
<1>3. CASE KeepsPhotos
  <2>1. \A c \in Requests : /\ Uploading(c)' => Uploading(c) /\ request'[c] = request[c]
                            /\ Discarding(c)' => Discarding(c) /\ request'[c] = request[c]
    BY <1>3 DEF KeepsPhotos, Uploading, Discarding
  <2>2. photos' = photos /\ stored' = stored BY <1>3 DEF KeepsPhotos
  <2>3. QED BY <1>1, <2>1, <2>2 DEF FilesAreApart
<1>4. ASSUME NEW c \in Requests, PhotoStep(c) PROVE FilesAreApart'
  <2>1. ASSUME NEW a \in Assets, ReadForPhoto(c, a) PROVE FilesAreApart'
    <3>1. /\ photos' = photos /\ stored' = stored \cup {a}
          /\ a \notin stored /\ (\A i \in DOMAIN photos : photos[i].asset # a)
          /\ \A d \in Requests : Uploading(d) \/ Discarding(d) => request[d].asset # a
      BY <2>1, UploadStep
    <3>2. PICK w \in Work :
                /\ w # Idle /\ w.op = "photo" /\ w.asset = a
                /\ \A d \in Requests : request'[d] = IF d = c THEN w ELSE request[d]
      BY <2>1, UploadStep
    <3>3. \A d \in Requests : d # c =>
            /\ Uploading(d)' <=> Uploading(d)
            /\ Discarding(d)' <=> Discarding(d)
            /\ request'[d] = request[d]
      BY <3>2 DEF Uploading, Discarding
    <3>4. Uploading(c)' /\ ~ Discarding(c)' /\ request'[c].asset = a
      BY <3>2 DEF Uploading, Discarding
    <3>5. ASSUME NEW d \in Requests, Uploading(d)'
          PROVE  /\ request'[d].asset \in stored'
                 /\ \A i \in DOMAIN photos' : photos'[i].asset # request'[d].asset
                 /\ \A e \in Requests \ {d} :
                      Uploading(e)' \/ Discarding(e)' => request'[e].asset # request'[d].asset
      <4>1. CASE d = c BY <3>1, <3>3, <3>4, <4>1
      <4>2. CASE d # c BY <1>1, <3>1, <3>3, <3>4, <3>5, <4>2
      <4>3. QED BY <4>1, <4>2
    <3>6. QED BY <1>1, <3>1, <3>5 DEF FilesAreApart
  <2>2. CASE WithdrawPhoto(c) \/ RejectPhoto(c)
    <3>1. /\ stored' = stored /\ request[c].row \in DOMAIN photos /\ DOMAIN photos' = DOMAIN photos
          /\ \A i \in DOMAIN photos : photos'[i].asset = photos[i].asset
      BY <2>2, CloseStep
    <3>2. PICK w \in Work \cup {Idle} :
                /\ \A d \in Requests : request'[d] = IF d = c THEN w ELSE request[d]
                /\ w # Idle => w.op = "discard" /\ w.asset = photos[request[c].row].asset
      BY <2>2, CloseStep
    <3>3. \A d \in Requests : /\ Uploading(d)' => d # c /\ Uploading(d) /\ request'[d] = request[d]
                              /\ Discarding(d)' => \/ d = c /\ request'[d].asset = photos[request[c].row].asset
                                                   \/ Discarding(d) /\ request'[d] = request[d]
      BY <3>2 DEF Uploading, Discarding
    <3>4. QED BY <1>1, <3>1, <3>3 DEF FilesAreApart
  <2>3. CASE ApprovePhoto(c)
    <3>1. /\ stored' = stored /\ DOMAIN photos' = DOMAIN photos
          /\ \A i \in DOMAIN photos : photos'[i].asset = photos[i].asset
          /\ \A d \in Requests : request'[d] = IF d = c THEN Idle ELSE request[d]
      BY <2>3, ShowStep
    <3>2. \A d \in Requests : /\ Uploading(d)' => Uploading(d) /\ request'[d] = request[d]
                              /\ Discarding(d)' => Discarding(d) /\ request'[d] = request[d]
      BY <3>1 DEF Uploading, Discarding
    <3>3. QED BY <1>1, <3>1, <3>2 DEF FilesAreApart
  <2>4. CASE SubmitPhoto(c)
    <3>1. /\ Uploading(c) /\ stored' = stored
          /\ Len(photos') = Len(photos) + 1 /\ DOMAIN photos' = 1..Len(photos')
          /\ photos'[Len(photos')].asset = request[c].asset
          /\ \A i \in DOMAIN photos : photos'[i].asset = photos[i].asset
      BY <2>4, SubmitPhotoStep DEF Uploading
    <3>2. PICK w \in Work \cup {Idle} :
                /\ \A d \in Requests : request'[d] = IF d = c THEN w ELSE request[d]
                /\ w # Idle => /\ w.op = "discard" /\ request[c].row \in DOMAIN photos
                               /\ w.asset = photos[request[c].row].asset
      BY <2>4, SubmitPhotoStep
    <3>3. \A d \in Requests : /\ Uploading(d)' => d # c /\ Uploading(d) /\ request'[d] = request[d]
                              /\ Discarding(d)' => \/ /\ d = c /\ request[c].row \in DOMAIN photos
                                                      /\ request'[d].asset = photos[request[c].row].asset
                                                   \/ Discarding(d) /\ request'[d] = request[d]
      BY <3>2 DEF Uploading, Discarding
    <3>4. \A i \in DOMAIN photos' :
            \/ i \in DOMAIN photos /\ photos'[i].asset = photos[i].asset
            \/ i = Len(photos') /\ photos'[i].asset = request[c].asset
      BY <1>2, <3>1
    <3>5. \A i \in DOMAIN photos : photos[i].asset # request[c].asset BY <1>1, <3>1
    <3>6. \A i, j \in DOMAIN photos' : photos'[i].asset = photos'[j].asset => i = j
      BY <1>1, <3>4, <3>5
    <3>7. ASSUME NEW d \in Requests, Uploading(d)'
          PROVE  /\ request'[d].asset \in stored'
                 /\ \A i \in DOMAIN photos' : photos'[i].asset # request'[d].asset
                 /\ \A e \in Requests \ {d} :
                      Uploading(e)' \/ Discarding(e)' => request'[e].asset # request'[d].asset
      <4>1. /\ d # c /\ Uploading(d) /\ request'[d] = request[d] /\ request[d].asset \in stored
            /\ request[c].asset # request[d].asset
            /\ \A i \in DOMAIN photos : photos[i].asset # request[d].asset
            /\ \A e \in Requests \ {d} :
              Uploading(e) \/ Discarding(e) => request[e].asset # request[d].asset
        BY <1>1, <3>1, <3>3, <3>7
      <4>2. QED BY <3>1, <3>3, <3>4, <4>1
    <3>8. QED BY <3>6, <3>7 DEF FilesAreApart
  <2>5. CASE PhotoNotReady(c)
    <3>1. Uploading(c) /\ UNCHANGED <<photos, stored>> BY <2>5, NotReadyStep
    <3>2. PICK w \in Work :
                /\ w # Idle /\ w.op = "discard" /\ w.asset = request[c].asset
                /\ \A d \in Requests : request'[d] = IF d = c THEN w ELSE request[d]
      BY <2>5, NotReadyStep
    <3>3. \A d \in Requests : /\ Uploading(d)' => d # c /\ Uploading(d) /\ request'[d] = request[d]
                              /\ Discarding(d)' => \/ d = c /\ request'[d].asset = request[c].asset
                                                   \/ Discarding(d) /\ request'[d] = request[d]
      BY <3>2 DEF Uploading, Discarding
    <3>4. QED BY <1>1, <3>1, <3>3 DEF FilesAreApart
  <2>6. CASE DiscardAsset(c)
    <3>1. /\ Discarding(c) /\ photos' = photos
          /\ stored \ {request[c].asset} \subseteq stored'
          /\ \A d \in Requests : request'[d] = IF d = c THEN Idle ELSE request[d]
      BY <2>6, DiscardStep
    <3>2. \A d \in Requests : /\ Uploading(d)' => d # c /\ Uploading(d) /\ request'[d] = request[d]
                              /\ Discarding(d)' => Discarding(d) /\ request'[d] = request[d]
      BY <3>1 DEF Uploading, Discarding
    <3>3. QED BY <1>1, <3>1, <3>2 DEF FilesAreApart
  <2>7. QED BY <1>4, <2>1, <2>2, <2>3, <2>4, <2>5, <2>6 DEF PhotoStep
<1>5. QED BY <1>3, <1>4, StepsTouchOnePart

\* What a photo is in the states that no commit crossed another: closed rows stay closed, and
\* the files of the others are kept.
LEMMA PhotosStay ==
    ASSUME TypeOK, TypeOK', RequestsKnow, FilesAreApart, DiscardedIsWithdrawn, OneIsNewest, KeptAreStored,
           [Next]_vars
    PROVE  /\ DiscardedIsWithdrawn' /\ OneIsNewest' /\ KeptAreStored'
           /\ "photo" \notin crossed' =>
                \A i \in DOMAIN photos : photos[i].status # "pending" => photos'[i] = photos[i]
<1> SUFFICES ASSUME "photo" \notin crossed'
             PROVE  /\ DiscardedIsWithdrawn' /\ OneIsNewest' /\ KeptAreStored'
                    /\ \A i \in DOMAIN photos :
                         photos[i].status # "pending" => photos'[i] = photos[i]
  BY DEF DiscardedIsWithdrawn, OneIsNewest, KeptAreStored
<1>1. "photo" \notin crossed BY CrossedStays
<1>2. photos \in Seq(Photo) /\ DOMAIN photos = 1..Len(photos) /\ Len(photos) \in Nat BY PhotoRow
<1>3. \A c \in Requests : Discarding(c) =>
            \A i \in DOMAIN photos :
                photos[i].asset = request[c].asset => photos[i].status = "withdrawn"
  BY <1>1 DEF DiscardedIsWithdrawn
<1>4. \A i \in DOMAIN photos :
            /\ photos[i].status # "withdrawn" => photos[i].asset \in stored
            /\ photos[i].status = "pending" => i = Len(photos)
  BY <1>1 DEF KeptAreStored
<1>5. /\ \A i, j \in DOMAIN photos : photos[i].asset = photos[j].asset => i = j
      /\ \A c \in Requests : Uploading(c) =>
         /\ request[c].asset \in stored
         /\ \A i \in DOMAIN photos : photos[i].asset # request[c].asset
         /\ \A d \in Requests \ {c} :
              Uploading(d) \/ Discarding(d) => request[d].asset # request[c].asset
  BY DEF FilesAreApart
<1>6. CASE KeepsPhotos
  <2>1. photos' = photos /\ stored' = stored BY <1>6 DEF KeepsPhotos
  <2>2. \A c \in Requests : Discarding(c)' => Discarding(c) /\ request'[c] = request[c]
    BY <1>6 DEF KeepsPhotos, Discarding
  <2>3. DiscardedIsWithdrawn' BY <1>3, <2>1, <2>2 DEF DiscardedIsWithdrawn
  <2>4. KeptAreStored' BY <1>4, <2>1 DEF KeptAreStored
  <2>5. OneIsNewest' BY <1>1, <2>1, SamePhotosApproved DEF Approved
  <2>6. QED BY <2>1, <2>3, <2>4, <2>5
<1>7. ASSUME NEW c \in Requests, PhotoStep(c)
      PROVE  /\ DiscardedIsWithdrawn' /\ OneIsNewest' /\ KeptAreStored'
             /\ \A i \in DOMAIN photos :
                  photos[i].status # "pending" => photos'[i] = photos[i]
  <2>1. ASSUME NEW a \in Assets, ReadForPhoto(c, a)
        PROVE  /\ DiscardedIsWithdrawn' /\ OneIsNewest' /\ KeptAreStored' /\ photos' = photos
    <3>1. photos' = photos /\ stored' = stored \cup {a} BY <2>1, UploadStep
    <3>2. PICK w \in Work :
                /\ w # Idle /\ w.op = "photo"
                /\ \A d \in Requests : request'[d] = IF d = c THEN w ELSE request[d]
      BY <2>1, UploadStep
    <3>3. \A d \in Requests : Discarding(d)' => Discarding(d) /\ request'[d] = request[d]
      BY <3>2 DEF Discarding
    <3>4. DiscardedIsWithdrawn' BY <1>3, <3>1, <3>3 DEF DiscardedIsWithdrawn
    <3>5. KeptAreStored' BY <1>4, <3>1 DEF KeptAreStored
    <3>6. OneIsNewest' BY <1>1, <3>1, SamePhotosApproved DEF Approved
    <3>7. QED BY <3>1, <3>4, <3>5, <3>6
  <2>2. CASE WithdrawPhoto(c) \/ RejectPhoto(c)
    <3> DEFINE row == request[c].row
    <3>1. /\ stored' = stored /\ row \in DOMAIN photos /\ DOMAIN photos' = DOMAIN photos
          /\ Len(photos') = Len(photos) /\ Pending(photos) = row
      BY <2>2, CloseStep
    <3>2. PICK status \in {"withdrawn", "rejected"} : \A i \in DOMAIN photos :
                /\ photos'[i].asset = photos[i].asset
                /\ photos'[i].approval = photos[i].approval
                /\ photos'[i].status = IF i = row THEN status ELSE photos[i].status
                /\ i # row => photos'[i] = photos[i]
      BY <2>2, CloseStep
    <3>3. PICK w \in Work \cup {Idle} :
                /\ \A d \in Requests : request'[d] = IF d = c THEN w ELSE request[d]
                /\ w # Idle => /\ w.op = "discard" /\ w.asset = photos[row].asset
                               /\ photos'[row].status = "withdrawn"
      BY <2>2, CloseStep
    <3>4. row # 0 /\ row = Len(photos) /\ photos[row].status = "pending"
      BY <1>2, <3>1, UncrossedPhoto
    <3>5. \A d \in Requests : Discarding(d)' =>
            \/ d = c /\ request'[d].asset = photos[row].asset /\ photos'[row].status = "withdrawn"
            \/ Discarding(d) /\ request'[d] = request[d]
      BY <3>3 DEF Discarding
    <3>6. DiscardedIsWithdrawn'
      <4> SUFFICES ASSUME NEW d \in Requests, Discarding(d)', NEW i \in DOMAIN photos',
                          photos'[i].asset = request'[d].asset
                   PROVE  photos'[i].status = "withdrawn"
        BY DEF DiscardedIsWithdrawn
      <4>1. CASE d = c /\ request'[d].asset = photos[row].asset /\ photos'[row].status = "withdrawn"
        BY <1>5, <3>1, <3>2, <4>1
      <4>2. CASE Discarding(d) /\ request'[d] = request[d]
        <5>1. photos[i].status = "withdrawn" BY <1>3, <3>1, <3>2, <4>2
        <5>2. QED BY <3>1, <3>2, <3>4, <5>1
      <4>3. QED BY <3>5, <4>1, <4>2
    <3>7. KeptAreStored' BY <1>4, <3>1, <3>2, <3>4 DEF KeptAreStored
    <3>8. OneIsNewest'
      <4>1. Approved' = Approved BY <3>1, <3>2, <3>4 DEF Approved
      <4>2. \A i \in Approved : photos'[i].approval = photos[i].approval BY <3>2 DEF Approved
      <4>3. QED BY <1>1, <4>1, <4>2, SamePhotosApproved
    <3>9. QED BY <3>2, <3>4, <3>6, <3>7, <3>8
  <2>3. CASE ApprovePhoto(c)
    <3> DEFINE row == request[c].row
    <3>1. /\ stored' = stored /\ row \in DOMAIN photos /\ DOMAIN photos' = DOMAIN photos
          /\ Len(photos') = Len(photos) /\ Pending(photos) = row
          /\ \A d \in Requests : request'[d] = IF d = c THEN Idle ELSE request[d]
          /\ photos'[row].asset = photos[row].asset /\ photos'[row].status = "approved"
          /\ photos'[row].approval \in Nat
          /\ \A i \in DOMAIN photos : i # row => photos'[i] = photos[i]
      BY <2>3, ShowStep
    <3>2. row # 0 /\ row = Len(photos) /\ photos[row].status = "pending"
      BY <1>2, <3>1, UncrossedPhoto
    <3>3. \A d \in Requests : Discarding(d)' => Discarding(d) /\ request'[d] = request[d]
      BY <3>1 DEF Discarding
    <3>4. DiscardedIsWithdrawn'
      <4>1. \A i \in DOMAIN photos : photos'[i].asset = photos[i].asset
                                     /\ (photos[i].status = "withdrawn" => photos'[i].status = "withdrawn")
        BY <3>1, <3>2
      <4>2. QED BY <1>3, <3>1, <3>3, <4>1 DEF DiscardedIsWithdrawn
    <3>5. KeptAreStored'
      <4>1. \A i \in DOMAIN photos :
              /\ photos'[i].asset = photos[i].asset
              /\ photos'[i].status # "withdrawn" => photos[i].status # "withdrawn"
              /\ photos'[i].status # "pending" \/ photos[i].status = "pending"
        BY <3>1, <3>2
      <4>2. QED BY <1>4, <3>1, <4>1 DEF KeptAreStored
    <3>6. OneIsNewest'
      <4>1. Approved' = Approved \cup {row} /\ row \notin Approved BY <3>1, <3>2 DEF Approved
      <4>2. \A i \in Approved : photos'[i].approval = photos[i].approval /\ photos[i].approval \in Nat
        BY <3>1, <4>1, PhotoRow DEF Approved
      <4>3. CASE Approved = {}
        <5>1. \A j \in Approved' : photos'[j].approval <= photos'[row].approval BY <3>1, <4>1, <4>3
        <5>2. row \in Approved' BY <4>1
        <5>3. QED BY <5>1, <5>2 DEF OneIsNewest
      <4>4. CASE Approved # {}
        <5>1. PICK i \in Approved : \A j \in Approved : photos[j].approval <= photos[i].approval
          BY <1>1, <4>4 DEF OneIsNewest
        <5>2. CASE photos'[row].approval <= photos[i].approval
          <6>1. \A j \in Approved' : photos'[j].approval <= photos'[i].approval
            BY <4>1, <4>2, <5>1, <5>2
          <6>2. i \in Approved' BY <4>1
          <6>3. QED BY <6>1, <6>2 DEF OneIsNewest
        <5>3. CASE ~ (photos'[row].approval <= photos[i].approval)
          <6>1. \A j \in Approved' : photos'[j].approval <= photos'[row].approval
            BY <3>1, <4>1, <4>2, <5>1, <5>3
          <6>2. row \in Approved' BY <4>1
          <6>3. QED BY <6>1, <6>2 DEF OneIsNewest
        <5>4. QED BY <5>2, <5>3
      <4>5. QED BY <4>3, <4>4
    <3>7. QED BY <3>1, <3>2, <3>4, <3>5, <3>6
  <2>4. CASE SubmitPhoto(c)
    <3> DEFINE row == request[c].row
    <3>1. /\ Uploading(c) /\ stored' = stored /\ Pending(photos) = row
          /\ Len(photos') = Len(photos) + 1 /\ DOMAIN photos' = 1..Len(photos')
          /\ photos'[Len(photos')].status = "pending"
          /\ photos'[Len(photos')].asset = request[c].asset
          /\ \A i \in DOMAIN photos :
                /\ photos'[i].asset = photos[i].asset
                /\ photos'[i].approval = photos[i].approval
                /\ photos'[i].status = IF i = row THEN "withdrawn" ELSE photos[i].status
                /\ i # row => photos'[i] = photos[i]
      BY <2>4, SubmitPhotoStep DEF Uploading
    <3>2. PICK w \in Work \cup {Idle} :
                /\ \A d \in Requests : request'[d] = IF d = c THEN w ELSE request[d]
                /\ w # Idle => /\ w.op = "discard" /\ row \in DOMAIN photos
                               /\ w.asset = photos[row].asset
      BY <2>4, SubmitPhotoStep
    <3>3. row \in DOMAIN photos => row = Len(photos) /\ photos[row].status = "pending"
      BY <1>2, <3>1, UncrossedPhoto
    <3>4. \A i \in DOMAIN photos' : i \in DOMAIN photos \/ i = Len(photos') BY <1>2, <3>1
    <3>5. \A i \in DOMAIN photos : i \in DOMAIN photos' /\ i # Len(photos') BY <1>2, <3>1
    <3>6. \A i \in DOMAIN photos : photos'[i].status # "pending"
      <4>1. ASSUME NEW i \in DOMAIN photos, photos[i].status = "pending" PROVE i = row
        <5>1. i = Len(photos) BY <1>4, <4>1
        <5>2. Pending(photos) # 0 BY <1>2, <4>1, <5>1, PendingRow
        <5>3. QED BY <1>2, <3>1, <5>1, <5>2, PendingRow
      <4>2. QED BY <3>1, <4>1
    <3>7. DiscardedIsWithdrawn'
      <4> SUFFICES ASSUME NEW d \in Requests, Discarding(d)', NEW i \in DOMAIN photos',
                          photos'[i].asset = request'[d].asset
                   PROVE  photos'[i].status = "withdrawn"
        BY DEF DiscardedIsWithdrawn
      <4>1. CASE d = c
        <5>1. row \in DOMAIN photos /\ request'[d].asset = photos[row].asset
          BY <3>2, <4>1 DEF Discarding
        <5>2. request'[d].asset # request[c].asset BY <1>5, <3>1, <5>1
        <5>3. i \in DOMAIN photos BY <3>1, <3>4, <5>2
        <5>4. i = row BY <1>5, <3>1, <5>1, <5>3
        <5>5. QED BY <3>1, <5>3, <5>4
      <4>2. CASE d # c
        <5>1. Discarding(d) /\ request'[d] = request[d] BY <3>2, <4>2 DEF Discarding
        <5>2. request[d].asset # request[c].asset BY <1>5, <3>1, <4>2, <5>1
        <5>3. i \in DOMAIN photos BY <3>1, <3>4, <5>1, <5>2
        <5>4. photos[i].status = "withdrawn" BY <1>3, <3>1, <5>1, <5>3
        <5>5. QED BY <3>1, <5>3, <5>4
      <4>3. QED BY <4>1, <4>2
    <3>8. KeptAreStored'
      <4>1. request[c].asset \in stored BY <1>5, <3>1
      <4>2. QED BY <1>4, <3>1, <3>4, <3>6, <4>1 DEF KeptAreStored
    <3>9. OneIsNewest'
      <4>1. Approved' = Approved BY <3>1, <3>3, <3>4, <3>5 DEF Approved
      <4>2. \A i \in Approved : photos'[i].approval = photos[i].approval BY <3>1 DEF Approved
      <4>3. QED BY <1>1, <4>1, <4>2, SamePhotosApproved
    <3>10. QED BY <3>1, <3>3, <3>7, <3>8, <3>9
  <2>5. CASE PhotoNotReady(c)
    <3>1. Uploading(c) /\ UNCHANGED <<photos, stored>> BY <2>5, NotReadyStep
    <3>2. PICK w \in Work :
                /\ w # Idle /\ w.op = "discard" /\ w.asset = request[c].asset
                /\ \A d \in Requests : request'[d] = IF d = c THEN w ELSE request[d]
      BY <2>5, NotReadyStep
    <3>3. \A d \in Requests : Discarding(d)' =>
            \/ request'[d].asset = request[c].asset
            \/ Discarding(d) /\ request'[d] = request[d]
      BY <3>2 DEF Discarding
    <3>4. DiscardedIsWithdrawn' BY <1>3, <1>5, <3>1, <3>3 DEF DiscardedIsWithdrawn
    <3>5. KeptAreStored' BY <1>4, <3>1 DEF KeptAreStored
    <3>6. OneIsNewest' BY <1>1, <3>1, SamePhotosApproved DEF Approved
    <3>7. QED BY <3>1, <3>4, <3>5, <3>6
  <2>6. CASE DiscardAsset(c)
    <3>1. /\ Discarding(c) /\ photos' = photos
          /\ stored \ {request[c].asset} \subseteq stored'
          /\ \A d \in Requests : request'[d] = IF d = c THEN Idle ELSE request[d]
      BY <2>6, DiscardStep
    <3>2. \A d \in Requests : Discarding(d)' => Discarding(d) /\ request'[d] = request[d]
      BY <3>1 DEF Discarding
    <3>3. DiscardedIsWithdrawn' BY <1>3, <3>1, <3>2 DEF DiscardedIsWithdrawn
    <3>4. KeptAreStored' BY <1>3, <1>4, <3>1 DEF KeptAreStored
    <3>5. OneIsNewest' BY <1>1, <3>1, SamePhotosApproved DEF Approved
    <3>6. QED BY <3>1, <3>3, <3>4, <3>5
  <2>7. QED BY <1>7, <2>1, <2>2, <2>3, <2>4, <2>5, <2>6 DEF PhotoStep
<1>8. QED BY <1>6, <1>7, StepsTouchOnePart

-----------------------------------------------------------------------------
(* The status of the account, and the theorems. *)

LEMMA VendorStays ==
    ASSUME TypeOK, RequestsKnow, VendorStatusFollows, [Next]_vars
    PROVE  VendorStatusFollows'
<1>1. CASE UNCHANGED <<driver, account, crossed>> BY <1>1 DEF VendorStatusFollows
<1>2. CASE SignUp BY <1>2 DEF SignUp, NewDriver, VendorStatusFollows
<1>3. ASSUME NEW c \in Requests, UpdateDriverStatus(c) PROVE VendorStatusFollows'
  <2> DEFINE w == request[c]
  <2>1. w # Idle /\ w \in Work /\ w.op = "status" BY <1>3 DEF TypeOK, UpdateDriverStatus, Ready
  <2>2. w.to \in DriverStatus BY <2>1, StatusWork
  <2> SUFFICES ASSUME "status" \notin crossed', driver' \in {"approved", "rejected", "suspended"}
               PROVE  account'.vendor = driver'
    BY DEF VendorStatusFollows
  <2>3. driver = w.driver /\ account.vendor = w.vendor
    BY <1>3 DEF UpdateDriverStatus
  <2>4. driver' = w.to BY <1>3, <2>3 DEF UpdateDriverStatus
  <2>5. account' = IF Mirror(w.to, w.vendor) = w.vendor THEN account
                   ELSE [account EXCEPT !.vendor = Mirror(w.to, w.vendor)]
    BY <1>3 DEF UpdateDriverStatus
  <2>6. Mirror(w.to, w.vendor) = w.to BY <2>4 DEF Mirror
  <2>7. account'.vendor = w.to
    <3>1. account \in Accounts BY DEF TypeOK
    <3>2. QED BY <2>3, <2>5, <2>6, <3>1 DEF Accounts
  <2>8. QED BY <2>4, <2>7
<1>4. ASSUME NEW c \in Requests, Read(c) PROVE UNCHANGED <<driver, account, crossed>>
  BY <1>4 DEF Read, ReadForSubmit, ReadForDecision, ReadForPhoto, ReadForReview, ReadForStatus, Begin
<1>5. ASSUME NEW c \in Requests, Finish(c), ~ UpdateDriverStatus(c) PROVE VendorStatusFollows'
  <2>1. UNCHANGED <<driver, account>> /\ ("status" \notin crossed' => "status" \notin crossed)
    BY <1>5 DEF Finish, Submit, Withdraw, Approve, Reject, Decide, SubmitPhoto, PhotoNotReady,
                WithdrawPhoto, ApprovePhoto, RejectPhoto, DiscardAsset, Abandon, Crossing
  <2>2. QED BY <2>1 DEF VendorStatusFollows
<1>6. CASE UNCHANGED vars BY <1>1, <1>6 DEF vars
<1>7. ASSUME NEW sent \in SUBSET Documents, UploadFails(sent) \/ RefuseSignUp(sent)
      PROVE  UNCHANGED <<driver, account, crossed>>
  BY <1>7 DEF UploadFails, RefuseSignUp
<1>8. ASSUME ApplyAsVendor \/ EditAccount PROVE VendorStatusFollows'
  BY <1>8, ElsewhereStep DEF VendorStatusFollows
<1>9. QED BY <1>1, <1>2, <1>3, <1>4, <1>5, <1>6, <1>7, <1>8 DEF Next

\* The photo that is shown is an approved one.
LEMMA ShownIsApproved ==
    ASSUME OneIsNewest, "photo" \notin crossed, Shown # 0
    PROVE  Shown \in Approved
<1> DEFINE newest(i) == \A j \in Approved : photos[j].approval <= photos[i].approval
<1>1. Approved # {} BY DEF Shown, Approved
<1>2. \E i \in Approved : newest(i) BY <1>1 DEF OneIsNewest
<1>3. Shown = CHOOSE i \in Approved : newest(i) BY <1>1 DEF Shown, Approved
<1> HIDE DEF newest
<1>4. QED BY <1>2, <1>3

LEMMA KeptOfInv ==
    ASSUME TypeOK, OneIsNewest, KeptAreStored
    PROVE  KeptPhotosAreStored
<1> SUFFICES ASSUME "photo" \notin crossed
             PROVE  Shown # 0 => photos[Shown].asset \in stored
  BY DEF KeptPhotosAreStored, KeptAreStored
<1>1. SUFFICES ASSUME Shown # 0 PROVE photos[Shown].asset \in stored
  OBVIOUS
<1>2. Shown \in DOMAIN photos /\ photos[Shown].status = "approved"
  BY <1>1, ShownIsApproved DEF Approved
<1>3. QED BY <1>2 DEF KeptAreStored

LEMMA InitDriverInv == Init => DriverInv
<1> SUFFICES ASSUME Init PROVE DriverInv
  OBVIOUS
<1>1. /\ driver = "none" /\ live = Nothing /\ changes = <<>> /\ photos = <<>> /\ stored = {}
      /\ request = [c \in Requests |-> Idle] /\ crossed = {} /\ stray = {}
  BY DEF Init
<1>2. tables \subseteq {"change", "photo"} BY BoundsAssumption DEF Init
<1>3. account \in Accounts /\ account.role # "DRIVER" BY DEF Init, Accounts, VendorStatus
<1>4. changes \in Seq(Change) /\ photos \in Seq(Photo) BY <1>1
<1>5. TypeOK BY <1>1, <1>2, <1>3, <1>4, NothingIsNull DEF TypeOK
<1>6. RequestsKnow BY <1>1 DEF RequestsKnow, Knows
<1>7. BankDetailsComplete BY <1>1, BankAssumption DEF BankDetailsComplete, BankWhole, Nothing
<1>8. ProposalsAreSound BY <1>1 DEF ProposalsAreSound
<1>9. ApproverSeesProfile BY <1>1 DEF ApproverSeesProfile
<1>10. LiveIsWhatWasApproved BY <1>1 DEF LiveIsWhatWasApproved, Nothing
<1>11. FilesAreApart /\ DiscardedIsWithdrawn
  BY <1>1 DEF FilesAreApart, DiscardedIsWithdrawn, Uploading, Discarding
<1>12. OneIsNewest BY <1>1 DEF OneIsNewest, Approved
<1>13. KeptAreStored BY <1>1 DEF KeptAreStored
<1>14. VendorStatusFollows BY <1>1 DEF VendorStatusFollows
<1>15. QED
  BY <1>5, <1>6, <1>7, <1>8, <1>9, <1>10, <1>11, <1>12, <1>13, <1>14 DEF DriverInv

LEMMA NextDriverInv == DriverInv /\ [Next]_vars => DriverInv'
<1> SUFFICES ASSUME DriverInv, [Next]_vars PROVE DriverInv'
  OBVIOUS
<1>1. /\ TypeOK /\ RequestsKnow /\ BankDetailsComplete /\ ProposalsAreSound
      /\ ApproverSeesProfile /\ LiveIsWhatWasApproved
      /\ FilesAreApart /\ DiscardedIsWithdrawn /\ OneIsNewest /\ KeptAreStored /\ VendorStatusFollows
  BY DEF DriverInv
<1>2. TypeOK' /\ RequestsKnow' BY <1>1, TypesStay, Zenon
<1>3. BankDetailsComplete' /\ ProposalsAreSound' BY <1>1, <1>2, BankStays, Zenon
<1>4. ApproverSeesProfile' /\ LiveIsWhatWasApproved' BY <1>1, <1>2, ProfileStays, Zenon
<1>5. FilesAreApart' BY <1>1, FilesStayApart, Zenon
<1>6. DiscardedIsWithdrawn' /\ OneIsNewest' /\ KeptAreStored' BY <1>1, <1>2, PhotosStay, Zenon
<1>7. VendorStatusFollows' BY <1>1, VendorStays, Zenon
<1>8. QED BY <1>2, <1>3, <1>4, <1>5, <1>6, <1>7 DEF DriverInv

\* The driver's file satisfies its inductive invariant, the types of its tables included, with
\* any number of handlers, fields, files and rows.
THEOREM DriverFileInvariant == Spec => []DriverInv
<1>1. QED BY InitDriverInv, NextDriverInv, PTL DEF Spec

\* The payout details of a driver are complete or empty, whatever the requests that crossed.
THEOREM PayoutDetailsComplete == Spec => []BankDetailsComplete
<1>1. DriverInv => BankDetailsComplete BY DEF DriverInv
<1>2. QED BY <1>1, DriverFileInvariant, PTL

\* Unless a commit about the changes crossed another, nothing reaches a driver's profile but what an
\* admin approved, the newest word last.  A replacement during an approval is what can cross it.
THEOREM OnlyApprovedReachesProfile == Spec => []LiveIsWhatWasApproved
<1>1. DriverInv => LiveIsWhatWasApproved BY DEF DriverInv
<1>2. QED BY <1>1, DriverFileInvariant, PTL

\* Unless a commit about the photos crossed another, every photo that is shown, waits or was rejected
\* is still stored, and one waits at most.
THEOREM PhotosAreKept == Spec => []KeptPhotosAreStored
<1>1. DriverInv => KeptPhotosAreStored BY KeptOfInv DEF DriverInv
<1>2. QED BY <1>1, DriverFileInvariant, PTL

\* From a decision that was not overtaken until another route writes the account or the next decision
\* is overtaken, the status the portal reads is the driver's.
THEOREM PortalFollowsDecision == Spec => []VendorStatusFollows
<1>1. DriverInv => VendorStatusFollows BY DEF DriverInv
<1>2. QED BY <1>1, DriverFileInvariant, PTL

\* As long as no commit has crossed another, what was decided or withdrawn is not changed any more.
THEOREM ReviewsAreFinal == Spec => DecidedStays
<1> DEFINE Stays ==
      /\ "change" \notin crossed' =>
            \A i \in DOMAIN changes : changes[i].status # "pending" => changes'[i] = changes[i]
      /\ "photo" \notin crossed' =>
            \A i \in DOMAIN photos : photos[i].status # "pending" => photos'[i] = photos[i]
<1>1. DriverInv /\ DriverInv' /\ [Next]_vars => [Stays]_vars
  <2> SUFFICES ASSUME DriverInv, DriverInv', [Next]_vars PROVE Stays
    OBVIOUS
  <2>1. /\ TypeOK /\ TypeOK' /\ RequestsKnow
        /\ ApproverSeesProfile /\ LiveIsWhatWasApproved
        /\ FilesAreApart /\ DiscardedIsWithdrawn /\ OneIsNewest /\ KeptAreStored
    BY DEF DriverInv
  <2>2. "change" \notin crossed' =>
            \A i \in DOMAIN changes : changes[i].status # "pending" => changes'[i] = changes[i]
    BY <2>1, ProfileStays, Zenon
  <2>3. "photo" \notin crossed' =>
            \A i \in DOMAIN photos : photos[i].status # "pending" => photos'[i] = photos[i]
    BY <2>1, PhotosStay, Zenon
  <2>4. QED BY <2>2, <2>3
<1>2. QED BY <1>1, DriverFileInvariant, PTL DEF Spec, DecidedStays
=============================================================================
