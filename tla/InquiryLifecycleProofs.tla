----------------------- MODULE InquiryLifecycleProofs -----------------------
(***************************************************************************)
(* Theorems about booking requests, InquiryLifecycle, for any cart, any    *)
(* number of requests and any bound on the rows, and about the counts of a *)
(* property's rooms, StayCalendar, for any finite sets of units and        *)
(* bookings and any nights, blocks and handlers.                           *)
(*                                                                         *)
(* Requests overlap and fail half-way. A line that a request found free is *)
(* free until it is outrun (SightIsFresh), a confirmation needs an         *)
(* approval (ApprovalKnown), and the rest depends on which mishaps there   *)
(* were: without one, a cancellation is alone (EndingAlone), an approval   *)
(* has confirmed the lines behind it (ConfirmedSoFar, SightHolds), and so  *)
(* a status that says converted or cancelled is true or has a request at   *)
(* work to make it so (ConvertedInHand, CancelledInHand).                  *)
(***************************************************************************)
EXTENDS InquiryLifecycle, StayCalendar, FiniteSetTheorems, TLAPS

\* The provisioning of a line knows its place in the cart, and a row that exists.
PlaceOK ==
    \A q \in Requests :
        /\ request[q].step = "look" => request[q].pos \in 1 .. Len(Cart) + 1
        /\ request[q].step = "provision" =>
            /\ request[q].pos \in Positions
            /\ request[q].seen # 0 => request[q].seen \in DOMAIN stays[Cart[request[q].pos]]

\* Only an approved inquiry is provisioned with confirmation, and only then a row is confirmed.
ApprovalKnown ==
    /\ \A q \in Requests : request[q].confirm => approved
    /\ \A l \in Lines, k \in 1 .. MaxRows :
        k \in DOMAIN stays[l] /\ stays[l][k] = "confirmed" => approved

\* A parent that stands has a stay that stands.
ParentStandsWithAStay == parent \in {"pending", "confirmed"} => Standing # {}

\* Nothing ran beside a cancellation; no approval, nor a release, was disturbed besides.
NoneBeside == "cancelled beside" \notin mishaps

ApprovalsWhole == NoneBeside /\ {"desk beside", "approval cut"} \cap mishaps = {}

ReleasesWhole == NoneBeside /\ "release cut" \notin mishaps

EndingAlone == NoneBeside => \A p \in Ending : \A q \in InFlight : p = q

\* A release is the work of a cancellation, whose status stands.
ReleasingStatus ==
    NoneBeside => \A q \in Requests :
        request[q].step = "release" => status \in {"cancelled", "deleted"}

\* A line that was found free still is, unless the request is outrun.
SightIsFresh ==
    \A q \in Requests \ outrun :
        request[q].step = "provision" /\ request[q].seen = 0 => Existing(Cart[request[q].pos]) = 0

IsConfirmed(l) == \E k \in DOMAIN stays[l] : stays[l][k] = "confirmed"

Approving(q) == request[q].step \in {"look", "provision"} /\ request[q].confirm

\* The row that an approval found stands, and is confirmed unless it was seen pending.
SightHolds ==
    ApprovalsWhole => \A q \in Requests :
        LET r == request[q]
        IN  r.step = "provision" /\ r.confirm /\ r.seen # 0 =>
                stays[Cart[r.pos]][r.seen] \in IF r.seenPending THEN {"pending", "confirmed"}
                                                               ELSE {"confirmed"}

\* An approval confirms line after line.
ConfirmedSoFar ==
    ApprovalsWhole => \A q \in Requests :
        Approving(q) =>
            \A i \in Positions : i < request[q].pos /\ Cart[i] \in StayLines => IsConfirmed(Cart[i])

\* A converted inquiry is confirmed, or an approval is at work; a cancelled one holds
\* nothing, or is just being released, and nobody provisions for it.
ConvertedInHand ==
    ApprovalsWhole /\ status = "converted_to_booking" =>
        (\A l \in Lines \cap StayLines : IsConfirmed(l)) \/ \E q \in Requests : Approving(q)

CancelledInHand ==
    ReleasesWhole /\ status = "cancelled" =>
        /\ \A q \in Requests : request[q].step \notin {"look", "provision"}
        /\ Standing = {} \/ \E q \in Requests : request[q].step = "release"

Inv ==
    /\ TypeOK
    /\ PlaceOK
    /\ ApprovalKnown
    /\ ParentStandsWithAStay
    /\ EndingAlone
    /\ ReleasingStatus
    /\ SightIsFresh
    /\ SightHolds
    /\ ConfirmedSoFar
    /\ ConvertedInHand
    /\ CancelledInHand

LEMMA CartShape ==
    /\ Len(Cart) \in Nat
    /\ Positions = DOMAIN Cart
    /\ \A i \in Positions : Cart[i] \in Lines
BY LifecycleAssumption DEF Positions, Lines

LEMMA ExistingRow ==
    ASSUME TypeOK, NEW l \in Lines
    PROVE  /\ Existing(l) # 0 => Existing(l) \in DOMAIN stays[l] /\ stays[l][Existing(l)] # "cancelled"
           /\ Existing(l) = 0 => \A k \in DOMAIN stays[l] : stays[l][k] = "cancelled"
           /\ Existing(l) \in 0 .. MaxRows
<1> DEFINE S == {k \in DOMAIN stays[l] : stays[l][k] # "cancelled"}
<1>1. /\ stays[l] \in Seq(StayStatus) /\ Len(stays[l]) <= MaxRows /\ MaxRows \in Nat
      /\ DOMAIN stays[l] = 1 .. Len(stays[l]) /\ Len(stays[l]) \in Nat
  BY LifecycleAssumption DEF TypeOK
<1>2. CASE \E k \in DOMAIN stays[l] : stays[l][k] # "cancelled"
  BY <1>1, <1>2 DEF Existing
<1>3. CASE ~ \E k \in DOMAIN stays[l] : stays[l][k] # "cancelled"
  BY <1>1, <1>3 DEF Existing
<1>4. QED BY <1>2, <1>3

LEMMA StandingRow ==
    ASSUME TypeOK
    PROVE  Standing = {} <=> \A l \in Lines : \A k \in DOMAIN stays[l] : stays[l][k] = "cancelled"
<1>1. \A l \in Lines : DOMAIN stays[l] \subseteq 1 .. MaxRows
  BY LifecycleAssumption DEF TypeOK
<1>2. ASSUME Standing = {}, NEW l \in Lines, NEW k \in DOMAIN stays[l]
      PROVE  stays[l][k] = "cancelled"
  <2>1. <<l, k>> \in Lines \X (1 .. MaxRows) BY <1>1
  <2>2. <<l, k>> \notin Standing BY <1>2
  <2>3. QED BY <2>1, <2>2 DEF Standing
<1>3. ASSUME \A l \in Lines : \A k \in DOMAIN stays[l] : stays[l][k] = "cancelled"
      PROVE  Standing = {}
  BY <1>3 DEF Standing
<1>4. QED BY <1>2, <1>3

LEMMA InitInv == Init => Inv
<1> SUFFICES ASSUME Init PROVE Inv OBVIOUS
<1> USE DEF Init
<1>0. PICK c \in Requests :
        request = [q \in Requests |->
            IF q = c THEN [Idle EXCEPT !.step = "look", !.pos = 1] ELSE Idle]
  OBVIOUS
<1>1. TypeOK
  <2>1. Idle \in RequestStates /\ [Idle EXCEPT !.step = "look", !.pos = 1] \in RequestStates
    <3>1. 0 \in 0 .. Len(Cart) + 1 /\ 1 \in 0 .. Len(Cart) + 1 /\ 0 \in 0 .. MaxRows
      BY CartShape, LifecycleAssumption
    <3>2. "idle" \in Steps /\ "look" \in Steps /\ "none" \in ParentStatus
          /\ "pending_contact" \in InquiryStatus
      BY DEF Steps, ParentStatus, InquiryStatus
    <3>3. QED BY <3>1, <3>2 DEF Idle, RequestStates
  <2>2. request \in [Requests -> RequestStates] BY <1>0, <2>1
  <2>3. /\ \A l \in Lines : stays[l] = <<>>
        /\ <<>> \in Seq(StayStatus) /\ Len(<<>>) = 0 /\ 0 <= MaxRows
    BY LifecycleAssumption
  <2>4. DOMAIN stays = Lines OBVIOUS
  <2>5. QED BY <2>2, <2>3, <2>4, LifecycleAssumption DEF TypeOK, InquiryStatus, ParentStatus, Mishaps
<1>2. PlaceOK BY <1>0, CartShape DEF PlaceOK, Idle
<1>3. ApprovalKnown BY <1>0 DEF ApprovalKnown, Idle
<1>4. ParentStandsWithAStay BY DEF ParentStandsWithAStay
<1>5. EndingAlone /\ ReleasingStatus
  <2>1. Ending = {} /\ \A q \in Requests : request[q].step # "release"
    BY <1>0 DEF Ending, InFlight, Idle
  <2>2. QED BY <2>1 DEF EndingAlone, ReleasingStatus
<1>6. SightIsFresh /\ SightHolds BY <1>0 DEF SightIsFresh, SightHolds, Idle
<1>7. ConfirmedSoFar BY <1>0 DEF ConfirmedSoFar, Approving, Idle
<1>8. ConvertedInHand /\ CancelledInHand BY DEF ConvertedInHand, CancelledInHand
<1>9. QED BY <1>1, <1>2, <1>3, <1>4, <1>5, <1>6, <1>7, <1>8 DEF Inv

\* A request keeps to its record whatever it does next.
LEMMA RecordShapes ==
    ASSUME TypeOK, PlaceOK
    PROVE  /\ Idle \in RequestStates /\ Done \in RequestStates
           /\ \A g \in BOOLEAN, t \in InquiryStatus :
                [Idle EXCEPT !.step = "decided", !.guest = g, !.target = t] \in RequestStates
           /\ [Idle EXCEPT !.step = "look", !.pos = 1, !.confirm = TRUE] \in RequestStates
           /\ [Idle EXCEPT !.step = "release"] \in RequestStates
           /\ \A q \in Requests : request[q].step = "provision" =>
                [Idle EXCEPT !.step = "look", !.pos = request[q].pos + 1,
                             !.confirm = request[q].confirm] \in RequestStates
           /\ \A q \in Requests, n \in 0 .. MaxRows, b \in BOOLEAN :
                status # "deleted" =>
                [request[q] EXCEPT !.step = "provision", !.seen = n, !.seenPending = b,
                                   !.seenParent = parent, !.seenStatus = status] \in RequestStates
<1>1. /\ 0 \in 0 .. Len(Cart) + 1 /\ 1 \in 0 .. Len(Cart) + 1 /\ 0 \in 0 .. MaxRows
      /\ \A i \in Positions : i + 1 \in 0 .. Len(Cart) + 1
  BY CartShape, LifecycleAssumption DEF Positions
<1>2. /\ {"idle", "done", "decided", "look", "provision", "release"} \subseteq Steps
      /\ "none" \in ParentStatus /\ "pending_contact" \in InquiryStatus
  BY DEF Steps, ParentStatus, InquiryStatus
<1>3. Idle \in RequestStates BY <1>1, <1>2 DEF Idle, RequestStates
<1>4. Done \in RequestStates BY <1>2, <1>3 DEF Done, RequestStates
<1>5. \A g \in BOOLEAN, t \in InquiryStatus :
        [Idle EXCEPT !.step = "decided", !.guest = g, !.target = t] \in RequestStates
  BY <1>2, <1>3 DEF RequestStates
<1>6. /\ [Idle EXCEPT !.step = "look", !.pos = 1, !.confirm = TRUE] \in RequestStates
      /\ [Idle EXCEPT !.step = "release"] \in RequestStates
  BY <1>1, <1>2, <1>3 DEF RequestStates
<1>7. ASSUME NEW q \in Requests, request[q].step = "provision"
      PROVE  [Idle EXCEPT !.step = "look", !.pos = request[q].pos + 1,
                          !.confirm = request[q].confirm] \in RequestStates
  <2>1. request[q].pos + 1 \in 0 .. Len(Cart) + 1 BY <1>1, <1>7 DEF PlaceOK
  <2>2. request[q].confirm \in BOOLEAN BY DEF TypeOK, RequestStates
  <2>3. QED BY <1>2, <1>3, <2>1, <2>2 DEF RequestStates
<1>8. ASSUME NEW q \in Requests, NEW n \in 0 .. MaxRows, NEW b \in BOOLEAN, status # "deleted"
      PROVE  [request[q] EXCEPT !.step = "provision", !.seen = n, !.seenPending = b,
                                !.seenParent = parent, !.seenStatus = status] \in RequestStates
  <2>1. parent \in ParentStatus /\ status \in InquiryStatus /\ request[q] \in RequestStates
    BY <1>8 DEF TypeOK
  <2>2. QED BY <1>2, <2>1 DEF RequestStates
<1>9. QED BY <1>3, <1>4, <1>5, <1>6, <1>7, <1>8

\* What starts, starts alone or leaves a mishap.
LEMMA StartedAlone ==
    ASSUME TypeOK, NEW ends \in BOOLEAN, NEW desk \in BOOLEAN, Started(ends, desk)
    PROVE  /\ mishaps \subseteq mishaps' /\ mishaps' \subseteq Mishaps
           /\ NoneBeside' => NoneBeside /\ Ending = {} /\ (ends => InFlight = {})
           /\ desk /\ ApprovalsWhole' => InFlight = {}
           /\ ApprovalsWhole' => ApprovalsWhole
           /\ ReleasesWhole' => ReleasesWhole
<1>1. /\ mishaps \subseteq mishaps'
      /\ \A m \in mishaps' : m \in mishaps \/ m \in {"cancelled beside", "desk beside"}
      /\ Ending # {} \/ (ends /\ InFlight # {}) => "cancelled beside" \in mishaps'
      /\ desk /\ InFlight # {} => "desk beside" \in mishaps'
  BY DEF Started
<1>2. mishaps' \subseteq Mishaps BY <1>1 DEF TypeOK, Mishaps
<1>3. QED BY <1>1, <1>2 DEF NoneBeside, ApprovalsWhole, ReleasesWhole

LEMMA MishapsAdd ==
    ASSUME mishaps \subseteq mishaps'
    PROVE  /\ NoneBeside' => NoneBeside
           /\ ApprovalsWhole' => ApprovalsWhole
           /\ ReleasesWhole' => ReleasesWhole
BY DEF NoneBeside, ApprovalsWhole, ReleasesWhole

LEMMA DecideInv ==
    ASSUME Inv, NEW q \in Requests, NEW guest \in BOOLEAN, NEW s \in InquiryStatus,
           Decide(q, guest, s)
    PROVE  Inv'
<1> DEFINE r == [Idle EXCEPT !.step = "decided", !.guest = guest, !.target = s]
<1> USE DEF Inv
<1>1. /\ request[q].step = "idle" /\ <<status, s>> \in AllowedInquiryTransitions
      /\ request' = [request EXCEPT ![q] = r] /\ Started(s = "cancelled", FALSE)
      /\ UNCHANGED <<status, parent, stays, reserved, approved, outrun>>
  BY DEF Decide, MayStart, Set
<1>2. r \in RequestStates /\ r.step = "decided" /\ ~ r.confirm /\ r.target = s
  BY RecordShapes DEF Idle
<1>3. request'[q] = r /\ \A p \in Requests : p # q => request'[p] = request[p]
  BY <1>1 DEF TypeOK
<1>4. /\ mishaps' \subseteq Mishaps
      /\ NoneBeside' => NoneBeside /\ Ending = {} /\ (s = "cancelled" => InFlight = {})
      /\ ApprovalsWhole' => ApprovalsWhole
      /\ ReleasesWhole' => ReleasesWhole
  BY <1>1, StartedAlone
<1> HIDE DEF r
<1>5. TypeOK' BY <1>1, <1>2, <1>4 DEF TypeOK
<1>6. PlaceOK' BY <1>1, <1>2, <1>3 DEF PlaceOK
<1>7. ApprovalKnown' BY <1>1, <1>2, <1>3 DEF ApprovalKnown
<1>8. ParentStandsWithAStay' BY <1>1 DEF ParentStandsWithAStay, Standing
<1>9. EndingAlone'
  <2>1. Ending' \subseteq Ending \cup {q} /\ (q \in Ending' => s = "cancelled")
        /\ InFlight' \subseteq InFlight \cup {q}
    BY <1>2, <1>3 DEF Ending, InFlight
  <2>2. QED BY <1>4, <2>1 DEF EndingAlone
<1>10. ReleasingStatus' BY <1>1, <1>2, <1>3, <1>4 DEF ReleasingStatus
<1>11. SightIsFresh' BY <1>1, <1>2, <1>3 DEF SightIsFresh, Existing
<1>12. SightHolds' BY <1>1, <1>2, <1>3, <1>4 DEF SightHolds
<1>13. ConfirmedSoFar'
  BY <1>1, <1>2, <1>3, <1>4 DEF ConfirmedSoFar, Approving, IsConfirmed
<1>14. ConvertedInHand'
  <2>1. \A p \in Requests : Approving(p)' <=> Approving(p) BY <1>1, <1>2, <1>3 DEF Approving
  <2>2. QED BY <1>1, <1>4, <2>1 DEF ConvertedInHand, IsConfirmed
<1>15. CancelledInHand'
  <2>1. status # "cancelled" BY <1>1 DEF AllowedInquiryTransitions
  <2>2. QED BY <1>1, <2>1 DEF CancelledInHand
<1>16. QED
  BY <1>5, <1>6, <1>7, <1>8, <1>9, <1>10, <1>11, <1>12, <1>13, <1>14, <1>15

LEMMA CommitStatusInv ==
    ASSUME Inv, NEW q \in Requests, CommitStatus(q)
    PROVE  Inv'
<1> DEFINE look == [Idle EXCEPT !.step = "look", !.pos = 1, !.confirm = TRUE]
           release == [Idle EXCEPT !.step = "release"]
           target == request[q].target
<1> USE DEF Inv
<1>1. /\ request[q].step = "decided" /\ status # "deleted" /\ status' = target
      /\ approved' = (approved \/ target \in Approvals)
      /\ request' = [request EXCEPT ![q] =
                CASE target \in Approvals -> look [] target = "cancelled" -> release [] OTHER -> Done]
      /\ UNCHANGED <<parent, stays, reserved, mishaps, outrun>>
  BY DEF CommitStatus, Set
<1>2. /\ target \in InquiryStatus
      /\ request'[q] \in {look, release, Done}
      /\ request'[q] = look <=> target \in Approvals
      /\ request'[q] = release <=> target = "cancelled"
      /\ look.step = "look" /\ look.confirm /\ look.pos = 1
      /\ release.step = "release" /\ ~ release.confirm
      /\ Done.step = "done" /\ ~ Done.confirm
  BY <1>1 DEF TypeOK, RequestStates, Idle, Done, Approvals
<1>3. \A p \in Requests : p # q => request'[p] = request[p]
  BY <1>1 DEF TypeOK
<1> HIDE DEF look, release
<1>4. TypeOK'
  <2>1. {look, release, Done} \subseteq RequestStates BY RecordShapes DEF look, release
  <2>2. request' \in [Requests -> RequestStates] BY <1>1, <1>2, <2>1 DEF TypeOK
  <2>3. QED BY <1>1, <1>2, <2>2 DEF TypeOK
<1>5. PlaceOK' BY <1>1, <1>2, <1>3, CartShape DEF PlaceOK
<1>6. ApprovalKnown' BY <1>1, <1>2, <1>3 DEF ApprovalKnown, TypeOK
<1>7. ParentStandsWithAStay' BY <1>1 DEF ParentStandsWithAStay, Standing
<1>8. NoneBeside' = NoneBeside /\ ApprovalsWhole' = ApprovalsWhole
      /\ ReleasesWhole' = ReleasesWhole
  BY <1>1 DEF NoneBeside, ApprovalsWhole, ReleasesWhole
<1>9. q \in InFlight /\ (target = "cancelled" => q \in Ending)
  BY <1>1 DEF InFlight, Ending
<1>10. InFlight' \subseteq InFlight /\ \A p \in Requests : p # q => (p \in Ending' => p \in Ending)
  BY <1>3, <1>9 DEF InFlight, Ending
<1>11. q \in Ending' => target = "cancelled"
  BY <1>2 DEF Ending, InFlight, look, Done, Idle
<1>12. EndingAlone' BY <1>8, <1>9, <1>10, <1>11 DEF EndingAlone, Ending, InFlight
<1>13. NoneBeside => \A p \in Requests : request[p].step = "release" => p = q
  BY <1>9 DEF EndingAlone, Ending, InFlight
<1>14. ReleasingStatus' BY <1>1, <1>2, <1>3, <1>8, <1>13 DEF ReleasingStatus
<1>15. SightIsFresh' BY <1>1, <1>2, <1>3 DEF SightIsFresh, Existing
<1>16. SightHolds' BY <1>1, <1>2, <1>3, <1>8 DEF SightHolds
<1>17. ConfirmedSoFar'
  BY <1>1, <1>2, <1>3, <1>8, CartShape DEF ConfirmedSoFar, Approving, IsConfirmed, Positions
<1>18. ConvertedInHand'
  BY <1>1, <1>2 DEF ConvertedInHand, Approving, Approvals
<1>19. CancelledInHand'
  <2> SUFFICES ASSUME ReleasesWhole, target = "cancelled" PROVE CancelledInHand'
    BY <1>1, <1>8 DEF CancelledInHand
  <2>1. \A p \in Requests : p # q => request'[p].step \in {"idle", "done"}
    BY <1>3, <1>9 DEF EndingAlone, ReleasesWhole, InFlight
  <2>2. request'[q].step = "release" BY <1>2
  <2>3. QED BY <2>1, <2>2 DEF CancelledInHand
<1>20. QED
  BY <1>4, <1>5, <1>6, <1>7, <1>12, <1>14, <1>15, <1>16, <1>17, <1>18, <1>19

LEMMA LookInv ==
    ASSUME Inv, NEW q \in Requests, Look(q)
    PROVE  Inv'
<1> DEFINE l == Cart[request[q].pos]
           pending == Existing(l) # 0 /\ stays[l][Existing(l)] = "pending"
           r == [request[q] EXCEPT !.step = "provision", !.seen = Existing(l),
                    !.seenPending = pending, !.seenParent = parent, !.seenStatus = status]
<1> USE DEF Inv
<1>1. /\ request[q].step = "look" /\ status # "deleted"
      /\ UNCHANGED <<status, parent, stays, reserved, approved, mishaps, outrun>>
  BY DEF Look
<1>2. CASE request[q].pos > Len(Cart)
  <2>1. request' = [request EXCEPT ![q] = Done] BY <1>2 DEF Look, Set
  <2>2. /\ request'[q] = Done /\ Done.step = "done" /\ ~ Done.confirm
        /\ \A p \in Requests : p # q => request'[p] = request[p]
    BY <2>1 DEF TypeOK, Done, Idle
  <2>3. TypeOK' BY <1>1, <2>1, RecordShapes DEF TypeOK
  <2>4. PlaceOK' BY <1>1, <2>2 DEF PlaceOK
  <2>5. ApprovalKnown' BY <1>1, <2>2 DEF ApprovalKnown
  <2>6. ParentStandsWithAStay' BY <1>1 DEF ParentStandsWithAStay, Standing
  <2>7. EndingAlone' /\ ReleasingStatus'
    <3>1. InFlight' \subseteq InFlight /\ Ending' \subseteq Ending
      BY <2>2 DEF InFlight, Ending
    <3>2. QED BY <1>1, <2>2, <3>1 DEF EndingAlone, ReleasingStatus, NoneBeside
  <2>8. SightIsFresh' BY <1>1, <2>2 DEF SightIsFresh, Existing
  <2>9. SightHolds' BY <1>1, <2>2 DEF SightHolds, ApprovalsWhole, NoneBeside
  <2>10. ConfirmedSoFar'
    BY <1>1, <2>2 DEF ConfirmedSoFar, Approving, IsConfirmed, ApprovalsWhole, NoneBeside
  <2>11. ConvertedInHand'
    <3> SUFFICES ASSUME ApprovalsWhole, status = "converted_to_booking",
                        ~ \E p \in Requests : Approving(p)', NEW h \in Lines \cap StayLines
                 PROVE  IsConfirmed(h)
      BY <1>1 DEF ConvertedInHand, ApprovalsWhole, NoneBeside, IsConfirmed
    <3>1. CASE \E p \in Requests : Approving(p)
      <4>1. Approving(q) BY <2>2, <3>1 DEF Approving
      <4>2. PICK i \in Positions : Cart[i] = h BY DEF Lines
      <4>3. i < request[q].pos BY <1>1, <1>2, CartShape DEF Positions, PlaceOK
      <4>4. QED BY <4>1, <4>2, <4>3 DEF ConfirmedSoFar
    <3>2. CASE ~ \E p \in Requests : Approving(p) BY <3>2 DEF ConvertedInHand
    <3>3. QED BY <3>1, <3>2
  <2>12. CancelledInHand'
    BY <1>1, <2>2 DEF CancelledInHand, Standing, ReleasesWhole, NoneBeside
  <2>13. QED BY <2>3, <2>4, <2>5, <2>6, <2>7, <2>8, <2>9, <2>10, <2>11, <2>12
<1>3. CASE ~ (request[q].pos > Len(Cart))
  <2>0. request[q] \in RequestStates BY DEF TypeOK
  <2>1. request' = [request EXCEPT ![q] = r] BY <1>3 DEF Look, Set
  <2>2. request[q].pos \in Positions /\ l \in Lines
    BY <1>1, <1>3, CartShape DEF PlaceOK, Positions
  <2>3. /\ request'[q] = r /\ r.step = "provision" /\ r.confirm = request[q].confirm
        /\ r.pos = request[q].pos /\ r.seen = Existing(l) /\ r.seenPending = pending
        /\ \A p \in Requests : p # q => request'[p] = request[p]
    BY <2>0, <2>1 DEF TypeOK, RequestStates
  <2>4. TypeOK'
    <3>1. Existing(l) \in 0 .. MaxRows BY <2>2, ExistingRow
    <3>2. pending \in BOOLEAN OBVIOUS
    <3>3. r \in RequestStates BY <1>1, <3>1, <3>2, RecordShapes
    <3>4. QED BY <1>1, <2>1, <3>3 DEF TypeOK
  <2> HIDE DEF r
  <2>5. PlaceOK'
    <3>1. Existing(l) # 0 => Existing(l) \in DOMAIN stays[l] BY <2>2, ExistingRow
    <3>2. QED BY <1>1, <2>2, <2>3, <3>1 DEF PlaceOK
  <2>6. ApprovalKnown' BY <1>1, <2>3 DEF ApprovalKnown
  <2>7. ParentStandsWithAStay' BY <1>1 DEF ParentStandsWithAStay, Standing
  <2>8. EndingAlone' /\ ReleasingStatus'
    <3>1. request[q] = [request[q] EXCEPT !.step = "look"] BY <1>1, <2>0 DEF RequestStates
    <3>2. r.target = request[q].target BY <2>0 DEF r, RequestStates
    <3>3. InFlight' \subseteq InFlight /\ Ending' \subseteq Ending
      BY <1>1, <2>3, <3>2 DEF InFlight, Ending
    <3>4. QED BY <1>1, <2>3, <3>3 DEF EndingAlone, ReleasingStatus, NoneBeside
  <2>9. SightIsFresh'
    <3>1. \A h : Existing(h)' = Existing(h) BY <1>1 DEF Existing
    <3>2. QED BY <1>1, <2>3, <3>1 DEF SightIsFresh
  <2>10. SightHolds'
    <3>1. Existing(l) # 0 => stays[l][Existing(l)] \in {"pending", "confirmed"}
      BY <2>2, ExistingRow DEF TypeOK, StayStatus
    <3>2. QED BY <1>1, <2>3, <3>1 DEF SightHolds, ApprovalsWhole, NoneBeside
  <2>11. \A p \in Requests : Approving(p)' <=> Approving(p) BY <1>1, <2>3 DEF Approving
  <2>12. ConfirmedSoFar'
    BY <1>1, <2>3, <2>11 DEF ConfirmedSoFar, IsConfirmed, ApprovalsWhole, NoneBeside
  <2>13. ConvertedInHand'
    BY <1>1, <2>11 DEF ConvertedInHand, IsConfirmed, ApprovalsWhole, NoneBeside
  <2>14. CancelledInHand'
    BY <1>1, <2>3 DEF CancelledInHand, Standing, ReleasesWhole, NoneBeside
  <2>15. QED BY <2>4, <2>5, <2>6, <2>7, <2>8, <2>9, <2>10, <2>12, <2>13, <2>14
<1>4. QED BY <1>2, <1>3

LEMMA AdvanceShape ==
    ASSUME Inv, NEW q \in Requests, request[q].step = "provision", Advance(q)
    PROVE  /\ request'[q] \in RequestStates /\ request'[q].step = "look"
           /\ request'[q].pos = request[q].pos + 1 /\ request'[q].confirm = request[q].confirm
           /\ request[q].pos \in Positions /\ Cart[request[q].pos] \in Lines
           /\ \A p \in Requests : p # q => request'[p] = request[p]
           /\ request' \in [Requests -> RequestStates]
           /\ request'[q].target = "pending_contact" /\ request'[q] # request[q]
<1> DEFINE r == [Idle EXCEPT !.step = "look", !.pos = request[q].pos + 1,
                             !.confirm = request[q].confirm]
<1>1. request' = [request EXCEPT ![q] = r] /\ request \in [Requests -> RequestStates]
  BY DEF Advance, Set, Inv, TypeOK
<1>2. r \in RequestStates BY RecordShapes DEF Inv
<1>3. r.step = "look" /\ r.pos = request[q].pos + 1 /\ r.confirm = request[q].confirm
      /\ r.target = "pending_contact"
  BY DEF Idle
<1>4. request[q].pos \in Positions /\ Cart[request[q].pos] \in Lines
  BY CartShape DEF Inv, PlaceOK
<1> HIDE DEF r
<1>5. QED BY <1>1, <1>2, <1>3, <1>4

\* A step to the next line keeps what concerns the requests alone.
LEMMA AdvanceInv ==
    ASSUME Inv, NEW q \in Requests, request[q].step = "provision", Advance(q),
           mishaps \subseteq mishaps', outrun \ {q} \subseteq outrun',
           \A p \in Requests \ outrun' : p # q /\ request[p].step = "provision" /\ request[p].seen = 0
                => stays'[Cart[request[p].pos]] = stays[Cart[request[p].pos]],
           status' \in {status, "converted_to_booking"}
    PROVE  /\ EndingAlone' /\ ReleasingStatus' /\ SightIsFresh'
           /\ \A p \in Requests : Approving(p)' <=> Approving(p)
           /\ CancelledInHand'
<1> USE DEF Inv
<1>1. /\ request'[q].step = "look" /\ request'[q].confirm = request[q].confirm
      /\ request'[q].target = "pending_contact"
      /\ \A p \in Requests : p # q => request'[p] = request[p]
  BY AdvanceShape
<1>2. /\ NoneBeside' => NoneBeside
      /\ ReleasesWhole' => ReleasesWhole
  BY MishapsAdd
<1>3. InFlight' \subseteq InFlight /\ Ending' \subseteq Ending /\ q \in InFlight
  BY <1>1 DEF InFlight, Ending
<1>4. EndingAlone' BY <1>2, <1>3 DEF EndingAlone
<1>5. NoneBeside => \A p \in Requests : p # q => request[p].step # "release"
  BY <1>3 DEF EndingAlone, Ending, InFlight
<1>6. ReleasingStatus' BY <1>1, <1>2, <1>5 DEF ReleasingStatus
<1>7. SightIsFresh'
  <2>1. \A h \in Lines : stays'[h] = stays[h] => Existing(h)' = Existing(h) BY DEF Existing
  <2>2. \A p \in Requests : request[p].step = "provision" => Cart[request[p].pos] \in Lines
    BY CartShape DEF PlaceOK
  <2>3. QED BY <1>1, <2>1, <2>2 DEF SightIsFresh
<1>8. \A p \in Requests : Approving(p)' <=> Approving(p) BY <1>1 DEF Approving
<1>9. CancelledInHand'
  <2>1. ReleasesWhole => status # "cancelled" BY DEF CancelledInHand
  <2>2. QED BY <1>2, <2>1 DEF CancelledInHand
<1>10. QED BY <1>4, <1>6, <1>7, <1>8, <1>9

LEMMA ConfirmStayInv ==
    ASSUME Inv, NEW q \in Requests, NEW l \in Lines, ConfirmStay(q, l)
    PROVE  Inv'
<1> DEFINE n == request[q].seen
           confirms == request[q].confirm /\ request[q].seenPending
<1> USE DEF Inv
<1>1. /\ request[q].step = "provision" /\ Cart[request[q].pos] = l /\ n # 0 /\ Advance(q)
      /\ UNCHANGED <<status, reserved, approved, mishaps>>
      /\ stays' = IF confirms THEN [stays EXCEPT ![l][n] = "confirmed"] ELSE stays
      /\ parent' \in {parent, "confirmed"}
      /\ parent' # parent => confirms
      /\ outrun' = IF confirms THEN (outrun \ {q}) \cup {p \in Requests \ {q} :
                        /\ request[p].step = "provision" /\ request[p].seen = 0
                        /\ Cart[request[p].pos] = l}
                   ELSE outrun \ {q}
  BY DEF ConfirmStay, RowChanges, NoRowChanges
<1>2. /\ request'[q].step = "look" /\ request'[q].pos = request[q].pos + 1
      /\ request'[q].confirm = request[q].confirm /\ request[q].pos \in Positions
      /\ \A p \in Requests : p # q => request'[p] = request[p]
      /\ request' \in [Requests -> RequestStates]
  BY <1>1, AdvanceShape
<1>3. n \in DOMAIN stays[l] BY <1>1 DEF PlaceOK
<1>4. NoneBeside' = NoneBeside /\ ApprovalsWhole' = ApprovalsWhole
  BY <1>1 DEF NoneBeside, ApprovalsWhole
<1>5. /\ DOMAIN stays' = Lines
      /\ \A h \in Lines : stays'[h] \in Seq(StayStatus) /\ Len(stays'[h]) = Len(stays[h])
                          /\ DOMAIN stays'[h] = DOMAIN stays[h]
      /\ \A h \in Lines : \A k \in DOMAIN stays[h] :
            stays'[h][k] = IF confirms /\ h = l /\ k = n THEN "confirmed" ELSE stays[h][k]
  <2>1. CASE confirms
    <3>1. stays' = [stays EXCEPT ![l] = [stays[l] EXCEPT ![n] = "confirmed"]] BY <1>1, <2>1
    <3>2. stays[l] \in Seq(StayStatus) /\ "confirmed" \in StayStatus BY DEF TypeOK, StayStatus
    <3>3. /\ [stays[l] EXCEPT ![n] = "confirmed"] \in Seq(StayStatus)
          /\ Len([stays[l] EXCEPT ![n] = "confirmed"]) = Len(stays[l])
      BY <1>3, <3>2
    <3>4. QED BY <1>3, <2>1, <3>1, <3>2, <3>3 DEF TypeOK
  <2>2. CASE ~ confirms BY <1>1, <2>2 DEF TypeOK
  <2>3. QED BY <2>1, <2>2
<1>6. TypeOK'
  <2>1. parent' \in ParentStatus /\ (parent # "none" => parent' # "none")
    BY <1>1 DEF TypeOK, ParentStatus
  <2>2. \A h \in Lines : stays'[h] # <<>> => stays[h] # <<>>
    BY <1>5 DEF TypeOK
  <2>3. outrun' \subseteq Requests BY <1>1 DEF TypeOK
  <2>4. QED BY <1>1, <1>2, <1>5, <2>1, <2>2, <2>3 DEF TypeOK
<1>7. PlaceOK' BY <1>1, <1>2, <1>5, CartShape DEF PlaceOK, Positions
<1>8. ApprovalKnown' BY <1>1, <1>2, <1>5 DEF ApprovalKnown
<1>9. ParentStandsWithAStay'
  <2>1. CASE confirms
    <3>1. stays'[l][n] # "cancelled" /\ n \in DOMAIN stays'[l] BY <1>3, <1>5, <2>1
    <3>2. <<l, n>> \in Lines \X (1 .. MaxRows) BY <1>3, LifecycleAssumption DEF TypeOK
    <3>3. <<l, n>> \in Standing' BY <3>1, <3>2 DEF Standing
    <3>4. QED BY <3>3 DEF ParentStandsWithAStay
  <2>2. CASE ~ confirms BY <1>1, <2>2 DEF ParentStandsWithAStay, Standing
  <2>3. QED BY <2>1, <2>2
<1>10. /\ EndingAlone' /\ ReleasingStatus' /\ SightIsFresh' /\ CancelledInHand'
       /\ \A p \in Requests : Approving(p)' <=> Approving(p)
  <2>1. \A h \in Lines : h # l \/ ~ confirms => stays'[h] = stays[h] BY <1>1 DEF TypeOK
  <2>2. \A p \in Requests : request[p].step = "provision" => Cart[request[p].pos] \in Lines
    BY CartShape DEF PlaceOK
  <2>3. \A p \in Requests \ outrun' : p # q /\ request[p].step = "provision" /\ request[p].seen = 0
            => stays'[Cart[request[p].pos]] = stays[Cart[request[p].pos]]
    BY <1>1, <2>1, <2>2
  <2>4. outrun \ {q} \subseteq outrun' /\ mishaps \subseteq mishaps' BY <1>1
  <2>5. QED BY <1>1, <2>3, <2>4, AdvanceInv
<1>11. \A h \in Lines : IsConfirmed(h) => IsConfirmed(h)' BY <1>5 DEF IsConfirmed
<1>12. SightHolds'
  <2> SUFFICES ASSUME ApprovalsWhole, NEW p \in Requests, p # q,
                      request[p].step = "provision", request[p].confirm, request[p].seen # 0
               PROVE  stays'[Cart[request[p].pos]][request[p].seen] \in
                        {stays[Cart[request[p].pos]][request[p].seen], "confirmed"}
    BY <1>2, <1>4 DEF SightHolds
  <2>1. Cart[request[p].pos] \in Lines /\ request[p].seen \in DOMAIN stays[Cart[request[p].pos]]
    BY CartShape DEF PlaceOK
  <2>2. QED BY <1>5, <2>1
<1>13. ConfirmedSoFar'
  <2> SUFFICES ASSUME ApprovalsWhole, NEW p \in Requests, Approving(p), NEW i \in Positions,
                      i < request'[p].pos, Cart[i] \in StayLines
               PROVE  IsConfirmed(Cart[i])'
    BY <1>4, <1>10 DEF ConfirmedSoFar
  <2>1. CASE p = q /\ i = request[q].pos
    <3>1. stays'[l][n] = "confirmed"
      BY <1>1, <1>3, <1>5, <2>1 DEF SightHolds, Approving
    <3>2. QED BY <1>1, <1>3, <1>5, <2>1, <3>1 DEF IsConfirmed
  <2>2. CASE ~ (p = q /\ i = request[q].pos)
    <3>1. i < request[p].pos BY <1>2, <2>2, CartShape DEF Positions
    <3>2. Cart[i] \in Lines /\ IsConfirmed(Cart[i]) BY <3>1, CartShape DEF ConfirmedSoFar
    <3>3. QED BY <1>11, <3>2
  <2>3. QED BY <2>1, <2>2
<1>14. ConvertedInHand'
  <2>1. Approving(q) \/ ~ request[q].confirm BY <1>1 DEF Approving
  <2>2. QED BY <1>1, <1>4, <1>10, <1>11 DEF ConvertedInHand
<1>15. QED BY <1>6, <1>7, <1>8, <1>9, <1>10, <1>12, <1>13, <1>14

LEMMA CreateStayInv ==
    ASSUME Inv, NEW q \in Requests, NEW l \in Lines, CreateStay(q, l)
    PROVE  Inv'
<1> DEFINE new == NewRow(q)
           last == Len(stays[l]) + 1
<1> USE DEF Inv
<1>1. /\ request[q].step = "provision" /\ Cart[request[q].pos] = l /\ l \in StayLines
      /\ Len(stays[l]) < MaxRows /\ status # "deleted" /\ Advance(q)
      /\ UNCHANGED <<reserved, approved, mishaps>>
      /\ stays' = [stays EXCEPT ![l] = Append(stays[l], new)]
      /\ parent' = IF parent = "none" THEN new ELSE parent
      /\ status' \in {status, "converted_to_booking"}
      /\ status' # status => request[q].confirm
      /\ outrun' = (outrun \ {q}) \cup {p \in Requests \ {q} :
                        /\ request[p].step = "provision" /\ request[p].seen = 0
                        /\ Cart[request[p].pos] = l}
  BY DEF CreateStay, RowChanges
<1>2. /\ request'[q].step = "look" /\ request'[q].pos = request[q].pos + 1
      /\ request'[q].confirm = request[q].confirm /\ request[q].pos \in Positions
      /\ \A p \in Requests : p # q => request'[p] = request[p]
      /\ request' \in [Requests -> RequestStates]
  BY <1>1, AdvanceShape
<1>3. /\ new \in {"pending", "confirmed"} /\ (new = "confirmed" <=> request[q].confirm)
      /\ new \in StayStatus /\ new \in ParentStatus
  BY DEF NewRow, StayStatus, ParentStatus
<1> HIDE DEF new
<1>4. NoneBeside' = NoneBeside /\ ApprovalsWhole' = ApprovalsWhole
  BY <1>1 DEF NoneBeside, ApprovalsWhole
<1>5. /\ DOMAIN stays' = Lines
      /\ stays'[l] \in Seq(StayStatus) /\ Len(stays'[l]) = last /\ last \in DOMAIN stays'[l]
      /\ stays'[l][last] = new
      /\ \A k \in DOMAIN stays[l] : k \in DOMAIN stays'[l] /\ stays'[l][k] = stays[l][k]
      /\ \A k \in DOMAIN stays'[l] : k \in DOMAIN stays[l] \/ k = last
      /\ \A h \in Lines : h # l => stays'[h] = stays[h]
  BY <1>1, <1>3 DEF TypeOK
<1>6. TypeOK'
  <2>1. parent' \in ParentStatus /\ parent' # "none" BY <1>1, <1>3 DEF TypeOK
  <2>2. status' \in InquiryStatus \cup {"deleted"} BY <1>1 DEF TypeOK, InquiryStatus
  <2>3. \A h \in Lines : stays'[h] \in Seq(StayStatus) /\ Len(stays'[h]) <= MaxRows
    BY <1>1, <1>5, LifecycleAssumption DEF TypeOK
  <2>4. \A h \in Lines : stays'[h] # <<>> => h \in StayLines BY <1>1, <1>5 DEF TypeOK
  <2>5. outrun' \subseteq Requests BY <1>1 DEF TypeOK
  <2>6. QED BY <1>1, <1>2, <1>5, <2>1, <2>2, <2>3, <2>4, <2>5 DEF TypeOK
<1>7. PlaceOK'
  <2>1. \A h \in Lines : DOMAIN stays[h] \subseteq DOMAIN stays'[h] BY <1>5
  <2>2. QED BY <1>1, <1>2, <2>1, CartShape DEF PlaceOK, Positions
<1>8. ApprovalKnown'
  <2>1. new = "confirmed" => approved BY <1>3 DEF ApprovalKnown
  <2>2. \A p \in Requests : request'[p].confirm => approved BY <1>2 DEF ApprovalKnown
  <2>3. ASSUME NEW h \in Lines, NEW k \in 1 .. MaxRows,
               k \in DOMAIN stays'[h], stays'[h][k] = "confirmed"
        PROVE  approved
    BY <1>5, <2>1, <2>3 DEF ApprovalKnown
  <2>4. QED BY <1>1, <2>2, <2>3 DEF ApprovalKnown
<1>9. ParentStandsWithAStay'
  <2>1. <<l, last>> \in Lines \X (1 .. MaxRows)
    BY <1>1, <1>5, LifecycleAssumption DEF TypeOK
  <2>2. <<l, last>> \in Standing' BY <1>3, <1>5, <2>1 DEF Standing
  <2>3. QED BY <2>2 DEF ParentStandsWithAStay
<1>10. /\ EndingAlone' /\ ReleasingStatus' /\ SightIsFresh' /\ CancelledInHand'
       /\ \A p \in Requests : Approving(p)' <=> Approving(p)
  <2>1. \A p \in Requests : request[p].step = "provision" => Cart[request[p].pos] \in Lines
    BY CartShape DEF PlaceOK
  <2>2. \A p \in Requests \ outrun' : p # q /\ request[p].step = "provision" /\ request[p].seen = 0
            => stays'[Cart[request[p].pos]] = stays[Cart[request[p].pos]]
    BY <1>1, <1>5, <2>1
  <2>3. outrun \ {q} \subseteq outrun' /\ mishaps \subseteq mishaps' BY <1>1
  <2>4. QED BY <1>1, <2>2, <2>3, AdvanceInv
<1>11. \A h \in Lines : IsConfirmed(h) => IsConfirmed(h)' BY <1>5 DEF IsConfirmed
<1>12. SightHolds'
  <2> SUFFICES ASSUME ApprovalsWhole, NEW p \in Requests, p # q,
                      request[p].step = "provision", request[p].confirm, request[p].seen # 0
               PROVE  stays'[Cart[request[p].pos]][request[p].seen] =
                        stays[Cart[request[p].pos]][request[p].seen]
    BY <1>2, <1>4 DEF SightHolds
  <2>1. Cart[request[p].pos] \in Lines /\ request[p].seen \in DOMAIN stays[Cart[request[p].pos]]
    BY CartShape DEF PlaceOK
  <2>2. QED BY <1>5, <2>1
<1>13. ConfirmedSoFar'
  <2> SUFFICES ASSUME ApprovalsWhole, NEW p \in Requests, Approving(p), NEW i \in Positions,
                      i < request'[p].pos, Cart[i] \in StayLines
               PROVE  IsConfirmed(Cart[i])'
    BY <1>4, <1>10 DEF ConfirmedSoFar
  <2>1. CASE p = q /\ i = request[q].pos
    BY <1>1, <1>3, <1>5, <2>1 DEF IsConfirmed, Approving
  <2>2. CASE ~ (p = q /\ i = request[q].pos)
    <3>1. i < request[p].pos BY <1>2, <2>2, CartShape DEF Positions
    <3>2. Cart[i] \in Lines /\ IsConfirmed(Cart[i]) BY <3>1, CartShape DEF ConfirmedSoFar
    <3>3. QED BY <1>11, <3>2
  <2>3. QED BY <2>1, <2>2
<1>14. ConvertedInHand'
  <2>1. request[q].confirm => Approving(q) BY <1>1 DEF Approving
  <2>2. QED BY <1>1, <1>4, <1>10, <1>11, <2>1 DEF ConvertedInHand
<1>15. QED BY <1>6, <1>7, <1>8, <1>9, <1>10, <1>12, <1>13, <1>14

\* A request that goes on to its next line, or ends, without changing a row.
LEMMA LinePassedInv ==
    ASSUME Inv, NEW q \in Requests, request[q].step = "provision", Advance(q), NoRowChanges(q),
           UNCHANGED <<status, parent, stays, approved>>, reserved' \in [Lines -> Nat],
           mishaps \subseteq mishaps', mishaps' \subseteq Mishaps,
           ApprovalsWhole' /\ request[q].confirm => Cart[request[q].pos] \notin StayLines
    PROVE  Inv'
<1> USE DEF Inv
<1>1. /\ request'[q].step = "look" /\ request'[q].pos = request[q].pos + 1
      /\ request'[q].confirm = request[q].confirm /\ request[q].pos \in Positions
      /\ \A p \in Requests : p # q => request'[p] = request[p]
      /\ request' \in [Requests -> RequestStates]
  BY AdvanceShape
<1>2. ApprovalsWhole' => ApprovalsWhole BY MishapsAdd
<1>3. TypeOK' BY <1>1 DEF TypeOK, NoRowChanges
<1>4. PlaceOK' BY <1>1, CartShape DEF PlaceOK, Positions
<1>5. ApprovalKnown' BY <1>1 DEF ApprovalKnown
<1>6. ParentStandsWithAStay' BY DEF ParentStandsWithAStay, Standing
<1>7. /\ EndingAlone' /\ ReleasingStatus' /\ SightIsFresh' /\ CancelledInHand'
      /\ \A p \in Requests : Approving(p)' <=> Approving(p)
  BY AdvanceInv DEF NoRowChanges
<1>8. SightHolds' BY <1>1, <1>2 DEF SightHolds
<1>9. \A h \in Lines : IsConfirmed(h)' <=> IsConfirmed(h) BY DEF IsConfirmed
<1>10. ConfirmedSoFar'
  <2> SUFFICES ASSUME ApprovalsWhole', NEW p \in Requests, Approving(p), NEW i \in Positions,
                      i < request'[p].pos, Cart[i] \in StayLines
               PROVE  IsConfirmed(Cart[i])
    BY <1>7, <1>9, CartShape DEF ConfirmedSoFar
  <2>1. ~ (p = q /\ i = request[q].pos) BY DEF Approving
  <2>2. i < request[p].pos BY <1>1, <2>1, CartShape DEF Positions
  <2>3. QED BY <1>2, <2>2 DEF ConfirmedSoFar
<1>11. ConvertedInHand' BY <1>2, <1>7, <1>9 DEF ConvertedInHand
<1>12. QED BY <1>3, <1>4, <1>5, <1>6, <1>7, <1>8, <1>10, <1>11

LEMMA ReserveCapacityInv ==
    ASSUME Inv, NEW q \in Requests, NEW l \in Lines, ReserveCapacity(q, l)
    PROVE  Inv'
<1>1. /\ request[q].step = "provision" /\ Cart[request[q].pos] = l /\ l \notin StayLines
      /\ Advance(q) /\ NoRowChanges(q) /\ UNCHANGED <<status, parent, stays, approved, mishaps>>
      /\ reserved' \in {reserved, [reserved EXCEPT ![l] = reserved[l] + 1]}
  BY DEF ReserveCapacity
<1>2. reserved' \in [Lines -> Nat] BY <1>1 DEF Inv, TypeOK
<1>3. mishaps \subseteq mishaps' /\ mishaps' \subseteq Mishaps BY <1>1 DEF Inv, TypeOK
<1>4. QED BY <1>1, <1>2, <1>3, LinePassedInv

LEMMA FailLineInv ==
    ASSUME Inv, NEW q \in Requests, FailLine(q)
    PROVE  Inv'
<1>1. /\ request[q].step = "provision" /\ Advance(q) /\ NoRowChanges(q)
      /\ mishaps' = mishaps \cup {m \in {"approval cut"} : request[q].confirm}
      /\ UNCHANGED <<status, parent, stays, reserved, approved>>
  BY DEF FailLine
<1>2. mishaps \subseteq mishaps' /\ mishaps' \subseteq Mishaps /\ reserved' \in [Lines -> Nat]
  BY <1>1 DEF Inv, TypeOK, Mishaps
<1>3. request[q].confirm => ~ ApprovalsWhole' BY <1>1 DEF ApprovalsWhole
<1>4. QED BY <1>1, <1>2, <1>3, LinePassedInv

LEMMA FailRequestInv ==
    ASSUME Inv, NEW q \in Requests, FailRequest(q)
    PROVE  Inv'
<1> USE DEF Inv
<1>1. /\ request' = [request EXCEPT ![q] = Done] /\ outrun' = outrun \ {q}
      /\ mishaps' = mishaps \cup {m \in {"approval cut"} : request[q].confirm}
                            \cup {m \in {"release cut"} : request[q].step = "release"}
      /\ UNCHANGED <<status, parent, stays, reserved, approved>>
  BY DEF FailRequest, Set, NoRowChanges
<1>2. /\ request'[q] = Done /\ Done.step = "done" /\ ~ Done.confirm
      /\ \A p \in Requests : p # q => request'[p] = request[p]
      /\ request' \in [Requests -> RequestStates]
  BY <1>1, RecordShapes DEF TypeOK, Done, Idle
<1>3. /\ mishaps \subseteq mishaps' /\ mishaps' \subseteq Mishaps
      /\ request[q].confirm => ~ ApprovalsWhole'
      /\ request[q].step = "release" => ~ ReleasesWhole'
  BY <1>1 DEF TypeOK, Mishaps, ApprovalsWhole, ReleasesWhole
<1>4. /\ NoneBeside' => NoneBeside
      /\ ApprovalsWhole' => ApprovalsWhole
      /\ ReleasesWhole' => ReleasesWhole
  BY <1>3, MishapsAdd
<1>5. TypeOK' BY <1>1, <1>2, <1>3 DEF TypeOK
<1>6. PlaceOK' BY <1>1, <1>2 DEF PlaceOK
<1>7. ApprovalKnown' BY <1>1, <1>2 DEF ApprovalKnown
<1>8. ParentStandsWithAStay' BY <1>1 DEF ParentStandsWithAStay, Standing
<1>9. EndingAlone' /\ ReleasingStatus'
  <2>1. InFlight' \subseteq InFlight /\ Ending' \subseteq Ending BY <1>2 DEF InFlight, Ending
  <2>2. QED BY <1>1, <1>2, <1>4, <2>1 DEF EndingAlone, ReleasingStatus
<1>10. SightIsFresh'
  <2>1. \A h : Existing(h)' = Existing(h) BY <1>1 DEF Existing
  <2>2. QED BY <1>1, <1>2, <2>1 DEF SightIsFresh
<1>11. SightHolds' BY <1>1, <1>2, <1>4 DEF SightHolds
<1>12. ConfirmedSoFar' BY <1>1, <1>2, <1>4 DEF ConfirmedSoFar, Approving, IsConfirmed
<1>13. ConvertedInHand'
  BY <1>1, <1>2, <1>3, <1>4 DEF ConvertedInHand, Approving, IsConfirmed
<1>14. CancelledInHand' BY <1>1, <1>2, <1>3, <1>4 DEF CancelledInHand, Standing
<1>15. QED
  BY <1>5, <1>6, <1>7, <1>8, <1>9, <1>10, <1>11, <1>12, <1>13, <1>14

LEMMA ReleaseStaysInv ==
    ASSUME Inv, NEW q \in Requests, ReleaseStays(q)
    PROVE  Inv'
<1> USE DEF Inv
<1>1. /\ request[q].step = "release" /\ stays' = AllCancelled /\ parent' = EndedParent(parent)
      /\ request' = [request EXCEPT ![q] = Done]
      /\ UNCHANGED <<status, reserved, approved, mishaps, outrun>>
  BY DEF ReleaseStays, Set
<1>2. /\ request'[q] = Done /\ Done.step = "done" /\ ~ Done.confirm
      /\ \A p \in Requests : p # q => request'[p] = request[p]
      /\ request' \in [Requests -> RequestStates]
  BY <1>1, RecordShapes DEF TypeOK, Done, Idle
<1>3. /\ NoneBeside' = NoneBeside /\ ApprovalsWhole' = ApprovalsWhole
      /\ NoneBeside => \A p \in Requests : request'[p].step \in {"idle", "done"}
  <2>1. q \in Ending BY <1>1 DEF Ending, InFlight
  <2>2. QED BY <1>1, <1>2, <2>1 DEF NoneBeside, ApprovalsWhole, EndingAlone, InFlight
<1>4. /\ DOMAIN stays' = Lines
      /\ \A l \in Lines : /\ DOMAIN stays'[l] = DOMAIN stays[l]
                          /\ stays'[l] \in Seq(StayStatus) /\ Len(stays'[l]) = Len(stays[l])
                          /\ \A k \in DOMAIN stays[l] : stays'[l][k] = "cancelled"
  <2>1. ASSUME NEW l \in Lines
        PROVE  /\ DOMAIN stays'[l] = DOMAIN stays[l]
               /\ stays'[l] \in Seq(StayStatus) /\ Len(stays'[l]) = Len(stays[l])
               /\ \A k \in DOMAIN stays[l] : stays'[l][k] = "cancelled"
    <3>1. stays'[l] = [k \in DOMAIN stays[l] |-> "cancelled"] BY <1>1 DEF AllCancelled
    <3>2. DOMAIN stays[l] = 1 .. Len(stays[l]) /\ Len(stays[l]) \in Nat BY DEF TypeOK
    <3>3. stays'[l] \in Seq(StayStatus) BY <3>1, <3>2 DEF StayStatus
    <3>4. QED BY <3>1, <3>2, <3>3
  <2>2. QED BY <1>1, <2>1 DEF AllCancelled
<1>5. Standing' = {} BY <1>4 DEF Standing
<1>6. TypeOK'
  <2>1. parent' \in ParentStatus /\ (parent # "none" => parent' # "none")
    BY <1>1 DEF TypeOK, EndedParent, ParentStatus
  <2>2. \A l \in Lines : stays'[l] # <<>> => stays[l] # <<>> BY <1>4 DEF TypeOK
  <2>3. QED BY <1>1, <1>2, <1>4, <2>1, <2>2 DEF TypeOK
<1>7. PlaceOK' BY <1>2, <1>4, CartShape DEF PlaceOK
<1>8. ApprovalKnown' BY <1>1, <1>2, <1>4 DEF ApprovalKnown
<1>9. ParentStandsWithAStay' BY <1>1 DEF ParentStandsWithAStay, EndedParent
<1>10. EndingAlone' /\ ReleasingStatus' BY <1>3 DEF EndingAlone, ReleasingStatus, Ending, InFlight
<1>11. SightIsFresh'
  <2>1. \A h \in Lines : Existing(h)' = 0 BY <1>4 DEF Existing
  <2>2. QED BY <1>2, <2>1, CartShape DEF SightIsFresh, PlaceOK
<1>12. SightHolds' /\ ConfirmedSoFar'
  BY <1>3 DEF SightHolds, ConfirmedSoFar, Approving, ApprovalsWhole
<1>13. ConvertedInHand'
  BY <1>1, <1>3 DEF ReleasingStatus, ConvertedInHand, ApprovalsWhole
<1>14. CancelledInHand' BY <1>3, <1>5 DEF CancelledInHand, ReleasesWhole
<1>15. QED BY <1>6, <1>7, <1>8, <1>9, <1>10, <1>11, <1>12, <1>13, <1>14

LEMMA DeskCancelInv ==
    ASSUME Inv, NEW q \in Requests, DeskCancel(q)
    PROVE  Inv'
<1> DEFINE r == [Idle EXCEPT !.step = "release"]
<1> USE DEF Inv
<1>1. /\ request[q].step = "idle" /\ status' = "cancelled"
      /\ request' = [request EXCEPT ![q] = r] /\ Started(TRUE, TRUE)
      /\ UNCHANGED <<parent, stays, reserved, approved, outrun>>
  BY DEF DeskCancel, MayStart, Set
<1>2. r \in RequestStates /\ r.step = "release" /\ ~ r.confirm
  BY RecordShapes DEF Idle
<1>3. request'[q] = r /\ \A p \in Requests : p # q => request'[p] = request[p]
  BY <1>1 DEF TypeOK
<1>4. /\ mishaps' \subseteq Mishaps
      /\ NoneBeside' => \A p \in Requests : p # q => request'[p].step \in {"idle", "done"}
      /\ ApprovalsWhole' => NoneBeside'
      /\ ReleasesWhole' => NoneBeside'
  <2>1. mishaps' \subseteq Mishaps /\ (NoneBeside' => InFlight = {}) BY <1>1, StartedAlone
  <2>2. QED BY <1>3, <2>1 DEF InFlight, ApprovalsWhole, ReleasesWhole
<1> HIDE DEF r
<1>5. TypeOK' BY <1>1, <1>2, <1>4 DEF TypeOK, InquiryStatus
<1>6. PlaceOK' BY <1>1, <1>2, <1>3 DEF PlaceOK
<1>7. ApprovalKnown' BY <1>1, <1>2, <1>3 DEF ApprovalKnown
<1>8. ParentStandsWithAStay' BY <1>1 DEF ParentStandsWithAStay, Standing
<1>9. EndingAlone' BY <1>4 DEF EndingAlone, Ending, InFlight
<1>10. ReleasingStatus' BY <1>1 DEF ReleasingStatus
<1>11. SightIsFresh' BY <1>1, <1>2, <1>3 DEF SightIsFresh, Existing
<1>12. SightHolds' /\ ConfirmedSoFar'
  BY <1>2, <1>3, <1>4 DEF SightHolds, ConfirmedSoFar, Approving
<1>13. ConvertedInHand' BY <1>1 DEF ConvertedInHand
<1>14. CancelledInHand' BY <1>2, <1>3, <1>4 DEF CancelledInHand
<1>15. QED
  BY <1>5, <1>6, <1>7, <1>8, <1>9, <1>10, <1>11, <1>12, <1>13, <1>14

LEMMA DeskSetInv ==
    ASSUME Inv, NEW q \in Requests, NEW l \in Lines, NEW k \in 1 .. MaxRows,
           NEW s \in {"pending", "confirmed"}, DeskSet(q, l, k, s)
    PROVE  Inv'
<1> USE DEF Inv
<1>1. /\ request[q].step = "idle" /\ k \in DOMAIN stays[l]
      /\ stays' = [stays EXCEPT ![l] = [stays[l] EXCEPT ![k] = s]] /\ parent' = s
      /\ status' \in {"quoted", "pending_contact"}
      /\ approved' = (approved \/ s = "confirmed")
      /\ request' = [request EXCEPT ![q] = Done] /\ Started(FALSE, TRUE)
      /\ outrun' = (outrun \ {q}) \cup {p \in Requests \ {q} :
                        /\ request[p].step = "provision" /\ request[p].seen = 0
                        /\ Cart[request[p].pos] = l}
      /\ UNCHANGED reserved
  BY DEF DeskSet, MayStart, Set, RowChanges
<1>2. /\ request'[q] = Done /\ Done.step = "done" /\ ~ Done.confirm
      /\ \A p \in Requests : p # q => request'[p] = request[p]
      /\ request' \in [Requests -> RequestStates]
  BY <1>1, RecordShapes DEF TypeOK, Done, Idle
<1>3. /\ mishaps' \subseteq Mishaps
      /\ ApprovalsWhole' => \A p \in Requests : request'[p].step \in {"idle", "done"}
      /\ NoneBeside' => NoneBeside /\ Ending = {}
  <2>1. /\ mishaps' \subseteq Mishaps
        /\ ApprovalsWhole' => InFlight = {}
        /\ NoneBeside' => NoneBeside /\ Ending = {}
    BY <1>1, StartedAlone
  <2>2. QED BY <1>2, <2>1 DEF InFlight
<1>4. /\ stays[l] \in Seq(StayStatus) /\ s \in StayStatus
      /\ [stays[l] EXCEPT ![k] = s] \in Seq(StayStatus)
      /\ Len([stays[l] EXCEPT ![k] = s]) = Len(stays[l])
  BY <1>1 DEF TypeOK, StayStatus
<1>5. /\ DOMAIN stays' = Lines
      /\ \A h \in Lines : stays'[h] \in Seq(StayStatus) /\ Len(stays'[h]) = Len(stays[h])
                          /\ DOMAIN stays'[h] = DOMAIN stays[h]
      /\ \A h \in Lines : \A j \in DOMAIN stays[h] :
            stays'[h][j] = IF h = l /\ j = k THEN s ELSE stays[h][j]
  BY <1>1, <1>4 DEF TypeOK
<1>6. TypeOK'
  <2>1. parent' \in ParentStatus /\ parent' # "none" BY <1>1 DEF ParentStatus
  <2>2. \A h \in Lines : stays'[h] # <<>> => stays[h] # <<>> BY <1>5 DEF TypeOK
  <2>3. outrun' \subseteq Requests BY <1>1 DEF TypeOK
  <2>4. QED BY <1>1, <1>2, <1>3, <1>5, <2>1, <2>2, <2>3 DEF TypeOK, InquiryStatus
<1>7. PlaceOK' BY <1>2, <1>5, CartShape DEF PlaceOK
<1>8. ApprovalKnown' BY <1>1, <1>2, <1>5 DEF ApprovalKnown
<1>9. ParentStandsWithAStay'
  <2>1. <<l, k>> \in Lines \X (1 .. MaxRows) OBVIOUS
  <2>2. <<l, k>> \in Standing' BY <1>1, <1>5, <2>1 DEF Standing
  <2>3. QED BY <2>2 DEF ParentStandsWithAStay
<1>10. EndingAlone' /\ ReleasingStatus'
  <2>1. NoneBeside' => Ending' = {} BY <1>2, <1>3 DEF Ending, InFlight
  <2>2. QED BY <2>1 DEF EndingAlone, ReleasingStatus, Ending, InFlight
<1>11. SightIsFresh'
  <2>1. \A h \in Lines : h # l => Existing(h)' = Existing(h) BY <1>1 DEF Existing, TypeOK
  <2>2. QED BY <1>1, <1>2, <2>1, CartShape DEF SightIsFresh, PlaceOK
<1>12. SightHolds' /\ ConfirmedSoFar'
  BY <1>3 DEF SightHolds, ConfirmedSoFar, Approving
<1>13. ConvertedInHand' /\ CancelledInHand' BY <1>1 DEF ConvertedInHand, CancelledInHand
<1>14. QED BY <1>6, <1>7, <1>8, <1>9, <1>10, <1>11, <1>12, <1>13

\* What does not depend on the status or on the parent.
LEMMA RowsAndRequestsKept ==
    ASSUME Inv, UNCHANGED <<stays, reserved, request, approved, mishaps, outrun>>
    PROVE  /\ PlaceOK' /\ ApprovalKnown' /\ EndingAlone' /\ SightIsFresh' /\ SightHolds'
           /\ ConfirmedSoFar'
           /\ Standing' = Standing
           /\ status' \in {status, "deleted"} =>
                ReleasingStatus' /\ ConvertedInHand' /\ CancelledInHand'
<1> USE DEF Inv
<1>1. PlaceOK' BY DEF PlaceOK
<1>2. ApprovalKnown' BY DEF ApprovalKnown
<1>3. NoneBeside' = NoneBeside /\ ApprovalsWhole' = ApprovalsWhole
      /\ ReleasesWhole' = ReleasesWhole
  BY DEF NoneBeside, ApprovalsWhole, ReleasesWhole
<1>4. EndingAlone' BY <1>3 DEF EndingAlone, Ending, InFlight
<1>5. SightIsFresh'
  <2>1. \A l : Existing(l)' = Existing(l) BY DEF Existing
  <2>2. QED BY <2>1 DEF SightIsFresh
<1>6. SightHolds' BY <1>3 DEF SightHolds
<1>7. /\ \A l : IsConfirmed(l)' <=> IsConfirmed(l)
      /\ \A q : Approving(q)' <=> Approving(q)
  BY DEF IsConfirmed, Approving
<1>8. ConfirmedSoFar' BY <1>3, <1>7 DEF ConfirmedSoFar
<1>9. Standing' = Standing BY DEF Standing
<1>10. ASSUME status' \in {status, "deleted"}
       PROVE  ReleasingStatus' /\ ConvertedInHand' /\ CancelledInHand'
  BY <1>3, <1>7, <1>9, <1>10 DEF ReleasingStatus, ConvertedInHand, CancelledInHand
<1>11. QED BY <1>1, <1>2, <1>4, <1>5, <1>6, <1>8, <1>9, <1>10

LEMMA CancelParentInv ==
    ASSUME Inv, CancelParent
    PROVE  Inv'
<1> USE DEF Inv
<1>1. parent # "none" /\ parent' = "cancelled" /\ UNCHANGED status
      /\ UNCHANGED <<stays, reserved, request, approved, mishaps, outrun>>
  BY DEF CancelParent
<1>2. TypeOK' BY <1>1 DEF TypeOK, ParentStatus
<1>3. ParentStandsWithAStay' BY <1>1 DEF ParentStandsWithAStay
<1>4. QED BY <1>1, <1>2, <1>3, RowsAndRequestsKept

LEMMA DeleteInquiryInv ==
    ASSUME Inv, DeleteInquiry
    PROVE  Inv'
<1> USE DEF Inv
<1>1. status' = "deleted" /\ UNCHANGED parent
      /\ UNCHANGED <<stays, reserved, request, approved, mishaps, outrun>>
  BY DEF DeleteInquiry
<1>2. TypeOK' BY <1>1 DEF TypeOK
<1>3. ParentStandsWithAStay' BY <1>1, RowsAndRequestsKept DEF ParentStandsWithAStay
<1>4. QED BY <1>1, <1>2, <1>3, RowsAndRequestsKept

LEMMA InvStutter ==
    ASSUME Inv, UNCHANGED vars
    PROVE  Inv'
<1> USE DEF Inv
<1>1. UNCHANGED status /\ UNCHANGED parent
      /\ UNCHANGED <<stays, reserved, request, approved, mishaps, outrun>>
  BY DEF vars
<1>2. TypeOK' BY <1>1 DEF TypeOK
<1>3. ParentStandsWithAStay' BY <1>1, RowsAndRequestsKept DEF ParentStandsWithAStay
<1>4. QED BY <1>1, <1>2, <1>3, RowsAndRequestsKept

LEMMA NextInv == Inv /\ [Next]_vars => Inv'
<1> SUFFICES ASSUME Inv, [Next]_vars PROVE Inv' OBVIOUS
<1>1. ASSUME NEW q \in Requests, NEW guest \in BOOLEAN, NEW s \in InquiryStatus,
             Decide(q, guest, s)
      PROVE  Inv'
  BY <1>1, DecideInv
<1>2. ASSUME NEW q \in Requests, CommitStatus(q) PROVE Inv' BY <1>2, CommitStatusInv
<1>3. ASSUME NEW q \in Requests, Look(q) PROVE Inv' BY <1>3, LookInv
<1>4. ASSUME NEW q \in Requests, FailLine(q) PROVE Inv' BY <1>4, FailLineInv
<1>5. ASSUME NEW q \in Requests, ReleaseStays(q) PROVE Inv' BY <1>5, ReleaseStaysInv
<1>6. ASSUME NEW q \in Requests, FailRequest(q) PROVE Inv' BY <1>6, FailRequestInv
<1>7. ASSUME NEW q \in Requests, NEW l \in Lines,
             ConfirmStay(q, l) \/ CreateStay(q, l) \/ ReserveCapacity(q, l)
      PROVE  Inv'
  BY <1>7, ConfirmStayInv, CreateStayInv, ReserveCapacityInv
<1>8. ASSUME NEW q \in Requests, DeskCancel(q) PROVE Inv' BY <1>8, DeskCancelInv
<1>9. ASSUME NEW q \in Requests, NEW l \in Lines, NEW k \in 1 .. MaxRows,
             NEW s \in {"pending", "confirmed"}, DeskSet(q, l, k, s)
      PROVE  Inv'
  BY <1>9, DeskSetInv
<1>10. QED
  BY <1>1, <1>2, <1>3, <1>4, <1>5, <1>6, <1>7, <1>8, <1>9,
     CancelParentInv, DeleteInquiryInv, InvStutter
  DEF Next

\* The invariant of the inquiry's life holds throughout.
THEOREM LifecycleInvariant == Spec => []Inv
<1>1. QED BY InitInv, NextInv, PTL DEF Spec

\* Once the requests for a cancelled inquiry have ended, nothing is held for it: no stay
\* booking stands, nor its parent Booking, if no release was cut off and no cancellation
\* ran beside another request.
THEOREM NothingHeldWhenCancelled == Spec => []CancelledHoldsNothing
<1>1. Inv => CancelledHoldsNothing
  BY DEF Inv, CancelledHoldsNothing, InFlight, CancelledInHand, ReleasesWhole, NoneBeside,
         ParentStandsWithAStay, TypeOK, ParentStatus
<1>2. QED BY <1>1, LifecycleInvariant, PTL

\* A converted inquiry has a confirmed stay booking for each of its stays, also where
\* approvals overlap, if no approval failed in a line or was cut off and neither a
\* cancellation nor the desk ran beside another request.
THEOREM ConvertedMeansConfirmed == Spec => []ConvertedIsConfirmed
<1>1. Inv => ConvertedIsConfirmed
  BY DEF Inv, ConvertedIsConfirmed, InFlight, ConvertedInHand, ApprovalsWhole, NoneBeside,
         Approving, IsConfirmed
<1>2. QED BY <1>1, LifecycleInvariant, PTL

\* No stay booking is confirmed before staff approved the inquiry or the desk confirmed one of its
\* stays, whatever runs at once or fails.
THEOREM ConfirmedOnlyByStaff == Spec => []ConfirmedByStaff
<1>1. Inv => ConfirmedByStaff BY DEF Inv, ConfirmedByStaff, ApprovalKnown
<1>2. QED BY <1>1, LifecycleInvariant, PTL

\* A stay is booked anew only when its earlier bookings are cancelled, or by a request that
\* is outrun: it looked the line up before one of them was made or reopened.
LEMMA RowsGrowWhenFree ==
    ASSUME Inv, [Next]_vars, NEW l \in Lines, Len(stays'[l]) > Len(stays[l])
    PROVE  \/ \A k \in DOMAIN stays[l] : stays[l][k] = "cancelled"
           \/ \E q \in outrun : /\ request[q].step = "provision" /\ Cart[request[q].pos] = l
                               /\ request'[q] # request[q]
<1> USE DEF Inv
<1>0. stays'[l] # stays[l] /\ stays[l] \in Seq(StayStatus) /\ Len(stays[l]) \in Nat
  BY DEF TypeOK
<1>1. \A h \in Lines : \A j, s :
        j \in DOMAIN stays[h] => Len([stays EXCEPT ![h][j] = s][l]) = Len(stays[l])
  BY <1>0 DEF TypeOK
<1>2. CASE \E q \in Requests, h \in Lines : CreateStay(q, h)
  <2>1. PICK q \in Requests, h \in Lines : CreateStay(q, h) BY <1>2
  <2>2. h = l BY <1>0, <2>1 DEF CreateStay, TypeOK
  <2>3. request[q].step = "provision" /\ Cart[request[q].pos] = l /\ request[q].seen = 0
    BY <2>1, <2>2 DEF CreateStay
  <2>4. CASE q \in outrun
    <3>1. request'[q] # request[q] BY <2>1, <2>3, AdvanceShape DEF CreateStay
    <3>2. QED BY <2>3, <2>4, <3>1
  <2>5. CASE q \notin outrun
    <3>1. Existing(l) = 0 BY <2>3, <2>5 DEF SightIsFresh
    <3>2. QED BY <3>1, ExistingRow
  <2>6. QED BY <2>4, <2>5
<1>3. CASE ~ \E q \in Requests, h \in Lines : CreateStay(q, h)
  <2>1. stays' # stays BY <1>0
  <2>2. CASE \E q \in Requests, h \in Lines : ConfirmStay(q, h)
    <3>1. PICK q \in Requests, h \in Lines : ConfirmStay(q, h) BY <2>2
    <3>2. request[q].seen \in DOMAIN stays[h] BY <3>1 DEF ConfirmStay, PlaceOK
    <3>3. stays' = [stays EXCEPT ![h][request[q].seen] = "confirmed"]
      BY <2>1, <3>1 DEF ConfirmStay
    <3>4. QED BY <1>0, <1>1, <3>2, <3>3
  <2>3. CASE \E q \in Requests : ReleaseStays(q)
    <3>1. stays'[l] = [j \in DOMAIN stays[l] |-> "cancelled"]
      BY <2>3 DEF ReleaseStays, AllCancelled
    <3>2. Len(stays'[l]) = Len(stays[l]) BY <1>0, <3>1
    <3>3. QED BY <1>0, <3>2
  <2>4. CASE \E q \in Requests, h \in Lines, j \in 1 .. MaxRows,
                s \in {"pending", "confirmed"} : DeskSet(q, h, j, s)
    <3>1. PICK q \in Requests, h \in Lines, j \in 1 .. MaxRows,
               s \in {"pending", "confirmed"} : DeskSet(q, h, j, s)
      BY <2>4
    <3>2. QED BY <1>0, <1>1, <3>1 DEF DeskSet
  <2>5. QED
    BY <1>3, <2>1, <2>2, <2>3, <2>4
    DEF Next, vars, Decide, CommitStatus, Look, FailLine, FailRequest, ReserveCapacity,
        DeskCancel, CancelParent, DeleteInquiry
<1>4. QED BY <1>2, <1>3

\* _auto_provision_stay_bookings (booking_inquiry_service.py) makes a second row for a line of
\* the cart while one stands only when it looked the line up before that one was made or
\* reopened; all else, failures included, leaves a line booked once.
THEOREM BookedAnewOnlyWhenFree == Spec => StayIsBookedOnce
<1>1. Inv /\ [Next]_vars =>
        [\A l \in Lines :
            Len(stays'[l]) > Len(stays[l]) =>
                \/ \A k \in DOMAIN stays[l] : stays[l][k] = "cancelled"
                \/ \E q \in outrun : request[q].step = "provision" /\ Cart[request[q].pos] = l
                                    /\ request'[q] # request[q]]_vars
  BY RowsGrowWhenFree
<1>2. QED BY <1>1, LifecycleInvariant, PTL DEF Spec, StayIsBookedOnce

-----------------------------------------------------------------------------
(***************************************************************************)
(* StayCalendar: a request computes the counts of its nights before it     *)
(* commits, and what it computed is right until another commit changes a   *)
(* night that it has read, of which it is told (Reads, crossed). The       *)
(* invariant says of each request in flight that its rows are still its    *)
(* own to write and lie on nights that it refreshes (Makes, Lays,          *)
(* Cancels), and of a direct booking that its rooms are still left on the  *)
(* nights it holds locked (StillFits).                                     *)
(***************************************************************************)

\* A stay takes rooms of a night; a block lies on one.
CountedAt(stay, k) == stay.status \in Active /\ k \in KeysOf(stay)

BlockKeys(x) == IF x.unit \in Units THEN {UnitType[x.unit]} \X x.nights ELSE {}

LiesOn(x, k) == x.status = "active" /\ k \in BlockKeys(x)

\* The same bookings and blocks count on a night.
SameBooks(A, B, k) ==
    \A b \in Bookings : (CountedAt(A[b], k) <=> CountedAt(B[b], k)) /\ (CountedAt(A[b], k) => A[b].rooms = B[b].rooms)

SameBlocks(L, M, k) ==
    \A l \in Blocks : (LiesOn(L[l], k) <=> LiesOn(M[l], k)) /\ (LiesOn(L[l], k) => L[l].unit = M[l].unit)

RowsTyped ==
    /\ booking \in [Bookings -> Stay]
    /\ block \in [Blocks -> Block]
    /\ \A b \in Bookings : booking[b].status # "none" => booking[b].nights # {}
    /\ \A l \in Blocks : /\ block[l].status = "none" => block[l].unit = Missing
                         /\ block[l].status = "active" => block[l].unit \in Units

WorkShape(w) ==
    /\ w = [make |-> w.make, lay |-> w.lay, cancel |-> w.cancel, sees |-> w.sees, rows |-> w.rows,
            later |-> w.later, entries |-> w.entries, read |-> w.read, crossed |-> w.crossed]
    /\ DOMAIN w.make \subseteq Bookings /\ \A b \in DOMAIN w.make : w.make[b] \in Stay
    /\ DOMAIN w.lay \subseteq Blocks /\ \A l \in DOMAIN w.lay : w.lay[l] \in Block
    /\ w.cancel \subseteq Bookings /\ w.sees \in BOOLEAN /\ w.crossed \in BOOLEAN /\ w.later \subseteq Keys

\* The bookings that w is to make are not there yet, and are on nights that it refreshes.
Makes(w, keys) ==
    \A b \in DOMAIN w.make :
        /\ booking[b].status = "none"
        /\ w.make[b].status # "none" /\ w.make[b].nights # {}
        /\ KeysOf(w.make[b]) \subseteq keys

\* The rooms of a direct booking are still left on each night that it holds, unless somebody has
\* changed the night without a refresh.
StillFits(w) ==
    \A b \in DOMAIN w.make : w.make[b].kind = "direct" =>
        /\ DOMAIN w.make = {b} /\ DOMAIN w.lay = {} /\ w.cancel = {}
        /\ w.rows = KeysOf(w.make[b])
        /\ \A k \in w.rows \ due : Left(booking, block, k) >= w.make[b].rooms

Lays(w, keys) ==
    \A l \in DOMAIN w.lay :
        /\ w.lay[l].status \in {"active", "released"}
        /\ w.lay[l].status = "active" =>
             block[l].status = "none" /\ w.lay[l].unit \in Units /\ BlockKeys(w.lay[l]) \subseteq keys
        /\ w.lay[l].status = "released" => block[l].status # "none"
        /\ block[l].status = "active" => BlockKeys(block[l]) \subseteq keys

Cancels(w, keys) ==
    \A b \in w.cancel : booking[b].status # "none" /\ (~w.crossed => KeysOf(booking[b]) \subseteq keys)

\* What w has read and computed is right until another commit crosses it.
Reads(w) ==
    ~w.crossed =>
        \A k \in DOMAIN w.entries :
            /\ w.read[k] = calendar[k]
            /\ w.sees => w.entries[k] = Computed(BookingsAfter(w), BlocksAfter(w), k)

Known(w) ==
    /\ WorkShape(w) /\ DOMAIN w.entries \subseteq Keys
    /\ Makes(w, DOMAIN w.entries) /\ StillFits(w) /\ Lays(w, DOMAIN w.entries) /\ Cancels(w, DOMAIN w.entries)
    /\ Reads(w)

\* No two requests make the same row.
Differ(v, w) ==
    /\ DOMAIN v.make \cap DOMAIN w.make = {}
    /\ \A l \in (DOMAIN v.lay) \cap (DOMAIN w.lay) : v.lay[l].status = "released" /\ w.lay[l].status = "released"

\* What a handler does, if it does anything.
WorkOf(c) == {handler[c]} \ {Free}

WorkKnown ==
    /\ handler = [c \in Handlers |-> handler[c]]
    /\ \A c \in Handlers : \A w \in WorkOf(c) : Known(w)
    /\ \A c, d \in Handlers : c # d => \A v \in WorkOf(c), w \in WorkOf(d) : Differ(v, w)

CalendarInv == RowsTyped /\ WorkKnown /\ ShownCalendarIsRight

\* What a commit changes counts on nights in keys alone; rows that exist stay, where they are or
\* on nights that it names, and no block comes to life again.
Change(keys) ==
    /\ \A k \in Keys \ keys : /\ SameBooks(booking, booking', k) /\ SameBlocks(block, block', k)
                              /\ TotalUnits(k)' = TotalUnits(k) /\ calendar'[k] = calendar[k]
    /\ \A b \in Bookings : booking[b].status # "none" =>
         /\ booking'[b].status # "none"
         /\ KeysOf(booking'[b]) = KeysOf(booking[b]) \/ KeysOf(booking[b]) \cap keys # {}
    /\ \A l \in Blocks : block[l].status # "none" =>
         /\ block'[l].status # "none"
         /\ block'[l].status = "active" => block'[l] = block[l]

\* It takes no row that w is to make, and none of the nights that w holds stops waiting.
Beside(w, keys) ==
    /\ \A b \in DOMAIN w.make : booking'[b].status = "none"
    /\ \A l \in DOMAIN w.lay : w.lay[l].status = "active" => block'[l].status = "none"
    /\ \A k \in w.rows \ due' : k \notin due /\ k \notin keys

\* A request that has computed nothing yet.
Asked(make, lay, cancel, sees, rows) ==
    [make |-> make, lay |-> lay, cancel |-> cancel, sees |-> sees, rows |-> rows, later |-> {},
     entries |-> <<>>, read |-> <<>>, crossed |-> FALSE]

-----------------------------------------------------------------------------
(* Keys and counts. *)

LEMMA StayKeys == ASSUME NEW s \in Stay PROVE KeysOf(s) \subseteq Keys
BY DEF Stay, KeysOf, Keys, Spans, Span

LEMMA BlockKeysTyped == ASSUME NEW x \in Block PROVE BlockKeys(x) \subseteq Keys
BY TypesAssumption DEF Block, BlockKeys, Keys, Spans, Span

LEMMA SameBooked ==
    ASSUME NEW A, NEW B, NEW k, SameBooks(A, B, k)
    PROVE  BookedRooms(A, k) = BookedRooms(B, k)
<1> DEFINE S == {b \in Bookings : A[b].status \in Active /\ k \in KeysOf(A[b])}
           T == {b \in Bookings : B[b].status \in Active /\ k \in KeysOf(B[b])}
<1>1. S = T BY DEF SameBooks, CountedAt
<1>2. \A b \in S : A[b].rooms = B[b].rooms BY DEF SameBooks, CountedAt
<1>3. RoomsOf(A, S) = RoomsOf(B, S)
  <2> HIDE DEF S
  <2> QED BY <1>2 DEF RoomsOf
<1> QED BY <1>1, <1>3 DEF BookedRooms

LEMMA SameBlocked ==
    ASSUME NEW L, NEW M, NEW k \in Keys, SameBlocks(L, M, k)
    PROVE  BlockedUnits(L, k) = BlockedUnits(M, k)
<1> DEFINE S == {u \in Units : UnitType[u] = k[1]
                     /\ \E l \in Blocks : L[l].status = "active" /\ L[l].unit = u /\ k[2] \in L[l].nights}
           T == {u \in Units : UnitType[u] = k[1]
                     /\ \E l \in Blocks : M[l].status = "active" /\ M[l].unit = u /\ k[2] \in M[l].nights}
<1>1. ASSUME NEW u \in Units, NEW x
      PROVE  (UnitType[u] = k[1] /\ x.status = "active" /\ x.unit = u /\ k[2] \in x.nights)
                 <=> LiesOn(x, k) /\ x.unit = u
  BY DEF LiesOn, BlockKeys, Keys
<1>2. ASSUME NEW u \in Units
      PROVE  (\E l \in Blocks : LiesOn(L[l], k) /\ L[l].unit = u) <=> (\E l \in Blocks : LiesOn(M[l], k) /\ M[l].unit = u)
  BY DEF SameBlocks
<1>3. ASSUME NEW u \in Units PROVE u \in S <=> u \in T
  <2>1. u \in S <=> \E l \in Blocks : LiesOn(L[l], k) /\ L[l].unit = u BY <1>1
  <2>2. u \in T <=> \E l \in Blocks : LiesOn(M[l], k) /\ M[l].unit = u BY <1>1
  <2> QED BY <1>2, <2>1, <2>2
<1>4. S = T BY <1>3
<1> QED BY <1>4 DEF BlockedUnits

LEMMA RoomsFinite ==
    ASSUME NEW A, NEW S \in SUBSET Bookings, \A b \in S : A[b].rooms \in Nat
    PROVE  IsFiniteSet(RoomsOf(A, S)) /\ Cardinality(RoomsOf(A, S)) \in Nat
<1> DEFINE F == {{b} \X (1..A[b].rooms) : b \in S}
           f == [b \in S |-> {b} \X (1..A[b].rooms)]
<1>0. IsFiniteSet(S) BY NumbersAssumption, FS_Subset
<1>1. f \in Surjection(S, F) BY DEF Surjection
<1>2. IsFiniteSet(F)
  <2> HIDE DEF f, F
  <2> QED BY <1>0, <1>1, FS_Surjection
<1>3. \A T \in F : IsFiniteSet(T)
  <2>1. ASSUME NEW b \in S PROVE IsFiniteSet({b} \X (1..A[b].rooms))
    <3>1. IsFiniteSet({b}) BY FS_Singleton
    <3>2. IsFiniteSet(1..A[b].rooms) BY FS_Interval
    <3> QED BY <3>1, <3>2, FS_Product
  <2> QED BY <2>1
<1>4. IsFiniteSet(UNION F)
  <2> HIDE DEF F
  <2> QED BY <1>2, <1>3, FS_UNION
<1>5. IsFiniteSet(RoomsOf(A, S)) BY <1>4 DEF RoomsOf
<1> QED BY <1>5, FS_CardinalityType

LEMMA BookedTyped ==
    ASSUME NEW A \in [Bookings -> Stay], NEW k
    PROVE  BookedRooms(A, k) \in Nat
<1> DEFINE S == {b \in Bookings : A[b].status \in Active /\ k \in KeysOf(A[b])}
<1>1. \A b \in S : A[b].rooms \in Nat BY NumbersAssumption DEF Stay
<1>2. S \in SUBSET Bookings OBVIOUS
<1>3. BookedRooms(A, k) = Cardinality(RoomsOf(A, S)) BY DEF BookedRooms
<1> HIDE DEF S
<1> QED BY <1>1, <1>2, <1>3, RoomsFinite

LEMMA UnitsTyped == \A k : TotalUnits(k) \in Nat /\ \A L : BlockedUnits(L, k) \in Nat
<1>1. ASSUME NEW S \in SUBSET Units PROVE Cardinality(S) \in Nat
  BY NumbersAssumption, FS_Subset, FS_CardinalityType
<1>2. ASSUME NEW k PROVE TotalUnits(k) \in Nat
  <2> DEFINE S == {u \in Units : unit[u] = "open" /\ UnitType[u] = k[1]}
  <2>1. S \in SUBSET Units OBVIOUS
  <2> HIDE DEF S
  <2>2. Cardinality(S) \in Nat BY <1>1, <2>1
  <2> QED BY <2>2 DEF S, TotalUnits
<1>3. ASSUME NEW k, NEW L PROVE BlockedUnits(L, k) \in Nat
  <2> DEFINE S == {u \in Units : UnitType[u] = k[1]
                     /\ \E l \in Blocks : L[l].status = "active" /\ L[l].unit = u /\ k[2] \in L[l].nights}
  <2>1. S \in SUBSET Units OBVIOUS
  <2> HIDE DEF S
  <2>2. Cardinality(S) \in Nat BY <1>1, <2>1
  <2> QED BY <2>2 DEF S, BlockedUnits
<1> QED BY <1>2, <1>3

\* One more booking takes its rooms more.
LEMMA OneMoreBooked ==
    ASSUME NEW A \in [Bookings -> Stay], NEW B \in [Bookings -> Stay], NEW k, NEW b \in Bookings,
           ~CountedAt(A[b], k), CountedAt(B[b], k), \A c \in Bookings \ {b} : A[c] = B[c]
    PROVE  BookedRooms(B, k) = BookedRooms(A, k) + B[b].rooms
<1> DEFINE S == {c \in Bookings : A[c].status \in Active /\ k \in KeysOf(A[c])}
           T == {c \in Bookings : B[c].status \in Active /\ k \in KeysOf(B[c])}
           X == {b} \X (1..B[b].rooms)
<1>1. T = S \cup {b} /\ b \notin S BY DEF CountedAt
<1>2. BookedRooms(A, k) = Cardinality(RoomsOf(A, S)) /\ BookedRooms(B, k) = Cardinality(RoomsOf(B, T))
  BY DEF BookedRooms
<1>3. S \in SUBSET Bookings /\ \A c \in S : A[c].rooms \in Nat BY NumbersAssumption DEF Stay
<1>4. \A c \in S : A[c].rooms = B[c].rooms BY <1>1
<1>5. B[b].rooms \in Nat BY NumbersAssumption DEF Stay
<1> HIDE DEF S, T
<1>6. IsFiniteSet(RoomsOf(A, S)) BY <1>3, RoomsFinite
<1>7. IsFiniteSet(X) /\ Cardinality(X) = B[b].rooms
  <2>1. IsFiniteSet({b}) /\ Cardinality({b}) = 1 BY FS_Singleton
  <2>2. ASSUME NEW n \in Nat PROVE IsFiniteSet({b} \X (1..n)) /\ Cardinality({b} \X (1..n)) = n
    <3>1. IsFiniteSet(1..n) /\ Cardinality(1..n) = n BY FS_Interval
    <3> DEFINE P == {b}  Q == 1..n
    <3>2. IsFiniteSet(P) /\ Cardinality(P) = 1 /\ IsFiniteSet(Q) /\ Cardinality(Q) = n BY <2>1, <3>1
    <3> HIDE DEF P, Q
    <3>3. IsFiniteSet(P \X Q) /\ Cardinality(P \X Q) = 1 * n BY <3>2, FS_Product
    <3> QED BY <3>3 DEF P, Q
  <2> QED BY <1>5, <2>2
<1>8. RoomsOf(B, T) = RoomsOf(A, S) \cup X
  <2>1. RoomsOf(B, T) = RoomsOf(B, S) \cup X BY <1>1 DEF RoomsOf
  <2>2. RoomsOf(B, S) = RoomsOf(A, S) BY <1>4 DEF RoomsOf
  <2> QED BY <2>1, <2>2
<1>9. RoomsOf(A, S) \cap X = {} BY <1>1 DEF RoomsOf
<1> HIDE DEF X
<1>10. Cardinality(RoomsOf(A, S) \cap X) = 0 BY <1>9, FS_EmptySet
<1>11. Cardinality(RoomsOf(A, S)) \in Nat BY <1>3, RoomsFinite
<1>12. Cardinality(RoomsOf(A, S) \cup X)
         = Cardinality(RoomsOf(A, S)) + Cardinality(X) - Cardinality(RoomsOf(A, S) \cap X)
  <2> DEFINE P == RoomsOf(A, S)
  <2>1. IsFiniteSet(P) BY <1>6
  <2> HIDE DEF P
  <2>2. Cardinality(P \cup X) = Cardinality(P) + Cardinality(X) - Cardinality(P \cap X)
    BY <1>7, <2>1, FS_Union
  <2> QED BY <2>2 DEF P
<1> QED BY <1>2, <1>5, <1>7, <1>8, <1>10, <1>11, <1>12

\* What is computed depends on what counts on the night alone.
LEMMA SameComputed ==
    ASSUME NEW A, NEW B, NEW L, NEW M, NEW k \in Keys, SameBooks(A, B, k), SameBlocks(L, M, k)
    PROVE  Left(A, L, k) = Left(B, M, k) /\ Computed(A, L, k) = Computed(B, M, k)
BY SameBooked, SameBlocked DEF Left, Computed

LEMMA NextComputed ==
    ASSUME NEW A, NEW B, NEW L, NEW M, NEW k \in Keys, TotalUnits(k)' = TotalUnits(k),
           SameBooks(A, B, k), SameBlocks(L, M, k)
    PROVE  Left(B, M, k)' = Left(A, L, k) /\ Computed(B, M, k)' = Computed(A, L, k)
<1>1. Left(B, M, k)' = Left(B, M, k) /\ Computed(B, M, k)' = Computed(B, M, k) BY DEF Left, Computed
<1> QED BY <1>1, SameComputed

-----------------------------------------------------------------------------
(* What one handler commits, and what the others have prepared. *)

\* The rows of w, over the world as it is and as it comes to be, count the same where the worlds do.
LEMMA AfterSame ==
    ASSUME RowsTyped, RowsTyped', NEW w, WorkShape(w), NEW k \in Keys,
           SameBooks(booking, booking', k), SameBlocks(block, block', k)
    PROVE  /\ SameBooks(BookingsAfter(w), BookingsAfter(w)', k)
           /\ SameBlocks(BlocksAfter(w), BlocksAfter(w)', k)
<1>1. ASSUME NEW b \in Bookings
      PROVE  /\ CountedAt(BookingsAfter(w)[b], k) <=> CountedAt(BookingsAfter(w)'[b], k)
             /\ CountedAt(BookingsAfter(w)[b], k) => BookingsAfter(w)[b].rooms = BookingsAfter(w)'[b].rooms
  <2>1. CASE b \in DOMAIN w.make
    <3>1. BookingsAfter(w)[b] = w.make[b] /\ BookingsAfter(w)'[b] = w.make[b] BY <2>1 DEF BookingsAfter
    <3> QED BY <3>1
  <2>2. CASE b \notin DOMAIN w.make /\ b \in w.cancel
    <3>1. /\ BookingsAfter(w)[b] = [booking[b] EXCEPT !.status = "cancelled"]
          /\ BookingsAfter(w)'[b] = [booking'[b] EXCEPT !.status = "cancelled"]
      BY <2>2 DEF BookingsAfter
    <3>2. booking[b] \in Stay /\ booking'[b] \in Stay BY DEF RowsTyped
    <3>3. BookingsAfter(w)[b].status = "cancelled" /\ BookingsAfter(w)'[b].status = "cancelled"
      BY <3>1, <3>2 DEF Stay
    <3> QED BY <3>3 DEF CountedAt, Active
  <2>3. CASE b \notin DOMAIN w.make /\ b \notin w.cancel
    <3>1. BookingsAfter(w)[b] = booking[b] /\ BookingsAfter(w)'[b] = booking'[b] BY <2>3 DEF BookingsAfter
    <3> QED BY <3>1 DEF SameBooks
  <2> QED BY <2>1, <2>2, <2>3
<1>2. ASSUME NEW l \in Blocks
      PROVE  /\ LiesOn(BlocksAfter(w)[l], k) <=> LiesOn(BlocksAfter(w)'[l], k)
             /\ LiesOn(BlocksAfter(w)[l], k) => BlocksAfter(w)[l].unit = BlocksAfter(w)'[l].unit
  <2>1. CASE l \in DOMAIN w.lay
    <3>1. BlocksAfter(w)[l] = w.lay[l] /\ BlocksAfter(w)'[l] = w.lay[l] BY <2>1 DEF BlocksAfter
    <3> QED BY <3>1
  <2>2. CASE l \notin DOMAIN w.lay
    <3>1. BlocksAfter(w)[l] = block[l] /\ BlocksAfter(w)'[l] = block'[l] BY <2>2 DEF BlocksAfter
    <3> QED BY <3>1 DEF SameBlocks
  <2> QED BY <2>1, <2>2
<1> QED BY <1>1, <1>2 DEF SameBooks, SameBlocks

\* Another commit leaves what w has prepared as good as it was, or w knows that it was crossed.
LEMMA OthersKeep ==
    ASSUME RowsTyped, RowsTyped', NEW w, NEW n, NEW keys, Known(w), Change(keys), Beside(w, keys),
           n = w \/ n = [w EXCEPT !.crossed = TRUE],
           DOMAIN w.entries \cap keys # {} => n = [w EXCEPT !.crossed = TRUE]
    PROVE  Known(n)' /\ n.make = w.make /\ n.lay = w.lay
<1>1. WorkShape(w) /\ DOMAIN w.entries \subseteq Keys BY DEF Known
<1>2. /\ n = [make |-> w.make, lay |-> w.lay, cancel |-> w.cancel, sees |-> w.sees, rows |-> w.rows,
              later |-> w.later, entries |-> w.entries, read |-> w.read, crossed |-> n.crossed]
      /\ n.crossed = w.crossed \/ n.crossed = TRUE
      /\ DOMAIN w.entries \cap keys # {} => n.crossed = TRUE
  <2>2. w = [make |-> w.make, lay |-> w.lay, cancel |-> w.cancel, sees |-> w.sees, rows |-> w.rows,
              later |-> w.later, entries |-> w.entries, read |-> w.read, crossed |-> w.crossed]
    BY <1>1 DEF WorkShape
  <2>4. CASE n = w /\ DOMAIN w.entries \cap keys = {}
    <3>1. ASSUME NEW v, NEW m, m = v,
                 v = [make |-> w.make, lay |-> w.lay, cancel |-> w.cancel, sees |-> w.sees, rows |-> w.rows,
                      later |-> w.later, entries |-> w.entries, read |-> w.read, crossed |-> v.crossed]
          PROVE  m = [make |-> w.make, lay |-> w.lay, cancel |-> w.cancel, sees |-> w.sees, rows |-> w.rows,
                      later |-> w.later, entries |-> w.entries, read |-> w.read, crossed |-> m.crossed]
      BY <3>1
    <3> QED BY <2>2, <2>4, <3>1
  <2>5. CASE n = [w EXCEPT !.crossed = TRUE]
    <3>1. ASSUME NEW v, NEW t, NEW m, m = [v EXCEPT !.crossed = TRUE],
                 v = [make |-> w.make, lay |-> w.lay, cancel |-> w.cancel, sees |-> w.sees, rows |-> w.rows,
                      later |-> w.later, entries |-> w.entries, read |-> w.read, crossed |-> t]
          PROVE  m = [make |-> w.make, lay |-> w.lay, cancel |-> w.cancel, sees |-> w.sees, rows |-> w.rows,
                      later |-> w.later, entries |-> w.entries, read |-> w.read, crossed |-> TRUE]
      BY <3>1
    <3>2. n = [make |-> w.make, lay |-> w.lay, cancel |-> w.cancel, sees |-> w.sees, rows |-> w.rows,
               later |-> w.later, entries |-> w.entries, read |-> w.read, crossed |-> TRUE]
      <4>1. PICK v, t : v = w /\ t = w.crossed OBVIOUS
      <4> QED BY <2>2, <2>5, <3>1, <4>1
    <3> QED BY <3>2
  <2> QED BY <2>4, <2>5
<1>3. /\ n.make = w.make /\ n.lay = w.lay /\ n.cancel = w.cancel /\ n.sees = w.sees /\ n.rows = w.rows
      /\ n.later = w.later /\ n.entries = w.entries /\ n.read = w.read
  BY <1>2
<1>4. WorkShape(n)' BY <1>1, <1>2, <1>3 DEF WorkShape
<1>5. Makes(n, DOMAIN n.entries)' BY <1>3 DEF Known, Makes, Beside
<1>6. StillFits(n)'
  <2> SUFFICES ASSUME NEW b \in DOMAIN w.make, w.make[b].kind = "direct"
               PROVE  /\ DOMAIN w.make = {b} /\ DOMAIN w.lay = {} /\ w.cancel = {}
                      /\ w.rows = KeysOf(w.make[b])
                      /\ \A k \in w.rows \ due' : Left(booking, block, k)' >= w.make[b].rooms
    BY <1>3 DEF StillFits
  <2>1. /\ DOMAIN w.make = {b} /\ DOMAIN w.lay = {} /\ w.cancel = {}
        /\ w.rows = KeysOf(w.make[b])
        /\ \A k \in w.rows \ due : Left(booking, block, k) >= w.make[b].rooms
    BY DEF Known, StillFits
  <2>2. ASSUME NEW k \in w.rows \ due' PROVE Left(booking, block, k)' >= w.make[b].rooms
    <3>1. k \notin due /\ k \notin keys BY DEF Beside
    <3>2. k \in Keys BY <1>1, <2>1 DEF Known, Makes
    <3>3. Left(booking, block, k)' = Left(booking, block, k)
      BY <3>1, <3>2, NextComputed DEF Change
    <3> QED BY <2>1, <3>1, <3>3
  <2> QED BY <2>1, <2>2
<1>7. Lays(n, DOMAIN n.entries)' BY <1>1, <1>3 DEF Known, Lays, Beside, Change, WorkShape
<1>8. Cancels(n, DOMAIN n.entries)' BY <1>1, <1>2, <1>3 DEF Known, Cancels, Change, WorkShape
<1>9. Reads(n)'
  <2> SUFFICES ASSUME ~n.crossed, NEW k \in DOMAIN w.entries
               PROVE  /\ w.read[k] = calendar'[k]
                      /\ w.sees => w.entries[k] = Computed(BookingsAfter(n), BlocksAfter(n), k)'
    BY <1>3 DEF Reads
  <2>1. ~w.crossed /\ k \in Keys \ keys BY <1>1, <1>2
  <2>2. /\ w.read[k] = calendar[k]
        /\ w.sees => w.entries[k] = Computed(BookingsAfter(w), BlocksAfter(w), k)
    BY <2>1 DEF Known, Reads
  <2>3. BookingsAfter(n)' = BookingsAfter(w)' /\ BlocksAfter(n)' = BlocksAfter(w)'
    BY <1>3 DEF BookingsAfter, BlocksAfter
  <2>4. PICK B, M : B = BookingsAfter(w)' /\ M = BlocksAfter(w)' OBVIOUS
  <2>5. SameBooks(booking, booking', k) /\ SameBlocks(block, block', k) /\ TotalUnits(k)' = TotalUnits(k)
        /\ calendar'[k] = calendar[k]
    BY <2>1 DEF Change
  <2>6. SameBooks(BookingsAfter(w), B, k) /\ SameBlocks(BlocksAfter(w), M, k)
    BY <1>1, <2>4, <2>5, AfterSame
  <2>7. Computed(B, M, k)' = Computed(BookingsAfter(w), BlocksAfter(w), k)
    BY <1>1, <2>5, <2>6, NextComputed
  <2>8. Computed(BookingsAfter(n), BlocksAfter(n), k)' = Computed(B, M, k)' BY <2>3, <2>4
  <2> QED BY <2>2, <2>5, <2>7, <2>8
<1> QED BY <1>1, <1>3, <1>4, <1>5, <1>6, <1>7, <1>8, <1>9 DEF Known

\* A step keeps the invariant when it changes no more than keys, crosses whoever has read them,
\* and leaves right or waiting what it changes; by: the handler that takes it, if any.
LEMMA WorldMoves ==
    ASSUME CalendarInv, RowsTyped', NEW by, NEW keys, Change(keys),
           handler' = [c \in Handlers |-> handler'[c]],
           \A x \in Handlers \ by : handler'[x] = Crossing(by, keys)[x],
           \A x \in Handlers \ by : \A w \in WorkOf(x) : Beside(w, keys),
           \A c \in Handlers \cap by : \A n \in WorkOf(c)' :
               Known(n)' /\ \A x \in Handlers \ by : \A w \in WorkOf(x) : Differ(n, w),
           \A c, d \in Handlers \cap by : c = d,
           \A k \in Keys \ (due' \cup keys) : k \notin due,
           \A k \in (Keys \cap keys) \ due' : Shown(k)' = Computed(booking, block, k)'
    PROVE  CalendarInv'
<1> USE DEF CalendarInv
<1>1. ASSUME NEW x \in Handlers \ by, NEW n \in WorkOf(x)'
      PROVE  Known(n)' /\ \E w \in WorkOf(x) : n.make = w.make /\ n.lay = w.lay
  <2>1. n = handler'[x] /\ n # Free BY DEF WorkOf
  <2>2. /\ n = handler[x] \/ n = [handler[x] EXCEPT !.crossed = TRUE]
        /\ handler[x] # Free
        /\ DOMAIN handler[x].entries \cap keys # {} => n = [handler[x] EXCEPT !.crossed = TRUE]
    BY <2>1 DEF Crossing
  <2>3. PICK w : w = handler[x] OBVIOUS
  <2>4. w \in WorkOf(x) /\ Known(w) /\ Beside(w, keys) BY <2>2, <2>3 DEF WorkOf, WorkKnown
  <2>5. Known(n)' /\ n.make = w.make /\ n.lay = w.lay BY <2>2, <2>3, <2>4, OthersKeep
  <2> QED BY <2>4, <2>5
<1>2. WorkKnown'
  <2>1. ASSUME NEW c \in Handlers, NEW n \in WorkOf(c)' PROVE Known(n)'
    BY <1>1
  <2>2. ASSUME NEW c \in Handlers, NEW d \in Handlers, c # d, NEW m \in WorkOf(c)', NEW n \in WorkOf(d)'
        PROVE  Differ(m, n)
    <3>1. CASE c \notin by /\ d \notin by
      <4>1. PICK v \in WorkOf(c) : m.make = v.make /\ m.lay = v.lay BY <1>1, <3>1
      <4>2. PICK w \in WorkOf(d) : n.make = w.make /\ n.lay = w.lay BY <1>1, <3>1
      <4>3. Differ(v, w) BY <2>2 DEF WorkKnown
      <4> QED BY <4>1, <4>2, <4>3 DEF Differ
    <3>2. CASE c \in by /\ d \notin by
      <4>1. PICK w \in WorkOf(d) : n.make = w.make /\ n.lay = w.lay BY <1>1, <3>2
      <4>2. Differ(m, w) BY <3>2
      <4> QED BY <4>1, <4>2 DEF Differ
    <3>3. CASE c \notin by /\ d \in by
      <4>1. PICK v \in WorkOf(c) : m.make = v.make /\ m.lay = v.lay BY <1>1, <3>3
      <4>2. Differ(n, v) BY <3>3
      <4> QED BY <4>1, <4>2 DEF Differ
    <3> QED BY <2>2, <3>1, <3>2, <3>3
  <2> QED BY <2>1, <2>2 DEF WorkKnown
<1>3. ShownCalendarIsRight'
  <2> SUFFICES ASSUME NEW k \in Keys \ due' PROVE Shown(k)' = Computed(booking, block, k)'
    BY DEF ShownCalendarIsRight
  <2>1. CASE k \in keys BY <2>1
  <2>2. CASE k \notin keys
    <3>1. Shown(k) = Computed(booking, block, k) BY <2>2 DEF ShownCalendarIsRight
    <3>2. SameBooks(booking, booking', k) /\ SameBlocks(block, block', k) /\ TotalUnits(k)' = TotalUnits(k)
          /\ calendar'[k] = calendar[k]
      BY <2>2 DEF Change
    <3>3. PICK B, M : B = booking' /\ M = block' OBVIOUS
    <3>4. Computed(B, M, k)' = Computed(booking, block, k) BY <3>2, <3>3, NextComputed
    <3>5. Computed(booking, block, k)' = Computed(B, M, k)' BY <3>3
    <3> QED BY <3>1, <3>2, <3>4, <3>5 DEF Shown
  <2> QED BY <2>1, <2>2
<1> QED BY <1>2, <1>3

LEMMA InitialCalendar == InitCalendar => CalendarInv
<1> SUFFICES ASSUME InitCalendar PROVE CalendarInv OBVIOUS
<1> USE DEF InitCalendar
<1>1. NoStay \in Stay /\ NoStay.status = "none" BY NumbersAssumption, TypesAssumption DEF NoStay, Stay, Status
<1>2. NoBlock \in Block /\ NoBlock.unit = Missing /\ NoBlock.status = "none" BY DEF NoBlock, Block
<1>3. RowsTyped BY <1>1, <1>2 DEF RowsTyped
<1>4. WorkKnown BY DEF WorkKnown, WorkOf
<1>5. ShownCalendarIsRight BY DEF ShownCalendarIsRight, Shown
<1> QED BY <1>3, <1>4, <1>5 DEF CalendarInv

-----------------------------------------------------------------------------
(* Handlers that compute. *)

\* The record of a request with its entries.
LEMMA WithEntries ==
    ASSUME NEW w, NEW n, NEW e, NEW r, WorkShape(w), n = [w EXCEPT !.entries = e, !.read = r]
    PROVE  n = [make |-> w.make, lay |-> w.lay, cancel |-> w.cancel, sees |-> w.sees, rows |-> w.rows,
                later |-> w.later, entries |-> e, read |-> r, crossed |-> w.crossed]
<1>1. PICK a : a = [w EXCEPT !.entries = e] OBVIOUS
<1>2. ASSUME NEW v, NEW m, NEW x, NEW t, m = [v EXCEPT !.entries = x],
             v = [make |-> w.make, lay |-> w.lay, cancel |-> w.cancel, sees |-> w.sees, rows |-> w.rows,
                  later |-> w.later, entries |-> t, read |-> w.read, crossed |-> w.crossed]
      PROVE  m = [make |-> w.make, lay |-> w.lay, cancel |-> w.cancel, sees |-> w.sees, rows |-> w.rows,
                  later |-> w.later, entries |-> x, read |-> w.read, crossed |-> w.crossed]
  BY <1>2
<1>3. a = [make |-> w.make, lay |-> w.lay, cancel |-> w.cancel, sees |-> w.sees, rows |-> w.rows,
           later |-> w.later, entries |-> e, read |-> w.read, crossed |-> w.crossed]
  <2>1. PICK v, t : v = w /\ t = w.entries OBVIOUS
  <2>2. v = [make |-> w.make, lay |-> w.lay, cancel |-> w.cancel, sees |-> w.sees, rows |-> w.rows,
             later |-> w.later, entries |-> t, read |-> w.read, crossed |-> w.crossed]
    BY <2>1 DEF WorkShape
  <2>3. a = [v EXCEPT !.entries = e] BY <1>1, <2>1
  <2> QED BY <1>2, <2>2, <2>3
<1>4. n = [a EXCEPT !.read = r] BY <1>1
<1> HIDE <1>1, <1>2
<1> QED BY <1>3, <1>4

LEMMA ComputeMoves ==
    ASSUME CalendarInv, NEW c \in Handlers, NEW w, NEW keys \in SUBSET Keys, Compute(c, w, keys), WorkShape(w),
           Makes(w, keys), StillFits(w), Lays(w, keys), Cancels(w, keys),
           \A x \in Handlers \ {c} : \A v \in WorkOf(x) : Differ(w, v)
    PROVE  CalendarInv'
<1>1. unit' = unit /\ booking' = booking /\ block' = block /\ calendar' = calendar /\ due' = due
  BY DEF Compute, world
<1>2. PICK e, r : /\ e = [k \in keys |-> Computed(IF w.sees THEN BookingsAfter(w) ELSE booking,
                                                  IF w.sees THEN BlocksAfter(w) ELSE block, k)]
                  /\ r = [k \in keys |-> calendar[k]]
  OBVIOUS
<1>3. handler' = [handler EXCEPT ![c] = [w EXCEPT !.entries = e, !.read = r]] BY <1>2 DEF Compute
<1>4. handler = [x \in Handlers |-> handler[x]] BY DEF CalendarInv, WorkKnown
<1>5. /\ handler' = [x \in Handlers |-> handler'[x]]
      /\ handler'[c] = [w EXCEPT !.entries = e, !.read = r]
      /\ \A x \in Handlers \ {c} : handler'[x] = handler[x]
  BY <1>3, <1>4
<1>6. ASSUME NEW n \in WorkOf(c)'
      PROVE  Known(n)' /\ \A x \in Handlers \ {c} : \A v \in WorkOf(x) : Differ(n, v)
  <2>1. n = [w EXCEPT !.entries = e, !.read = r] BY <1>5 DEF WorkOf
  <2>2. n = [make |-> w.make, lay |-> w.lay, cancel |-> w.cancel, sees |-> w.sees, rows |-> w.rows,
             later |-> w.later, entries |-> e, read |-> r, crossed |-> w.crossed]
    BY <2>1, WithEntries
  <2>3. /\ n.make = w.make /\ n.lay = w.lay /\ n.cancel = w.cancel /\ n.sees = w.sees /\ n.rows = w.rows
        /\ n.later = w.later /\ n.entries = e /\ n.read = r /\ n.crossed = w.crossed
    BY <2>2
  <2>4. DOMAIN e = keys /\ DOMAIN r = keys BY <1>2
  <2>5. WorkShape(n)' BY <2>2, <2>3 DEF WorkShape
  <2>6. Makes(n, DOMAIN n.entries)' BY <1>1, <2>3, <2>4 DEF Makes
  <2>7. StillFits(n)' BY <1>1, <2>3 DEF StillFits, Left, TotalUnits
  <2>8. Lays(n, DOMAIN n.entries)' BY <1>1, <2>3, <2>4 DEF Lays
  <2>9. Cancels(n, DOMAIN n.entries)' BY <1>1, <2>3, <2>4 DEF Cancels
  <2>10. Reads(n)'
    <3>1. BookingsAfter(n)' = BookingsAfter(w) /\ BlocksAfter(n)' = BlocksAfter(w)
      BY <1>1, <2>3 DEF BookingsAfter, BlocksAfter
    <3> SUFFICES ASSUME NEW k \in keys, w.sees
                 PROVE  e[k] = Computed(BookingsAfter(n), BlocksAfter(n), k)'
      BY <1>1, <1>2, <2>3, <2>4 DEF Reads
    <3>2. PICK B, M : B = BookingsAfter(w) /\ M = BlocksAfter(w) OBVIOUS
    <3>3. e[k] = Computed(B, M, k) BY <1>2, <3>2
    <3>4. Computed(BookingsAfter(n), BlocksAfter(n), k)' = Computed(B, M, k)' BY <3>1, <3>2
    <3>5. Computed(B, M, k)' = Computed(B, M, k) BY <1>1 DEF Computed, Left, TotalUnits
    <3> QED BY <3>3, <3>4, <3>5
  <2>11. \A x \in Handlers \ {c} : \A v \in WorkOf(x) : Differ(n, v) BY <2>3 DEF Differ
  <2> QED BY <2>3, <2>4, <2>5, <2>6, <2>7, <2>8, <2>9, <2>10, <2>11 DEF Known
<1>7. Change({}) BY <1>1 DEF Change, SameBooks, SameBlocks, TotalUnits
<1>8. ASSUME NEW x \in Handlers \ {c}, NEW v \in WorkOf(x) PROVE Beside(v, {})
  <2>1. Known(v) BY DEF CalendarInv, WorkKnown
  <2> QED BY <1>1, <2>1 DEF Known, Makes, Lays, Beside
<1>9. RowsTyped' BY <1>1 DEF CalendarInv, RowsTyped
<1>10. \A x \in Handlers \ {c} : handler'[x] = Crossing({c}, {})[x] BY <1>5 DEF Crossing
<1>11. \A x \in Handlers \ {c} : \A v \in WorkOf(x) : Beside(v, {}) BY <1>8
<1>12. \A d \in Handlers \cap {c} : \A n \in WorkOf(d)' :
          Known(n)' /\ \A x \in Handlers \ {c} : \A v \in WorkOf(x) : Differ(n, v)
  BY <1>6
<1>13. \A k \in Keys \ (due' \cup {}) : k \notin due BY <1>1
<1> QED BY <1>5, <1>7, <1>9, <1>10, <1>11, <1>12, <1>13, WorldMoves

-----------------------------------------------------------------------------
(* Changes without a refresh. *)

LEMMA NothingIs ==
    ASSUME NEW later, NEW n, n = [Nothing EXCEPT !.later = later]
    PROVE  /\ n = [make |-> <<>>, lay |-> <<>>, cancel |-> {}, sees |-> TRUE, rows |-> {}, later |-> later,
                   entries |-> <<>>, read |-> <<>>, crossed |-> FALSE]
           /\ DOMAIN <<>> = {}
<1>1. PICK v : v = Nothing OBVIOUS
<1>2. v = [make |-> <<>>, lay |-> <<>>, cancel |-> {}, sees |-> TRUE, rows |-> {}, later |-> {},
           entries |-> <<>>, read |-> <<>>, crossed |-> FALSE]
  BY <1>1 DEF Nothing
<1>3. n = [v EXCEPT !.later = later] BY <1>1
<1>4. DOMAIN <<>> = {} OBVIOUS
<1> QED BY <1>2, <1>3, <1>4

LEMMA SilentMoves ==
    ASSUME CalendarInv, RowsTyped', NEW c \in Handlers, NEW keys, NEW later \in SUBSET Keys,
           Silently(c, keys, later), Change(keys),
           \A x \in Handlers \ {c} : \A w \in WorkOf(x) :
               /\ \A b \in DOMAIN w.make : booking'[b].status = "none"
               /\ \A l \in DOMAIN w.lay : w.lay[l].status = "active" => block'[l].status = "none"
    PROVE  CalendarInv'
<1>1. due' = due \cup keys /\ calendar' = calendar BY DEF Silently
<1>2. PICK m : m = [Nothing EXCEPT !.later = later] OBVIOUS
<1>3. /\ handler' = [x \in Handlers |-> handler'[x]]
      /\ handler'[c] = Free \/ handler'[c] = m
      /\ \A x \in Handlers \ {c} : handler'[x] = Crossing({c}, keys)[x]
  BY <1>2 DEF Silently, Crossing
<1>4. ASSUME NEW n \in WorkOf(c)'
      PROVE  Known(n)' /\ \A x \in Handlers \ {c} : \A w \in WorkOf(x) : Differ(n, w)
  <2>1. n = m BY <1>3 DEF WorkOf
  <2>2. /\ n = [make |-> <<>>, lay |-> <<>>, cancel |-> {}, sees |-> TRUE, rows |-> {}, later |-> later,
                entries |-> <<>>, read |-> <<>>, crossed |-> FALSE]
        /\ DOMAIN <<>> = {}
    BY <1>2, <2>1, NothingIs
  <2>3. /\ n.make = <<>> /\ n.lay = <<>> /\ n.cancel = {} /\ n.sees = TRUE /\ n.rows = {} /\ n.later = later
        /\ n.entries = <<>> /\ n.read = <<>> /\ n.crossed = FALSE
    BY <2>2
  <2>4. WorkShape(n)' BY <2>2, <2>3 DEF WorkShape
  <2>5. Known(n)' BY <2>2, <2>3, <2>4 DEF Known, Makes, StillFits, Lays, Cancels, Reads
  <2> QED BY <2>2, <2>3, <2>5 DEF Differ
<1>5. \A x \in Handlers \ {c} : \A w \in WorkOf(x) : Beside(w, keys) BY <1>1 DEF Beside
<1>6. \A d \in Handlers \cap {c} : \A n \in WorkOf(d)' :
          Known(n)' /\ \A x \in Handlers \ {c} : \A w \in WorkOf(x) : Differ(n, w)
  BY <1>4
<1>7. \A k \in Keys \ (due' \cup keys) : k \notin due BY <1>1
<1>8. \A k \in (Keys \cap keys) \ due' : Shown(k)' = Computed(booking, block, k)' BY <1>1
<1> QED BY <1>3, <1>5, <1>6, <1>7, <1>8, WorldMoves

-----------------------------------------------------------------------------
(* Requests that begin. *)

LEMMA NoRows == DOMAIN <<>> = {}
OBVIOUS

\* The requests that compute before they commit.
LEMMA NewRequests ==
    ASSUME NEW x, NEW m
    PROVE  /\ m = [Nothing EXCEPT !.make = x, !.sees = FALSE] => m = Asked(x, <<>>, {}, FALSE, {})
           /\ m = [Nothing EXCEPT !.cancel = x] => m = Asked(<<>>, <<>>, x, TRUE, {})
           /\ m = [Nothing EXCEPT !.lay = x] => m = Asked(<<>>, x, {}, TRUE, {})
           /\ m = [Nothing EXCEPT !.lay = x, !.sees = FALSE] => m = Asked(<<>>, x, {}, FALSE, {})
           /\ Nothing = Asked(<<>>, <<>>, {}, TRUE, {})
<1>1. PICK v : v = Nothing OBVIOUS
<1>2. v = Asked(<<>>, <<>>, {}, TRUE, {}) BY <1>1 DEF Nothing, Asked
<1>3. PICK p : p = [v EXCEPT !.make = x] OBVIOUS
<1>4. PICK q : q = [v EXCEPT !.lay = x] OBVIOUS
<1>5. p = Asked(x, <<>>, {}, TRUE, {}) /\ q = Asked(<<>>, x, {}, TRUE, {}) BY <1>2, <1>3, <1>4 DEF Asked
<1>6. m = [p EXCEPT !.sees = FALSE] => m = Asked(x, <<>>, {}, FALSE, {}) BY <1>5 DEF Asked
<1>8. m = [q EXCEPT !.sees = FALSE] => m = Asked(<<>>, x, {}, FALSE, {}) BY <1>5 DEF Asked
<1>9. m = [v EXCEPT !.cancel = x] => m = Asked(<<>>, <<>>, x, TRUE, {}) BY <1>2 DEF Asked
<1> QED BY <1>1, <1>2, <1>3, <1>4, <1>5, <1>6, <1>8, <1>9

LEMMA NotTaken ==
    ASSUME NEW b \in Bookings, b \notin Taken
    PROVE  booking[b].status = "none" /\ \A x \in Handlers : \A w \in WorkOf(x) : b \notin DOMAIN w.make
BY DEF Taken, WorkOf

LEMMA NewStays ==
    ASSUME NEW asked \in [type: Types, nights: Spans, rooms: Rooms], NEW kind \in Kinds,
           NEW newStatus \in Status \ {"none"}, NEW s, s = As(kind, newStatus, asked)
    PROVE  s \in Stay /\ s.status = newStatus /\ s.kind = kind /\ s.nights # {} /\ s.nights \in Spans
           /\ s.nights \subseteq Nights /\ s.type \in Types /\ s.rooms \in Nat /\ KeysOf(s) \subseteq Keys
<1>1. s \in Stay /\ s.status = newStatus /\ s.kind = kind /\ s.nights = asked.nights /\ s.type = asked.type
      /\ s.rooms = asked.rooms
  <2>1. s = [status |-> newStatus, kind |-> kind, type |-> asked.type, nights |-> asked.nights, rooms |-> asked.rooms]
    BY DEF As
  <2>2. asked.type \in Types /\ asked.nights \in Spans /\ asked.rooms \in Rooms OBVIOUS
  <2> QED BY <2>1, <2>2 DEF Stay
<1>2. asked.nights \in Spans /\ asked.type \in Types /\ asked.rooms \in Rooms OBVIOUS
<1>3. ASSUME NEW nights \in Spans PROVE nights # {} /\ nights \subseteq Nights BY DEF Spans, Span
<1>4. s.rooms \in Nat BY <1>1, <1>2, NumbersAssumption
<1>5. KeysOf(s) \subseteq Keys BY <1>1, StayKeys
<1> QED BY <1>1, <1>2, <1>3, <1>4, <1>5

LEMMA CreateBookingKeeps ==
    ASSUME CalendarInv, NEW c \in Handlers, NEW b \in Bookings,
           NEW asked \in [type: Types, nights: Spans, rooms: Rooms],
           CreateBooking(c, b, As("desk", "confirmed", asked))
    PROVE  CalendarInv'
<1>1. PICK s : s = As("desk", "confirmed", asked) OBVIOUS
<1>2. PICK w : w = [Nothing EXCEPT !.make = Row(b, s), !.sees = FALSE] OBVIOUS
<1>3. s.kind \in Kinds /\ b \notin Taken /\ Compute(c, w, KeysOf(s))
  BY <1>1, <1>2 DEF CreateBooking, NewStay, Serve
<1>4. s.kind = "desk" BY <1>1 DEF As
<1>5. s \in Stay /\ s.status = "confirmed" /\ s.nights # {} /\ KeysOf(s) \subseteq Keys
  BY <1>1, <1>3, <1>4, NewStays DEF Status
<1>6. Row(b, s) = [y \in {b} |-> s] BY DEF Row
<1>7. w = Asked(Row(b, s), <<>>, {}, FALSE, {}) BY <1>2, NewRequests
<1>8. /\ WorkShape(w) /\ ~w.crossed
      /\ w.make = Row(b, s) /\ w.lay = <<>> /\ w.cancel = {} /\ w.sees = FALSE /\ w.rows = {}
  BY <1>5, <1>6, <1>7, NoRows DEF Asked, WorkShape
<1>9. DOMAIN w.make = {b} /\ w.make[b] = s /\ DOMAIN w.lay = {} BY <1>6, <1>8
<1>10. booking[b].status = "none" /\ \A x \in Handlers : \A v \in WorkOf(x) : b \notin DOMAIN v.make
  BY <1>3, NotTaken
<1>11. Makes(w, KeysOf(s)) /\ StillFits(w) /\ Lays(w, KeysOf(s)) /\ Cancels(w, KeysOf(s))
  BY <1>4, <1>5, <1>8, <1>9, <1>10 DEF Makes, StillFits, Lays, Cancels
<1>12. \A x \in Handlers \ {c} : \A v \in WorkOf(x) : Differ(w, v) BY <1>9, <1>10 DEF Differ
<1> QED BY <1>3, <1>5, <1>8, <1>11, <1>12, ComputeMoves

LEMMA DirectBookingKeeps ==
    ASSUME CalendarInv, NEW c \in Handlers, NEW b \in Bookings,
           NEW asked \in [type: Types, nights: Spans, rooms: Rooms],
           DirectBooking(c, b, As("direct", "pending", asked))
    PROVE  CalendarInv'
<1>1. PICK s : s = As("direct", "pending", asked) OBVIOUS
<1>2. PICK w : w = [Nothing EXCEPT !.make = Row(b, s), !.rows = KeysOf(s)] OBVIOUS
<1>3. s.kind \in Kinds /\ b \notin Taken /\ Fits(s) /\ Compute(c, w, Types \X s.nights)
  BY <1>1, <1>2 DEF DirectBooking, NewStay, Serve
<1>4. s.kind = "direct" BY <1>1 DEF As
<1>5. s \in Stay /\ s.status = "pending" /\ s.nights # {} /\ KeysOf(s) \subseteq Keys
      /\ s.nights \subseteq Nights /\ s.type \in Types
  BY <1>1, <1>3, <1>4, NewStays DEF Status
<1>6. Row(b, s) = [y \in {b} |-> s] BY DEF Row
<1>7. w = Asked(Row(b, s), <<>>, {}, TRUE, KeysOf(s))
  <2>1. PICK v : v = Nothing OBVIOUS
  <2>2. v = Asked(<<>>, <<>>, {}, TRUE, {}) BY <2>1 DEF Nothing, Asked
  <2>3. PICK p : p = [v EXCEPT !.make = Row(b, s)] OBVIOUS
  <2>4. p = Asked(Row(b, s), <<>>, {}, TRUE, {}) BY <2>2, <2>3 DEF Asked
  <2>5. w = [p EXCEPT !.rows = KeysOf(s)] BY <1>2, <2>1, <2>3
  <2> QED BY <2>4, <2>5 DEF Asked
<1>8. /\ WorkShape(w) /\ ~w.crossed
      /\ w.make = Row(b, s) /\ w.lay = <<>> /\ w.cancel = {} /\ w.sees = TRUE /\ w.rows = KeysOf(s)
  BY <1>5, <1>6, <1>7, NoRows DEF Asked, WorkShape
<1>9. DOMAIN w.make = {b} /\ w.make[b] = s /\ DOMAIN w.lay = {} BY <1>6, <1>8
<1>10. booking[b].status = "none" /\ \A x \in Handlers : \A v \in WorkOf(x) : b \notin DOMAIN v.make
  BY <1>3, NotTaken
<1>11. KeysOf(s) \subseteq Types \X s.nights /\ Types \X s.nights \subseteq Keys BY <1>5 DEF KeysOf, Keys
<1>12. StillFits(w) BY <1>3, <1>8, <1>9 DEF StillFits, Fits
<1>13. Makes(w, Types \X s.nights) /\ Lays(w, Types \X s.nights) /\ Cancels(w, Types \X s.nights)
  BY <1>5, <1>8, <1>9, <1>10, <1>11 DEF Makes, Lays, Cancels
<1>14. \A x \in Handlers \ {c} : \A v \in WorkOf(x) : Differ(w, v) BY <1>9, <1>10 DEF Differ
<1> QED BY <1>3, <1>8, <1>11, <1>12, <1>13, <1>14, ComputeMoves

LEMMA ReleaseStayKeeps ==
    ASSUME CalendarInv, NEW c \in Handlers, NEW b \in Bookings, ReleaseStay(c, b)
    PROVE  CalendarInv'
<1>1. PICK w : w = [Nothing EXCEPT !.cancel = {b}] OBVIOUS
<1>2. booking[b].status \in Active /\ Compute(c, w, KeysOf(booking[b])) BY <1>1 DEF ReleaseStay, Serve
<1>3. booking[b] \in Stay BY DEF CalendarInv, RowsTyped
<1>4. KeysOf(booking[b]) \subseteq Keys BY <1>3, StayKeys
<1>5. w = Asked(<<>>, <<>>, {b}, TRUE, {}) BY <1>1, NewRequests
<1>6. /\ WorkShape(w) /\ ~w.crossed
      /\ w.make = <<>> /\ w.lay = <<>> /\ w.cancel = {b} /\ w.sees = TRUE /\ w.rows = {}
  BY <1>5, NoRows DEF Asked, WorkShape
<1>7. Makes(w, KeysOf(booking[b])) /\ StillFits(w) /\ Lays(w, KeysOf(booking[b])) /\ Cancels(w, KeysOf(booking[b]))
  BY <1>2, <1>6 DEF Makes, StillFits, Lays, Cancels, Active
<1>8. \A x \in Handlers \ {c} : \A v \in WorkOf(x) : Differ(w, v) BY <1>6 DEF Differ
<1> QED BY <1>2, <1>4, <1>6, <1>7, <1>8, ComputeMoves

LEMMA CreateBlockKeeps ==
    ASSUME CalendarInv, NEW c \in Handlers, NEW l \in Blocks, NEW u \in Units, NEW nights \in Spans,
           CreateBlock(c, l, u, nights)
    PROVE  CalendarInv'
<1> DEFINE keys == {UnitType[u]} \X nights
<1>1. PICK x : x = [status |-> "active", unit |-> u, nights |-> nights] OBVIOUS
<1>2. PICK w : w = [Nothing EXCEPT !.lay = Row(l, x)] OBVIOUS
<1>3. /\ block[l].status = "none" /\ Compute(c, w, keys)
      /\ \A d \in Handlers : \A v \in WorkOf(d) : l \notin DOMAIN v.lay
  BY <1>1, <1>2 DEF CreateBlock, Serve, WorkOf
<1>4. x \in Block /\ x.status = "active" /\ x.unit \in Units /\ BlockKeys(x) = keys BY <1>1 DEF Block, BlockKeys
<1>5. Row(l, x) = [y \in {l} |-> x] BY DEF Row
<1>6. w = Asked(<<>>, Row(l, x), {}, TRUE, {}) BY <1>2, NewRequests
<1>7. /\ WorkShape(w) /\ ~w.crossed
      /\ w.make = <<>> /\ w.lay = Row(l, x) /\ w.cancel = {} /\ w.sees = TRUE /\ w.rows = {}
  BY <1>4, <1>5, <1>6, NoRows DEF Asked, WorkShape
<1>8. DOMAIN w.make = {} /\ DOMAIN w.lay = {l} /\ w.lay[l] = x BY <1>5, <1>7
<1>9. keys \subseteq Keys BY <1>4, BlockKeysTyped
<1>10. Makes(w, keys) /\ StillFits(w) /\ Lays(w, keys) /\ Cancels(w, keys)
  BY <1>3, <1>4, <1>7, <1>8 DEF Makes, StillFits, Lays, Cancels
<1>11. \A d \in Handlers \ {c} : \A v \in WorkOf(d) : Differ(w, v) BY <1>3, <1>8 DEF Differ
<1> HIDE DEF keys
<1> QED BY <1>3, <1>7, <1>9, <1>10, <1>11, ComputeMoves

LEMMA ReleaseBlockKeeps ==
    ASSUME CalendarInv, NEW c \in Handlers, NEW l \in Blocks, ReleaseBlock(c, l)
    PROVE  CalendarInv'
<1> DEFINE keys == {UnitType[block[l].unit]} \X block[l].nights
<1>1. PICK x : x = [block[l] EXCEPT !.status = "released"] OBVIOUS
<1>2. PICK w : w = [Nothing EXCEPT !.lay = Row(l, x), !.sees = FALSE] OBVIOUS
<1>3. block[l].status = "active" /\ Compute(c, w, keys) BY <1>1, <1>2 DEF ReleaseBlock, Serve
<1>4. block[l] \in Block BY DEF CalendarInv, RowsTyped
<1>5. x \in Block /\ x.status = "released" BY <1>1, <1>4 DEF Block
<1>6. Row(l, x) = [y \in {l} |-> x] BY DEF Row
<1>7. w = Asked(<<>>, Row(l, x), {}, FALSE, {}) BY <1>2, NewRequests
<1>8. /\ WorkShape(w) /\ ~w.crossed
      /\ w.make = <<>> /\ w.lay = Row(l, x) /\ w.cancel = {} /\ w.sees = FALSE /\ w.rows = {}
  BY <1>5, <1>6, <1>7, NoRows DEF Asked, WorkShape
<1>9. DOMAIN w.make = {} /\ DOMAIN w.lay = {l} /\ w.lay[l] = x BY <1>6, <1>8
<1>10. block[l].unit \in Units /\ BlockKeys(block[l]) = keys
  BY <1>3 DEF BlockKeys, CalendarInv, RowsTyped
<1>11. keys \subseteq Keys BY <1>4, <1>10, BlockKeysTyped
<1>12. Makes(w, keys) /\ StillFits(w) /\ Lays(w, keys) /\ Cancels(w, keys)
  BY <1>3, <1>5, <1>8, <1>9, <1>10 DEF Makes, StillFits, Lays, Cancels
<1>13. ASSUME NEW d \in Handlers \ {c}, NEW v \in WorkOf(d) PROVE Differ(w, v)
  <2>1. Lays(v, DOMAIN v.entries) BY DEF CalendarInv, WorkKnown, Known
  <2> QED BY <1>3, <1>5, <1>9, <2>1 DEF Lays, Differ
<1> HIDE DEF keys
<1> QED BY <1>3, <1>8, <1>11, <1>12, <1>13, ComputeMoves

LEMMA RefreshLaterKeeps ==
    ASSUME CalendarInv, NEW c \in Handlers, RefreshLater(c)
    PROVE  CalendarInv'
<1>1. PICK w : w = Nothing OBVIOUS
<1>2. PICK keys : keys = handler[c].later OBVIOUS
<1>3. handler[c] # Free /\ Compute(c, w, keys) BY <1>1, <1>2 DEF RefreshLater
<1>4. keys \subseteq Keys BY <1>2, <1>3 DEF CalendarInv, WorkKnown, WorkOf, Known, WorkShape
<1>5. w = Asked(<<>>, <<>>, {}, TRUE, {}) BY <1>1, NewRequests
<1>6. /\ WorkShape(w) /\ ~w.crossed
      /\ w.make = <<>> /\ w.lay = <<>> /\ w.cancel = {} /\ w.sees = TRUE /\ w.rows = {}
  BY <1>5, NoRows DEF Asked, WorkShape
<1>7. Makes(w, keys) /\ StillFits(w) /\ Lays(w, keys) /\ Cancels(w, keys)
  BY <1>6 DEF Makes, StillFits, Lays, Cancels
<1>8. \A x \in Handlers \ {c} : \A v \in WorkOf(x) : Differ(w, v) BY <1>6 DEF Differ
<1> QED BY <1>3, <1>4, <1>6, <1>7, <1>8, ComputeMoves

\* One booking changes, and counts as before on all nights but some.
LEMMA OneBooking ==
    ASSUME RowsTyped, NEW b \in Bookings, NEW s \in Stay, s.status # "none", s.nights # {},
           booking' = [booking EXCEPT ![b] = s], UNCHANGED <<unit, block>>, NEW keys,
           \A k \in Keys \ keys : /\ CountedAt(booking[b], k) <=> CountedAt(s, k)
                                  /\ CountedAt(booking[b], k) => s.rooms = booking[b].rooms
                                  /\ calendar'[k] = calendar[k],
           booking[b].status # "none" => KeysOf(s) = KeysOf(booking[b]) \/ KeysOf(booking[b]) \cap keys # {}
    PROVE  /\ RowsTyped' /\ Change(keys)
           /\ \A a \in Bookings : a # b => booking'[a] = booking[a]
           /\ booking'[b] = s
<1>1. /\ booking'[b] = s /\ booking' \in [Bookings -> Stay]
      /\ \A a \in Bookings : a # b => booking'[a] = booking[a]
  BY DEF RowsTyped
<1>2. RowsTyped' BY <1>1 DEF RowsTyped
<1>3. ASSUME NEW k \in Keys \ keys
      PROVE  /\ SameBooks(booking, booking', k) /\ SameBlocks(block, block', k)
             /\ TotalUnits(k)' = TotalUnits(k) /\ calendar'[k] = calendar[k]
  <2>1. SameBooks(booking, booking', k) BY <1>1 DEF SameBooks
  <2>2. SameBlocks(block, block', k) BY DEF SameBlocks
  <2>3. TotalUnits(k)' = TotalUnits(k) BY DEF TotalUnits
  <2> QED BY <2>1, <2>2, <2>3
<1>4. \A a \in Bookings : booking[a].status # "none" =>
         /\ booking'[a].status # "none"
         /\ KeysOf(booking'[a]) = KeysOf(booking[a]) \/ KeysOf(booking[a]) \cap keys # {}
  BY <1>1
<1>5. \A l \in Blocks : block[l].status # "none" =>
         /\ block'[l].status # "none"
         /\ block'[l].status = "active" => block'[l] = block[l]
  OBVIOUS
<1>6. Change(keys) BY <1>3, <1>4, <1>5 DEF Change
<1> QED BY <1>1, <1>2, <1>6

\* Nobody else makes a booking that is there already, or lays a block that is.
LEMMA RowsOfOthers ==
    ASSUME CalendarInv, NEW x \in Handlers, NEW w \in WorkOf(x)
    PROVE  /\ DOMAIN w.make \subseteq Bookings /\ \A b \in DOMAIN w.make : booking[b].status = "none"
           /\ DOMAIN w.lay \subseteq Blocks
           /\ \A l \in DOMAIN w.lay : w.lay[l].status = "active" => block[l].status = "none"
<1>1. Known(w) BY DEF CalendarInv, WorkKnown
<1> QED BY <1>1 DEF Known, WorkShape, Makes, Lays

\* One booking changes, and its nights wait.
LEMMA OneBookingMoves ==
    ASSUME CalendarInv, NEW c \in Handlers, NEW b \in Bookings, NEW s \in Stay, s.status # "none", s.nights # {},
           booking' = [booking EXCEPT ![b] = s], UNCHANGED <<unit, block>>,
           NEW keys, NEW later \in SUBSET Keys, Silently(c, keys, later),
           \A x \in Handlers \ {c} : \A w \in WorkOf(x) : b \notin DOMAIN w.make,
           \A k \in Keys \ keys : /\ CountedAt(booking[b], k) <=> CountedAt(s, k)
                                  /\ CountedAt(booking[b], k) => s.rooms = booking[b].rooms,
           booking[b].status # "none" => KeysOf(s) = KeysOf(booking[b]) \/ KeysOf(booking[b]) \cap keys # {}
    PROVE  CalendarInv'
<1>1. calendar' = calendar BY DEF Silently
<1>2. RowsTyped BY DEF CalendarInv
<1>3. /\ RowsTyped' /\ Change(keys)
      /\ \A a \in Bookings : a # b => booking'[a] = booking[a]
      /\ booking'[b] = s
  BY <1>1, <1>2, OneBooking
<1>4. \A x \in Handlers \ {c} : \A w \in WorkOf(x) :
          /\ \A a \in DOMAIN w.make : booking'[a].status = "none"
          /\ \A l \in DOMAIN w.lay : w.lay[l].status = "active" => block'[l].status = "none"
  BY <1>3, RowsOfOthers
<1> QED BY <1>3, <1>4, SilentMoves

LEMMA ProvisionStayKeeps ==
    ASSUME CalendarInv, NEW c \in Handlers, NEW b \in Bookings,
           NEW asked \in [type: Types, nights: Spans, rooms: Rooms],
           ProvisionStay(c, b, As("inquiry", "confirmed", asked))
    PROVE  CalendarInv'
<1>1. PICK s : s = As("inquiry", "confirmed", asked) OBVIOUS
<1>2. /\ s.kind \in Kinds /\ b \notin Taken /\ booking' = [booking EXCEPT ![b] = s]
      /\ Silently(c, KeysOf(s), KeysOf(s)) /\ UNCHANGED <<unit, block>>
  BY <1>1 DEF ProvisionStay, NewStay
<1>3. s.kind = "inquiry" BY <1>1 DEF As
<1>4. s \in Stay /\ s.status = "confirmed" /\ s.nights # {} /\ KeysOf(s) \subseteq Keys
  BY <1>1, <1>2, <1>3, NewStays DEF Status
<1>5. booking[b].status = "none" /\ \A x \in Handlers : \A w \in WorkOf(x) : b \notin DOMAIN w.make
  BY <1>2, NotTaken
<1>6. \A k \in Keys \ KeysOf(s) : /\ CountedAt(booking[b], k) <=> CountedAt(s, k)
                                  /\ CountedAt(booking[b], k) => s.rooms = booking[b].rooms
  BY <1>5 DEF CountedAt, Active
<1> QED BY <1>2, <1>4, <1>5, <1>6, OneBookingMoves

LEMMA RescheduleKeeps ==
    ASSUME CalendarInv, NEW c \in Handlers, NEW b \in Bookings, NEW nights \in Spans, Reschedule(c, b, nights)
    PROVE  CalendarInv'
<1>1. PICK s : s = [booking[b] EXCEPT !.nights = nights] OBVIOUS
<1>2. PICK keys : keys = OldAndNew(b, nights) OBVIOUS
<1>3. /\ booking[b].status # "none" /\ booking' = [booking EXCEPT ![b] = s]
      /\ Silently(c, keys, keys) /\ UNCHANGED <<unit, block>>
  BY <1>1, <1>2 DEF Reschedule
<1>4. booking[b] \in Stay /\ booking[b].nights # {} BY <1>3 DEF CalendarInv, RowsTyped
<1>5. /\ s \in Stay /\ s.status = booking[b].status /\ s.nights = nights /\ s.type = booking[b].type
      /\ s.rooms = booking[b].rooms
  BY <1>1, <1>4 DEF Stay
<1>6. nights # {} /\ nights \subseteq Nights BY DEF Spans, Span
<1>7. keys = {s.type} \X (nights \cup booking[b].nights) BY <1>2, <1>5 DEF OldAndNew
<1>8. keys \subseteq Keys
  <2>1. booking[b].nights \subseteq Nights /\ s.type \in Types BY <1>4, <1>5 DEF Stay, Spans, Span
  <2> QED BY <1>6, <1>7, <2>1 DEF Keys
<1>9. \A k \in Keys \ keys : /\ CountedAt(booking[b], k) <=> CountedAt(s, k)
                             /\ CountedAt(booking[b], k) => s.rooms = booking[b].rooms
  BY <1>5, <1>7 DEF CountedAt, KeysOf
<1>10. KeysOf(booking[b]) \cap keys # {}
  <2>1. PICK n : n \in booking[b].nights BY <1>4
  <2>2. <<s.type, n>> \in KeysOf(booking[b]) /\ <<s.type, n>> \in keys BY <1>5, <1>7, <2>1 DEF KeysOf
  <2> QED BY <2>2
<1>11. \A x \in Handlers \ {c} : \A w \in WorkOf(x) : b \notin DOMAIN w.make BY <1>3, RowsOfOthers
<1> QED BY <1>3, <1>5, <1>6, <1>8, <1>9, <1>10, <1>11, OneBookingMoves

LEMMA CancelStayKeeps ==
    ASSUME CalendarInv, NEW c \in Handlers, NEW b \in Bookings, CancelStay(c, b)
    PROVE  CalendarInv'
<1>1. PICK s : s = [booking[b] EXCEPT !.status = "cancelled"] OBVIOUS
<1>2. PICK keys : keys = KeysOf(booking[b]) OBVIOUS
<1>3. /\ booking[b].status # "none" /\ booking' = [booking EXCEPT ![b] = s]
      /\ Silently(c, keys, {}) /\ UNCHANGED <<unit, block>>
  BY <1>1, <1>2 DEF CancelStay, Active
<1>4. booking[b] \in Stay /\ booking[b].nights # {} BY <1>3 DEF CalendarInv, RowsTyped
<1>5. s \in Stay /\ s.status = "cancelled" /\ s.nights = booking[b].nights /\ s.type = booking[b].type
  BY <1>1, <1>4 DEF Stay, Status
<1>6. \A k \in Keys \ keys : /\ CountedAt(booking[b], k) <=> CountedAt(s, k)
                             /\ CountedAt(booking[b], k) => s.rooms = booking[b].rooms
  BY <1>2, <1>5 DEF CountedAt, Active
<1>7. KeysOf(s) = KeysOf(booking[b]) BY <1>5 DEF KeysOf
<1>8. \A x \in Handlers \ {c} : \A w \in WorkOf(x) : b \notin DOMAIN w.make BY <1>3, RowsOfOthers
<1>9. {} \in SUBSET Keys OBVIOUS
<1> QED BY <1>3, <1>4, <1>5, <1>6, <1>7, <1>8, <1>9, OneBookingMoves

LEMMA SetStatusKeeps ==
    ASSUME CalendarInv, NEW c \in Handlers, NEW b \in Bookings, NEW newStatus \in Active, SetStatus(c, b, newStatus)
    PROVE  CalendarInv'
<1>1. PICK s : s = [booking[b] EXCEPT !.status = newStatus] OBVIOUS
<1>2. PICK keys : keys = IF booking[b].status \in Active THEN {} ELSE KeysOf(booking[b]) OBVIOUS
<1>3. /\ booking[b].status # "none" /\ booking' = [booking EXCEPT ![b] = s]
      /\ Silently(c, keys, {}) /\ UNCHANGED <<unit, block>>
  BY <1>1, <1>2 DEF SetStatus
<1>4. booking[b] \in Stay /\ booking[b].nights # {} BY <1>3 DEF CalendarInv, RowsTyped
<1>5. newStatus \in Status \ {"none"} BY DEF Active, Status
<1>6. /\ s \in Stay /\ s.status = newStatus /\ s.nights = booking[b].nights /\ s.type = booking[b].type
      /\ s.rooms = booking[b].rooms
  BY <1>1, <1>4, <1>5 DEF Stay
<1>7. KeysOf(s) = KeysOf(booking[b]) BY <1>6 DEF KeysOf
<1>8. \A k \in Keys \ keys : /\ CountedAt(booking[b], k) <=> CountedAt(s, k)
                             /\ CountedAt(booking[b], k) => s.rooms = booking[b].rooms
  BY <1>2, <1>6, <1>7 DEF CountedAt
<1>9. \A x \in Handlers \ {c} : \A w \in WorkOf(x) : b \notin DOMAIN w.make BY <1>3, RowsOfOthers
<1>10. {} \in SUBSET Keys OBVIOUS
<1> QED BY <1>3, <1>4, <1>5, <1>6, <1>7, <1>8, <1>9, <1>10, OneBookingMoves

LEMMA ChangeUnitKeeps ==
    ASSUME CalendarInv, NEW c \in Handlers, NEW u \in Units, NEW newStatus, ChangeUnit(c, u, newStatus)
    PROVE  CalendarInv'
<1>1. PICK keys : keys = {UnitType[u]} \X Nights OBVIOUS
<1>2. PICK released : released = [NoBlock EXCEPT !.status = "released"] OBVIOUS
<1>3. released \in Block /\ released.status = "released" BY <1>2 DEF NoBlock, Block
<1>4. RowsTyped BY DEF CalendarInv
<1>5. /\ unit' = [unit EXCEPT ![u] = newStatus] /\ booking' = booking
      /\ block' = [l \in Blocks |-> IF newStatus = "none" /\ block[l].unit = u THEN released ELSE block[l]]
      /\ Silently(c, keys, {})
  BY <1>1, <1>2 DEF ChangeUnit
<1>6. ASSUME NEW l \in Blocks
      PROVE  block'[l] = block[l] \/ (block'[l] = released /\ block[l].unit = u)
  <2>1. block' = [x \in Blocks |-> IF newStatus = "none" /\ block[x].unit = u THEN released ELSE block[x]] BY <1>5
  <2>2. block'[l] = IF newStatus = "none" /\ block[l].unit = u THEN released ELSE block[l] BY <2>1
  <2> QED BY <2>2
<1>7. ASSUME NEW l \in Blocks, block'[l] # block[l]
      PROVE  block'[l] = released /\ block[l].status # "none"
  <2>1. block'[l] = released /\ block[l].unit \in Units BY <1>6, <1>7
  <2>2. Missing \notin Units BY TypesAssumption
  <2> QED BY <1>4, <2>1, <2>2 DEF RowsTyped
<1>8. RowsTyped'
  <2>1. block' \in [Blocks -> Block] BY <1>3, <1>4, <1>5 DEF RowsTyped
  <2>2. ASSUME NEW l \in Blocks
        PROVE  /\ block'[l].status = "none" => block'[l].unit = Missing
               /\ block'[l].status = "active" => block'[l].unit \in Units
    <3>1. CASE block'[l] = block[l] BY <1>4, <3>1 DEF RowsTyped
    <3>2. CASE block'[l] = released BY <1>3, <3>2
    <3> QED BY <1>6, <3>1, <3>2
  <2> QED BY <1>4, <1>5, <2>1, <2>2 DEF RowsTyped
<1>9. ASSUME NEW k \in Keys \ keys
      PROVE  /\ SameBooks(booking, booking', k) /\ SameBlocks(block, block', k)
             /\ TotalUnits(k)' = TotalUnits(k) /\ calendar'[k] = calendar[k]
  <2>1. SameBooks(booking, booking', k) BY <1>5 DEF SameBooks
  <2>2. k[1] # UnitType[u] BY <1>1 DEF Keys
  <2>3. ASSUME NEW l \in Blocks
        PROVE  /\ LiesOn(block[l], k) <=> LiesOn(block'[l], k)
               /\ LiesOn(block[l], k) => block[l].unit = block'[l].unit
    <3>1. CASE block'[l] = block[l] BY <3>1
    <3>2. CASE block'[l] = released /\ block[l].unit = u BY <1>3, <2>2, <3>2 DEF LiesOn, BlockKeys
    <3> QED BY <1>6, <3>1, <3>2
  <2>4. SameBlocks(block, block', k) BY <2>3 DEF SameBlocks
  <2>5. ASSUME NEW v \in Units, UnitType[v] = k[1] PROVE unit'[v] = unit[v] BY <1>5, <2>2, <2>5
  <2>6. TotalUnits(k)' = TotalUnits(k)
    <3>1. {v \in Units : unit'[v] = "open" /\ UnitType[v] = k[1]} = {v \in Units : unit[v] = "open" /\ UnitType[v] = k[1]}
      BY <2>5
    <3> QED BY <3>1 DEF TotalUnits
  <2>7. calendar' = calendar BY <1>5 DEF Silently
  <2> QED BY <2>1, <2>4, <2>6, <2>7
<1>10. Change(keys)
  <2>1. \A b \in Bookings : booking[b].status # "none" =>
           /\ booking'[b].status # "none"
           /\ KeysOf(booking'[b]) = KeysOf(booking[b]) \/ KeysOf(booking[b]) \cap keys # {}
    BY <1>5
  <2>2. \A l \in Blocks : block[l].status # "none" =>
           /\ block'[l].status # "none"
           /\ block'[l].status = "active" => block'[l] = block[l]
    BY <1>3, <1>6
  <2> QED BY <1>9, <2>1, <2>2 DEF Change
<1>11. \A x \in Handlers \ {c} : \A w \in WorkOf(x) :
          /\ \A b \in DOMAIN w.make : booking'[b].status = "none"
          /\ \A l \in DOMAIN w.lay : w.lay[l].status = "active" => block'[l].status = "none"
  <2>1. ASSUME NEW x \in Handlers \ {c}, NEW w \in WorkOf(x), NEW l \in DOMAIN w.lay, w.lay[l].status = "active"
        PROVE  block'[l].status = "none"
    <3>1. l \in Blocks /\ block[l].status = "none" BY <2>1, RowsOfOthers
    <3> QED BY <1>7, <3>1
  <2> QED BY <1>5, <2>1, RowsOfOthers
<1>12. {} \in SUBSET Keys OBVIOUS
<1> QED BY <1>5, <1>8, <1>10, <1>11, <1>12, SilentMoves

-----------------------------------------------------------------------------
(* Commits. *)

LEMMA AbandonKeeps ==
    ASSUME CalendarInv, NEW c \in Handlers, Abandon(c)
    PROVE  CalendarInv'
<1>1. /\ unit' = unit /\ booking' = booking /\ block' = block /\ calendar' = calendar /\ due' = due
      /\ handler' = [handler EXCEPT ![c] = Free]
  BY DEF Abandon, world
<1>2. handler = [x \in Handlers |-> handler[x]] BY DEF CalendarInv, WorkKnown
<1>3. /\ handler' = [x \in Handlers |-> handler'[x]] /\ handler'[c] = Free
      /\ \A x \in Handlers \ {c} : handler'[x] = handler[x]
  BY <1>1, <1>2
<1>4. RowsTyped' BY <1>1 DEF CalendarInv, RowsTyped
<1>5. Change({}) BY <1>1 DEF Change, SameBooks, SameBlocks, TotalUnits
<1>6. \A x \in Handlers \ {c} : handler'[x] = Crossing({c}, {})[x] BY <1>3 DEF Crossing
<1>7. \A x \in Handlers \ {c} : \A v \in WorkOf(x) : Beside(v, {}) BY <1>1, RowsOfOthers DEF Beside
<1>8. \A d \in Handlers \cap {c} : \A n \in WorkOf(d)' :
         Known(n)' /\ \A x \in Handlers \ {c} : \A v \in WorkOf(x) : Differ(n, v)
  BY <1>3 DEF WorkOf
<1>9. \A k \in Keys \ (due' \cup {}) : k \notin due BY <1>1
<1> QED BY <1>3, <1>4, <1>5, <1>6, <1>7, <1>8, <1>9, WorldMoves

\* The rows of w, once they are there.
LEMMA RowsCommitted ==
    ASSUME RowsTyped, NEW w, Known(w), booking' = BookingsAfter(w), block' = BlocksAfter(w)
    PROVE  /\ RowsTyped'
           /\ \A b \in DOMAIN w.make : booking'[b] = w.make[b]
           /\ \A b \in w.cancel \ DOMAIN w.make : booking'[b] = [booking[b] EXCEPT !.status = "cancelled"]
           /\ \A b \in Bookings : b \notin DOMAIN w.make /\ b \notin w.cancel => booking'[b] = booking[b]
           /\ \A l \in DOMAIN w.lay : block'[l] = w.lay[l]
           /\ \A l \in Blocks : l \notin DOMAIN w.lay => block'[l] = block[l]
<1>1. WorkShape(w) /\ Makes(w, DOMAIN w.entries) /\ Lays(w, DOMAIN w.entries) /\ Cancels(w, DOMAIN w.entries)
  BY DEF Known
<1>2. /\ DOMAIN w.make \subseteq Bookings /\ \A b \in DOMAIN w.make : w.make[b] \in Stay
      /\ DOMAIN w.lay \subseteq Blocks /\ \A l \in DOMAIN w.lay : w.lay[l] \in Block
      /\ w.cancel \subseteq Bookings
  BY <1>1 DEF WorkShape
<1>3. /\ \A b \in DOMAIN w.make : booking'[b] = w.make[b]
      /\ \A b \in w.cancel \ DOMAIN w.make : booking'[b] = [booking[b] EXCEPT !.status = "cancelled"]
      /\ \A b \in Bookings : b \notin DOMAIN w.make /\ b \notin w.cancel => booking'[b] = booking[b]
      /\ booking' = [b \in Bookings |-> booking'[b]]
  BY <1>2 DEF BookingsAfter
<1>4. /\ \A l \in DOMAIN w.lay : block'[l] = w.lay[l]
      /\ \A l \in Blocks : l \notin DOMAIN w.lay => block'[l] = block[l]
      /\ block' = [l \in Blocks |-> block'[l]]
  BY <1>2 DEF BlocksAfter
<1>5. ASSUME NEW b \in Bookings
      PROVE  booking'[b] \in Stay /\ (booking'[b].status # "none" => booking'[b].nights # {})
  <2>1. CASE b \in DOMAIN w.make BY <1>1, <1>2, <1>3, <2>1 DEF Makes
  <2>2. CASE b \notin DOMAIN w.make /\ b \in w.cancel
    <3>1. booking'[b] = [booking[b] EXCEPT !.status = "cancelled"] BY <1>3, <2>2
    <3>2. booking[b] \in Stay /\ booking[b].nights # {} BY <1>1, <2>2 DEF Cancels, RowsTyped
    <3> QED BY <3>1, <3>2 DEF Stay, Status
  <2>3. CASE b \notin DOMAIN w.make /\ b \notin w.cancel BY <1>3, <2>3 DEF RowsTyped
  <2> QED BY <2>1, <2>2, <2>3
<1>6. ASSUME NEW l \in Blocks
      PROVE  /\ block'[l] \in Block
             /\ block'[l].status = "none" => block'[l].unit = Missing
             /\ block'[l].status = "active" => block'[l].unit \in Units
  <2>1. CASE l \in DOMAIN w.lay BY <1>1, <1>2, <1>4, <2>1 DEF Lays
  <2>2. CASE l \notin DOMAIN w.lay BY <1>4, <2>2 DEF RowsTyped
  <2> QED BY <2>1, <2>2
<1>7. booking' \in [Bookings -> Stay] BY <1>3, <1>5
<1>8. block' \in [Blocks -> Block] BY <1>4, <1>6
<1>9. RowsTyped' BY <1>5, <1>6, <1>7, <1>8 DEF RowsTyped
<1> QED BY <1>3, <1>4, <1>9

LEMMA CommitKeeps ==
    ASSUME CalendarInv, NEW c \in Handlers, Commit(c)
    PROVE  CalendarInv'
<1>1. PICK w, keys, gone : /\ w = handler[c] /\ keys = DOMAIN w.entries
                           /\ gone = UNION {KeysOf(booking[b]) : b \in w.cancel}
  OBVIOUS
<1>2. /\ w # Free /\ ~Locked({c}, keys)
      /\ booking' = BookingsAfter(w) /\ block' = BlocksAfter(w)
      /\ calendar' = [k \in Keys |-> IF k \in keys THEN Store(calendar[k], w.read[k], w.entries[k]) ELSE calendar[k]]
      /\ handler' = [Crossing({c}, keys \cup gone) EXCEPT ![c] = Free]
      /\ due' = IF w.sees /\ ~w.crossed THEN due \ keys ELSE due \cup keys \cup gone
      /\ unit' = unit
  BY <1>1 DEF Commit
<1>3. RowsTyped /\ Known(w) /\ w \in WorkOf(c) BY <1>1, <1>2 DEF CalendarInv, WorkKnown, WorkOf
<1>4. /\ WorkShape(w) /\ keys \subseteq Keys
      /\ Makes(w, keys) /\ Lays(w, keys) /\ Cancels(w, keys) /\ Reads(w)
  BY <1>1, <1>3 DEF Known
<1>5. /\ DOMAIN w.make \subseteq Bookings /\ DOMAIN w.lay \subseteq Blocks /\ w.cancel \subseteq Bookings
  BY <1>4 DEF WorkShape
<1>6. /\ RowsTyped'
      /\ \A b \in DOMAIN w.make : booking'[b] = w.make[b]
      /\ \A b \in w.cancel \ DOMAIN w.make : booking'[b] = [booking[b] EXCEPT !.status = "cancelled"]
      /\ \A b \in Bookings : b \notin DOMAIN w.make /\ b \notin w.cancel => booking'[b] = booking[b]
      /\ \A l \in DOMAIN w.lay : block'[l] = w.lay[l]
      /\ \A l \in Blocks : l \notin DOMAIN w.lay => block'[l] = block[l]
  BY <1>2, <1>3, RowsCommitted
<1>7. ASSUME NEW b \in w.cancel, NEW k \in KeysOf(booking[b]) PROVE k \in gone BY <1>1
<1>8. ~w.crossed => gone \subseteq keys BY <1>1, <1>4 DEF Cancels
<1>9. ASSUME NEW k \in Keys \ (keys \cup gone)
      PROVE  /\ SameBooks(booking, booking', k) /\ SameBlocks(block, block', k)
             /\ TotalUnits(k)' = TotalUnits(k) /\ calendar'[k] = calendar[k]
  <2>1. ASSUME NEW b \in Bookings
        PROVE  /\ CountedAt(booking[b], k) <=> CountedAt(booking'[b], k)
               /\ CountedAt(booking[b], k) => booking[b].rooms = booking'[b].rooms
    <3>1. CASE b \in DOMAIN w.make BY <1>4, <1>6, <3>1 DEF Makes, CountedAt, Active
    <3>2. CASE b \notin DOMAIN w.make /\ b \in w.cancel
      <4>1. booking[b] \in Stay BY <1>3 DEF RowsTyped
      <4>2. booking'[b].status = "cancelled" BY <1>6, <3>2, <4>1 DEF Stay
      <4>3. k \notin KeysOf(booking[b]) BY <1>7, <3>2
      <4> QED BY <4>2, <4>3 DEF CountedAt, Active
    <3>3. CASE b \notin DOMAIN w.make /\ b \notin w.cancel BY <1>6, <3>3
    <3> QED BY <3>1, <3>2, <3>3
  <2>2. ASSUME NEW l \in Blocks
        PROVE  /\ LiesOn(block[l], k) <=> LiesOn(block'[l], k)
               /\ LiesOn(block[l], k) => block[l].unit = block'[l].unit
    <3>1. CASE l \in DOMAIN w.lay BY <1>4, <1>6, <3>1 DEF Lays, LiesOn
    <3>2. CASE l \notin DOMAIN w.lay BY <1>6, <3>2
    <3> QED BY <3>1, <3>2
  <2>3. TotalUnits(k)' = TotalUnits(k) BY <1>2 DEF TotalUnits
  <2>4. calendar'[k] = calendar[k] BY <1>2
  <2> QED BY <2>1, <2>2, <2>3, <2>4 DEF SameBooks, SameBlocks
<1>10. Change(keys \cup gone)
  <2>1. ASSUME NEW b \in Bookings, booking[b].status # "none"
        PROVE  booking'[b].status # "none" /\ KeysOf(booking'[b]) = KeysOf(booking[b])
    <3>1. b \notin DOMAIN w.make BY <1>4, <2>1 DEF Makes
    <3>2. CASE b \in w.cancel
      <4>1. booking[b] \in Stay BY <1>3 DEF RowsTyped
      <4>2. booking'[b] = [booking[b] EXCEPT !.status = "cancelled"] BY <1>6, <3>1, <3>2
      <4>3. booking'[b].status = "cancelled" /\ booking'[b].type = booking[b].type /\ booking'[b].nights = booking[b].nights
        BY <4>1, <4>2 DEF Stay
      <4> QED BY <4>3 DEF KeysOf
    <3>3. CASE b \notin w.cancel BY <1>6, <2>1, <3>1, <3>3
    <3> QED BY <3>2, <3>3
  <2>2. ASSUME NEW l \in Blocks, block[l].status # "none"
        PROVE  block'[l].status # "none" /\ (block'[l].status = "active" => block'[l] = block[l])
    BY <1>4, <1>6, <2>2 DEF Lays
  <2> QED BY <1>9, <2>1, <2>2 DEF Change
<1>11. ASSUME NEW x \in Handlers \ {c}, NEW v \in WorkOf(x) PROVE Beside(v, keys \cup gone)
  <2>1. Differ(v, w) /\ Known(v) BY <1>3 DEF CalendarInv, WorkKnown
  <2>2. ASSUME NEW b \in DOMAIN v.make PROVE booking'[b].status = "none"
    <3>1. b \in Bookings /\ booking[b].status = "none" BY RowsOfOthers
    <3>2. b \notin DOMAIN w.make BY <2>1 DEF Differ
    <3>3. b \notin w.cancel BY <1>4, <3>1 DEF Cancels
    <3> QED BY <1>6, <3>1, <3>2, <3>3
  <2>3. ASSUME NEW l \in DOMAIN v.lay, v.lay[l].status = "active" PROVE block'[l].status = "none"
    <3>1. l \in Blocks /\ block[l].status = "none" BY <2>3, RowsOfOthers
    <3>2. l \notin DOMAIN w.lay BY <2>1, <2>3 DEF Differ
    <3> QED BY <1>6, <3>1, <3>2
  <2>4. ASSUME NEW k \in v.rows \ due' PROVE k \notin due /\ k \notin keys \cup gone
    <3>1. k \notin keys BY <1>2 DEF Locked, WorkOf
    <3> QED BY <1>2, <1>8, <3>1
  <2> QED BY <2>2, <2>3, <2>4 DEF Beside
<1>12. ASSUME NEW k \in (Keys \cap (keys \cup gone)) \ due' PROVE Shown(k)' = Computed(booking, block, k)'
  <2>1. w.sees /\ ~w.crossed /\ k \in keys BY <1>2, <1>8
  <2>2. PICK B, M : B = booking' /\ M = block' OBVIOUS
  <2>3. w.read[k] = calendar[k] /\ w.entries[k] = Computed(B, M, k)
    BY <1>1, <1>2, <1>4, <2>1, <2>2 DEF Reads
  <2>4. Computed(B, M, k)' = Computed(B, M, k) BY <1>2 DEF Computed, Left, TotalUnits
  <2>5. Computed(booking, block, k)' = Computed(B, M, k)' BY <2>2
  <2>6. calendar'[k] = Store(calendar[k], calendar[k], Computed(B, M, k)) BY <1>2, <2>1, <2>3
  <2>7. Store(calendar[k], calendar[k], Computed(B, M, k)) = Computed(B, M, k)
    <3>1. PICK new : new = Computed(B, M, k) OBVIOUS
    <3>2. new = [col \in DOMAIN new |-> new[col]] BY <3>1 DEF Computed
    <3>3. ASSUME NEW now PROVE Store(now, now, new) = new
      <4>1. [col \in DOMAIN new |-> IF new[col] = now[col] THEN now[col] ELSE new[col]] = [col \in DOMAIN new |-> new[col]]
        OBVIOUS
      <4> QED BY <3>2, <4>1 DEF Store
    <3> QED BY <3>1, <3>3
  <2> QED BY <2>4, <2>5, <2>6, <2>7 DEF Shown
<1>13. /\ handler' = [x \in Handlers |-> handler'[x]] /\ handler'[c] = Free
       /\ \A x \in Handlers \ {c} : handler'[x] = Crossing({c}, keys \cup gone)[x]
  BY <1>2 DEF Crossing
<1>14. \A d \in Handlers \cap {c} : \A n \in WorkOf(d)' :
          Known(n)' /\ \A x \in Handlers \ {c} : \A v \in WorkOf(x) : Differ(n, v)
  BY <1>13 DEF WorkOf
<1>15. \A k \in Keys \ (due' \cup (keys \cup gone)) : k \notin due BY <1>2
<1>16. PICK all : all = keys \cup gone OBVIOUS
<1>17. Change(all) BY <1>10, <1>16
<1>18. \A x \in Handlers \ {c} : handler'[x] = Crossing({c}, all)[x] BY <1>13, <1>16
<1>19. \A x \in Handlers \ {c} : \A v \in WorkOf(x) : Beside(v, all) BY <1>11, <1>16
<1>20. \A k \in Keys \ (due' \cup all) : k \notin due BY <1>15, <1>16
<1>21. \A k \in (Keys \cap all) \ due' : Shown(k)' = Computed(booking, block, k)' BY <1>12, <1>16
<1> QED BY <1>6, <1>13, <1>14, <1>17, <1>18, <1>19, <1>20, <1>21, WorldMoves

LEMMA ExpireKeeps ==
    ASSUME CalendarInv, NEW b \in Bookings, Expire(b)
    PROVE  CalendarInv'
<1>1. PICK s, keys, exact, mine :
        /\ s = booking[b]
        /\ keys = {k \in {FirstType} \X s.nights : calendar[k] # Missing}
        /\ exact = {k \in keys : s.type = FirstType /\ Left(booking, block, k) >= 0}
        /\ mine = keys \cup KeysOf(s)
  OBVIOUS
<1>2. PICK gone : gone = [s EXCEPT !.status = "expired"] OBVIOUS
<1>3. /\ s.status = "pending" /\ ~Locked({}, keys)
      /\ booking' = [booking EXCEPT ![b] = gone]
      /\ calendar' = [k \in Keys |-> IF k \in keys THEN GivenBack(calendar[k], s.rooms) ELSE calendar[k]]
      /\ due' = due \cup (mine \ exact)
      /\ handler' = Crossing({}, mine)
      /\ unit' = unit /\ block' = block
  BY <1>1, <1>2 DEF Expire
<1>4. RowsTyped /\ s \in Stay /\ s.nights # {} BY <1>1, <1>3 DEF CalendarInv, RowsTyped
<1>5. /\ gone \in Stay /\ gone.status = "expired" /\ gone.nights = s.nights /\ gone.type = s.type
      /\ gone.rooms = s.rooms
  BY <1>2, <1>4 DEF Stay, Status
<1>6. mine \subseteq Keys
  <2>1. KeysOf(s) \subseteq Keys BY <1>4, StayKeys
  <2>2. s.nights \subseteq Nights BY <1>4 DEF Stay, Spans, Span
  <2> QED BY <1>1, <2>1, <2>2, TypesAssumption DEF Keys
<1>7. \A k \in Keys \ mine : /\ CountedAt(s, k) <=> CountedAt(gone, k)
                             /\ CountedAt(s, k) => gone.rooms = s.rooms
                             /\ calendar'[k] = calendar[k]
  BY <1>1, <1>3, <1>5 DEF CountedAt, Active
<1>8. KeysOf(gone) = KeysOf(s) BY <1>5 DEF KeysOf
<1>9. /\ RowsTyped' /\ Change(mine)
      /\ \A a \in Bookings : a # b => booking'[a] = booking[a]
      /\ booking'[b] = gone
  BY <1>1, <1>3, <1>4, <1>5, <1>7, <1>8, OneBooking
<1>10. ASSUME NEW x \in Handlers, NEW v \in WorkOf(x) PROVE Beside(v, mine)
  <2>1. \A a \in DOMAIN v.make : booking'[a].status = "none" BY <1>1, <1>3, <1>9, RowsOfOthers
  <2>2. \A l \in DOMAIN v.lay : v.lay[l].status = "active" => block'[l].status = "none" BY <1>3, RowsOfOthers
  <2>3. ASSUME NEW k \in v.rows \ due' PROVE k \notin due /\ k \notin mine
    <3>1. k \notin keys BY <1>3 DEF Locked, WorkOf
    <3> QED BY <1>1, <1>3, <3>1
  <2> QED BY <2>1, <2>2, <2>3 DEF Beside
<1>11. ASSUME NEW k \in (Keys \cap mine) \ due' PROVE Shown(k)' = Computed(booking, block, k)'
  <2>1. /\ k \in exact /\ k \in keys /\ k \notin due
        /\ s.type = FirstType /\ Left(booking, block, k) >= 0 /\ calendar[k] # Missing
    BY <1>1, <1>3
  <2>2. k \in KeysOf(s) BY <1>1, <2>1 DEF KeysOf
  <2>3. calendar[k] = Computed(booking, block, k) BY <2>1 DEF CalendarInv, ShownCalendarIsRight, Shown
  <2>4. PICK T, P, Q, K, r : /\ T = TotalUnits(k) /\ P = BookedRooms(booking, k) /\ Q = BookedRooms(booking', k)
                             /\ K = BlockedUnits(block, k) /\ r = s.rooms
    OBVIOUS
  <2>5. T \in Nat /\ P \in Nat /\ Q \in Nat /\ K \in Nat /\ r \in Nat
    <3>1. booking \in [Bookings -> Stay] /\ booking' \in [Bookings -> Stay] BY <1>9, <1>4 DEF RowsTyped
    <3>2. r \in Nat BY <1>4, <2>4, NumbersAssumption DEF Stay
    <3> QED BY <2>4, <3>1, <3>2, BookedTyped, UnitsTyped
  <2>6. P = Q + r
    <3>1. PICK A : A = booking' OBVIOUS
    <3>2. A \in [Bookings -> Stay] /\ booking \in [Bookings -> Stay] BY <1>9, <1>4, <3>1 DEF RowsTyped
    <3>3. ~CountedAt(A[b], k) BY <1>5, <1>9, <3>1 DEF CountedAt, Active
    <3>4. CountedAt(booking[b], k) BY <1>1, <1>3, <2>2 DEF CountedAt, Active
    <3>5. \A a \in Bookings \ {b} : A[a] = booking[a] BY <1>9, <3>1
    <3>6. BookedRooms(booking, k) = BookedRooms(A, k) + booking[b].rooms
      BY <3>2, <3>3, <3>4, <3>5, OneMoreBooked
    <3> QED BY <1>1, <2>4, <3>1, <3>6
  <2>7. T - P - K >= 0 BY <2>1, <2>4 DEF Left
  <2>8. PICK e : e = calendar[k] OBVIOUS
  <2>9. e = [total |-> T, booked |-> P, blocked |-> K, available |-> T - P - K]
    <3>1. AtLeastZero(T - P - K) = T - P - K BY <2>5, <2>7 DEF AtLeastZero
    <3> QED BY <2>3, <2>4, <2>8, <3>1 DEF Computed, Left
  <2>10. PICK given : given = GivenBack(e, r) OBVIOUS
  <2>11. given = [total |-> T, booked |-> Q, blocked |-> K, available |-> T - Q - K]
    <3>1. PICK x, y : /\ x = AtLeastZero(e.booked - r)
                      /\ y = IF e.available + r < e.total THEN e.available + r ELSE e.total
      OBVIOUS
    <3>2. e.total = T /\ e.booked = P /\ e.available = T - P - K BY <2>9
    <3>3. x = Q
      <4>1. e.booked - r = Q BY <2>5, <2>6, <3>2
      <4> QED BY <2>5, <3>1, <4>1 DEF AtLeastZero
    <3>4. y = T - Q - K
      <4>1. T - P - K + r = T - Q - K BY <2>5, <2>6
      <4>2. T - Q - K <= T BY <2>5
      <4>3. y = IF T - Q - K < T THEN T - Q - K ELSE T BY <3>1, <3>2, <4>1
      <4> QED BY <2>5, <4>2, <4>3
    <3>5. PICK f : f = [e EXCEPT !.booked = x] OBVIOUS
    <3>6. f = [total |-> T, booked |-> x, blocked |-> K, available |-> T - P - K] BY <2>9, <3>5
    <3>7. given = [f EXCEPT !.available = y] BY <2>10, <3>1, <3>5 DEF GivenBack
    <3>8. given = [total |-> T, booked |-> x, blocked |-> K, available |-> y] BY <3>6, <3>7
    <3> QED BY <3>3, <3>4, <3>8
  <2>12. Computed(booking, block, k)' = [total |-> T, booked |-> Q, blocked |-> K, available |-> T - Q - K]
    <3>1. AtLeastZero(T - Q - K) = T - Q - K BY <2>5, <2>6, <2>7 DEF AtLeastZero
    <3>2. PICK B : B = booking' OBVIOUS
    <3>3. TotalUnits(k)' = T BY <1>3, <2>4 DEF TotalUnits
    <3>4. Computed(B, block, k) = [total |-> T, booked |-> Q, blocked |-> K, available |-> T - Q - K]
      BY <2>4, <3>1, <3>2 DEF Computed, Left
    <3>5. PICK M : M = block' OBVIOUS
    <3>6. Computed(B, M, k)' = Computed(B, M, k) BY <1>3 DEF Computed, Left, TotalUnits
    <3>7. Computed(booking, block, k)' = Computed(B, M, k)' BY <3>2, <3>5
    <3>8. M = block BY <1>3, <3>5
    <3> QED BY <3>4, <3>6, <3>7, <3>8
  <2>13. calendar'[k] = given BY <1>3, <2>1, <2>4, <2>8, <2>10
  <2> QED BY <2>11, <2>12, <2>13 DEF Shown
<1>12. /\ handler' = [x \in Handlers |-> handler'[x]]
       /\ \A x \in Handlers : handler'[x] = Crossing({}, mine)[x]
  BY <1>3 DEF Crossing
<1>13. \A k \in Keys \ (due' \cup mine) : k \notin due BY <1>3
<1>14. \A x \in Handlers \ {} : \A v \in WorkOf(x) : Beside(v, mine) BY <1>10
<1>15. \A k \in (Keys \cap mine) \ due' : Shown(k)' = Computed(booking, block, k)' BY <1>11
<1> QED BY <1>9, <1>12, <1>13, <1>14, <1>15, WorldMoves

-----------------------------------------------------------------------------
(* Theorems. *)

LEMMA CalendarNext == CalendarInv /\ [NextCalendar]_calendarVars => CalendarInv'
<1> SUFFICES ASSUME CalendarInv, [NextCalendar]_calendarVars PROVE CalendarInv' OBVIOUS
<1>1. ASSUME NEW c \in Handlers, Start(c) PROVE CalendarInv'
  <2>1. ASSUME NEW b \in Bookings, NEW asked \in [type: Types, nights: Spans, rooms: Rooms],
               \/ CreateBooking(c, b, As("desk", "confirmed", asked))
               \/ DirectBooking(c, b, As("direct", "pending", asked))
               \/ ProvisionStay(c, b, As("inquiry", "confirmed", asked))
        PROVE  CalendarInv'
    BY <2>1, CreateBookingKeeps, DirectBookingKeeps, ProvisionStayKeeps
  <2>2. ASSUME NEW b \in Bookings, NEW nights \in Spans, Reschedule(c, b, nights) PROVE CalendarInv'
    BY <2>2, RescheduleKeeps
  <2>3. ASSUME NEW b \in Bookings, ReleaseStay(c, b) \/ CancelStay(c, b) PROVE CalendarInv'
    BY <2>3, ReleaseStayKeeps, CancelStayKeeps
  <2>4. ASSUME NEW b \in Bookings, NEW newStatus \in Active, SetStatus(c, b, newStatus) PROVE CalendarInv'
    BY <2>4, SetStatusKeeps
  <2>5. ASSUME NEW l \in Blocks, NEW u \in Units, NEW nights \in Spans, CreateBlock(c, l, u, nights)
        PROVE  CalendarInv'
    BY <2>5, CreateBlockKeeps
  <2>6. ASSUME NEW l \in Blocks, ReleaseBlock(c, l) PROVE CalendarInv' BY <2>6, ReleaseBlockKeeps
  <2>7. ASSUME NEW u \in Serviced, NEW newStatus \in {"open", "closed", "none"}, ChangeUnit(c, u, newStatus)
        PROVE  CalendarInv'
    BY <2>7, TypesAssumption, ChangeUnitKeeps
  <2> QED BY <1>1, <2>1, <2>2, <2>3, <2>4, <2>5, <2>6, <2>7 DEF Start
<1>2. ASSUME NEW c \in Handlers, RefreshLater(c) \/ Commit(c) \/ Abandon(c) PROVE CalendarInv'
  BY <1>2, RefreshLaterKeeps, CommitKeeps, AbandonKeeps
<1>3. ASSUME NEW b \in Bookings, Expire(b) PROVE CalendarInv' BY <1>3, ExpireKeeps
<1>4. CASE UNCHANGED calendarVars
  <2>1. /\ unit' = unit /\ booking' = booking /\ block' = block /\ calendar' = calendar /\ handler' = handler
        /\ due' = due
    BY <1>4 DEF calendarVars
  <2>2. RowsTyped' BY <2>1 DEF CalendarInv, RowsTyped
  <2>3. Change({}) BY <2>1 DEF Change, SameBooks, SameBlocks, TotalUnits
  <2>4. handler' = [x \in Handlers |-> handler'[x]] BY <2>1 DEF CalendarInv, WorkKnown
  <2>5. \A x \in Handlers : handler'[x] = Crossing({}, {})[x] BY <2>1, <2>4 DEF Crossing
  <2>6. \A x \in Handlers : \A v \in WorkOf(x) : Beside(v, {}) BY <2>1, RowsOfOthers DEF Beside
  <2>7. \A k \in Keys \ (due' \cup {}) : k \notin due BY <2>1
  <2> QED BY <2>2, <2>3, <2>4, <2>5, <2>6, <2>7, WorldMoves
<1> QED BY <1>1, <1>2, <1>3, <1>4 DEF NextCalendar

\* Whatever is booked, moved, cancelled, blocked or expired, and however the requests interleave,
\* the counts that are shown of a night are those of its bookings and blocks unless the night
\* waits for a refresh.
THEOREM ShownCalendarStaysRight == SpecCalendar => []ShownCalendarIsRight
<1>1. CalendarInv => ShownCalendarIsRight BY DEF CalendarInv
<1> QED BY InitialCalendar, CalendarNext, <1>1, PTL DEF SpecCalendar

LEMMA DirectFits ==
    ASSUME CalendarInv, [NextCalendar]_calendarVars, NEW b \in Bookings,
           booking[b].status = "none", booking'[b].status = "pending", booking'[b].kind = "direct",
           NEW k \in KeysOf(booking'[b]) \ due
    PROVE  Left(booking', block', k) >= 0
<1>1. RowsTyped BY DEF CalendarInv
<1>2. ASSUME NEW c \in Handlers, Commit(c) PROVE Left(booking', block', k) >= 0
  <2>1. PICK w : w = handler[c] OBVIOUS
  <2>2. w # Free /\ booking' = BookingsAfter(w) /\ block' = BlocksAfter(w) BY <1>2, <2>1 DEF Commit
  <2>3. Known(w) BY <2>1, <2>2 DEF CalendarInv, WorkKnown, WorkOf
  <2>4. /\ RowsTyped'
        /\ \A a \in DOMAIN w.make : booking'[a] = w.make[a]
        /\ \A a \in w.cancel \ DOMAIN w.make : booking'[a] = [booking[a] EXCEPT !.status = "cancelled"]
        /\ \A a \in Bookings : a \notin DOMAIN w.make /\ a \notin w.cancel => booking'[a] = booking[a]
        /\ \A l \in DOMAIN w.lay : block'[l] = w.lay[l]
        /\ \A l \in Blocks : l \notin DOMAIN w.lay => block'[l] = block[l]
    BY <1>1, <2>2, <2>3, RowsCommitted
  <2>5. b \in DOMAIN w.make
    <3>1. booking'[b] # booking[b] OBVIOUS
    <3>2. b \notin w.cancel BY <2>3 DEF Known, Cancels
    <3> QED BY <2>4, <3>1, <3>2
  <2>6. /\ DOMAIN w.make = {b} /\ DOMAIN w.lay = {} /\ w.cancel = {}
        /\ w.rows = KeysOf(w.make[b])
        /\ Left(booking, block, k) >= w.make[b].rooms
    BY <2>3, <2>4, <2>5 DEF Known, StillFits
  <2>7. PICK B, M : B = booking' /\ M = block' OBVIOUS
  <2>8. M = block
    <3>1. block = [l \in Blocks |-> block[l]] /\ M = [l \in Blocks |-> M[l]] BY <1>1, <2>4, <2>7 DEF RowsTyped
    <3>2. \A l \in Blocks : M[l] = block[l] BY <2>4, <2>6, <2>7
    <3> QED BY <3>1, <3>2
  <2>9. BookedRooms(B, k) = BookedRooms(booking, k) + w.make[b].rooms
    <3>1. booking \in [Bookings -> Stay] /\ B \in [Bookings -> Stay] BY <1>1, <2>4, <2>7 DEF RowsTyped
    <3>2. ~CountedAt(booking[b], k) BY DEF CountedAt, Active
    <3>3. CountedAt(B[b], k) BY <2>7 DEF CountedAt, Active
    <3>4. \A a \in Bookings \ {b} : booking[a] = B[a] BY <2>4, <2>6, <2>7
    <3>5. B[b] = w.make[b] BY <2>4, <2>5, <2>7
    <3>6. BookedRooms(B, k) = BookedRooms(booking, k) + B[b].rooms
      BY <3>1, <3>2, <3>3, <3>4, OneMoreBooked
    <3> QED BY <3>5, <3>6
  <2>10. PICK T, P, Q, K, r : /\ T = TotalUnits(k) /\ P = BookedRooms(booking, k) /\ Q = BookedRooms(B, k)
                              /\ K = BlockedUnits(block, k) /\ r = w.make[b].rooms
    OBVIOUS
  <2>11. T \in Nat /\ P \in Nat /\ Q \in Nat /\ K \in Nat /\ r \in Nat
    <3>1. booking \in [Bookings -> Stay] /\ B \in [Bookings -> Stay] BY <1>1, <2>4, <2>7 DEF RowsTyped
    <3>2. B[b] = w.make[b] BY <2>4, <2>5, <2>7
    <3>3. r \in Nat BY <2>10, <3>1, <3>2, NumbersAssumption DEF Stay
    <3> QED BY <2>10, <3>1, <3>3, BookedTyped, UnitsTyped
  <2>12. T - P - K >= r BY <2>6, <2>10 DEF Left
  <2>13. T - Q - K >= 0 BY <2>9, <2>10, <2>11, <2>12
  <2>14. Left(B, M, k) >= 0 BY <2>8, <2>10, <2>13 DEF Left
  <2> QED BY <2>7, <2>14
<1>3. CASE booking' = booking BY <1>3
<1>4. ASSUME NEW a \in Bookings, NEW s, booking' = [booking EXCEPT ![a] = s],
             s.status # "pending" \/ booking[a].status # "none"
      PROVE  FALSE
  BY <1>1, <1>4 DEF RowsTyped
<1>5. ASSUME NEW c \in Handlers, Start(c) PROVE booking' = booking
  <2>1. ASSUME NEW a \in Bookings, NEW asked \in [type: Types, nights: Spans, rooms: Rooms],
               ProvisionStay(c, a, As("inquiry", "confirmed", asked))
        PROVE  FALSE
    <3>1. booking' = [booking EXCEPT ![a] = As("inquiry", "confirmed", asked)] BY <2>1 DEF ProvisionStay
    <3>2. As("inquiry", "confirmed", asked).status # "pending" BY DEF As
    <3>3. PICK s : s = As("inquiry", "confirmed", asked) OBVIOUS
    <3> QED BY <1>4, <3>1, <3>2, <3>3
  <2>2. ASSUME NEW a \in Bookings, NEW nights, Reschedule(c, a, nights) PROVE FALSE
    <3>1. PICK s : s = [booking[a] EXCEPT !.nights = nights] OBVIOUS
    <3>2. booking' = [booking EXCEPT ![a] = s] /\ booking[a].status # "none" BY <2>2, <3>1 DEF Reschedule
    <3> QED BY <1>4, <3>2
  <2>3. ASSUME NEW a \in Bookings, CancelStay(c, a) PROVE FALSE
    <3>1. PICK s : s = [booking[a] EXCEPT !.status = "cancelled"] OBVIOUS
    <3>2. booking' = [booking EXCEPT ![a] = s] /\ booking[a].status # "none" BY <2>3, <3>1 DEF CancelStay, Active
    <3> QED BY <1>4, <3>2
  <2>4. ASSUME NEW a \in Bookings, NEW newStatus, SetStatus(c, a, newStatus) PROVE FALSE
    <3>1. PICK s : s = [booking[a] EXCEPT !.status = newStatus] OBVIOUS
    <3>2. booking' = [booking EXCEPT ![a] = s] /\ booking[a].status # "none" BY <2>4, <3>1 DEF SetStatus
    <3> QED BY <1>4, <3>2
  <2>5. ASSUME NEW a \in Bookings, NEW s, CreateBooking(c, a, s) \/ DirectBooking(c, a, s) PROVE booking' = booking
    BY <2>5 DEF CreateBooking, DirectBooking, Serve, Compute, world
  <2>6. ASSUME NEW a \in Bookings, ReleaseStay(c, a) PROVE booking' = booking
    BY <2>6 DEF ReleaseStay, Serve, Compute, world
  <2>7. ASSUME NEW l \in Blocks, NEW u \in Units, NEW nights \in Spans, CreateBlock(c, l, u, nights)
        PROVE  booking' = booking
    BY <2>7 DEF CreateBlock, Serve, Compute, world
  <2>8. ASSUME NEW l \in Blocks, ReleaseBlock(c, l) PROVE booking' = booking
    BY <2>8 DEF ReleaseBlock, Serve, Compute, world
  <2>9. ASSUME NEW u, NEW newStatus, ChangeUnit(c, u, newStatus) PROVE booking' = booking BY <2>9 DEF ChangeUnit
  <2> QED BY <1>5, <2>1, <2>2, <2>3, <2>4, <2>5, <2>6, <2>7, <2>8, <2>9 DEF Start
<1>6. ASSUME NEW c \in Handlers, RefreshLater(c) \/ Abandon(c) PROVE booking' = booking
  BY <1>6 DEF RefreshLater, Abandon, Compute, world
<1>7. ASSUME NEW a \in Bookings, Expire(a) PROVE FALSE
  <2>1. PICK s : s = [booking[a] EXCEPT !.status = "expired"] OBVIOUS
  <2>2. booking' = [booking EXCEPT ![a] = s] /\ booking[a].status # "none" BY <1>7, <2>1 DEF Expire
  <2> QED BY <1>4, <2>2
<1>8. CASE UNCHANGED calendarVars BY <1>8 DEF calendarVars
<1> QED BY <1>2, <1>3, <1>5, <1>6, <1>7, <1>8 DEF NextCalendar

\* A direct booking that is committed leaves no night oversold unless the night waits for a
\* refresh: what its test of the entries promised is still there, for it holds them locked.
THEOREM DirectBookingsAlwaysFit == SpecCalendar => DirectBookingsFit
<1>1. CalendarInv /\ [NextCalendar]_calendarVars =>
        \A b \in Bookings :
            booking[b].status = "none" /\ booking'[b].status = "pending" /\ booking'[b].kind = "direct" =>
                \A k \in KeysOf(booking'[b]) \ due : Left(booking', block', k) >= 0
  BY DirectFits
<1> QED BY InitialCalendar, CalendarNext, <1>1, PTL DEF SpecCalendar, DirectBookingsFit
=============================================================================
