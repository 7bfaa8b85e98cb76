# A verification project for the Travel Ready Tours API

TLA+ models of the parts of `app/` where several requests change the same rows,
TLC runs on small instances of them, and TLAPS proofs for all instances.

The server is a FastAPI application over SQLAlchemy and PostgreSQL. Three facts
of its set-up shape every model:

- A request works in one session, opened by `get_db` and never shared
  (`app/config/database.py`). `autoflush` is off: rows added to a session are
  invisible to the session's own queries until a flush or commit.
- Transactions run at READ COMMITTED. A request that reads a row, decides, and
  writes later overwrites what was committed in between, unless it reads with
  `with_for_update()`. An UPDATE writes the columns whose value differs from
  what was loaded, and no others.
- `def` routes run at once in a thread pool, `async def` routes one at a time on
  the event loop, but beside the pool. docs/PAYMENTS.md:111 expects several
  server processes as well. A failed request is rolled back to its last commit.

So a request is modelled as the few steps between which others can run: what it
reads (and locks) is one action, what it commits is another, and an abort may
come in between. Calls to services outside (Cloudinary, Clerk, the mail, the
gateway) that follow or precede a commit are steps of their own, and may fail.

## 1. Inventory

| Component | State | Operations | Hard behaviour | Correct means |
|---|---|---|---|---|
| Online payments (`app/payments/`) | `payments`, `payment_events`, the mark on the row paid for | checkout from the site or a link, the gateway's notification | notifications repeated, reordered, forged, handled at once; staff change the row meanwhile; failed transactions | a final payment stays, a mark has a payment behind it, one receipt, every status has its evidence, the gateway's last word arrives |
| Stay inventory (`stay_inventory_service.py`, desk `vendor_stays.py`) | room units, stay bookings with rooms, blocks | book, allocate for an inquiry, block, move, release, reopen, edit units, search | bookings lock units, the desk does not; several rooms at once; autoflush off | a unit is given once per night, moves are all or nothing, the search offers only free rooms |
| Stay calendar (`stay_room_type_calendar`) | stored counts per room type and night | refreshed after most changes; read by the vendor's calendar and by direct bookings; changed in place by direct bookings and expiry | computed before a flush or beside another request, nights missing | it is what the rows say, and a direct booking fits |
| Booking inquiries (`booking_inquiry_service.py`) | inquiry status, its Booking, its stay bookings, capacity rows | create, transition, cancel by the guest, approve, desk changes, delete | several commits in one request, failures swallowed in the middle, statuses read without a lock | cancelled holds nothing, converted is confirmed, a stay is booked once unless two looks at it overlap |
| Prices, offers and notices (`pricing.py`, `inquiry_totals.py`, `offers.py`, `inquiry_approval.py`, `notification_service.py`) | stored total, mails sent, notices | two computations of one cart; an offer, a pay page, a checkout; notices of a status | prices change in between; who approved first is judged from an old status | the guest is told one amount and charged it, and is told how the request stands |
| Direct bookings (`booking_service.py`, `booking_repo.py`) | `availability_calendar` per variant and night | create, expire holds, reserve for an inquiry | row locks on rows that may not exist yet; releases race with payments | nobody's place is lost, only expired holds are released |
| The ledger of direct bookings (`payment_service.py`, `bookings.py`) | status, payment status, history, transactions | submit, mark paid, webhook, refund, status changes, edits, desk, expiry | some routes lock the booking, some write from an old copy | status, history and transactions tell one story; a repeat is recognised |
| Listing blocks and shown dates (`vendor_safaris.py`, `get_listing_availability`) | `listing_blocks` | block, lift, show | fetched once per item of a booking, tested per night; the shown dates are computed another way | what is shown as open can be booked; a blocked night is not booked |
| Transport trips (`transport_service.py`, `driver_trip_service.py`) | booking, driver and assignment of a trip | assign, acknowledge, decline, progress, cancel, pay | a reassignment races with the old driver's answers; completion of a cancelled booking | a trip belongs to the driver who acknowledged it and moves forward |
| Transport fares (`get_estimates`, `app/integrations`) | rate cards, cached distances, stored fares | estimate, edit cards, book, provision, earnings | providers fail; two estimates of one route; two roundings | what was quoted is charged, figures add up, today's earnings are in the week's |
| Driver file (`driver_service.py`, `driver_profile_change_service.py`, `driver_avatar_service.py`, `driver_repository.py`) | driver, proposals, photos, files at Cloudinary | sign up, submit, replace, withdraw, approve, reject, decide on the account | review races with replacement; files stored outside the database | what is applied is what was reviewed; a photo that is shown exists |
| Accounts (`deps.py`, `users.py`, `user_repo.py`, `clerk.py`) | users, logins, a profile cache, Clerk's copy of roles | sign in, apply, edit, create, delete | a first sign-in links or creates an account while others edit it; Clerk is told after the commit | a person is signed in to their own account; decisions stand; Clerk follows |
| Signing keys (`deps.py`) | two globals | fetch, verify | written by threads in two steps without a lock | tokens are judged by recent keys |
| Catalogue (`stay_repo.py`, `listing_repo.py`, `dashboard_service.py`) | a property with room types, and the listing that mirrors it | save, patch, project, decide, activate, delete | a save keeps the status it loaded; projection of stale children | statuses agree; an approval changes only as staff or the form name it |
| Listing media (`media_service.py`, `media_repo.py`) | photos, primary flag, cover, images | upload, make primary, delete | Cloudinary first, database second, either may fail | no image is lost, one uploaded photo primary |
| One-time codes (`email_service.py`, `otp_repo.py`) | codes with attempts and expiry | send, verify | a failed email, overlapping requests | only the last code counts, three attempts |
| Guides and drivers of inquiries (`admin/assignments.py`) | rows per inquiry | assign, unassign | check-then-insert | one active row per driver, only vetted ones |
| Rate limits (`rate_limit.py`) | a window of events per key | check | the clock is read before the lock | never more than the limit within a window |
| Wishlists, packages, add-ons, reviews, settings, dashboard | single rows | create, read, update, delete | none beyond one row at a time | as the database says |
| Emails and integrations | none | output to other services | failures are logged | modelled where a caller depends on them |

Interactions: a payment marks the transport booking, or the Booking an inquiry
was given at approval; an approval provisions stays (rooms of the inventory),
capacity (rows of the direct bookings' calendar) and transfers with their fare,
and mails an offer that opens a checkout; the desk changes stay bookings and
inquiries from the other side; expiry and the direct webhook change bookings
that the inventory counts as active; every booking refreshes the stay calendar;
a decision about a property changes the listing, about a driver the account, and
about an account Clerk's copy of it.

## 2. Modules

| Module | Models | Run | Proofs in |
|---|---|---|---|
| `Payments` | `_start_payment`, `handle_notification`, the two payment targets, and every request that changes a target meanwhile | `payments_transport`, `payments_inquiry` | `PaymentsProofs` |
| `PaymentLedger` | what the payments promise: each entry moves legally in one step, with at most one receipt | refined by `Payments` in `payments_inquiry` | `PaymentsProofs` |
| `BookingLedger` | status, payment status, history and transactions of direct bookings | `booking_ledger` | `PaymentsProofs` |
| `StayInventory` | units, stay bookings, blocks, moves, the search | `stay_inventory` | `StayInventoryProofs` |
| `StayCalendar` | the stored counts and everything that refreshes, reads or changes them | `stay_calendar` | `InquiryLifecycleProofs` |
| `InquiryLifecycle` | one inquiry, its Booking and its stays, request by request | `inquiry_lifecycle` | `InquiryLifecycleProofs` |
| `InquiryOffers` | what a guest is told of an inquiry and charged for it | `inquiry_offers` | `BookingsProofs` |
| `VariantBookings` | direct bookings of tours and the nightly rows they lock | through `ListingDates` | `BookingsProofs` |
| `ListingDates` | `VariantBookings` composed with listing blocks and the shown dates | `listing_dates` | `BookingsProofs` |
| `TransportDispatch` | the trip of a transport booking: driver, assignment, booking status | `transport_dispatch` | `TransportProofs` |
| `TransportFares` | quotes, stored fares, cached distances, earnings | `TransportFares.cfg` | `TransportProofs` |
| `DriverFile` | one driver's sign-up, reviews, photos and account status | `driver_file` | `DriverFileProofs` |
| `Accounts` | the users table, Clerk, and the requests that change either | `accounts` | `PeopleProofs` |
| `SessionTokens` | the cache of signing keys | `SessionTokens.cfg` | `PeopleProofs` |
| `OneTimeCodes` | codes and attempts | `OneTimeCodes.cfg` | `PeopleProofs` |
| `RateLimit` | the sliding window | `RateLimit.cfg` | `PeopleProofs` |
| `Assignments` | drivers and guides of inquiries | `Assignments.cfg` | `PeopleProofs` |
| `Catalogue` | properties and the listings that mirror them | `catalogue` | `CatalogueProofs` |
| `ListingMedia` | photos, covers, images | `ListingMedia.cfg` | `CatalogueProofs` |
| `MC...` | the instance of each for TLC | | |

A proof module speaks of several neighbouring models. Two of them it extends, and
so the names of models that are extended together are distinct (`SpecLedger`,
`SpecDates`, `SpecCalendar`, `BookingsTypeOK`, `handler` and `Free` where others
have `request` and `Idle`). The smaller ones are instances there, `F!` being
`TransportFares`, `M!` `ListingMedia`, `A!` `Assignments`, `O!` `OneTimeCodes`,
`R!` `RateLimit` and `S!` `SessionTokens`; the assumptions on their constants are
then hypotheses of the theorems. Sums are written as cardinalities (`OneByOne`,
`SumOf`, `RoomsOf`), for a sum by recursion could be checked and not proved
about.

Conventions. `Requests` are handlers that may run at once; a handler that serves
nobody is `Idle`. What a handler has read is kept in its record, and its commit
writes the columns that differ from that. *History* variables (`loose`, `mishaps`, `outrun`,
`crossed`, `behind`, `apart`, `due`, `overwritten`, `overlapped`, `silent`,
`desk`, `reopened`, `marked`...) do not exist in the code and guard no action: they name
the histories against which the code has no protection, so that a property can
leave out exactly those and still speak of all others. A definition headed
"Faulty" is a plausible bug, used to see that a property notices it.

How state and actions correspond to the code:

- **Payments.** `payment` and `events` are the two tables; `row` has the two
  columns of a target that matter, its workflow status and its payment mark. A
  checkout is `LoadTarget` (the not-payable reasons), `CheckNotPaid`
  (`has_succeeded_for_target`), `CommitCheckout`. A notification is
  `RejectNotice`, `IgnoreNotice`, or `AcceptNotice` (which locks the payment and
  loads the target without a lock) followed by `CommitNotice` or `AbortNotice`.
  `MarkBooking` is every other route that writes a Booking's payment status
  (marked paid by hand, the legacy webhook, a refund, an expired hold, an
  administrator's edit or deletion), and `marked` names the Bookings one of them
  has marked as paid.
  `Flush` is SQLAlchemy's: only the changed columns are written. The signature,
  amount and currency checks are one bit of a notification. `sent` keeps every
  notification of the gateway for ever, so any of them may come again, late, in
  any order; `StrayNotices` are those that fail a check.
- **StayInventory.** Bookings choose under the locks of `_allocate_room_units`
  (`allocs`); the desk's coroutines run one at a time (`desk`). `loose` names
  the claims that a desk request beside a booking, or a reopened booking, may
  have doubled; the code protects nothing there.
- **StayCalendar.** `Compute` is what a request finds when it counts a night (its
  own rows only if it has flushed), `Commit` what it stores; `due` are the nights
  that a change left without a refresh that saw it. `DirectBooking` is tested on
  the row and changes it in place, `Expire` gives it back, `Silently` is a change
  that refreshes nothing.
- **InquiryLifecycle.** A request decides (`Decide`), commits the status
  (`CommitStatus`), then looks at one cart line (`Look`) and creates, confirms
  or skips it, each in its own commit, or releases (`ReleaseStays`). It may end
  anywhere (`FailRequest`, `FailLine`). `mishaps` says whether a release or an
  approval was cut off, and whether a cancellation or the desk ran beside another
  request; `outrun` are the requests that found their line free before it got a
  row. The parent Booking is looked up after the rows are, so it protects no line.
- **InquiryOffers.** Amounts are cents. `StoredTotal` is `compute_totals`,
  `Verified`, `PricedLine` and `Amount` are `price_cart`, `Offered` is
  `build_inquiry_offer`. A change of status is `Decide` (with the `was_approved`
  of its route), `CommitStatus`, `Provision`, `Notify`, `Mail`; the desk's is
  `DeskSets`. `told` collects the amounts a guest has been told. `Notify` may fail to
  write a notice, and a mail fails or a request dies in `Fail`; nobody tries again,
  and `lost` keeps what was due and failed.
- **VariantBookings.** Each transaction has a draft of the rows it locked or
  inserted. `ReserveNight` takes one night of one item in the order of the code;
  a row somebody else holds is waited for. `PickHolds`, `GiveBack` and
  `CommitRelease` are the release of expired holds, with the bookings locked
  throughout. Status changes by staff are `UpdateStatus` or `Update` (tested),
  then `CommitEdit` (written over whatever is there).
- **ListingDates** adds `fetched`, the blocks that a booking in flight holds for
  its present item, and strengthens `ReserveNight` by the test on them;
  `NightFigures` is what guests are shown of a night.
- **BookingLedger.** A request that locks the booking is one action
  (`MarkAsPaid`, `ProcessRefund`, `ReleaseExpiredHolds`); one that does not is a
  reading (`UpdateStatus`, `EditBooking`, `SetByDesk`) and `CommitWrite`, or the
  webhook's `CheckWebhook` and `HandleWebhook`, or `SubmitBooking` and
  `CreateBooking`. The age of a booking is new, recent or overdue.
- **TransportDispatch.** A request is `ReadFor...`, which makes the checks of the
  handler on the row as it is, and later a commit; `Store` writes the columns
  that differ from what was read. `overwritten` collects the trips over whose
  unread changes something was committed; `passed` what a trip has been through
  since it was last given to a driver (`StartAgain`), `outdated` the requests that
  read it before that, and `displaced` the trips one of which was committed all
  the same. Time stamps are left out.
- **TransportFares.** An estimate looks for the cached distance, asks a provider
  (`ProviderAnswers`, `ProviderFails`, `FallbackAnswers`), and prices
  (`PriceEstimate`) by the cards of that moment. A lookup that fails (`FailCached`)
  counts as a miss. `BookedRow` and `ProvisionedRow` are the two ways a fare is
  stored: out of the distance that the customer was quoted and sends back, or with
  whatever price a cart names (`Prices`).
- **DriverFile.** `ReadFor...` and then `Submit`, `Approve`, `Reject`, ... as
  their services commit; `DiscardAsset` is the deletion at Cloudinary that
  follows. `tables` says which of the two review tables exist, for the services
  work without them. `ApplyAsVendor` and `EditAccount` are the routes of `users.py`
  that write the account without looking at the file.
- **Accounts.** A sign-in fetches the profile (`FetchClerkUser`, from a cache),
  finds the row (`FindLocalUser`), updates it (`CheckUpdates`, `WriteUpdates`) or
  creates it, and then serves one request. `Push` is the telling of Clerk.
  `DecideDriver`, `BecomeDriver` and `SignUpDriver` are what drivers' files do to
  accounts, whichever account has a file; in the instance no login is the id of an
  account, so the lookup by id finds nothing there (the theorems hold for any).
- **SessionTokens.** A thread hits the cache, or asks Clerk (`Ask`,
  `ClerkAnswers`) and stores the keys and then the time; Clerk rotates keys at
  will.
- **Catalogue.** A save is `OpenProperty`, `WriteProperty` (up to the flush that
  locks the row) and `SaveProperty` (commit with the projection onto the
  listing); a decision is `OpenListing` and `DecideListing`.
- **ListingMedia.** An upload is `StartUpload`, `UploadImage`, `FinishUpload`; a
  deletion destroys the image first (`DestroyImage`), then the row. The save of a
  stay loads its projected photos (`StartProject`) and later replaces them
  (`FinishProject`), marking new ones primary without a look at the uploaded ones.
- **OneTimeCodes.** `InsertCode` is committed before `MailCode`; a check reads
  (`ReadCode`) and later writes the attempts it read, plus one.
- **RateLimit.** `ReadClock` comes before `LetThrough` or `Refuse`, which are
  under the lock; the bucket is the tail of the log of all events.
- **Assignments.** `StartAssign` tests, `CreateAssignment` inserts.

## 3. Runs

| Run | Shows | Instance |
|---|---|---|
| `payments_transport` | the payment properties with two checkouts of one transport booking and all the requests of staff, driver and customer | 2 orders, 1 booking, a forged and a mismatched notification |
| `payments_inquiry` | every step is one of the ledger, and the gateway's last word is recorded (liveness), for a stay request whose Booking may come later or be marked by other routes | 1 order, 1 inquiry, a forged notification |
| `stay_inventory` | units given once, complete moves, honest search | 2 units, 2 types, 2 nights, 2 bookings (one with two lines), 1 block |
| `stay_calendar` | the stored calendar is right outside the nights that are due; a direct booking fits what was there when it was tested | 3 units of 2 types, 2 nights, 2 bookings, 1 block, 4 requests of which 2 at a time |
| `inquiry_lifecycle` | what an inquiry holds at its end, who confirmed it, and that a stay is booked beside an earlier booking only by a request whose look at it was out of date | 2 stays and a tour, 4 requests, 2 at a time |
| `inquiry_offers` | all amounts told agree within what rounding allows; the guest is told the outcome | 1 inquiry, 2 carts, prices of 2 listings, 3 changes of status, 2 at a time |
| `booking_ledger` | status, history, payment status and transactions agree; paid is not released; repeats are recognised | 2 bookings, a success and a failure at the gateway, 5 requests, 2 at a time |
| `listing_dates` | no reservation is lost, only expired holds are released, blocked nights stay free, what is shown can be booked | 1 variant of 3 places, 2 nights, 2 bookings, 1 release, 1 inquiry, 1 block, 1 edit in flight |
| `transport_dispatch` | no trip skips a step once it is given to a driver, unless a call from before is committed after; only lost updates make driver, booking and declines disagree | 1 trip, 2 drivers, 2 requests at a time |
| `driver_file` | unless a commit crosses another: each column of the profile is what the newest approved request that names it says, shown and pending photos exist, decisions stand; the account has the driver's status from a decision until another route writes it | 2 payout fields, 2 values, 2 changes or 2 photos, 2 requests at a time; one account an edit may leave; beside a review, accounts as sign-up and decisions leave them |
| `accounts` | a login gets its own account; decisions are undone by nobody else; Clerk's copy follows | 2 people, 2 rows, 2 addresses, 3 requests, 2 at a time |
| `catalogue` | listing and property agree; a vendor's save approves, and takes an approval back, only as its payload names, or by overwriting a decision it has not seen | 2 properties, 2 listings (one at a time apart), 1 room type, vendors that ask for draft, submitted or approved, 5 requests, 2 at a time |

Why the bounds are enough: every hazard here is between two writers of one row,
so two orders, bookings, rows or requests in flight let each happen, and one
target, property or variant suffices where nothing couples two of them except
shared rows. The second order of one target is what makes marks contend; the
second line of one type is what autoflush is about; two nights make a partial
overlap and a partial release possible; three places make "enough for one and not
for the other" possible; a second listing is what a property may be projected onto
after its own was deleted; two addresses can be exchanged between two accounts;
a bank detail of two fields can be half changed. A stale request needs the one
that overtakes it and, for the most, one before them that set the scene: hence
the totals of three to five requests.

Bounds that are not sets of actors are named constants: `MaxServed` (requests
begun), `MaxRows` (stay bookings per line), `MaxInFlight` (requests at once),
`MaxEdits` (status changes in flight), `MaxBarred` (drivers not approved at a
time), `MaxChanges`, `MaxPhotos` (proposals of a driver), `MaxTime`,
`MaxAttempts`, `MaxEvents`. Inputs are narrowed by named sets: `DeskTargets`
leaves out that the desk sets a transport booking to `in_progress` or `confirmed`,
which the driver and a payment do as well; `EditTargets`, `EditedStatuses` and
`EditedPayments` keep what an admin's edit can do that no other route does, bring
a booking back to life or call it paid; `Given`, `Decisions` and `Asked` keep one
status of each kind. Symmetry is declared over requests, and over other sets
whose members the instance treats alike; only invariants and action properties
are checked under it, never liveness.

`CHECK_DEADLOCK FALSE` is set where a finished history has no further step (all
bookings made, all requests done); the system then waits for the next request.

Where a cfg does not name a type invariant, it holds too and may be added:
`TypeOK`, or `DatesTypeOK`, `LedgerTypeOK`, `CalendarTypeOK` in `ListingDates.cfg`,
`BookingLedger.cfg`, `StayCalendar.cfg`. In `InquiryOffers.cfg` a price of 12 or 15
cents stands beside one of 11 that a guest may have seen: a cent more, half as
much again, or nothing is what rounding and the agreement on prices tell apart.

### Further instances

These are kept for modules that are proved; each finishes without an error.

| Cfg | Module | Checks |
|---|---|---|
| `TransportFares.cfg` | `MCTransportFares` | `TypeOK`, `ChargedAsQuoted`, `FiguresAddUp`, `DistancesSettle`, expanded up to three quotes and two stored distances |
| `PaymentsInquiry.cfg` with two orders, no strays and `Spec` | `MCPayments` | `TypeOK`, `PaidMarkHasPayment`, where other routes mark the Booking too |
| `ListingMedia.cfg` | `MCListingMedia` | `TypeOK`, `OnlyDeletedImagesAreLost`, `OnePrimary` |
| `OneTimeCodes.cfg` | `OneTimeCodes` | `TypeOK`, `OnlyTheLastCode`, `LimitedUse` |
| `RateLimit.cfg` | `RateLimit` | `TypeOK`, `SpacedOut`, `LimiterInv`, `RefusalsAreJustified` |
| `SessionTokens.cfg` | `SessionTokens` | `TypeOK`, `SessionInv`, `KeysAreRecent`; the bound is tight, for with `Age` one delay shorter TLC finds a counterexample |
| `Assignments.cfg` | `Assignments` | `TypeOK`, `AssignedOnce`, `AssignedAfterApproval` |

### Statements of the documents that the code does not keep

Each is a definition of a module, which TLC refutes on the instance named.

| Definition | Instance | What happens |
|---|---|---|
| `ConfirmedOnlyFromPending` (property) | `PaymentsTransport.cfg` | a cancellation committed while a notification is handled is overwritten by `confirmed` (docs/PAYMENTS.md:33) |
| `NoUnitTwice` (invariant) | `StayInventory.cfg` | two lines of one room type get the same unit, for autoflush is off (STAY_INVENTORY_PHASE3.md:70) |
| `FreePropertyIsListed` (invariant) | `StayInventory.cfg` | a booking of an inactive unit hides a free one from the search |
| `CountedRoomsCanBeBooked` (invariant) | `StayInventory.cfg` | each night has a free unit, but no unit is free on both |
| `GuestCancelsOnlyOpen` (property) | `InquiryLifecycle.cfg` | a guest's cancellation overwrites an approval |
| `NeverBookedTwice` (property) | `InquiryLifecycle.cfg` | two approvals that overlap both find a line free and book it (booking_inquiry_service.py:736) |
| `StepsAlwaysInOrder` (invariant) | `TransportDispatch.cfg` | a call of the former driver, committed after the trip was given to another, takes it from assigned to en_route (driver_trips.py:95) |
| `ClerkIsTold` (property) | `Accounts.cfg` | a driver's sign-up makes a driver of whoever has the address, and Clerk is not told; nor is it of a decision about a driver (clerk.py:87) |
| `ProvisionedAsQuoted` (invariant) | `TransportFares.cfg` | a cart names another price than was quoted (booking_inquiry_service.py:375) |
| `ApprovedNeverWaits` (invariant) | `DriverFile.cfg` | an approved driver applies as a vendor and waits again (driver_repository.py:114) |
| `NoOverbooking` (invariant) | `ListingDates.cfg` with `Capacity <- TwoPlaces` | two first bookings of a night each insert a row |
| `VendorsApproveNothing` (property) | `Catalogue.cfg` | a vendor's form names an approved status, or a save that had loaded one writes it over a rejection (stay_repo.py:113) |
| `ObsoleteVariantsPruned` (property) | `Catalogue.cfg` with `RoomTypes = {r1, r2}` | the listing is given the room types of before the save |
| `ApprovalMailedOnce` (invariant) | `InquiryOffers.cfg` | two routes approve at once and each mails (docs/PAYMENTS.md:93) |
| `ShownPhotosAreStored`, `CoverIsPrimary`, `PrimaryIsOne` (invariants) | `ListingMedia.cfg` | deleting the cover destroys its image and fails; making the primary photo primary again leaves none; the save of a stay makes several primary (stay_repo.py:811) |
| `MailedCodeIsLooked` (invariant) | `OneTimeCodes.cfg` | a code that was never mailed replaces the one that was |

Others were met while reading and are in the models without a property of their
own: the release of an inquiry's rooms may fail after it is committed as
cancelled, and is never repeated (booking_inquiry_service.py:215);
`transition_status` calls itself the only place that changes an inquiry's status
(:186), and the stay desk changes it too (vendor_stays.py:463); the calendar stays
old after a desk booking and the lifting of a block
(stay_inventory_service.py:537, :274), against STAY_INVENTORY_PHASE3.md:84; a
Booking that is provisioned after its payment succeeded is never marked paid
(docs/PAYMENTS.md:94); a hold of several nights gives back only the night of its
travel date (booking_service.py:799), which need not be one of the nights it took,
since the stay's dates come apart from its items' (:371); the desk may reopen a
cancelled stay beside a newer one of the same line (vendor_stays.py:472); a quote
request without a nationality cannot be read back
(booking_inquiry_service.py:556). And some paths end in an error of the program
itself, which the models take for the failure it is: `system_user` is not defined
at booking_inquiry_service.py:876, `HTTPException` not imported in
transport_service.py:346 and :394, `db` not defined in the except branch of the
inquiry's e-mail tasks, and a vendor is asked of a dict in the vendor update of
admin/listings.

### Fairness

`FairSpec` of `Payments` (run `payments_inquiry`) assumes strong fairness of
accepting each notification that was sent, and of committing it. The first stands
for the gateway, which repeats a notification (app/core/rate_limit.py:50:
"gateways retry"), the second for a server that is not down at every attempt;
both need the strong form because a handler of another notification of the same
order holds the row lock now and then, and because an abort ends the handler.
Nothing is assumed of guests, staff or the gateway's decisions. No other
component retries anything by itself, so no other liveness is claimed: a release
or a telling of Clerk that failed is not repeated.

## 4. Proofs

All theorems hold for every value of the constants under the assumptions named;
TLC has checked each inductive invariant on an instance first.

| Model | Theorem | States | Assumes |
|---|---|---|---|
| `Payments` | `TypeCorrect`, `FinalPaymentsStay`, `EvidenceKept`, `ReceiptsOnce`, `PaidMarksCovered`, `SuccessMarks` | `TypeOK`, `FinalPaymentIsStable`, `StatusIsEvidenced`, `OneReceiptPerSuccess`, `PaidMarkHasPayment`, `SuccessLeavesMark` | `PaymentsAssumption` |
| | `LedgerImplemented` | `ImplementsLedger`: initial states and steps map to those of `PaymentLedger` | |
| `BookingLedger` | `LedgerInvariant`, `PaymentsAccountedFor`, `TrailsTellStatus`, `PaidNeverReleased`, `RepeatsAreKnown` | the inductive invariant, `PaymentIsAccounted`, `TrailTellsStatus`, `PaidIsNotReleased`, `RepeatsAreRecognised` | `LedgerAssumption`, `MarksAssumption` |
| `StayInventory` | `StockInvariant`, `UnitsAreGivenOnce`, `MovesKeepRooms`, `OfferedAreFree` | the invariant, `UnitsGivenOnce`, `MovesAreComplete`, `OfferedRoomsAreFree` | `InventoryAssumption` |
| `StayCalendar` | `ShownCalendarStaysRight`, `DirectBookingsAlwaysFit` | `ShownCalendarIsRight`, `DirectBookingsFit` | `TypesAssumption`, `NumbersAssumption` |
| `InquiryLifecycle` | `LifecycleInvariant`, `NothingHeldWhenCancelled`, `ConvertedMeansConfirmed`, `ConfirmedOnlyByStaff`, `BookedAnewOnlyWhenFree` | the invariant, `CancelledHoldsNothing`, `ConvertedIsConfirmed`, `ConfirmedByStaff`, `StayIsBookedOnce` | `LifecycleAssumption` |
| `InquiryOffers` | `OffersInvariant`, `GuestsAreTold`, `AllFiguresAgree` | the invariant, `GuestIsTold`, `FiguresAgree` | `OffersAssumption`, `OfferConstants` |
| `ListingDates` | `DatesInvariant`, `OnlyExpiredReleased`, `BlockedNightsAreNotBooked` | what transactions hold, `OnlyExpiredHoldsAreReleased`, `BlockedNightsStay` | `CapacityAssumption`, `SpansAssumption` |
| | `RowsInvariant`, `StandingCountedAlways`, `OpenNightsAreShown` | what the nightly rows count, `StandingIsReserved`, `ShownAsBookable` | |
| `TransportDispatch` | `TypeCorrect`, `NoStepIsSkipped`, `OnlyLostUpdatesDisturb`, `ClosedBookingsAreFinal` | `TypeOK`, `StepsInOrder`, `UndisturbedTripsAgree`, `ClosedBookingsStay` | `DriverAssumption`, `IdleAssumption` |
| `TransportFares` | `FaresInvariant`, `QuotedFareIsCharged`, `StoredFiguresAddUp`, `SettledForGood` | the invariant, `ChargedAsQuoted`, `FiguresAddUp`, `DistancesSettle` | `FaresConstants`, some extra to charge |
| | `TodayIsInTheWeek`, `EveryTripHasADay` | of a driver's earnings | none |
| `DriverFile` | `DriverFileInvariant`, `OnlyApprovedReachesProfile`, `PhotosAreKept`, `PortalFollowsDecision`, `ReviewsAreFinal`, `PayoutDetailsComplete` | the invariant, `LiveIsWhatWasApproved`, `KeptPhotosAreStored`, `VendorStatusFollows`, `DecidedStays`, `BankDetailsComplete` | `BankAssumption`, `NullAssumption`, `BoundsAssumption`, `EditsAssumption`, `IdleAssumption` |
| `Accounts` | `AccountsInvariant`, `AccountKeysUnique`, `SignedInToOwnAccount`, `ClerkCopyFollows`, `DecisionsAreKept` | the invariant, `TypeOK`, `SignedInAsOwn`, `ClerkFollows`, `DecisionsStand` | `SetsAssumption`, `MarksAssumption` |
| `Catalogue` | `CatalogueInvariant`, `StatusesStayTogether`, `ApprovalsChangeAsNamed` | the invariant, `StatusesAgree`, `ApprovalsAreNamed` | `StatusesAssumption`, `MarksAssumption` |
| `ListingMedia` | `MediaInvariant`, `ImagesAreKept`, `OnePrimaryPhoto` | the invariant, `OnlyDeletedImagesAreLost`, `OnePrimary` | `MediaConstants` |
| `OneTimeCodes` | `CodesInvariant`, `LastCodeOnly`, `CodesWearOut` | the invariant, `OnlyTheLastCode`, `LimitedUse` | `CodeConstants` |
| `RateLimit` | `LimiterInvariant`, `LimitKept`, `RefusalsHaveReasons` | `LimiterInv`, `SpacedOut`, `RefusalsAreJustified` | `LimiterConstants` |
| `Assignments` | `AssignInvariant`, `DriversAssignedOnce`, `OnlyVettedAssigned` | the invariant, `AssignedOnce`, `AssignedAfterApproval` | `AssignConstants` |
| `SessionTokens` | `SessionInvariant`, `TokensJudgedByRecentKeys` | `SessionInv`, `KeysAreRecent` | `SessionConstants` |

The assumptions say that marks for "nothing" are not values, that inputs are of
their types, that bounds are numbers, and that sets that are counted are finite.

The arguments:

- **Payments.** None of the properties is inductive: a commit writes what the
  transaction decided earlier. `LedgerInv` adds what the row lock guarantees in
  between: at most one transaction per order, each for a payment that exists and
  with a status still to be recorded (`TransactionsLocked`), and no payment before
  its checkout committed (`CheckoutFirst`). Only the commit of a checkout and the
  acceptance and commit of a notification touch payments or receipts; every other
  step is `Quiet` (only the other routes to a Booking mark a row as paid, and those
  are `marked`), and `StepKinds` reduces each proof to those three. The marks
  need one more idea, because a transaction writes from the row as it was loaded:
  `MarkCovered` says that a standing mark has a successful payment whose own
  transaction, if one is in flight, also saw the mark standing, so that it will
  take the mark away when it is charged back; `MarkSeen` says that no transaction
  on a transport booking has loaded a mark that the booking then lost.
- **Ledger of direct bookings.** A write from an old copy and a report of the
  gateway meet on one booking, so the invariant is per booking: `Story` says how
  payment, status, history and transactions go together in one that no edit or
  desk has touched, with the status only where no commit crossed another
  (`raced`), and that a booking still pending has never moved money. Repeats need
  the two halves of a check and its insert: who has found a reference unknown, or
  no recent booking, is alone in it and it is still so (`ReportsKnown`,
  `SubmissionsKnown`).
- **Stay inventory.** An allocation alone holds the units it has locked and takes
  rooms among them (`AllocsLocked`); whoever has come to claim one of these since
  is loose (`AllocsFree`). A request of the desk beside a booking is loose too
  (`DeskRaced`), and what it chose alone stays its own (`DeskFree`), since the
  desk's coroutines run one at a time; a move has found a unit for each room of
  its booking (`MovesWhole`). The count of a night is a difference of
  cardinalities: as long as booked units keep their type, the units booked or
  blocked are among those of the type. The smallest count over a stay's nights
  exists because a finite set of numbers has a least element.
- **Stay calendar.** `CalendarInv` says of each request in flight what it has
  computed and from what: the rows it makes are not there yet and on nights that
  it refreshes (`Makes`, `Lays`), no other request makes the same (`Differ`), a
  direct booking still fits on nights that wait for no refresh (`StillFits`), the
  nights it takes off are refreshed (`Cancels`), and what it has read and computed
  is right until a commit crosses it (`Reads`). A commit changes counts on the
  nights it names and no others (`Change`, `Beside`), and whoever has read one of
  those is crossed, so `OthersKeep` carries every other request over
  (`WorldMoves`). Expiry changes entries in place, and is right because one
  booking fewer is exactly its rooms fewer (`OneMoreBooked`).
- **Inquiries.** Requests overlap throughout. A line that was found free is free
  until the request is `outrun` (`SightIsFresh`), which gives `StayIsBookedOnce`
  for every history. The other properties depend on which `mishaps` there were:
  if nothing ran beside a cancellation it is alone (`EndingAlone`), and its release
  finds the status it committed (`ReleasingStatus`); an approval that is not cut
  off has confirmed the lines behind it (`ConfirmedSoFar`), from rows that still
  stand (`SightHolds`), so that a status "converted" is true or is being made so
  (`ConvertedInHand`); a status "cancelled" is too (`CancelledInHand`).
  `ApprovalKnown` needs no exception: only for an approved inquiry are stays made
  with confirmation.
- **Offers and notices.** A request mails only if it found the inquiry not
  approved, so it must be known that one which was found approved is answered: an
  approval is mailed, about to be, lost with its mail, or left to a route that mails nothing
  (`Answered`, `ApprovalsAnswered`); the same of a status and its notice
  (`StatusNoticed`). Of figures: each was computed from the cart's own prices or
  from prices compared with them (`FiguresKnown`), and is apart from the cart's
  own by a cent for each night of rooms at most, before tax (`Near`).
- **Direct bookings.** No row is in the drafts of two transactions (`RowsLocked`),
  and a draft is the row with what its transaction has reserved (`NightsCounted`)
  or at most given back (`HoldsCounted`); an inquiry changes the row it has read
  or inserts its own (`ReservesKnown`). `RowsCountKept` is stronger than
  `StandingIsReserved`: the row counts the places, one by one, of every booking
  whose capacity was never given back (`Kept`), whatever its status, for an edit
  may bring it back to life. Blocks are tested night by night (`NightsTested`),
  against those that have lasted since the booking began.
- **Trips.** `DispatchInv` keeps what the checks established of the row *as it was
  read* (`RequestsChecked`), and that the status read is one the trip has had since
  it was last given to a driver, unless the request is from before (`outdated`);
  so a commit writes a status that follows one the trip has had, or puts it in
  `displaced`, however stale the request (`CommitKeeps`). A commit that leaves its trip out of `overwritten`
  started from the row as it is, so its checks hold of it (`CommitType`,
  `CommitAgrees`). A version check at the commit is all these handlers lack.
- **Fares.** Every quote was priced by the card it names (`QuotesPriced`) and
  every row was made of a quote or a provisioning (`RowsMade`); the rest is the
  arithmetic of two roundings, done once for all amounts. A route is settled when
  its distance is stored and no estimate is still asking for it; no other step
  stores one, and only a failed lookup asks again.
- **Driver file.** Payout details stay whole because each proposal that waits or
  is held, merged with the profile as it stands, would leave them whole
  (`ProposalsAreSound`). An admin who approves the change that waits has read the
  profile as it stands (`ApproverSeesProfile`), and a file that is being deleted
  belongs to no photo but one that was withdrawn (`DiscardedIsWithdrawn`), unless
  a commit crossed another.
- **Accounts.** What a request holds at each stage of its sign-in is a row that
  it found or will make (`RequestsKnow`); Clerk's copy is that of the row, unless a
  request that will tell it is at work (`Telling`, `FollowsRow`) or its login is
  `behind`: the telling failed or was overtaken, it was only linked when it signed
  in, or its row was written by a driver's sign-up or a decision about a driver,
  which tell Clerk nothing. The next telling that arrives ends each of these.
- **Catalogue.** What a save or decision that was not overtaken has loaded is what
  the rows say (`Fresh`); a property that shares its listing keeps it
  (`SharersStay`), or the listing would be written from a stale one; and a vendor's
  save changes an approval only to take it back to draft (`VendorSave`).
- **Media.** What a request has uploaded and not yet stored, and what it is about
  to delete, belongs to it alone (`Own`, `Apart`); with requests one by one
  (`SerialInv`) the flags that were loaded are those of the table.
- **Codes.** Rows of one address are ordered by when they were made, with later
  expiry for later codes (`Ordered`), so the last code is the last to go
  (`LastKept`); attempts count the passed checks but for overwritten ones
  (`Counted`, `Allowed`).
- **Rate limit.** The bucket is a tail of the log; what left it is out of every
  window of a thread that has read the clock, up to the time a thread may take
  from the clock to the lock (`Delay`). The limit holds up to that time.
- **Assignments.** Of two requests about to join one pair the later has seen the
  earlier or is in `overlapped` (`Alone`); what was tested is kept by history
  (`Vetted`).
- **Signing keys.** Each answer is right but for keys that changed since
  (`StampsInv`, `Fits`); keys and time may be of two threads, each of which took
  at most a delay per step (`CacheInv`, `ThreadInv`), so a token is judged by keys
  at most `TTL + 3 * Delay` old.

Only model-checked: `PaymentFollowsGateway`, since liveness under fairness is out
of the prover's reach, and the refutations above. Every other property of every
run is a theorem.

## 5. What is left out

- Amounts, where they are not in `InquiryOffers` or `TransportFares`: in
  `Payments` a notification matches or does not; prices of direct bookings
  (`_resolve_item_pricing`) and the receipts made of them are not modelled.
- In `Payments`, a change of status by staff is one step; only the payment's
  side of the race is split. `TransportDispatch` splits them all.
- `variant.capacity_max` has another default for inquiries (10) than for bookings
  (1); the instance gives every variant a capacity. Replacing a booking's items
  by a PUT is left out. A direct booking's item without a variant takes no
  capacity and is left out.
- Internal notes, the customer's stated payment method, contact details, the
  drivers' availability, wording, logging.
- Wishlists: rows of an external database whose constraints are not part of the
  repository.
- Packages, add-ons, reviews, settings: single rows that one request writes.
  Dashboard and snapshots: read-only aggregation.
- Security tokens and passwords; the protocols of the integrations; settings,
  CORS, health check; schemas other than as the sets inputs come from;
  migrations, scripts, tests and empty stub modules.
- Calls that end in an error at once: `get_snapshot` and `reset` are called
  without an argument they need, and `create_package` and its neighbours use
  attributes their schemas lack.

## 6. Plan

1. Prices of direct bookings (`_resolve_item_pricing`) in the manner of
   `InquiryOffers`, and the replacement of items in `BookingLedger`.
2. What an allocation promises, as an abstract specification that gives units in
   one step, implemented by `StayInventory` where nothing is loose: the
   invariants of its proof are the ones the refinement needs.
3. A composition of `StayCalendar` with `StayInventory`, units and counts in one
   module, once the state space of each has been cut.
