# A TLA+ model of sunrise-travelops-backend

The backend is a NestJS and TypeORM application over one PostgreSQL database. Travel
agencies' inquiries become itineraries and quotes, quotes become tours, tours are
given guides, and finished business is booked in ledgers. Several API processes can
serve the same database, so what keeps the data right is not the process but the
discipline of its transactions: READ COMMITTED, rows locked with `FOR UPDATE`,
advisory locks in a few places, and a `version` column that clients send back.

These modules model that discipline and check it with TLC on small instances. For every
value of the constants TLAPS proves the safety properties of scheduling, ledgers,
reminders, inquiries, itineraries and their quotes, accounts and website quotations, the
refinements of the two abstract specifications, and the nine smaller parts.

| file | what it is |
|---|---|
| `GuideScheduling.tla` | tours, guide services, ratings, leaves and guides: nine kinds of request |
| `MCGuideScheduling.tla`, `MCGuidePeople.tla`, `MCGuideLeaves.tla`, `MCGuide*.cfg` | its instances for TLC |
| `GuideSchedulingProofs.tla` | its type invariant; bookings, leaves, available guides, lost updates, scores, deadlocks, proved |
| `DirectLedgers.tla`, `MCDirectLedgers.tla`, `MCLedger*.cfg` | direct ledgers, their reminder jobs, the workers that deliver them |
| `DirectLedgersProofs.tla` | its safety properties, proved |
| `FrozenOffers.tla` | abstract: what the two inquiry services promise |
| `InquiryLifecycle.tla`, `MCInquiryLifecycle.tla`, `MCInquiryQuotes.cfg` | standard inquiries, itineraries, quotes, and the tours made from them |
| `InquiryProofs.tla` | its safety properties and that it implements `FrozenOffers`, proved |
| `Website.tla`, `MCWebsite.tla`, `MCWebsite.cfg` | website inquiries and quotations under a configuration that is edited |
| `WebsiteProofs.tla` | that the configuration is respected and `FrozenOffers` implemented, proved |
| `TokenChains.tla` | abstract: what sessions promise |
| `Accounts.tla`, `MCAccounts.tla`, `MCAccounts.cfg` | users, sessions, linked accounts, owners of inquiries |
| `AccountsProofs.tla` | its safety properties and that it implements `TokenChains`, proved |
| `QuotePricing.tla`, `ItineraryRules.tla`, `MCItineraryRules.tla`, `MCItineraryRules.cfg` | a draft itinerary saved again and again, and its quote |
| `ItineraryProofs.tla` | that saved prices stand and changes are recorded, and that quotes add up, proved |
| `AgencyHierarchy`, `TourNumbers`, `Alerts`, `WebsiteReport`, `LynxVisits`, `ShengxuLedgers`, `Dictionaries`, `ResourceLibrary`, `Release` (`.tla`) | nine smaller parts |
| `BackOffice.tla`, `MCBackOffice.tla`, `MCBackOffice.cfg`, `MCReleaseKilled.cfg` | the nine parts in one specification, and its instances |
| `BackOfficeProofs.tla` | eight of the nine parts, proved |
| `ReportProofs.tla` | the ninth, the website report, proved |
| `PROJECT.json` | components, runs, mutants, the map from definitions to lines, hazards, theorems |

Run `tlc -workers 2 -config MCGuideTours.cfg MCGuideScheduling.tla` (and so on: the
table of runs names module and configuration), and `tlapm GuideSchedulingProofs.tla` and the
other proof modules (about five minutes each; `BackOfficeProofs` ten).

A definition `X_Change` before a definition `X` is a mutant of it: what `X` would be
after a plausible slip in the code. No specification uses one; `PROJECT.json` pairs each
with a property that TLC then finds violated.

Source paths below are relative to `src/src/` unless they begin with `scripts/`.

## Inventory

### How the parts interact

Every component is a set of request handlers over shared tables; there is no
in-memory state apart from the Feishu token, the inspection-alert cache and the
ledger timer. Components therefore interact through rows, and the interactions are
the places where one handler's check reads a table another handler writes:

- a tour reads leaves, guides and other tours; a leave and a guide's status read tours
  (`GuideScheduling`);
- a tour freezes the inquiry it came from, and that inquiry's writers look for tours
  (`InquiryLifecycle`, `Website`);
- a ledger is converted together with a tour, and tours are cancelled without it
  (`DirectLedgers`);
- a ledger enqueues reminder jobs in its own transaction; a timer in every process
  delivers them with the job's row locked (`DirectLedgers`); deliveries share one token
  with the inspection alerts (`Alerts`);
- disabling a user looks for unfinished inquiries; creating and transferring one
  looks at the user (`Accounts`);
- a session acts as a linked account until the link is removed (`Accounts`);
- a tour number is built from the code of its creator, which linked accounts share
  (`TourNumbers`);
- a website quotation is confirmed under a configuration and resources that may be
  replaced (`Website`);
- agencies and contacts are copied into Shengxu ledgers (`ShengxuLedgers`), dictionary
  entries into inquiries, tours and ledgers (`Dictionaries`), prices of the resource
  library into itineraries (`ItineraryRules`).

### Components

**Tour scheduling** (`tours/tours.service.ts`, `tours/tour-guide-services.ts`).
State: `tours` (status, version), `tour_guide_services` (guide, language, inclusive
times), `tour_ratings`. Operations: create, update, cancel, saveRating. Locks: tour,
then the guides of the old and the new services in id order. Hard: every check of a
new service reads rows other transactions write; a retained service skips the
checks; ratings are deleted by an update of the tour. Correct when no guide is booked
twice, no guide serves on leave or while disabled, no update overwrites one it has
not seen, no score is lost, and the lock order cannot deadlock.

**Guide leaves** (`tours/guide-leaves.service.ts`). State: `resource_guide_leaves`
(guide, first and last day, version, deleted_at). Operations: create, update, delete.
Locks: leave, then guide; the bulk delete locks leaves in no stated order. Correct
when a leave and a service never meet, although each side is checked by other code,
in another unit and in another transaction.

**Guide people** (`resources/guides/guide-people.service.ts`). State:
`resource_guide_people` (status, language, deleted_at, version). Operations: create,
update, delete. Disabling and deleting look for upcoming tours after `now()`, which is
the start of the transaction.

**Direct ledgers** (`ledgers/direct-ledgers.service.ts`). State: `direct_ledgers`
(unconverted or converted, proposal sent, loss, reviewed, operated, operator, version)
and the tours created from it. Operations: create, convert, update, review, operate,
delete. Hard: the row's tours are listed by the same statement that waits for its
lock. Correct when operation follows review and conversion and a ledger with an
active tour stays converted.

**Ledger reminders** (`ledgers/ledger-notifications.service.ts`). State:
`feishu_ledger_notifications` (status, attempts, next attempt), unique per ledger,
version, kind and recipient. Operations: enqueue in the ledger's transaction, drain on
a five-second timer in every process. Hard: crashes after Feishu accepted, lost
answers, retries, a ledger that changes while its reminder is on the way. Correct when
nobody is reminded twice or of something settled, no need is dropped, and every job
ends.

**Feishu client and inspection alerts** (`feishu/feishu.service.ts`,
`inspection-alert/inspection-alert.service.ts`). State, in one process: the token and
the one token request in flight; a bounded cache of sent alerts and a map of those in
flight. Hard: several senders share the request; a rejected send drops the token; the
cache evicts; a restart forgets. Correct when an alert that was answered "sent" or
"duplicate" has reached the recipient.

**Shengxu ledgers** (`ledgers/shengxu-ledgers.service.ts`). Versioned rows unique per
date, agency and contact, with names copied from rows others edit. Correct when what is
written is current at the moment it is written.

**Standard inquiries and itineraries** (`inquiries/inquiries.service.ts`). State:
inquiry (new, planning, quoted, lost, archived; version), itineraries, frozen quotes,
downloads. Operations: create, edit, transfer, archive, delete, createItinerary, copy,
saveItinerary, confirmPdf, recordDownload. Hard: an active tour makes an inquiry read
only, checked after its row lock; confirmPdf may be repeated and must return the quote
it froze before. Correct when a tour's quote is the newest downloaded one and stays
so, and a confirmation freezes what its client saw.

**Quote pricing and itinerary rules** (`inquiries/itinerary-validation.ts`,
`price-adjustments.ts`, `structured-itinerary.ts`, `quote-pricing.ts`). A save
normalises what the client sent against what is saved and against the catalogue, logs
price changes, and rewrites the tables. Hard: all of it is defined relative to the
previous save, over many saves, while the catalogue changes.

**Website inquiries, quotations and configuration** (`website/website.service.ts`).
State: inquiries, itineraries, frozen quotations, a versioned configuration. Hard:
confirm reads the configuration `FOR SHARE` while saveConfig and the record edits
replace it. **Website planning engine and prices** (`website/website-engine.ts`,
`website-price.ts`): a computation with two outputs, the issues and the report.

**Sessions** (`auth/auth.service.ts`). State: sessions (user, hash of the refresh
token, version, expiry). Operations: login, refresh (rotates the hash), switchAccount
(rebinds the session), logout, password change. Hard: a refresh token used twice or
against a switch. **Users, owners, coordinators** (`users/user-management.service.ts`):
disabling, stripping and deleting a user count unfinished inquiries. **Account links and
tour codes** (`users/account-links.service.ts`, `users/tour-code.ts`): groups of two or
three accounts in distinct scopes; codes unique outside a group.

**Tour numbers** (`tours/tours.service.ts` insertTour, `tours/tour-rules.ts`). A counter
per creator and day, an advisory lock per number base, and the numbers already given.

**Agencies** (`resources/agencies/agencies.service.ts`). A tree of two levels; a rename
rewrites the children's names, in the opposite lock order of a child's update.

**Other resources** (`resources/**`). Versioned rows with business codes typed or drawn.

**Dictionaries** (`system/business-dictionaries/**`). Entries that other tables name by
id and copy by code, edited without row locks.

**Visits and registry** (`lynx/**`). Idempotent registration of a visit; its conversion
into an inquiry by users who read it through another connection.

**Release scripts** (`scripts/deploy.py`, `scripts/prepare_release.py`). Build, migrate,
activate or restore, record, roll back, clean up, each of which may fail or be killed.

**Operation logs, dashboard, maps, roles and menus, inquiry documents, configuration and
start-up.** Append-only logs, read-only queries, constant tables, parsing.

## Plan

Most important first; each module states one discipline and ends with its properties.

1. `GuideScheduling` with its proofs. *Done and proved.*
2. `DirectLedgers`: ledger life cycle, outbox and delivery workers. *Done and proved.*
3. `InquiryLifecycle` with the abstract `FrozenOffers`. *Done and proved, refinement included.*
4. `Accounts` with the abstract `TokenChains`. *Done and proved, refinement included.*
5. `Website`, which implements `FrozenOffers` as well. *Done and proved, refinement included.*
6. `ItineraryRules` and `QuotePricing`. *Done and proved; child prices, transport fees and
   other costs per person are left.*
7. The nine parts of `BackOffice`. *Done and proved.*

Composition: `InquiryLifecycle` and `GuideScheduling` share only the row of a tour
and its status. Neither reads the other's tables, so they stay separate modules.
`DirectLedgers`, `Website` and `InquiryLifecycle` contain the part of a tour they read
(its status). `ItineraryRules` refines one step of `InquiryLifecycle`, the save of an
itinerary, whose locks make it atomic.

## Runs

| run | module and configuration | instance | shows |
|---|---|---|---|
| `guide_tours` | `MCGuideScheduling`, `MCGuideTours.cfg` | 2 tours, 2 guides, three services of which two share a minute | no double booking, lost update or deadlock |
| `guide_leaves` | `MCGuideLeaves` | 1 tour, 1 guide, 2 leaves, times around midnight | tours against leaves; the proofs' invariant; every request ends |
| `guide_people` | `MCGuidePeople` | 1 tour, 2 guides, the last minute of a service and the one after | guides disabled or retrained; ratings against updates |
| `rating_seen` | `MCGuideScheduling`, `MCGuideRatingSeen.cfg` | 1 tour, 2 guides, 4 versions | a violation, see Findings |
| `ledger_writes` | `MCDirectLedgers`, `MCLedgerWrites.cfg` | 2 transactions, 3 versions | the life cycle of a ledger |
| `ledger_reminders` | `MCDirectLedgers`, `MCLedgerReminders.cfg` | 1 writer, 2 workers, a crash, 2 attempts | delivery of reminders, with liveness |
| `inquiry_quotes` | `MCInquiryLifecycle`, `MCInquiryQuotes.cfg` | 2 transactions, 1 inquiry, 2 itineraries, 2 tours | quotes and tours; refinement of `FrozenOffers` |
| `accounts` | `MCAccounts` | 2 transactions, 2 users, 2 sessions, 1 group, 1 inquiry | sessions, groups, owners; refinement of `TokenChains` |
| `website` | `MCWebsite` | 2 transactions, 1 inquiry, 2 itineraries, 2 records | quotations under a changing configuration; refinement of `FrozenOffers` |
| `itinerary` | `MCItineraryRules` | 1 itinerary, 2 days, one section edited at a time | prices stand, changes are logged, quotes add up |
| `back_office` | `MCBackOffice` | one of nine parts per behaviour | ten invariants, one or two per part |
| `release_killed` | `MCBackOffice`, `MCReleaseKilled.cfg` | the release part, killed at one point | a violation, see Findings |

Type invariants are kept where a proof uses them (`GuideScheduling.TypeOK`,
`TourNumbers.NumberTypes`). Bounded versions, requests and edits stop these models, so
TLC's deadlock is checked only where the system goes on for good (`ledger_writes`,
`ledger_reminders`, `itinerary`).

## GuideScheduling

### State and actions

A request is a transaction. `pc` says what it does next, `req` holds what the client
sent, `need` and `todo` the guide rows it still has to lock and the services it still
has to check, and three functions give the owner of every row lock. Its writes become
visible in one step, `Commit...`, which also releases the locks; a refused check, a
broken connection and a deadlock victim take `Rollback`. Every check is a step of its
own that reads what is committed at that moment, which is what READ COMMITTED gives
each statement. So between a check and the commit that relies on it any number of
other transactions may commit.

| code | actions |
|---|---|
| `ToursService.create` | `BeginCreateTour`, `LockServiceGuide`, `CheckRated`, `CheckService`, `CommitCreateTour` |
| `ToursService.update` | `BeginUpdateTour`, `LockTour`, then as above, `CommitUpdateTour` |
| `ToursService.cancel` | `BeginCancelTour`, `LockTour`, `LockServiceGuide`, `CommitCancelTour` |
| `ToursService.saveRating` | `BeginSaveRating`, `LockTour`, `CheckRating`, `CommitRating` |
| `GuideLeavesService.create`, `update` | `BeginCreateLeave` / `BeginUpdateLeave`, `LockLeave`, `LockLeaveGuide`, `CheckLeaveDays`, `CommitLeave` |
| `GuideLeavesService.delete` | `BeginDeleteLeaves`, `LockLeave` (any order), `CommitDeleteLeaves` |
| `GuidePeopleService.update`, `delete` | `BeginUpdateGuide` / `BeginDeleteGuides`, `LockPerson`, `VetPerson`, `CommitUpdateGuide` / `CommitDeleteGuides` |
| PostgreSQL | `DeadlockVictim`, `ConnectionLost`, `Tick` (the clock) |

Data that no step compares is left out: names, flights, tour numbers, the inquiry a
tour came from, remarks. A service is known by its content (guide, language, from, to),
since two equal services of one tour would overlap and are refused. A client sends the
stored service whose id it names (`old`) and what it wants it to become (`new`). Times
are minutes and leaves are days, as in the code, and the two comparisons
(`LeaveCovers`, `ServiceInDays`) are written as the two queries write them. A rating
is a version and whether any of its scores is set. Services a migration made from older
tours, which may start and end in one minute, are left out.

### Properties

- `NoDoubleBooking`, `NoServiceDuringLeave`: what the locks on guides are for.
- `UpcomingGuideAvailable`, `AssignedGuideQualified`: disabling, deleting or retraining
  a guide against scheduling him, with the clock moving.
- `NoLostUpdate`: the version and the status on the locked row.
- `ScoresSurviveUpdates`: an update deletes the ratings of guides that lost their last
  service, and must delete only empty ones; and all of those, so that no rating is left of a
  guide without a service, whatever is rated meanwhile (`RatingsServed`).
- `NoDeadlock`, `EveryRequestEnds`: the lock order, and that everybody gets through.
- `SchedulingInv`: the first invariant of the proofs, checked before it was proved.
- `RatingSeenBeforeSaved`: fails, see Findings.

### Bounds and fairness

Two open transactions are enough for every race between a check and a commit, because
each property relates at most two rows that two transactions write; the proofs lift the
safety of bookings and leaves to any number. `MaxVersion` stops requests on rows that
reached it: a tour can be created, updated and then updated or cancelled, a leave
created, moved and deleted. `MaxServices` is 2 where services of one request meet each
other and 1 elsewhere.

Two runs keep apart what cannot interact. In `guide_people` a behaviour has requests that
change guides or requests that rate and cancel, which share no row except the tour's
(`OneSubject`). In `guide_leaves` a behaviour has requests of two services with one leave, or
of one service with two leaves that one request deletes together (`LeavesOrServices`). Both
are ACTION_CONSTRAINTs that remove requests of clients, nothing else: no client is
assumed to send any, so the fairness means the same with and without them.

`guide_tours` has none of the bulk deletions of leaves; those do deadlock when two of
them share leaves, PostgreSQL aborts one, and `guide_leaves` shows that all of them end
nevertheless. `NoDeadlock` states a cycle of transactions that wait for each other's
rows, not TLC's deadlock.

Fairness (`guide_leaves`). `SF_vars(Work(p))`: a row lock goes to whoever asked
first, so a transaction whose row is free again and again gets it. `WF` of
`DeadlockVictim`: PostgreSQL looks for a cycle after `deadlock_timeout`. Nothing is
assumed of clients or of connections.

### Proofs

Assumptions: guide ids are naturals (they are only ordered), times and days are
naturals, `NoOne` and `NoService` are no rows, the bounds are naturals. All are named
in the module and evaluated by every run.

`TypeCorrect` proves `Spec => []TypeOK`, one lemma per group of actions.

`NoDoubleBooking` is not inductive: a commit writes services checked earlier. The
strengthening `SchedulingInv` adds, for every transaction,

- `StageFits`: which operation can be at which stage;
- `OwnsTour`: the tour being changed is locked by it and active, or does not exist yet;
- `OwnsGuides`: each guide of the request is locked by it or still in `need`;
- `ChecksHold`: what it has checked is still so, for services and for leaves;
- `FreshToursDistinct`: two creations never draw the same id.

The argument is one sentence: a check of a guide's services or leaves can only be
undone by a commit that writes a row of the same guide, and that commit holds the
guide's lock, which the first transaction holds as well. `GuideSchedulingProofs` carries
it out per action: steps that only lock or check, commits of tours (by the locks of
tours and guides), commits of leaves (where `LeaveCovers` and `ServiceInDays` are shown
to agree), commits that free something, and the stutter. `SchedulingSafe`,
`NeverDoubleBooked` and `NeverServesOnLeave` follow for any number of transactions,
tours, guides, leaves and times. Note that cancelled tours and deleted leaves only make
checks easier, so their commits need no lock for this argument; they hold one for
`NoLostUpdate`.

Two more invariants stand on `SchedulingInv`.

- `AvailabilityInv` adds `PersonsVetted`: whoever disables, retrains or deletes a guide holds
  the row since the search for upcoming tours found none, and `now()` at the start of
  the transaction is not later than the clock, so that nothing upcoming was overlooked. And
  `ServicesQualified`: a checked service has a guide who qualifies, or is one that the
  tour had and that the update keeps unchecked. The second case is why
  `UpcomingGuideAvailable` has to be part of the invariant itself. It gives
  `UpcomingGuidesStayAvailable` and `AssignedGuidesQualify`.
- `EditsKnown` says what the version a client sends stands for: a tour's services change only
  together with its version, so if the two versions are equal then the services are those
  the client has seen; and an update past its check of ratings holds the tour's lock, which
  every rating needs. A rating about to be saved is of a guide who serves the tour.
  It gives `UpdatesAreNotLost` and, with `RatingsKept` (a tour not yet created has no
  ratings), `ScoresAreKept`.

`NoDeadlock` stands on a third invariant, `LocksOrdered`: who waits for a tour holds no row,
who waits for the guides of a request holds smaller guide ids only, and of those who wait
for a leave only a deletion of several leaves holds one already. A set of requests that wait
for each other therefore has nobody who waits for a tour, since its owner would not wait;
nobody who waits for a guide, since following the guides waited for upwards ends at the
greatest one (this needs finitely many guides, hence `IsFiniteSet(Guides)`); and so only
requests at the leaves. `DeadlocksAreDeletions` concludes that two of them are deletions of several
leaves, whose query has no `ORDER BY`; `NobodyDeadlocks` is `NoDeadlock` for every `Ops`
without `deleteLeaves`, as in the run `guide_tours`. With it the property is false, and
`guide_leaves` shows that PostgreSQL's victim resolves it.

Only model-checked: liveness, which is out of the prover's reach.

## DirectLedgers

### State and actions

A ledger is a record of the fields its reminders and its checks read. Its tour is a
status, since the code only asks whether there is one and whether it is active. A job
is known by the unique key of its table. `req[p].tour` is the list of tours as
`SELECT ... FOR UPDATE` saw it when the statement began (`row`): PostgreSQL re-reads the
locked row after a wait, but not the subquery on `tours`, so the request carries a
stale value, and the version comparison has to make up for it.

| code | actions |
|---|---|
| `create` | `BeginCreate`, `ChooseRecipients`, `Commit` |
| `update`, `convert`, `review`, `operate`, `delete` | `BeginOnLedger`, `LockLedger`, `LockJob`, `ChooseRecipients`, `Commit` |
| `LedgerNotificationsService.enqueue` | `SameNeed`, `JobsToChange`, `NewJobs`, `JobsSaved` |
| `drain` | `Claim`, `ReadLedger`, `Send`, `Record`; `BackoffOver` is the passing of time |
| `ToursService.cancel` | `CancelTour` |
| user management | `ToggleUser` |
| a process dies | `Crash`, `Rollback` |

`Send` ends in one of three ways: accepted and answered, accepted with the answer lost,
not accepted. Feishu shows one message for all requests with the same uuid; the code
relies on that by sending the job's id, and the model states it in the module's header.
`wanted` is a history variable: the jobs whose need has persisted and whose user has
been reachable since the need arose.

### Properties

`ledger_writes` (two transactions, three versions, five ways to fill in a ledger):

- `OperatedInOrder`: a loss is reviewed, the proposal sent and the ledger converted before it
  is operated, whichever requests race.
- `ActiveTourConverted`: the stale tour list.
- `PendingJobsNeeded`: a job that waits is one the ledger still asks for.

`ledger_reminders` (one writer, two workers, a crash, two attempts, two versions):

- `DeliveredOnce`: a job shows one message at most (`OneMessagePerJob`), and a need that
  persists ends as one that was sent or was given up (`NoReminderLost`).
- `NoStaleReminder`: nobody is reminded of what the ledger, as committed then, no longer asks.
- `EveryJobSettles`: every job ends.

Bounds. The code gives up after 4 attempts; `MaxAttempts` is a constant because two
are enough for a retry and for giving up. One ledger suffices: jobs and locks of
different ledgers never meet. The initial states include a ledger that was converted
before tours were linked to ledgers (`LegacyRow`), which can be converted without one.
Users come and go at any time, so these runs check TLC's deadlock as well.

Fairness. `SF_vars(Drain(w))`: the timer calls `drain` every five seconds for good, so a
job that is free again and again is free at one of the calls. `WF` of `BackoffOver`: time
passes. `WF_vars(Write(p))`: a transaction that can go on does. Nothing makes Feishu
accept a message, and crashes are bounded.

### Proofs

Assumptions: managers and coordinators are users, writers and workers are different
processes, `NoOne` is none of them, at least one attempt is made (`UsersAssumption` and the
following). `LedgerInv` is inductive; beside the types it says, of

- a ledger (`LedgerSound`): it is operated in order, and one that ever had a tour is
  converted;
- a job (`JobSound`): it is no newer than its ledger, and jobs that wait are all of one
  version and of what the ledger asks for now;
- a writer (`RequestSound`, `HoldsLedger`, `ReadyToCommit`): the list of tours that it read is
  stale only if the version it read is, too, so a request that passes the comparison of
  versions has seen the tours; past its checks it holds the ledger, past its choice of
  recipients every job it changes;
- a worker (`WorkerSound`): it holds the job it delivers, and the job waits until the
  worker records otherwise, which is why neither a writer nor another worker can change it.

`ToursStayConverted` is the first of these clauses at work: `convert` and `create` alone make
tours, and both move the version. `JobsDeliveredOnce` and `NobodyRemindedInVain` follow from
the last two: between reading the ledger and sending, whoever wants to settle the
need must first skip the claimed job and waits for its lock. `ReminderKind` is written with
IF instead of CASE for the provers; its cases exclude each other.

### Notes from modelling

- `SKIP LOCKED` together with holding the claim through the delivery is what makes
  `NoStaleReminder` true: a writer that changes the need must first update the claimed
  job and so waits for the delivery.
- A loss that was reviewed before its proposal was sent can no longer be edited,
  deleted or operated. Each of the three rules is deliberate; together they leave the
  ledger open for good. No doc says that this should not be, so no property forbids it.

## InquiryLifecycle

### State and actions

An inquiry is a status, a version and one value for all its other columns (its owner
among them); an itinerary the same. A quote holds a copy of both contents, the two
versions it was frozen from and whether it was downloaded; `itinerary_quotes` has a
unique itinerary. `at` is the quote's `created_at`: the column defaults to `now()`, the
start of the transaction, so `clock` advances when a confirmation begins and two
confirmations may commit in the other order. Every transaction goes through `lock`
(`SELECT ... FOR UPDATE` of the inquiry), `check` and `save`. An itinerary is locked
after its inquiry and only by these transactions, so its lock never waits and is left
out. A client sends the versions it has loaded; a confirmation also remembers the
contents it has loaded, which no step of the code reads and only the properties use.

| code | actions |
|---|---|
| `create` | `CreateInquiry` |
| `update`, `archive`, `delete`, `transfer` | `BeginOnInquiry`, `LockInquiry`, `Check`, `CommitInquiry` |
| `createItinerary`, `copy` | `BeginCreateItinerary` / `BeginCopy`, `LockInquiry`, `Check`, `CommitNewItinerary` |
| `saveItinerary` | `BeginSaveItinerary`, `LockInquiry`, `Check`, `CommitSaveItinerary` |
| `confirmPdf` | `BeginConfirm`, `LockInquiry`, `ReplayConfirm` or `Check` and `CommitConfirm` |
| `recordDownload` | `RecordDownload` |
| `ToursService.insertTour`, from a standard inquiry | `BeginCreateTour`, `LockInquiry`, `Check`, `CommitCreateTour` |
| `ToursService.cancel` | `CancelTour`, which takes no lock on the inquiry |

Left out: codes, logs, price adjustments, contacts, whether the owner may be one (with
`Accounts`), and what content validation refuses, which ends in `Rollback`.

### Properties

- `TourFromLatestQuote`: creating a tour against confirming another itinerary, closing
  the inquiry and creating a second tour.
- `ConfirmedAsSeen`: versions stand for content. It fails if a save of details leaves
  the itinerary's version alone, or if a repeated confirmation asks for less than both
  versions before it answers with the frozen quote.
- `StatusesAgree`: the status of the inquiry, rewritten by three operations, and the
  quotes that exist.
- `KeepsOffers`: the module implements `FrozenOffers` (an offer is a frozen quote, an
  inquiry is sold while it has an active tour, and closed when lost, archived or
  deleted): frozen content never changes, nothing is frozen for a sold or closed
  inquiry, and nothing is sold twice.

Bounds. An inquiry is at version 2 with its first itinerary and at 3 with its first
quote, so version 4 leaves room for an update, a transfer or a deletion that races with
a tour. Two itineraries give two quotes of which one is newest. Two tours give a
second sale, at once or after a cancellation. That no inquiry has two active tours is
also the unique index `UQ_tours_active_inquiry`, which the model does not use: the run
shows that the lock alone is enough. Versions end the bounded model, so TLC's deadlock is not checked. The values are
symmetric, and no liveness is checked under symmetry.

### Proofs

Assumptions: `NoOne` is no row and no content, and the bounds are naturals. `InquiryInv` adds
to the types: a created inquiry has content and its status fits its itineraries
(`InquirySound`), a quote is older than its itinerary (`ItinerarySound`), an active tour is
the only one, from the newest downloaded quote of an inquiry that is still writable
(`TourSound`); and of a transaction what it named when it began (`RequestSound`) and what it
has checked (`HoldsInquiry`). The clauses that carry the argument are `SeenInquiry` and
`SeenItinerary`: a version never decreases, and while it is the one a client sent, the
content is the one the client saw; a repeated confirmation that matches both frozen
versions finds the contents it had loaded. `InquiriesKeepOffers` shows that `Init` maps to
the abstract initial states and every step to a step of `FrozenOffers` or a stutter:
`CommitConfirm` freezes, `CommitCreateTour` sells, `CancelTour` frees, and the writers of
the status close; all others leave frozen contents, sales and closed inquiries as they are.

## Accounts

### State and actions

An account has a status, a scope, a role, a tour code, a password and the group it is
linked in; a session the user it acts as, a version and the newest token. Passwords and
tokens are numbers. Whatever changes an account or a session first takes the advisory
lock `account-links` (`TakeAccounts`); user management takes the row of the user as well
(`TakeUser`); giving an inquiry to an owner takes only that row. The lock of the
inquiry is taken last, in the step that checks its version and writes, and is left out.

| code | actions |
|---|---|
| `AuthService.login` | `BeginLogin`, `TakeAccounts`, `Check`, `CommitLogin` |
| `refresh` | `BeginRefresh`, `TakeAccounts`, `Check`, `CommitRefresh` |
| `logout`, `switchAccount`, `changePassword` | `BeginAsUser`, `TakeAccounts`, `Check`, `CommitLogout` / `CommitSwitch` / `CommitPassword` |
| user `create`, `update` | `BeginSaveUser`, `TakeAccounts`, `TakeUser`, `Check`, `CommitSaveUser` |
| user `delete`, `resetPassword` | `BeginManageUser`, as above, `CommitDelete` / `CommitPassword` |
| `AccountLinksService` | `BeginSaveLink`, `TakeAccounts`, `Check`, `CommitLink` |
| creation and transfer of inquiries | `BeginGive`, `TakeUser`, `Check`, `CommitGive`; `FinishInquiry` |

The access token is checked in a statement before the handler's transaction
(`Authenticated` in `BeginAsUser`), the password of a login likewise; both are therefore
stale when the lock is granted, and the check under the lock (`SessionSeen`,
`PasswordSeen`) has to make up for it.

### Properties

- `TokenUsedOnce`: a refresh or switch that is about to write still finds the session it
  checked, so that no token is used twice and no deleted session is written back.
- `SessionsAllowed`: an open session is that of an enabled account and was opened with the
  password and the role that the account has now, and a switch that found two accounts
  linked opens the session while they still are. It does not say that a removed link ends the
  sessions opened over it: the code leaves them open, as those of the account they are of.
- `OwnersAvailable`: an unfinished inquiry has an owner who may own it, although the
  count of unfinished inquiries and the choice of an owner are separate checks.
- `GroupsSound`: a group has two or three live members in distinct scopes, and only linked
  accounts share a code, through linking, unlinking, deleting and editing.
- `KeepsChains`: the module implements `TokenChains`: a session has one current token,
  each newer than all before it, and stays closed when it is closed.

Bounds. Two accounts, two sessions, one group and one inquiry, with two requests in a
behaviour (`MaxRequests`), open together or one after the other. Such a short behaviour
is enough because it starts in any state the accounts can be in: linked or not, with
sessions open, with an unfinished inquiry. Expiry of tokens, superusers and headquarters
accounts are left out. The rows are symmetric; no liveness is checked.

### Proofs

Assumptions: forms are those of the user dialogue, `NoOne` is no row, and there are finitely
many sessions, from which the state at the start is chosen. `AccountsInv` is inductive. It
joins the three invariants of the runs, which need one another (an update of a user
ends sessions and counts inquiries), with `TokensSound` (a token belongs to one
state of one session, and an open session holds the token issued for it), `LinkSound`,
`LocksHeld` (all but the giving of inquiries work under the advisory lock; who locks a user's row
holds it until the commit) and `ChecksHold` (what was checked is still true at the
write). The argument for owners needs both locks: the giver holds the owner's row, and
whoever disables the owner holds that row as well. `GroupsStaySound` takes
cardinalities of finite sets from `FiniteSetTheorems`. `SessionsKeepChains` maps a session to
its token and to whether it was opened and is no longer open; `TokenUsedOnce` is the fact
that excludes writing to a session that was closed meanwhile.

## Website

### State and actions

A configuration is the set of its records, cities and attractions, each absent, disabled
or enabled, with a version; an itinerary is the records it uses and the version it was
planned with. Records may name a shared resource, which another service disables or
deletes. Only the current configuration is kept: nothing modelled reads the records of
an older one.

| code | actions |
|---|---|
| `create` | `CreateInquiry` |
| `update`, `lose`, `archive`, `delete`, `transfer` | `BeginOnInquiry`, `LockInquiry`, `CommitInquiry` |
| `createItinerary`, `copy` | `BeginCreateItinerary` / `BeginCopy`, `LockInquiry`, `CommitCreateItinerary` / `CommitCopy` |
| `saveItinerary` | `BeginSaveItinerary`, `LockInquiry`, `CommitPlan` |
| `generate` | `BeginOnItinerary`, `LockInquiry`, `ReadConfig`, `CommitPlan` |
| `confirm` | `BeginOnItinerary`, `LockInquiry`, `ShareConfig`, `ShareResources`, `CommitConfirm`, or `ReplayConfirm` |
| `saveConfig`, edits of one record | `BeginSaveConfig` / `BeginEditRecord`, `LockConfig`, `ShareResources`, `CommitConfig` |
| `ToursService.insertTour`, from a quotation | `BeginCreateTour`, `LockInquiry`, `CommitCreateTour` |
| others | `RecordDownload`, `CancelTour`, `ChangeResource` |

`LockInquiry` contains the checks that follow it in the same statement block, since
everything they read is under the lock. The configuration is read under no lock of the
inquiry, so `ReadConfig`, `ShareConfig` and `ShareResources` are steps of their own.

### Properties

- `ConfigRespected`: a quotation is frozen under the configuration that is current at that
  moment and from enabled records with live resources (`FrozenUnderCurrent`), and a
  new configuration is what its editor wanted of the version the editor saw, and refers
  to no deleted resource (`ConfigAsIntended`).
- `KeepsOffers`: this service implements `FrozenOffers` too.

Bounds. Two transactions, three requests, one inquiry with two itineraries, a city and a
sight that names one shared resource. Initial states may already hold planned or quoted
itineraries, so three requests reach a confirmation, a change and a sale.

### Proofs

Assumptions: `CityOf` and `ResourceOf` are functions of records, plans are sets of records,
itineraries are finitely many (the order of those given at the start is chosen among them), and
`NoOne` is no row and no content. `WebsiteInv` adds to the types that the current
configuration is coherent, that nobody shares it while somebody replaces it, that an
edit wants what its editor saw with the edit made (`EditSound`), and what a transaction holds
after each step: the inquiry with everything checked under it (`InquiryHeld`), the
configuration (`ConfigHeld`), every resource referred to (`ResourcesHeld`).
`ConfigIsRespected` is then a matter of the commit alone. `WebsiteKeepsOffers` has the
shape of `InquiriesKeepOffers`, with the records used and the configuration's version as the
content of an offer.

## QuotePricing and ItineraryRules

A save of a draft itinerary is one step (`InquiryLifecycle` has its locks): the document
the client sends is normalised against the saved one and the catalogue (`Normalized`),
refused unless `Acceptable`, compared with the saved prices (`Adjustments`), and written
as rows that are then loaded (`Rows`, `Loaded`). `EditCatalogue` changes prices and availability
between saves. `QuotePricing` computes what a group of each size pays: rooms, guides,
vehicles by segments of days, meals and tickets, rounded as the code rounds. What a client
may send is `ItineraryInput`, the fields of the DTO classes and the bounds on them that a
rule relies on (prices not below zero, at least one guest, day and destination).

- `PricesStand`: saving what was loaded changes nothing whatever happened
  to the catalogue (`SavedPlanStable`), and a price that differs from its reference
  has its reason (`PriceExplained`), over any number of saves.
- `NoSilentPriceChange`: a price of a selection changes only together with a row of the
  adjustments that has both prices.
- `QuoteSound`: the breakdown adds up: cities make the hotel cost and each is within half a
  cent of half its rooms, shared costs cover what is shared up to rounding, a larger
  group never pays more per person (`QuoteAddsUp`); and a plan that may become a PDF
  misses no hotel, vehicle or seat (`ReadyQuoteComplete`).

Bounds. Two days, two cities, two prices in cents (4 and 7, whose shares do not divide
evenly), one guide per plan, three hotels, two vehicles. `Focuses`: a behaviour edits one section
of the plan; the sections are normalised apart and meet only in the quote, which is
computed for every focus. Left out: child prices, transport fees, the other cost per
person of the second group size, attractions outside the catalogue, titles and
descriptions, the number of vehicles, real dates.

### Proofs

`PricesStand` is not inductive: that a plan can be saved again depends on every section of it.
The invariant `ItineraryInv` is `Settled(plan)`, which says of the plan alone what any save
leaves behind, whatever the catalogue has become since: the meals and nights of its days fit
and breakfasts and departures are those derived (`DaysSettled`), every price is there without
a reason it does not need and not without one it does (`Accounted`), vehicle totals in
automatic mode are the sums of their segments (`GroupSettled`), and the quote has the prices
of the plan's own groups, cities and options (`QuoteSaved(data) = data.quote`). Four facts
make `ItinerarySettled`: what `Rows` writes, `Loaded` reads back; the DTO types survive a
normalisation; an acceptable document, normalised, is settled; the catalogue occurs in no
conjunct. A settled plan is acceptable over itself and its own normal form, for every
catalogue, which gives `SavedPricesStand`. `ChangesRecorded` compares the entry a save
writes with the one it replaces, section by section.

`QuotesSound` is arithmetic over sums. A sum is a fold over a finite set, which unfolds to a
recursive function on its subsets; the proofs rest on induction in a form without an
operator parameter, over sets of subsets (`SubsetInduction`): the function that adds up exists
and is unique, and adding an element, dropping all zeros or comparing two sums term by term
follow. From it: the costs of the cities, each of which is what it adds to a rounded running
sum, telescope to the hotel cost (`SharesAddUp`), along the order of first nights; each is
within half a cent of half its rooms (`CityShare`); and the shares of a larger group are not
larger (`LargerGroupsPayNoMore`). `ReadyQuotesComplete` needs `GroupSettled` for the seats.

Assumptions. Prices are naturals and finitely many, so that the start of the catalogue is
defined; a table has at least one diner (a constraint of the database,
`resources/restaurants/restaurant.entity.ts:10`) and a group at least one guest
(`inquiries/inquiry.dto.ts:258`); cities and the ids of items are finite sets; `NoMode`,
`NoPrice` and `Nothing` are no mode, amount or selection.

## BackOffice

Nine parts that share no state with each other are checked in one run. `part` names the
one that steps in a behaviour and the others are shut, because interleaving steps that
share nothing shows nothing; the run is the union of nine models. TLC's coverage of
the run was looked at part by part: every action and every branch of each occurs.

| module | models | property | instance |
|---|---|---|---|
| `AgencyHierarchy` | create, update, delete of a tree with two levels; opposite lock orders, deadlock victims | `HierarchySound`: a live agency's parent is live and at the top, and its name is the parent's current one and its own | 3 agencies, 2 transactions |
| `TourNumbers` | `insertTour`: counter, advisory lock, numbers read, number picked | `NumbersFree`: a picked number stays free until it is inserted; sequences count 1, 2, 3 | 3 creators of whom two share a code, 3 inserts |
| `Alerts` | `send` with its cache and map, the Feishu token, restarts | `NoAlertSwallowed`: what was answered "sent" or "duplicate" was delivered; nobody waits for a token that nobody has asked for | `SentLimit` and `PendingLimit` 1 (1000 and 100 in the code), 4 calls |
| `WebsiteReport` | generate, compose, price, preview | `ReportSound`: a report without errors sells a trip that can be made; stays and prices add up, and the mileage table has the selected legs in the order of the transport column | every itinerary of up to 3 days out of 14 kinds of day, 4 lists of destinations, 7 price lists |
| `LynxVisits` | registration, marking, conversion through another connection | `VisitsSound`: no conversion runs into the unique index; whoever was told "recorded" finds its evidence | 2 references, 2 conversions, 2 inquiries |
| `ShengxuLedgers` | create, update, delete beside the edits of agencies, contacts, coordinators | `LedgersCurrent`: newly chosen names and owner are current when written; no unseen version is overwritten | 2 transactions, 1 ledger, 1 edit of others |
| `Dictionaries` | edits without row locks beside records that copy the code | `DictionarySound`: a direct ledger picks an entry as it is; an entry in use stands | 2 editors, 2 edits, 3 records |
| `ResourceLibrary` | six kinds of tables with typed and drawn codes, versions | `ResourcesSound`: a drawn code is nobody else's unless typed; an update overwrites or revives only what its client saw | 3 requests, 4 codes |
| `Release` | prepare, publish, rollback, cleanup; failures and kills between steps | `SchemaServed`: the running image supports the database; `ReleasesKept`: the current release and the one before can be rolled back to | 4 images, 4 releases, 1 recent release (3 in the code) |

In `Dictionaries`, the service checks that nothing refers to an entry and saves it later
with no lock. What is written in between may name an entry that is then renamed or
deleted; `mixed` marks these records and `UsesStand` speaks of the others. In `Release`,
`SchemaServed` holds for kills at every point except one, `switch`, which
`release_killed` looks at alone: see Findings. A limit of 1 for the cache, the alerts in
flight and the recent releases makes them full at once, which is the case that matters.

### Proofs

`BackOfficeProofs` proves eight of the parts, each over `BackOfficeSpec` and for any sets of rows
and any number of transactions. A step of another part leaves the variables of this one
alone; the part's own steps keep its invariant, which stands at the end of its module.

| theorem | invariant | why it holds |
|---|---|---|
| `HierarchyStaysSound` | `AgencyInv`: `LocksApart` (a row is locked once) and `WriterSound` (an update holds its own live row and, from its first write on, the new parent) | whoever could move, rename or delete the parent, or give the child children, needs a row the update holds |
| `NumbersStayFree` | `NumberInv`: `OwnCounter` (who has taken a sequence holds the row of its counter, and the sequence is the next one) and `OwnBase` (who has read the taken numbers holds the advisory lock of their base) | a number of a base is inserted only under the lock of the base, so what was read stays complete until the insert; that a free number exists is a pigeonhole over the candidates (`SomeCandidateFree`) |
| `AlertsNotSwallowed` | `AlertInv`: what the cache remembers was shown, one caller in flight per event; `TokenShared`: callers wait for a token only while one has asked for it | an entry is only cached after it was shown, and eviction and restarts only forget; a request for a token settles for all who share it |
| `VisitsStaySound` | `VisitInv`: a row is the evidence of everyone who was told "recorded", and clients past the lock are alone with their visit | the first registration is never rewritten, and the advisory lock is held from the check to the insert |
| `ShengxuLedgersStayCurrent` | `ShengxuInv`: what a call has locked or shared is as it read it, and two calls about one ledger wait for each other | `FOR SHARE` on agency, contact and coordinator lasts until the commit |
| `DictionariesStaySound` | `DictionaryInv`: the built-in categories stay (`HomesStay`), and an editor of an entry in use read it as it is and saves neither another code nor its deletion (`UsesHeld`) | the check of references refuses the rest, for records not in `mixed` |
| `ResourcesStaySound` | `LibraryInv`: drawn codes are below the counter, also below what an undone draw sets it back to (`CounterSound`), rows are locked once, a version stands for one content (`SeenKept`) | one caller holds the counter at a time, and who saves has compared versions under the row's lock |
| `ReleasesStayKept` | `ReleaseInv`: `DeploymentSound` (a deployment has reviewed what is pending, and its release is new), `ActivationSound` (what is activated is recorded, built and has all its migrations), `VerifiedApplied` (so has every verified release), and a cleanup past its images keeps the current and previous records | `state.json` names a release only after its record is verified, and both removals of a cleanup go by one list that holds what it names |
| `SchemaStaysServed` | with it `ServingInv`: the image to be restored serves the database, and `CurrentServes`: if any verified release does, so does the current one | `review_migrations` and `check_schema` refuse the rest; a maintenance takes the container down and leaves no verified release that serves |

`SchemaStaysServed` assumes `"switch" \notin KillPoints`: without it `CurrentServes` does not
hold, since a release is verified and serves while an older one is current, which is what
the run `release_killed` finds.

Assumptions: agencies are naturals and 1 and 2 among them (the rows at the start), 1 and 2 are
the built-in categories and 0 is no category or entry (the marks for none), `Sources` are the
seven columns modelled, typed codes are positive, `SentLimit` is positive, the owner at the start is
a coordinator, the first image is one of the images, `NoCaller` is no caller, and `None` is no
image and no release; `MaxSequence` only bounds a counter for TLC. `DictionaryInit` starts with the two categories that migrations seed, country-region and city-airport, and the
instance has a third one to create.

`ReportProofs` proves `ReportsStaySound`, `BackOfficeSpec => []ReportSound`, for any cities, routes,
days, skeletons, destinations and prices. The invariant `ReportInv` is short: the trip is made
of days that fit (`TripFits`), and a preview is that of the trip as it is now, since the model
previews once. All of the work is in what `buildWebsitePreview` computes, which is made of
folds. A fold is unfolded once, into the sequence of its intermediate results
(`FoldResults`); an invariant of these, by induction over their number, says what it
returns:

- `EmbeddedFound`, `GreedyFinds`: the cities of the trip with each stay entered once lead
  through the same destinations as the stops themselves, because no destination is asked for
  twice; and looking for each one behind the one before finds them if anything does.
- `CleanConnects`: without errors the cities where the days end are a route. `CleanHotels`: and every
  night has a named hotel of each quoted tier in the city of the night.
- `OptionsAre`: after each night the stays of one hotel are at least a night apart, each
  night so far is in one, and no stay ends later than the last night of its hotel (`StaysSoFar`).
  The nights come in the order of the days and none twice (`HotelRowsAre`), so the next one of a
  hotel lies behind all its stays.
- `MileageAddsUp`: the names of the board followed by the legs, each taken at its first
  occurrence (`BoardOrder`), are sorted as the transport column is (`InOrder`), and there is
  one such order (`OneOrder`). The mileage table lists the legs with `showInMileage` in it,
  so the transport column without the other legs.
- `QuoteAddsUp`: a price of components is the sum of those that have an amount, and more of them
  cost no less.

Assumptions: what the DTO classes and the normalisation of a save guarantee. A day names
cities (`DayFits`), its board names nothing twice (`website/website.dto.ts:353`), it has one hotel of a tier
(`website/website.service.ts:1316`); an inquiry asks for no destination twice (`website/website.dto.ts:154`);
a trip has at least one day (`:532`); amounts are not negative (`:405`, `:429`); there are finitely many routes.
Two of them matter: with two hotels of one tier a day could list a stay twice, and
a destination asked for twice in a row would be missed by a trip that stays there.

## Findings

`RatingSeenBeforeSaved` (run `rating_seen`). `saveRating` compares the version the
client sends with that of the stored row, or with 0 when there is none. An update of the
tour that takes the guide's last service away deletes an empty rating row; when the
guide is scheduled again, the next row starts again at version 1. A client that loaded
version 1 of the deleted row passes the check on the new one and overwrites scores it
never saw. In the trace: a first save without scores makes version 1, a client loads
it, the guide loses and regains the service, a second save sets scores and makes version
1 again, and the first client's stale request is accepted. The integration test names
the rule it breaks (`src/test/tour-management.integration-check.ts:552`: "rating version
concurrency preserves the winning row; scope and roles enforced").

`SchemaServed` (run `release_killed`). `rollback` restores the image it came from when
its target does not become healthy, whether or not that image supports the database;
`publish` asks first. The two differ when `state.json` is older than the
database. In the trace: a release with a maintenance migration is migrated, activated and
recorded as verified; the process is killed before `state.json` names it as current; the
operator rolls back to that verified release, which now fails its health check; and the
application from before the maintenance is started on the migrated database.
`scripts/deploy.py:387` says "Maintenance may make the previous application unsafe;
restore the database first.", and `scripts/test_deploy.py:196` tests this for `publish`.

## Notes from modelling

No document says that these should be otherwise, so no property forbids them.

- A loss reviewed before its proposal was sent stays open for good
  (`ledgers/direct-ledgers.service.ts:482`).
- `createContact` looks at its agency without a lock
  (`resources/agencies/agencies.service.ts:438`), so a deleted agency may keep a contact.
- The text of a tour number is ambiguous when one code is another one followed by digits;
  the model keeps the parts of a number apart, and the unique index refuses the rest.
- A crash between a migration and the save of its checksum (`scripts/deploy.py:366`)
  lets changed content of that migration be accepted later.
- A business-dictionary entry may be renamed while it is being used (`mixed` above), a
  concurrent update may revive a soft-deleted one, and the code of a transport method
  may change while itineraries refer to it.
- Registering an expired reference again answers "recorded" although it cannot be
  resolved.
- A meal column of the website report shows breakfast if any tier's hotel has one, a hotel
  without a name included (`website/website-engine.ts`, about line 859).
- Connections: the pool has three. The export of visits holds one until its stream ends
  (`lynx/website-visits.service.ts:229`), and `validateCity` and `airportLabels` take a
  second one inside a transaction. What a full pool does depends on timeouts that are
  configuration, and no property covers it.
- Renaming an agency locks it and then its children; updating a child locks it and then its
  parent. The two can wait for each other, and the model reaches that (`BreakDeadlock`
  ends one of them). No property covers the cycle itself: that it never comes about is
  false, and the repository does not claim it. `HierarchySound` shows that the tree is sound
  whichever of the two is ended.

## What is only model-checked

- Liveness under fairness (`EveryRequestEnds`, `EveryJobSettles`): out of the prover's reach.
- `NoDeadlock` where bulk deletions of leaves take part: it is false there.
- `RatingSeenBeforeSaved` and `SchemaServed` under all kills are false; see Findings.

## Not modelled

- Inquiry documents (text extraction), operation logs, the dashboard, tour and flight
  maps, start-up and configuration, the error format: I/O, formatting or reads, with no
  state whose steps can be interleaved wrongly.
- Roles and menus: constant tables and one versioned row per role. In all modules every
  caller is one who may call; a refused permission changes nothing.
- List queries, filter options, summaries and exports: they read.
- Generic system dictionaries, transport methods, resource types, units and selections;
  the flights of a tour; coordinators' groups of business, which only filter lists.
- In the website engine: checks of group size, of months and of the configuration's
  version, patterns and templates, languages, the distances of the mileage table.
- Migrations, tests and seeds, apart from the constraints they declare where a model
  relies on one.
- Shapes of requests (DTO validation) outside `ItineraryInput`: the modules start from a request
  that passed it, and a refused one takes `Rollback` or never begins.
