# Formal models of fleet-taxi-be

`fleet-taxi-be` is the backend of a taxi fleet operator: a NestJS application on
PostgreSQL, with BullMQ (Redis) for its background jobs and an S3-like store for
its files. Operators upload the daily reports of Gojek and Grab, or let a daily
job pull them from Gojek's partner portal; partners of the operator run their own
portal, with handover checkpoints, rentals, drivers, documents and deposits; a
super admin manages the accounts.

The application runs as several identical instances. They share the database, the
queue and the file store, and nothing else. Hardly any of its code takes a lock:
what is correct when one request runs at a time is often decided by what another
request does between two of its awaits. That is what these models are about.

Contents: [1 Inventory](#1-inventory), [2 Modules](#2-modules-and-the-code),
[3 Runs](#3-runs), [4 Fairness](#4-fairness), [5 Proofs](#5-proofs),
[6 Findings](#6-where-code-and-comments-disagree), [7 Not modelled](#7-what-is-not-modelled),
[8 Plan](#8-plan), [9 Running the checks](#9-running-the-checks).

`PROJECT.json` maps every definition to the lines it models, lists the hazards with
the properties that cover them, and names one mutant per property: a plausible bug
that makes the property fail.

## 1 Inventory

State lives in tables unless noted. "Modelled" means every state-changing operation
is an action.

| Component (under `src/src`) | State | Operations | Hard part | Correct means | Model |
|---|---|---|---|---|---|
| Import pipeline (`import/`) | `fleet_imports`, `grab_imports`, partitioned `fleet_import_details` and `grab_import_details`; a BullMQ queue | upload, portal import, parse job, rollback job | redelivery of a dead worker's job, a rollback during a parse, two pulls deduplicating at once, an error after the commit | a file is in the tables whole or not at all, known rows are not counted twice, no row outlives its batch, every accepted file is settled | modelled |
| Gojek portal sync (`gojek-portal-sync/`) | `gojek_portal_sync_settings`, `gojek_portal_sync_runs`; a BullMQ queue with a repeatable tick | tick, manual run, execute, reap, save settings, test connection | retries on every tick, crashes, locks that expire, manual runs and midnight in between, waiting for batches of another component | at most three scheduled attempts a day and one success (of each one more per further instance), final outcomes of scheduled runs, no run stays running | partly |
| Checkpoints (`partner-portal/portal-checkpoints.service.ts`) | `checkpoints`, `checkpoint_points`, `checkpoint_media`; the objects in the store | create, update, grade, presign, confirm, delete media, remove, complete | the draft status is read once and not looked at again; row and object share no transaction | a completed checkpoint has its evidence and is immutable, an uploaded row has its object | modelled |
| Rentals and payment proofs (`partner-rentals/`) | `rentals`, `rental_payment_proofs`, tax settings; objects | presign (with a sweep), confirm, remove, create, update, set payment status | proofs are attached by a transaction other requests overtake | a paid rental has evidence, at most `RENTAL_MAX_PROOFS`, a settled VAT rate stays | partly |
| Driver documents and lifecycle (`partner-drivers/`) | `driver_documents`, `drivers.resigned_at`, `deposit_return_status`; objects | presign, confirm (replaces), remove, resign, return the deposit | two confirmations of one kind; evidence removed while it is relied on | one document per kind, a returned deposit has its proof and a resigned driver | partly |
| User administration (`users/`, `auth/`) | `users`, `user_roles`, `partner_plates`; sessions in Redis | create, update, delete, login | guards count before the transaction | somebody can administer, plates leave with the last portal user | partly |
| Deposit installment ledger (`deposit-installments/installment-presenter.ts`) | none: a fold over a driver's active days | `computeInstallments` | arrears and surplus carried over | equals its closed form | modelled |
| Deposit rules and aggregation (`deposit-installments/`) | `deposit_installments` | CRUD, aggregation query | spelling of a driver's name | one ledger per driver | no |
| Portal client, cipher, file readers | none | HTTP, AES, XLSX/CSV | formats of others | - | no |
| Driver roster sync (`partner-drivers/driver-sync.service.ts`) | `drivers` | the pass each roster read starts with: candidates of both platforms, insert, codes, horizons, exits; create and rename | a series of statements without a transaction, with imports, rollbacks and other passes in between; a crash between insert and code | a pass nothing disturbed leaves the roster as the imports have it | modelled |
| COGS defaults (`partner-rentals/rental-cogs-defaults.service.ts`) | `rental_cogs_defaults` | lazy seeding, new label, removal with row locks | two removals that each spare the other's preset | presets never run out | modelled |
| Invoice settings (`partner-rentals/rental-invoice-settings.service.ts`) | two keys in `partners`; objects | replace and remove signature or stamp | object, row and old object are three calls | the row names only objects that exist | partly |
| Pricing, rental grid, invoice (`partner-rentals/`) | `rentals` (dates, money) | booking writes; pro rata, VAT, recap, plate x day grid, matrix column, drill-down, invoice | rounding per month and per day, bookings that share a day, several derivations of one figure | all figures agree, cells tell the truth | partly |
| Fleet monitoring (`fleet/`) | `fleet_import_details`, `fleet_exceptions`, `fleet_targets`; reads rentals | edits of one row or of a plate's month, exceptions, targets; the grid, its breakdown, exit card and range summary | one figure derived along different paths: pivot in TypeScript, balance in SQL, by plate or by driver, per month or per range; rows of types no figure knows, files uploaded for another month | the figures agree with each other, nothing billed or paid is lost, what is explained equals what is shown | partly |
| Grab monitoring (`grab/`) | `grab_import_details` | rows by plate, city and spelling or by person; day window, range, partner shares, drill-down | ranges across months, spellings, plates nobody registered, files uploaded for another month | no money lost or counted twice | partly |
| All-fleet matrix (`partner-portal/`) | none | Gojek, Grab and rental money in one table, by plate or by driver; zero marks; drill-down of a cell | three sources with different keys, absorbed one after the other | regrouping loses nothing, a cell is what its drill-down lists | partly |
| Portal fleet, orders, exports | none | reads | - | - | no |
| Plate registries (`admin-plates/`, `partners/`) | `admin_plates`, `partner_plates` | claim, re-plate, release; register, re-plate, unregister | two queries derive the owner of a plate in different orders | every screen names the same owner | modelled |
| Partners, API keys, partner API (`partners/`, `partner-api/`) | `partners`, `api_keys` | single-row writes, look-ups | a key revoked during a request | - | no |
| Login, sessions, guards (`auth/`) | sessions (Redis), one cookie with two slots | login, logout, change of password, eviction by age, idle expiry | overlapping requests save copies over each other; a login carries the other slot along; the Socket.IO handshake reads the same session | no request is served on a login past the absolute cap | partly |
| Realtime, activity log | sockets; `activity_logs` | emit, best-effort insert | - | nothing depends on them | no, but for the handshake (`WebSessions`) |
| Storage, database, config, health | - | infrastructure | - | modelled as the services use it | external |

How they interact:

* an upload or the sync inserts a batch row, then queues a job; a worker (any
  instance) takes it. The sync polls the batch rows until they are settled.
* partner services call the database and then, separately, the store. No
  transaction spans both; deletions take the row first, the object afterwards.
* clients upload the bytes themselves with a presigned URL, whenever they like,
  also after the row was deleted, and confirm afterwards.
* deleting the last account of a partner removes its plate registrations in the
  same transaction.
* a session remembers the roles of the login.
* reading the roster starts a pass over the imported rows of both platforms.
* the matrix of a partner's whole fleet is built from what the Gojek grid, the Grab
  grid and the rental grid compute; the owner of a plate comes from the registries.

## 2 Modules and the code

```
ImportRows --> ImportLedger                     GojekPortalSync
     |              ^ (refinement)                    +--> GojekPortalSyncProofs
     +--> ImportPipeline --> MCImport
                 +--> ImportPipelineProofs

HttpClients --> Checkpoints -----+-> EvidenceProofs
           |--> RentalProofs ----+
           |--> DriverDocuments -+-> DriverProofs <-- DepositLedger, DriverSync
           |--> UserAdmin -------+-> AccessProofs
           |--> PlateRegistry ---+
           |--> WebSessions -----+
           |--> InvoiceArt ------+
           +--> CogsPresets -----+
all of these, DepositLedger, DriverSync ---> MCPartnerPortal

Calendar --> FleetGrid ----------------------+
        |--> GrabGrid -----------------------+--> AllFleetMatrix --> MCMonitoring
        +--> RentalPricing --> RentalGrid ---+        |      SetoranColumn ^
FleetGrid, GrabGrid, SetoranColumn, SumTheorems       |
        +--> FleetProofs -----------------------------+--> MatrixProofs
```

**ImportRows**: the data. A row is its identity (`transactionKey` for Gojek; date,
plate and driver for Grab), a batch's rows are a bag, and how many copies of a row a
set of batches holds is counted as a set (`RowSet`: batch and number there).
`NewCopies` is the counting
deduplication of a portal pull: the n-th copy of an identity in the file is kept
when the period held fewer than n. `ToInsert` says what a parse adds for each kind
of import.

**ImportPipeline**: one period (year, month); batches of different periods use
different partitions and never read each other's rows. The request (`InsertBatch`,
`QueueParse`) takes two round trips, as `upload` and `createPortalImport` do. A
worker goes through the places of `parse()`: mark as processing, preload in the new
transaction, insert, commit, mark as done; `Fault` sends it to the catch block from
any of them. A detail row locks its batch row (foreign key) until the commit, so
`DeleteImport` waits for it (`HoldsParent`), and an insert after the deletion
fails. BullMQ is modelled as the code configures it: `attempts: 1`, a stalled job
goes back in front of the queue once. `LockExpires` is the case of a worker that is
not dead but slow, so that two workers run one job. `recorded` are the totals of
the batch; `posted` is a history variable.

**ImportLedger**: what the pipeline promises, without workers, queue or status: a
file is posted in one step against the tables of that moment, a rollback is one
step. `LedgerSpec` states that the pipeline implements it; the mapping only defines
`removed` from `status`.

**GojekPortalSync**: the tick (`runScheduledTick`), manual requests (check, row, job:
three round trips), `execute` as place and remaining time, the reaper, the imports it
waits for, settings, crashes, and `LockExpires`: as in the import pipeline, a worker
that is alive but late loses its job to another one and goes on. `overlapped` is
history: a run that two workers were executing at once, which `OutcomeIsFinal` has to
know. Time is discrete and maximal progress is assumed: `Advance` waits until no worker
or request has something to do at once. The day is compressed to a few units, and run
rows that nothing refers to are reused. The import pipeline is seen through the states
of the awaited batches.

**HttpClients**: a request in flight is a record of what its handler remembers
across awaits. Each action of the services below is the code between two
awaits of a handler, so that requests interleave exactly there. Every handler may
be cut between two steps (`Abort...`); a transaction then leaves nothing.

**Checkpoints**: one checkpoint (every query is by its id), all handlers.
`OwnedDraft` is the check each starts with, the later actions are what it does then.

**RentalProofs**: several rentals and the proofs of their partner. The writing
transaction is modelled statement by statement under READ COMMITTED, with the row
locks it takes (`RentalLock`, `ProofLock`); `SweepDrafts` and `RemoveRental` wait for
them as the DELETEs do. Dates and prices are in `RentalGrid`; overlap acknowledgement
is left out.

**DriverDocuments**: one driver. The confirming transaction is one step, since of
two of them the locks make one wait for the other. `updateDriver` is a read with the
refusals, the gate for the proof, and a write of `lifecyclePatch`.

**UserAdmin**: accounts with whether they hold `super_admin`, are active and belong
to a partner; plates per partner; who is logged in.

**DepositLedger**: one step per active day of `computeInstallments`; `net` and `peak`
are history variables for the closed form.

**DriverSync**: the pass of `DriverSyncService.syncFromImports`, one action per
statement. The two candidate queries and the two horizon queries run side by side in the
code, so each is an action of its own. Under a pass rows are imported and dropped, the
partner's plates change, drivers are created and renamed, and other passes run. `lone`
and `trusted` are history: which passes nothing changed under, and whether one of them
was the last thing to happen. `abandoned` remembers the drivers whose request died
before it gave them a code.

**InvoiceArt**: replacing the signature or the stamp is four steps (read the row, store
the object, write the row, delete the object the row named at first), removing it
three. Keys are drawn from a finite set, each once, as `randomUUID` draws them.

**CogsPresets**: `list` seeds the legacy presets into an empty table. `remove` takes a
snapshot, waits for the locks of its rows, keeps those that are still there, counts
and deletes, as `SELECT ... FOR UPDATE` behaves under READ COMMITTED.

**PlateRegistry**: claims are a sequence indexed by their ids, with a creation time from
a clock. `ScopeName` orders claims by id, `OverlayName` by creation time, as the two
queries of the code do. Re-plating is a look-up and a write.

**WebSessions**: one browser with one cookie and two slots, requests that each work on
the copy of the session they loaded. A slot keeps the time it claims to be from
(`at`) and the time the account really logged in (`real`, history). `Connect` is the
handshake of the realtime gateway, which takes the account it finds in the stored session
without asking for its age; `sockets` are the open connections, by the time of their login.

**Calendar**: dates as pairs of month and day, and the months of a range.

**RentalPricing**: what a booking costs, as operators: the share of a monthly price, the
spreading by largest remainder, VAT, the recap and the invoice.

**RentalGrid**: the booking writes, and the grid of one month, built booking by booking
in any order (`PlaceBooking`), because that is what a cell's colour depends on. The
recap, the matrix column and the drill-down are operators over the same bookings.

**GrabGrid**: trips come and go with imports, each with its date and with the month its
file was uploaded for, which nothing compares; rows, windows, ranges, partner shares,
active vehicles and drill-downs are operators.

**AllFleetMatrix**: composes `FleetGrid`, `GrabGrid` and `RentalGrid`. It adds no state:
`CellTotal` is the sum of what the three compute for a subject and day, `IsZero` the
marking of empty days in the order in which the sources are absorbed, `CellExplained`
the drill-down. `RowTotal` drops the days the month does not have, as `add()` does.

**FleetGrid**: what the Gojek monitoring shows, computed from detail rows, bebas-setoran
exceptions and rental bookings. The steps are what changes those: rows coming and
going with imports, `EditDetail`, `EditPlate`, exceptions, bookings. The figures are
operators, each translated from the place that computes it: the pivot
(`PivotRows`, `TotalDeduction`, `DailyCounted`) from the month's rows, the balance
(`History`, `Outstanding`, `WindowTarget`) from the cumulative query, which drops
waived days, the exit card (`ExitBalance`), which drops only explicit exceptions, the
breakdown popup (`PartDelta`, `RunningBalance`) and the range summary (`RangeAsOf`).
They come from different queries with different filters, which is why the properties
relate them to each other. A row has a date, and the period it was uploaded for; its type
is one of the three the figures know, or another one, which only the lifecycle query sees.
A date is a month and a day; amounts are small numbers.

**SetoranColumn**: the Setoran column of one row. `encodeDueSegments` and
`dailyTargetFrom` walk the billed days in order; one step is one day.

**MCImport**, **MCPartnerPortal**, **MCMonitoring**: instances for TLC. The partner
portal's services share no state, so `MCPartnerPortal` lets a behaviour follow one of
them, its `scene`: the state space is the sum of theirs instead of the product. The
`view` of `MCMonitoring` does the same for `FleetGrid`, `SetoranColumn`, `GrabGrid`,
`RentalGrid` and the composition of three of them. Definitions named "Mutant: ..." stand
before the definition they distort and are used by no specification.

**SumTheorems**: what the proofs about figures need of sums over finite sets, whatever
is summed: a sum is taken apart, joined, regrouped, renamed, scaled. It knows nothing
of this system. Every other `...Proofs` module holds the theorems of the modules the
diagram leads to it from, one section each.

## 3 Runs

| Run | Question | Instance | Result |
|---|---|---|---|
| `import_concurrent` | Do races, stalls and faults leave orphans, parts of files, lost rows or wrong totals? | 2 batches (manual, portal over the whole range), 2 workers, one lock expiry, fault, outage and rollback | 1.9M states, holds |
| `import_serial` | With one worker, does the pipeline implement the ledger, never count twice, settle every queued file? | 2 batches (portal with two windows, Grab), 1 worker, one crash, fault, lost request and rollback, fair | 0.8M states, holds |
| `import_redelivery` | Is a manual file really never retried blindly? | 1 batch, 1 worker, 1 crash | violated |
| `import_overlap` | Do overlapping pulls never double-count with two workers? | 2 portal batches, 2 workers, no hazard | violated |
| `portal_sync` | Cap, single success, final outcomes, every run ends | 2 workers, 1 request at a time, 2 disturbances (lost locks among them), any number of days of five ticks | 0.74M states, holds |
| `portal_sequential` | Do the partner portal's rules hold for any sequence of requests, one at a time? | 1 client; checkpoints, rentals, documents, accounts, ledger, roster | 1.3M states, holds |
| `portal_concurrent` | What still holds when requests overtake each other or are cut off anywhere? | 2 clients; checkpoints, rentals, documents, roster, artwork, presets, registries, sessions with their sockets | 2.1M states, holds |
| `checkpoint_evidence`, `rental_paid` | Two promises of comments, with two clients | 2 clients, one scene each | violated |
| `monitoring` | Do the figures of the Gojek, Grab and rental screens agree with each other, and with the matrix that composes them? | 3 facts over 3 rows; 2 trips; 2 bookings; 2 records of any kind in the matrix; 2 months; rows of other types and for other months | 89k states, holds |
| `fleet_modes` | Is the total outstanding the same by plate and by driver? | the `fleet` view of `monitoring`, 2 facts | violated |
| `matrix_zero` | Is a day with money never marked as zero? | the `matrix` view of `monitoring` | violated |

Why the split. Some promises hold with one worker, or one request at a time, and
fail with two; both halves are checked. What a passing run with one client says is
the protocol of the code: whatever sequence of complete or interrupted requests,
the rule holds. What a passing run with two says is the design of the transaction
or of the order of two deletions.

Why these bounds are enough to meet the interesting cases.
* Import: three files - a deposit, a genuine same-day duplicate next to another
  deposit, and a file without a header - let deduplication count up to two copies,
  skip, and see a bad file. Two batches are what overlapping takes, two workers what
  a race takes. Each hazard strikes once; `posted` reaches 2 in `import_concurrent`
  after a lock expiry, and `WholeFiles` is checked there.
* Sync: a unit is a tick (30 minutes in the code). A day of five with the run time at 1
  leaves four decisions after it, one more than the cap of three, so that the cap is
  what stops them. A run is stale after one unit, and an import wait takes one, as the
  wait's deadline is inside the stale age in the code. Runs reach midnight in every
  place, and both workers may take a tick at once. Two disturbances (admin requests,
  settings changes, crashes, lost locks, lost calls, rollbacks) are enough for a manual run
  plus a crash or a lost lock, after which two workers execute it at once, or for a tick
  that is lost twice. Five rows always leave a free one.
  `PullTime` is 0: a long pull only delays, and is not needed for a crash to hit it.
* Checkpoints: one inspection point and one signature (the conditions quantify over
  both in the same way), four media rows: the two needed, a replaced signature and
  another photograph. Concurrently two rows: one confirmed twice, or two confirmations
  around a deletion.
* Rentals: two rentals and a cap of one proof, so that the cap, "already attached
  elsewhere" and "last evidence" are each met with two proofs; concurrently one
  rental with two saves.
* Documents: three of two kinds, so that a kind is replaced and two are pending;
  concurrently three of one kind.
* Roster: two imported rows of two days and two platforms are what an exit date takes
  (one row the driver's last, one that moves the horizon). One reader that may die
  anywhere, a second name for renames and a plate of another partner; concurrently
  two readers and one name.
* Artwork: three keys for two kinds, so that two replacements of one kind and one of
  the other are in flight. Presets: two legacy keys and an own one. Registries: three
  claims of two partners on two plates, so that a plate is claimed twice and one claim
  moves. Sessions: two ids, a cap of 1 and a clock up to 2, so that a slot can be
  carried over, saved from an old copy, and be too old, for a request and for a handshake.
* Accounts: three, one partner; the guard needs two super admins, the plates two
  portal users.
* Monitoring: a fact is a row, an exception or a booking. Three are a due, a payment
  and what waives one of them, or rows of one subject on two days, or of two subjects
  on one; a due is 2 and a payment 1, so that no sum hides another. Two plates and a
  named and a nameless driver are enough for rows to regroup. Months of one and two
  days have a range inside a month, across its end, over both, and a day only one of them
  has. An odd row, of another type, uploaded for another month or without a plate, counts
  as two facts: it meets one ordinary fact, which is what every exception of the properties
  takes (a row of another type that is the newest next to a due; a misfiled due next to one
  in its place; a payment without a plate next to a due, until an edit names its plate).
* Grab: two trips with two spellings of one name and a nameless one, two registered
  plates and another one, earnings of 0 and 4, dates and periods in any combination.
  Rentals: two bookings of the two registered plates, at 7 a day plus 5 once or at 45 a
  month, with 11 % VAT: a month of two days halves 45 unevenly and the VAT of no total is
  whole. Matrix: two records of any kind meet in a cell, or in the two rows of a regrouping.
* Setoran column: six days of three amounts or none, so that each of three amounts can
  be the most frequent, tie, and return after a gap.
* Ledger: every rule with an amount of 1 or 2, up to three installments and a
  mandatory 0 to 2, payments of 0 to 4, up to six days.

Symmetry is used for batches and workers, clients, accounts, readers, detail rows and
registered plates, in runs without liveness properties only. Deadlock is not checked in
the import runs, where all batches may be settled and all hazards spent, nor in the
portal runs, where media, proofs, documents and days are bounded, nor in the monitoring
runs, where the column's month ends; `portal_sync` never stops and is checked for
deadlock.

The properties:
* `NoOrphanRows`, `WholeFiles`: rollback and parse in any order, with faults, a
  stalled worker's double and crashes, leave neither rows without a batch nor part
  of a file.
* `DoneIsTrue` is `DoneIsCovered` and `TotalsMatchRows`.
* `DoneIsCovered`: skipping rows that are there already never loses one, as long as
  nothing was rolled back (a rollback may take away rows another batch skipped:
  that is the documented meaning of a rollback and why the condition is there).
* `TotalsMatchRows`: the totals of a done batch are its rows; after a redelivery they
  are those of the last transaction, hence `posted = 1`.
* `NeverDoubleCounts`, `LedgerSpec`, `QueuedBatchesSettle`: with one worker.
* `NeverDoubleCounts` counts copies: the portal's batches together hold at most as many
  copies of a row as one of their files has of it, Grab's at most one.
* `ScheduleBounded`: at most three scheduled attempts a day and one scheduled success,
  and of each one more per further instance: the decision reads today's runs and the
  row is inserted by a later round trip, so each instance that takes a tick in between
  decides on what it saw.
* `OutcomeIsFinal`: what ended a run is not overwritten. `execute` looks at the status
  once, when it starts, and its last UPDATE not at all, so two kinds of manual run are
  exempt: one that was reaped, having waited long in the queue, and one that a second
  worker executed at the same time after the first lost its lock. Scheduled runs are
  never exempt: they travel in no job, so nobody else takes them up, and they end before
  they are stale. `RunsFinish`: no run stays running.
* `CompletedHasEvidence`, `CompletedIsImmutable`, `PaidHasProof`, `SettledStays`,
  `ReturnedHasGrounds`, `SomeSuperAdmin`,
  `PlatesLeaveWithLastUser`: one client at a time. `SettledStays`: a paid rental keeps
  its VAT rate, and evidence attached to one rental never turns up at another.
* `EvidenceBacked`, `ProofBacked`: a row marked uploaded has its object. `EvidenceInOrder`:
  what is attached was uploaded, and no rental has more than the cap. `DocumentsInOrder`:
  documents have their objects and no kind has two. `ConfirmKeepsOne`: a kind loses its last
  document to a removal, or to a confirmation whose own row was deleted after it was read,
  and in no other way (see section 6). All with two clients.
* `RosterFollowsImports`: after a pass that ran alone, every driver the imports name is
  listed, with the exit date the imports imply, and with a code unless its request
  died. With one reader that may die, and with two.
* `ArtBacked`, `NeverEmptied`, `LabelsAgree`, `CapHolds`: see the arguments in section 5.
  `CapHolds` speaks of HTTP requests; sockets are outside the cap (section 6).
* `PaidIsPeakSurplus`, `LunasOwesNothing`: the ledger against its closed form.
* `BreakdownMatchesBalance`: the popup adds up to the balance it opens from, by
  contributor and month by month. `CaptionMatchesAmount`: the days a row names are those
  its amount was summed over. `RangesAddUp`: a range is its days, and a whole month is
  the month. `TotalsSameInBothModes`: regrouping moves no money (but see finding 5).
  `NothingLost`: active rows and exit card share out everything ever billed and paid,
  while no booking is on record. Where the code lets a screen miss something, the property
  says what, as a set of rows, and that it is exactly that: `Missed` is billed to a subject
  all of whose rows of the month are filed elsewhere, `OffMonth` and `Overflow` are rows on
  days the month does not have, `Unlisted` are subjects active only by a row of another
  type or another period, `Strays` are trips in a cell and not in its drill-down.
* `ColumnFaithful`: the segments decode to the days they encode, and the rate is their
  most frequent amount.
* `GrabFiguresAgree`, `RentalFiguresAgree`, `InvoiceMatchesRecap`: each figure against the
  other places that derive it. `CellsTellTheTruth`: the cells of a half-built grid.
  `MatrixAgrees`: the composition regroups and loses nothing. `ZeroMeansNoMoney` is the
  promise finding 6 is about.

`ReturnedHasGrounds` is checked with handlers of `DriverDocuments` that run to their end
(`MayBeCut` FALSE): `remove()` deletes the proof and then resets the deposit in two
statements, and an instance that dies between them leaves a returned deposit without
proof. The hazard list names it.

## 4 Fairness

* `ImportPipeline!Fairness`: weak fairness of each worker's own steps (Node runs the
  handler of a job to its end, BullMQ takes the next one) and of the stalled check
  (BullMQ runs it on a timer in every worker). Nothing is assumed of users, faults
  or crashes. A crashed worker may take jobs again: the instance is restarted.
* `GojekPortalSync!Fairness`: the same for workers (a dead one restarts) and for the
  two remaining steps of a request, and time passes. Nothing is assumed of the
  portal, the import pipeline or an admin: `RunsFinish` holds although batches may
  never settle, because the wait has a deadline and the reaper runs with the tick.
* The partner portal's and the monitoring modules have no liveness properties and no
  fairness: nothing in the code retries or finishes a request on its own.

`QueuedBatchesSettle` is about batches whose job was queued, with no outage of the
catch block and a single crash. It does not hold beyond that: nothing in the code
looks after a batch whose request died before `queue.add`, whose job was dropped
after it stalled twice, or whose catch block failed too. The batch stays pending or
processing for ever. The hazard list says so.

## 5 Proofs

All are checked by TLAPS, for every value of the constants that meets the assumptions
named in the last column.

| Module | Theorem | Says | Assumes |
|---|---|---|---|
| `ImportPipelineProofs` | `TypeCorrect` | `Spec => []TypeOK` | imports |
| | `NoOrphans` | `Spec => []NoOrphanRows` | imports |
| | `FilesAreWhole` | `Spec => []WholeFiles` | imports |
| | `DoneMeansDone` | `Spec => []DoneIsTrue` | imports |
| | `NothingCountedTwice` | `Spec => []NeverDoubleCounts` | imports, `OneWorker` |
| | `AtMostTwice` | `Spec => []PostedTwiceAtMost` | imports |
| | `NoRetryUnlessLost` | `Spec => []NeverBlindRetry` | imports, `NobodyLost` |
| | `PipelineImplementsLedger` | `Spec => LedgerSpec` | imports, `OneWorker`, and no manual files or `NobodyLost` |
| `GojekPortalSyncProofs` | `ScheduleIsBounded` | `Spec => []ScheduleBounded` | sync |
| | `OutcomesAreFinal` | `Spec => OutcomeIsFinal` | sync |
| `EvidenceProofs` | `EvidenceIsBacked` | `CheckpointSpec => []EvidenceBacked` | nothing |
| | `RecordsCarryEvidence` | `CheckpointSpec => []CompletedHasEvidence` | `OneAtATime` |
| | `RecordsAreImmutable` | `CheckpointSpec => CompletedIsImmutable` | `OneAtATime` |
| | `ProofsAreBacked` | `RentalSpec => []ProofBacked` | `ProofCapAssumption` |
| | `EvidenceStaysInOrder` | `RentalSpec => []EvidenceInOrder` | `ProofCapAssumption` |
| | `PaidRentalsHaveProof` | `RentalSpec => []PaidHasProof` | the same, `OneAtATime` |
| | `SettledRentalsStay` | `RentalSpec => SettledStays` | the same, `OneAtATime` |
| `DriverProofs` | `DocumentsStayInOrder` | `DriverSpec => []DocumentsInOrder` | nothing |
| | `ConfirmationsKeepOne` | `DriverSpec => ConfirmKeepsOne` | nothing |
| | `ReturnsHaveGrounds` | `DriverSpec => []ReturnedHasGrounds` | `OneAtATime`, `~MayBeCut` |
| | `LedgerClosedForm` | `LedgerSpec => []PaidIsPeakSurplus` | `RulesAssumption` |
| | `LedgerEndsClean` | `LedgerSpec => []LunasOwesNothing` | `RulesAssumption` |
| | `RosterIsTrue` | `SyncSpec => []RosterFollowsImports` | `SyncAssumption` |
| `AccessProofs` | `OneOwnerPerPlate` | `RegistrySpec => []LabelsAgree` | `RegistryAssumption` |
| | `LoginsEnd` | `SessionSpec => []CapHolds` | nothing |
| | `SomebodyAdministers` | `UserSpec => []SomeSuperAdmin` | `OneAtATime` |
| | `LastUserTakesPlates` | `UserSpec => PlatesLeaveWithLastUser` | `OneAtATime` |
| | `PresetsRemain` | `CogsSpec => []NeverEmptied` | `CogsAssumption` |
| | `ArtworkIsBacked` | `ArtSpec => []ArtBacked` | `ArtAssumption` |
| `FleetProofs` | `ColumnReadsBack` | `ColumnSpec => []ColumnFaithful` | `ColumnAssumption` |
| | `GrabScreensAgree` | `GrabSpec => []GrabFiguresAgree` | calendar, `GrabAssumption` |
| | `BreakdownExplains` | `FleetSpec => []BreakdownMatchesBalance` | *fleet* |
| | `RegroupingMovesNoMoney` | `FleetSpec => []TotalsSameInBothModes` | *fleet* |
| | `RangesAreSums` | `FleetSpec => []RangesAddUp` | *fleet* |
| | `CaptionsAreRight` | `FleetSpec => []CaptionMatchesAmount` | *fleet* |
| | `NoMoneyLost` | `FleetSpec => []NothingLost` | *fleet* |
| `MatrixProofs` | `CellsAreTrue` | `RentalSpec => []CellsTellTheTruth` | *rental* |
| | `RentalScreensAgree` | `RentalSpec => []RentalFiguresAgree` | *rental* |
| | `InvoicesMatch` | `RentalSpec => []InvoiceMatchesRecap` | *rental* |
| | `MatrixScreensAgree` | `MatrixSpec => []MatrixAgrees` | *fleet*, *rental*, `GrabAssumption`, `MatrixAssumption` |

The assumptions. *imports*: `BatchesAssumption`, `KindsAssumption`, `FilesAssumption`,
`WindowsAssumption`, `BudgetAssumption` - finitely many batches, files are bags, windows
are sets of rows, budgets are numbers. *sync*: `WorkersAssumption` and `TimesAssumption` -
finitely many instances, times are numbers, and a pull with its wait ends before the
run counts as stale (22 of the 45 minutes in the code; the theorem needs it, because
the reaper would otherwise end a run that is still at work). `RulesAssumption` is what
`CreateInstallmentDto` admits, `CogsAssumption` that there is a legacy preset.
*fleet* is `CalendarAssumption` (months have days) and `FleetAssumption`, *rental* is
`CalendarAssumption`, `PricingAssumption` and `RentalAssumption`: what they and
`GrabAssumption` say is that ids, plates and trips are finitely many and amounts and
rates are numbers. The rest of them, and the others, say that a null value is no value.

No theorem about figures assumes that a file is uploaded for the month its rows are dated
in, or that its rows are of a known type: the code checks neither.

More hypotheses are about the environment, are needed, and are named as such. `OneAtATime`
(all clients are one) and `OneWorker` (all workers are one) are satisfied by the
instances the runs check, and say that a promise is one about sequences of requests:
with two, the runs of section 6 and the hazards of `PROJECT.json` show how it fails. A
request may still be cut off anywhere, except where `~MayBeCut` says otherwise.
`NobodyLost` says that no worker dies or loses its lock; faults, outages, lost requests
and rollbacks still happen.

The arguments.
* *Import types.* `TypeOK` is not inductive: the plan of a parse is a bag only if its
  batch was uploaded. `TInv` adds that every job in the queue, the lock table or a
  worker is of an uploaded batch (`JobsUploaded`), and that a batch has a request
  exactly when it has an upload (`RequestsMatch`).
* *No orphans, whole files.* `IInv` adds three facts. `ParentHeld`: a worker about to
  commit rows has its batch row, because the rows lock it and a deletion waits for
  the lock; without it a commit could follow a deletion. `PlansWhole`: what a
  worker is about to insert for a manual upload is the whole sheet, or nothing for a
  file without header, which cannot commit. `NothingBefore`: nothing was posted for a
  batch before its upload. A commit then adds one whole sheet to n whole sheets
  (`OneMore`). `QuietStep` deals once with all the steps that touch no rows.
* *Done.* `DoneInv` has two halves. Coverage: rows are only added while nothing is
  rolled back, so a plan that was enough when it was made is enough when it is committed
  (`CopiesGrow`, `PlanIsEnough`); it holds for any number of workers. Counting: a batch
  posted once has the totals of what was posted (`Counted`).
* *One worker.* `PlansFresh`: what the worker planned is still what its file adds, as
  nobody else posts in between, and a deletion of what it counted on ends its own
  plan or is waited for. From it a commit brings no row above the number of
  copies some file shows on that day (`CommitNoDoubles`), and a deletion cannot either
  (`FewerSeen`).
* *Refinement.* `InsertBatch` is the ledger's Receive, `Commit` its Post, or a stutter
  where the plan is empty, `DeleteImport` its Remove, or a stutter where the batch has
  no rows; every other step stutters. `PlansFresh` makes the commit a Post. A manual
  file that is redelivered is posted again (run `import_redelivery`), which the ledger
  does not do: either there are none, or nobody is lost, and then `OnceInv` says that a
  commit of one finds its batch empty.
* *Redelivery.* `OnceInv` follows the parse job of a batch as it was queued (`First`) and
  as it was put back (`Again`): each is in one place, the second one exists only after
  the first one was lost, and of both those that may still post the file and the
  times it was posted make two at most (`PostsLeft`). A worker that goes on without its
  lock counts as one that may still post.
* *Sync.* `OneHolder`: a scheduled run is held by one worker, for no job carries it; a lost
  lock gives another worker a tick, not the run. `OverlapInv`: two workers that execute one
  manual run are on record. `Progress`: a scheduled run at work is younger than the time
  limits, so the reaper leaves it alone, and a manual one nobody has finished, unless it
  overlapped. `CountInv` is what bounds the schedule: today's attempts, plus the instances
  that have decided to start one and not inserted it yet, are at most the cap less one
  plus the number of instances.
* *Evidence.* `EvidenceBacked` depends on what handlers remember. `Tracked` says of each
  handler in flight what it relies on: a confirmation that found the object relies on
  it being there as long as its row is live, a handler about to delete objects
  relies on their rows being deleted for good. `Forward` is what every step respects:
  rows do not come back to life, objects of live rows do not go away. So a step of
  one handler keeps the facts of all the others (`OthersStayTracked`).
* *Checkpoint records.* With one client, a handler in flight works over a draft, and
  `complete()` marks only what it has just checked (`RecordInv`): nobody changed the
  evidence between its count and its mark.
* *Rentals.* `Reserves`, for any number of clients: a save past its count holds the
  locks of its proofs and they were counted. `Calm` is what every step but a commit
  respects. For one client `SettledInv` adds that what a transaction read of its rental
  is still so when it writes it.
* *Drivers' documents.* `DocumentsInOrder` needs what handlers remember (`Recalls`) and
  what every step respects (`Onward`), as above. `ConfirmKeepsOne` needs no more: only two
  steps take an uploaded document away, and a confirmation that finds its own row marks it
  in the statement before (`KnownTaker`). `ConfirmInv` and `GroundsInv` add, for one
  client, that what a handler found is what it acts on.
* *Accounts.* `AdminInv`: a request past the guard still sees what the guard counted: it
  leaves another super admin (`Spared`).
* *Artwork.* `ArtBacked` is not inductive: another request may be about to delete the
  object. `ArtInv` follows each key through its life: drawn once and stored, known to
  one request only until the row names it (`Pending`), in one place of the row
  (`RowBacked`), and, when a request is about to forget it, out of the row for good
  (`Found`), because a key that left the row never comes back.
* *Presets.* `Spares`: a removal about to delete holds the locks of the row it deletes
  and of another one, and both are still there. `CogsInv` adds that the locks of two
  removals are disjoint, so that no two spare each other's row.
* *Owners.* Both orders of the claims are the same: `RegistryInv` says that ids and
  creation times grow together, which re-plating keeps because it touches neither.
  `SameOrderSameLast` then gives the same last claim.
* *Logins.* Every copy of a slot, in the store or in a request, has `at` equal to
  `real`. Whatever copy is saved last, the eviction judges the real login. A handshake
  changes no slot.
* *Roster.* `RosterInv`. `CodesInv`: a listed driver has a code, or a live pass still
  remembers him, or the pass that listed him died. The truth has three parts. `LoneInv`:
  a pass that began with nobody at work, and that nothing changed under, is alone until
  a second one begins, unless the roster is true already. `FreshInv`: such a pass, and
  any pass over a true roster, read what is still so. `TrustInv`: a true roster lists
  everybody the imports name with the exit date they imply. So the first lone pass
  leaves the truth, and later ones, which read the same, write what is there.
* *Cells.* `GridInv`: a cell exists exactly if some placed booking covers it. So the
  first booking that reaches a cell sets it and all later ones add to it.
* *Ledger.* The closed form is inductive together with types and the clean end: a
  short day moves `net` below `peak` by exactly the new arrears; a surplus day raises
  `peak` by what the installment gets; the cap commutes with both. Fixed mode needs
  the distributive law, which is a lemma.
* *Sums.* A fold over a finite set is defined by a recursion, and the induction theorems
  of the library cannot be used (their argument is an operator). `SetInduction` states
  induction for a set of subsets instead of a predicate, by way of the well-founded order
  of strict inclusion. With it `AddsOnce` and `AddsExists` say that the recursion defines
  one function, and `SumRemove` that the order of summing does not matter. What carries
  the figures is `SumByGroup`: a set summed group by group is the set summed.
* *Column.* `ColumnInv`: the segments are spans of the days walked, in order, that begin
  and end on a day billed with their amount, and no billed day is outside them; the
  rate is the most frequent amount of these days.
* *Grab, Gojek.* Every screen is a sum over a set of rows (`FiguresAre`), and every two
  screens that should agree group one set in two ways (`ByGroup`), by day, month, plate,
  driver or partner: each row is in one group of each, which is what is shown. `RowsInv`
  is what the state adds: rows are rows. The due of a table is what the month was billed,
  less what was billed to the subjects it misses (`DueAndMissed`), which is what relates the
  modes. A caption is right because, once the bills filed in a month are those dated in it,
  a window is billed exactly where the pivot has an entry.
* *Rentals.* `SumInv`: the sums of a half-built grid are those of the bookings placed.
  `ShareSpread`: largest remainder gives each day of a month a whole number and the month
  its share, so that days, months and invoice add up to the rupiah.
* *Matrix.* Each row, trip and booking falls into one row of the matrix, by plate and by
  driver, so that a day's column is the three sources'; a month is the sum of its days
  in whatever order subjects and days are summed (`SumSwapped`, `MonthAddsUp`). Amounts
  are not negative: a cell that sums to zero holds no money, and `markZeroDays` sees it
  so.

Only model-checked. Liveness (`QueuedBatchesSettle`, `RunsFinish`): fairness and ENABLED
are out of the prover's reach. The statements of the violated runs (section 6) are
refuted, not proved, but for `NeverBlindRetry`, which the code keeps as long as no
worker is lost. Every other property of a passing run is the statement of a theorem, for
the specifications of the table; a hypothesis named there besides the assumptions
(`OneAtATime`, `OneWorker`, `~MayBeCut`) is what the run of that property gives its
constants.

The modules proved about use no recursive operators.

## 6 Where code and comments disagree

Each is a run that TLC violates; `PROJECT.json` quotes the sentences.

1. `import_redelivery`: "failed imports roll back, never blind-retry". `attempts: 1`
   bounds retries of a job that threw, not the redelivery of a dead worker's job, and
   `parse()` does not look at the status: a committed manual file is inserted again.
2. `import_overlap`: "never double-count a deposit". The preload of two pulls running
   at once sees neither's rows.
3. `checkpoint_evidence`: completed checkpoints "stay immutable". A handler that read
   the draft status before `complete()` writes after it.
4. `rental_paid`: a rental is paid only "while it carries at least one uploaded
   proof". A removal that looked at the rental before it was paid takes the proof.
5. `fleet_modes`: "every table total (setoran, due, outstanding, per-day totals) is
   identical" in both modes. The outstanding total covers the active rows only, and a
   driver can have left while his plate drives on: his balance is in the exit card of
   one mode and in the table of the other.
6. `matrix_zero`: "never marks a day with money as zero". `markZeroDays` looks at a
   cell while the sources are still being absorbed: a Gojek day that counted nothing
   is marked, and keeps the mark when Grab or rental money arrives in the same cell.

Others were met and have no run of their own. The catch block of `parse()` says the
transaction "already rolled back every inserted row", but it also covers the UPDATE
after the commit, so that a failed batch may hold rows. The guard that keeps the last
super admin counts before its transaction; two requests about two super admins leave
none. `confirm` of driver documents says it is atomic "so two concurrent confirms of the
same kind can't mutually delete each other's rows"; of two confirmations of one kind
that both read their rows first, the first deletes the row of the second, which then
updates nothing and deletes the row of the first: the kind is left empty.
`ConfirmKeepsOne` says that this is the only such case. "A login is never valid longer
than 12h regardless of activity", says `config/session.ts`; `liveSlotUser` sees to it
for every HTTP request, but the handshake of the realtime gateway accepts the slot at
any age, and no connection is closed for it: `CapHolds` is about requests. Two comments
of the sync hold for one instance of the service only: attempts are "at most
MAX_SCHEDULED_ATTEMPTS_PER_DAY times per day", while two instances may both decide
before either inserts its row (`ScheduleBounded` allows one more for each further
instance); and "two pulls never overlap", while the concurrency of 1 is per instance.
All are in the hazard list.

## 7 What is not modelled

* Parsing of cells, dates and amounts: a file is a bag of identities.
* `testConnection`, `lastVerifiedAt` and the credentials of the sync; the date rules
  of `sync-schedule.ts` (the day is a counter); the time a pull takes.
* Two Gojek uploads of different months, which never meet.
* Effects outside the service: realtime events and the activity log.
* Overlap acknowledgement of rentals; their sorting, filters and PDF, and the amount in
  words; the name and title of the signatory; labels and amounts of a preset; the
  vehicle type of a plate; rate limits; registration and master data of drivers;
  passwords, e-mail uniqueness and import history of accounts.
* Grab: filters, targets, and fares, rides and incentives, which are summed as earnings
  are. Matrix: the plate history of a row and its labels.
* Monitoring: `fleet_targets` and matching them by substring, row filters and order,
  the breakdown of a single cell, the exit card when bookings exist (it does not
  waive rented-out days, while the balance does: `NothingLost` says so), a type that is two
  of the three known ones at once, and edits between the several queries one grid is built
  from.
* In `GojekPortalSync` more than one pull may run at once with two instances (the
  processor's concurrency of 1 is per instance). What that costs is finding 2, which is
  about the import pipeline. An instance that is frozen past the time limits of its own
  requests and then goes on is not modelled: a scheduled run it executes could be reaped
  under it.
* What a socket receives, and who may subscribe.
* Deletion of a stored object is a no-op on one of the store's back ends. The backing
  properties are stated for the one that deletes, which is the harder case.
* The components listed as not modelled in section 1.

## 8 Plan

Modules so far were written in the order of section 2: imports first, since every
other figure of the system is computed from their rows; the sync, which feeds them;
then the portal's evidence-keeping services and the ledger; the monitoring figures;
then the roster, the smaller services of the portal, sessions, and the rental, Grab
and matrix figures. Next:

1. Model: the settings race of `testConnection` in `GojekPortalSync`; overlap
   acknowledgement in `RentalProofs`; `sync-schedule.ts`; in `FleetGrid` the grid as
   several queries with edits in between, and targets; the grouping of
   names that feeds the deposit ledger. Compose the sync with the import pipeline
   instead of its states, and roles with sessions.
2. Abstract specifications: an evidence store (a set of confirmed documents) that
   `Checkpoints`, `RentalProofs`, `DriverDocuments` and `InvoiceArt` implement.
3. Prove: what the new abstract specifications state.

## 9 Running the checks

In this directory, with the TLA+ tools and the community modules:

```
tlc -workers 2 -config ImportConcurrent.cfg MCImport.tla
tlc -workers 2 -config PortalSync.cfg GojekPortalSync.tla
tlc -workers 2 -config PortalConcurrent.cfg MCPartnerPortal.tla
tlc -workers 2 -config PortalSequential.cfg MCPartnerPortal.tla
tlc -workers 2 -config Monitoring.cfg MCMonitoring.tla
tlapm ImportPipelineProofs.tla
tlapm GojekPortalSyncProofs.tla
tlapm EvidenceProofs.tla
tlapm DriverProofs.tla
tlapm AccessProofs.tla
tlapm SumTheorems.tla
tlapm FleetProofs.tla
tlapm MatrixProofs.tla
```
