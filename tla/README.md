# TLA+ specifications of room-booking-platform

The platform lets users book half-hour slots of meeting rooms.  It is five Go
services, each with its own PostgreSQL database, behind an HTTP gateway, and a
mock of a conference provider.  There is no transaction across services: what
keeps slots, bookings and conference jobs consistent is the order of the steps,
the guards of single SQL statements, and compensation.  That is what these
modules model, check with TLC and prove with TLAPS.

Paths below are relative to `src/`; `booking/` and `availability/` stand for
`services/booking-service/internal/` and
`services/availability-service/internal/`.

## Inventory

| Component | State | Operations that change it | Talks to |
|---|---|---|---|
| availability-service, slots | `slots.status`, `current_booking_id` | `BookSlot` (one transaction, row lock), `ReleaseSlot` (one guarded UPDATE) | called by booking-service |
| availability-service, generation | `schedules`, `slots` (rows), `slot_generation_state` | `CreateSchedule`, hourly `ExtendSlots` | room-service (does the room exist) |
| booking-service, handlers | `bookings`, `conference_jobs` (insert) | `CreateBooking`, `CancelBooking` | availability-service over HTTP |
| booking-service, worker | `conference_jobs`, `bookings.conference_*` | claim, call, complete, fail, reschedule, discard; every 5 s in every replica | conference service over HTTP |
| conference-mock-service | map from booking id to link, in memory | `GetOrCreate`, behind an RWMutex | called by the worker |
| auth-service | `users` | `Register`, `EnsureUser` (dummy login, seed) | gateway checks its tokens |
| room-service | `rooms` | `CreateRoom`, with the creator's id from the gateway | called by availability-service |
| api-gateway | none | proxy, token and role check | all services |
| `pkg/jwt`, `pkg/httputil` | none | pure functions | |

What is hard:

* **Creating a booking** (`booking/service/service.go:92`) is a saga: take the
  slot over HTTP, insert the row, and on failure release the slot.  The call may
  be carried out without an answer, the answer to COMMIT may be lost, the client
  may leave (its context also carries the compensation), the process may stop.
  *Correct* means: no slot with two active bookings, no answer that contradicts
  the databases, no compensation of a booking that exists, no slot lost.
* **Cancelling** (`service.go:147`) releases first and updates the row second,
  without a lock across the two.  *Correct* means: a cancelled booking never has
  its slot, and no late or repeated release takes another booking's slot.
* **Conference jobs** are an outbox served by several replicas under a lease,
  with retries.  *Correct* means: one worker per job, the status shown to the
  user agrees with the job, a cancelled booking gets no link from a worker that
  read it earlier, outcomes are final, every job is decided.
* **Conference links** come from a service that keeps them in memory behind a
  lock, while callers give up, repeat calls and work in several replicas.
  *Correct* means: a booking has one link wherever it is kept or on its way.
* **Accounts** are made by clients and by the test mode, on two unique keys, and
  live on in tokens and headers that nobody looks up again.  *Correct* means:
  every identity names an account, an account that was made can be used, and
  test accounts end with the mode.
* **Slot generation** runs in a request and in a worker, in many statements
  without a transaction.  *Correct* means: all slots up to `generated_until`
  exist, and in the end those of the next 30 days do.

Every point is listed with its line under `hazards` in `PROJECT.json`.

## Modules

| Module | What it is |
|---|---|
| `SlotReservation` | what the saga promises: each booking id holds its slot at most once; recorded after that, cancelled only after giving back |
| `BookingSaga` | the two handlers, the slot table and the bookings table, with all failures; `KeepsReservations` is the refinement |
| `MCBookingSaga` | slots, users and symmetry of the instances TLC checks |
| `BookingSagaProofs` | TLAPS: inductive invariant, safety theorems, refinement |
| `BookingSagaFaultProofs` | TLAPS: what holds as long as some kinds of failure do not happen |
| `ConferenceOutbox` | what the jobs promise: a booking that asks is owed an answer from the step that makes it, is given one once, and shows it unless it was cancelled |
| `ConferenceJobs` | the outbox row, the worker replicas, leases, retries; `KeepsOutbox` is the refinement |
| `MCConferenceJobs` | symmetry of the worker replicas |
| `ConferenceJobsProofs` | TLAPS: inductive invariant, safety and action properties |
| `ConferenceLinks` | `ConferenceJobs` composed with the conference service: goroutines, lock, map, answers on their way |
| `MCConferenceLinks` | links and symmetry of the instance TLC checks |
| `ConferenceLinksProofs` | TLAPS: inductive invariant, safety; the theorems about the jobs carried over |
| `Accounts` | auth-service's users and tokens, the gateway's checks, room-service's `created_by` |
| `MCAccounts` | ids, addresses and spellings of the instance TLC checks |
| `AccountsProofs` | TLAPS: inductive invariant, safety and action properties |
| `RoomCalendar` | what the generation promises: slots of the schedule are offered and never taken back, and a day is vouched for only when nothing is missing before it |
| `SlotGeneration` | schedules, the request and the workers that generate slots, the date; `KeepsCalendar` is the refinement |
| `MCSlotGeneration` | the requests of the instance TLC checks |
| `SlotGenerationProofs` | TLAPS: inductive invariant, safety properties, no overlap, refinement |

Operators called a *Mutation* in their comment are not used by any
specification.  Each is the wrong version of the definition after it; TLC must
find the property of a run violated when it takes that definition's place
(`mutants` in `PROJECT.json`).

### BookingSaga

One action is one transaction of either database, the sending or the answer of
a call, or one failure.

| Variable | Code |
|---|---|
| `owner[s]` | `slots.current_booking_id`, `NoBooking` when `status = 'free'` (the two columns are always written together) |
| `past` | slots whose `start_at` is before now; time moves by `SlotStarts` |
| `row[b]` | `bookings.status`; `absent` without a row |
| `tx[b]` | the insert's transaction: open in its handler, or detached with COMMIT sent and no answer received |
| `pc`, `target`, `rpc` | where each handler is, the booking it cancels, its HTTP call |
| `orphans` | calls and statements nobody waits for any more: each takes effect at any later time, or never |
| `gone` | handlers whose request context is done |
| `released` | history: bookings for which booking-service ever sent a release |

A create request mints its booking id itself (`service.go:100`), so a create
handler *is* a booking id, and its slot and user are constants.  Handlers of
cancel requests are reused and choose user and booking each time.

| Action | Code |
|---|---|
| `CreateBooking` | handler's role check, `bookSlot` sends the request |
| `BookSlot`, `ReleaseSlot` | availability-service's handler, one transaction |
| `CallFails` | timeout, broken connection, error answer, or context done; the server may still carry the call out |
| `OrphanRuns`, `OrphanDropped` | the server does, or does not |
| `BookSlotReturns` | `service.go:103-106` |
| `InsertBooking`, `InsertFails` | BEGIN and INSERT; waits for, or fails on, `idx_bookings_active_slot` |
| `CommitSucceeds`, `CommitRolledBack`, `CommitUnknown` | the three results of `tx.Commit`, `repository.go:91-97` |
| `DetachedCommits`, `DetachedRollsBack` | PostgreSQL ends a transaction whose client is gone |
| `LookupBooking`, `LookupFails` | `GetByID` after an unknown outcome, `service.go:126-135` |
| `Compensate`, `CompensationReturns` | `service.go:136-141` |
| `CancelBooking` | checks and the release call, `service.go:147-165` |
| `ReleaseConfirmed`, `ReleaseNotConfirmed` | `service.go:165-167` |
| `CancelRow`, `CancelRowFails` | the UPDATE, `repository.go:118` |
| `ClientGone`, `CreateCrashes`, `CancelCrashes` | the request context is cancelled; the process stops |

`Faults` says which failures an instance has: `rpc` (calls fail), `gone`
(clients leave), `db` (a statement of a create request fails on the bookings
database), `update` (the UPDATE of a cancellation fails), `commit` (the answer to COMMIT is lost), `late` (such a COMMIT may take effect after the
lookup), `crash`.

### ConferenceJobs

| Variable | Code |
|---|---|
| `row`, `conf`, `link` | `bookings.status`, `conference_status`, `conference_link IS NOT NULL` |
| `job`, `attempts`, `due`, `expired` | `conference_jobs.status`, `attempts`, `next_retry_at` reached, `locked_at` older than the lease |
| `batch`, `current`, `wpc` | the jobs `ClaimConferenceJobs` returned and are still to do, the one in `processJob`, and its next step |
| `faults`, `calls` | counters: failures so far, calls of the conference service per booking |

`CreateBooking`, `CancelBooking`, `Claim`, `LoadBooking`, `RequestLink`,
`Discard`, `Complete`, `Fail` and `Reschedule` are the repository's and the
service's operations.  `OutcomeRefused` is `expectOne` finding no row in
`processing`; `LoadFails`, `OutcomeLost` and `WorkerStops` are the failures;
`RetryDue` and `LeaseEnds` are time.  `Claim` takes any non-empty set of
claimable jobs up to the batch size: rows locked by others are skipped and
`created_at` is not modelled.  The lease is 5 minutes and a batch is at most 10
calls of at most 10 s, so a worker works on a job whose lease is over only if it
*stalls*: that is a kind of fault of its own, and the properties that need it
absent say so.

For the refinement, a booking is owed an answer while its job is pending or
processing, and shows what `conference_status` and `conference_link` say
together (`Shown`); a claim, a call, a reschedule or a failure changes neither,
and each recorded outcome is one `Decide`.

The saga and the jobs meet in two statements, the insert and the cancellation
of a booking.  Each module models the columns it is about; neither statement
reads the other's columns, so the two are checked apart.  What `ConferenceJobs`
takes for granted of the rows, that they become active once and stay cancelled,
is proved of the saga (`RowsMoveOnce`).

### ConferenceLinks

The module extends `ConferenceJobs`; every action is an action of that module
together with what it does to calls and links, or a step of the conference
service that leaves the jobs alone.

| Variable | Code |
|---|---|
| `links` | the map of the store, empty after a restart |
| `readers`, `writer` | who holds `s.mu` for reading and for writing |
| `gpc`, `asked`, `reply` | where the goroutine of a request is, its booking, the link it is going to answer |
| `call`, `got` | the goroutine whose answer a worker waits for, the link it was answered |
| `stored` | `bookings.conference_link` |

| Action | Code |
|---|---|
| `CallArrives` | `http.Client.Do` reaches `CreateConference` |
| `FailureSimulated` | `failRate`, before the store is asked |
| `ReadLock`, `ReadHit`, `ReadMiss`, `WriteLock`, `Create` | `GetOrCreate`, `store.go:19-37`: look up under the read lock, give it back, look up again under the write lock |
| `Answer` | the answer reaches the worker, or nobody waits for it any more |
| `CallFails`, `StopWorker` | the call is given up or the worker stops; the goroutine goes on |
| `RecordLink`, `EndJob`, `TakeJob`, `Cancel`, `Elsewhere` | the actions of `ConferenceJobs`, with the link |
| `ConferenceStops` | the process stops and is started again |

`LinkOf[b]` is the link made of the first eight characters of a booking id; two
bookings may have the same.  Since the link is a function of the id, the second
look at the map changes no answer: what the write lock is for is that nobody
reads the map meanwhile (`NoMapRace`).

### Accounts

| Variable | Code |
|---|---|
| `users[i]` | the row of `users` with that id, with its address, password (standing for its hash, `None` for NULL) and role |
| `tokens` | tokens signed so far; of each account the last, which is valid whenever an older one is |
| `rooms` | the values of `rooms.created_by` |
| `pc`, `req` | what the request of a client does next, and with what |
| `testMode` | `TEST_TASK_MODE`, read when auth-service starts |
| `now`, `restarts` | the clock, a counter |
| `lastTest`, `created`, `seeded`, `blocked` | history: when the mode was last on, the registrations answered, whether seed was answered, the test accounts that were refused |

An address is a mailbox with the way it is written: `Normalized` is
`strings.ToLower(strings.TrimSpace(...))`, `SameEmail` the equality of `CITEXT`.

| Action | Code |
|---|---|
| `Register` | the checks of `auth.go:58-75`, up to the INSERT |
| `InsertUser`, `InsertUnanswered`, `InsertRefused` | the INSERT takes effect and is answered, takes effect without an answer, or is refused or fails |
| `Login` | one read, comparison and token; a login that fails changes nothing |
| `DummyLogin`, `DummySucceeds` | `auth.go:123-146`; the gateway routes it only when it was started in test mode itself, which can only make such calls fewer |
| `Seed`, `SeedAdmin`, `SeedUser` | `auth.go:148-159`, two INSERTs without a transaction |
| `EnsureConflicts`, `EnsureFails` | the unique address refuses the INSERT of a test account; the statement fails, took effect unnoticed, or was sent by a process that has stopped |
| `Authorize` | `RequireAuth` and `RequireRole` of the gateway for `POST /rooms/create` |
| `CreateRoom`, `CreateRoomFails` | room-service, which trusts the headers |
| `Tick`, `RestartAuth` | time; auth-service is started again, in either mode, with statements still on their way |

`BookingSaga` takes identities as constants (`Users`, `Admins`): it reads the
headers as room-service does, and rows of `users` never change (`RowsLast`), so
nothing that happens in `Accounts` is seen there.

### SlotGeneration

Nothing in this component is in a transaction, so one action is one statement,
and the date may change between any two.

| Variable | Code |
|---|---|
| `schedule[r]` | the row of `schedules` with `room_id = r`: days, start and end in minutes |
| `slots[r]` | the rows of `slots`, as pairs of a day and a start time (the key of `ON CONFLICT`); `end_at` is 30 minutes later |
| `until[r]` | `slot_generation_state.generated_until`, `None` without a row |
| `today` | the date of `time.Now().UTC()`; day 0 is a Sunday |
| `pc`, `queue`, `now` | where a request or worker is, the schedules a worker has still to look at, the date it read |
| `gen[p]` | the local variables of a run of `GenerateSlots`: room, date, next start, end of the range |

`Procs` are the workers, one per replica, and the rooms: `room_id` is unique in
`schedules`, so at most one create request of a room gets past the INSERT and
the room names it.

| Action | Code |
|---|---|
| `CreateSchedule` | room check, validation (`Valid`) and INSERT, `service.go:57-109`; refused requests change nothing |
| `ExtendSlots` | `GetAllSchedules` of the worker, before it reads the clock |
| `ReadClock` | `time.Now()` of both, `service.go:112` and `:178`; the request goes on to `GenerateSlots` |
| `LoadState`, `LoadStateFails` | `GetGenerationState` of one room and where to start, `service.go:183-197` |
| `InsertSlot`, `NextDay` | the inner and the outer loop of `GenerateSlots`, `repository.go:224-249` |
| `SaveState` | `UpsertGenerationState`, only after all inserts succeeded |
| `GenerationFails`, `Stops`, `Midnight` | a statement fails, having taken effect or not; a process stops; the date changes |
| `Rest` | the worker waits for its ticker |

The slots' `status` belongs to `BookingSaga` and is not read here; the saga
reads no schedule, and a slot it may name is never taken away (`SlotsLast`).

For the refinement, `RoomCalendar` has the same four tables and dates, and
neither requests nor workers nor runs: an insert is an `Offer` or, when the slot
is there already, nothing; `SaveState` is a `Vouch`.  Days and times of a
schedule (`SlotsOf`) are those of ISO 8601 and of `Grid`, not those the loop of
`GenerateSlots` computes.

## Runs

| Run | Instance | Shows |
|---|---|---|
| `SagaFaults` | 2 requests for one slot, 1 cancel handler, every fault | inductive invariant, the four safety properties, the refinement |
| `SagaDb` | 3 requests for one slot, one for no slot, one of an administrator, 2 cancel handlers, `db`, `commit` | the invariant of `BookingSagaFaultProofs`, no slot is lost by database errors, taken slots and active bookings agree, no committed booking is compensated |
| `SagaLive` | 2 requests for one slot, one for no slot, 1 cancel handler, `rpc`, `commit`, `late` | every request ends |
| `JobsFaults` | 3 bookings (2 ask for a conference), 2 workers, batch 2, 3 attempts, at most 2 faults of `db`, `crash` | exclusion, agreement, counted calls, attempts never decrease |
| `JobsStall` | 2 bookings, 2 workers, batch 1, 2 attempts, 1 fault of `db`, `crash`, `stall`, with fairness | the guards of the UPDATEs suffice without exclusion, also for the refinement; every job is decided |
| `JobsLinks` | 2 bookings, 2 workers, 2 goroutines, batch 1, 2 attempts, 1 fault, 1 restart of the service | the inductive invariant, one link per booking, no race on the map, no lock kept |
| `AccountsModes` | 2 clients, 2 test accounts and 2 others, 3 spellings of 3 mailboxes, 2 passwords, 1 restart, tokens of 1 tick | identities, registrations, test accounts |
| `SlotsGenerated` | 1 known and 1 unknown room, 2 workers, 6 requests (4 refused), horizon 2 days, 3 dates, 1 fault | no recorded gap, slots fit the schedule, the horizon is filled in the end, the refinement |

Four runs end in a violation on purpose.  Each checks a sentence of the
repository that the code does not keep (`findings` in `PROJECT.json`):

| Run | Sentence | What happens |
|---|---|---|
| `SagaLateCommit` | "must not compensate a transaction that actually committed" (`booking/service/service_test.go:297`) | COMMIT takes effect after the lookup found no row |
| `SagaClientGone` | on an error of the local write the slot is released (`README.md:48`) | the write failed because the client left, and the release has the same dead context |
| `SagaFreeListed` | listed slots have no active booking (`api.yaml:530`) | the slot was released and the UPDATE failed |
| `JobsAttempts` | at most five attempts (`README.md:57`) | an outcome that could not be recorded is not counted |

**Bounds.**  Two create requests for one slot are enough for every conflict
over the slot, the key of the unique index and late releases, since each of
these is between two booking ids; the third in `SagaDb` lets a
slot be taken, given back and taken again while an older cancellation is under
way.  Slots do not interact but through handlers, so one real slot and one
unknown slot are used.  Two workers suffice for lost claims; `MaxAttempts` is 3
rather than 5 because only first, middle and last attempt differ
(`JobsAttempts` has the real 5).  `MaxFaults` bounds database errors and
crashes of workers, `MaxCalls` the counter of calls, one above what
`CallsWithinLimit` allows.  In `SlotsGenerated` a horizon of 2 days and dates 0
to 2 give a worker that starts before, at and after `generated_until`, a run
that midnight overtakes, and two runs with different targets; day 0 is a
Sunday, the day the numberings of ISO 8601 and Go differ in, and one schedule
ends with the last minute of the day.  Rooms share nothing but the worker that
goes through them, so one known room suffices there.  In `JobsLinks` two
goroutines are enough to meet at the lock, and to have one orphan of a call that
was given up beside a live call; the restart comes at every point of either.  In
`AccountsModes` time stops after one tick, when tokens signed before have
expired; a restart may turn the mode on or off at any point of two requests; one
mailbox belongs to a test account, one has two accounts that want it, one is no
address.  The theorems below do not depend on any of these bounds.

`CHECK_DEADLOCK FALSE` is set because an instance has finitely many requests
and ends when they are answered.

**Fairness.**  `BookingSaga`: weak fairness of each handler's own steps (a
goroutine is scheduled, a database statement returns), of each call (the HTTP
client gives up after 10 s) and of the end of detached transactions.
`ConferenceJobs`: of each replica's claim (its ticker fires every 5 s) and
steps, of the end of backoffs and leases (time passes).  `SlotGeneration`: of each worker's round (it runs when its
process starts and every hour) and of the statements of a run.  No request, no
cancellation, no fault, no disconnect and no midnight is assumed to happen.

## Proofs

`BookingSagaProofs` proves, for any bookings, slots, users and kinds of
failure, under `SagaAssumption` (the types of the constants):

* `Invariance`: `IInv` is inductive.  The safety properties are not inductive by
  themselves, because they say nothing of what is still on its way.  `IInv` adds
  that: a book call that can still take effect (`MayTake`) excludes a row and a
  held slot; a transaction in doubt counts as holder of the index key
  (`HasKey`); every release on its way is recorded; and everything that follows
  a confirmed release happens with the slot given back for good (`GivenBack`:
  no book call of this id is left, so it cannot be taken again).
* `TypeCorrect`, and `CancelledIsFree`, `NoDoubleBooking`, `NobodyElseReleases`,
  `AnswersAgree`: the other invariants of `SagaFaults`.
* `Refinement`: every step of the saga is a step of `SlotReservation` or leaves
  it unchanged, where `hold` is computed from `owner` and `MayTake`.
* `RowsMoveOnce`, from the refinement.

`BookingSagaFaultProofs` proves what the repository promises only while some
things do not go wrong.  `FInv` is inductive together with `IInv`; each of its
four parts says what holds until a certain kind of failure happens: who has
given a booking up has not written it (until a COMMIT is late); a compensation
that was begun is confirmed (until a call fails or a client leaves); a refusal
is final, since no call is left on its way (until, besides, a process stops);
a release has a reason in its own request (until, besides, an UPDATE fails).
The last is why the second half of a cancellation cannot be lost.

| Theorem | Property | Holds unless there is |
|---|---|---|
| `NoCommittedCompensation` | `CommittedNotCompensated` | `late` |
| `FailedWritesRelease` | `FailedWriteReleases` | `rpc`, `gone` |
| `NoSlotIsLost` | `HeldSlotsAreBooked` | `rpc`, `gone`, `crash` |
| `ActiveBookingsKeepSlots` | `ActiveBookingsHold` | `rpc`, `gone`, `crash`, `update`, `late` |
| `FreeListIsRight` | `FreeSlotsAreUnbooked` | the same |

All other kinds may happen, in any number and order.  Every kind named is needed:
in an instance of two requests and one cancellation that has it in addition to
those the theorem allows, TLC finds the property violated.  The runs
`SagaLateCommit`, `SagaClientGone` and `SagaFreeListed` are three of these
instances.

`ConferenceJobsProofs` proves, for any number of bookings, workers, attempts,
failures and any batch size, under `JobsAssumption`:

* `JobsInvariance`: `JInv` is inductive.  It adds to the properties that jobs
  exist exactly for rows that asked for one, that only cancelled bookings are
  being discarded (cancellation is final, so what a worker saw stays true), that
  a claim stays good while it is worked on, and that calls are attempts plus the
  answers not yet, or never, recorded.
* `JobsTypeCorrect`, `StatusIsHonest`, `CancelledStaysBare`, `OutcomesAreFinal`
  without further assumption; `LeaseExcludes`, `CallsAreBounded`, `AttemptsGrow`
  assuming that no worker outlives its lease (`"stall" \notin Faults`);
  `AttemptsWithoutFaults` when nothing fails at all: the counterpart of the run
  `JobsAttempts`.
* `JobsRefineOutbox`, without that assumption: every step is a step of
  `ConferenceOutbox` or a stutter.  An outcome is recorded only for a job in
  `processing`, so it is owed; the booking then shows "waiting" or is cancelled
  and shows nothing, by `StatusAgreesWithJob` and `CancelledHasNoLink`.

`ConferenceLinksProofs` proves, for any bookings, workers, goroutines and
restarts, under `JobsAssumption` and `LinksAssumption`:

* The theorems above hold of the composition too, since each of its actions is
  written as an action of `ConferenceJobs` or leaves its variables alone (lemma
  `JobsIncluded`, true by construction); `StatusIsHonestWithService` and
  `OutboxKeptWithService` are two of them.
* `LinksInvariance`: `LInv` is inductive.  `OneLinkPerBooking` says nothing of
  whom an answer is for; `LInv` adds that a worker waits for a goroutine that
  has its booking, or that has gone with its process, and that no two wait for
  one (`CallsMatch`), which is why a late answer reaches nobody.
* `LinkIsOwn`, `MapIsSafe`, `LocksAreGivenBack`.

`AccountsProofs` proves, for any clients, ids, addresses, passwords, lifetime of
tokens and restarts, under `AccountsAssumption`:

* `AccountsInvariance`: `AInv` is inductive.  Rows are only ever added, each by
  an INSERT whose request was in order when it came (`TableChanges`); `AInv`
  says what that leaves behind: normalized addresses, none twice, ids of
  registrations under way that are their own, test accounts that are as
  `EnsureUser` makes them and have no password, and requests of the test mode
  that came while it was on.
* `TokensAreHonest` and `RoomsAreOfAdmins`, from the fact that rows stay;
  `NoAdminOutsideTestMode` from these two; `AccountsLast`, `SeedKeepsItsWord`,
  `TestAccountsEnd`.
* `RowsLast`: no row changes.

`SlotGenerationProofs` proves, for any rooms, replicas, schedules, horizon and
failures, under `GenerationAssumption`:

* `GenerationInvariance`: `GInv` is inductive.  `CoveredUntil` speaks of
  finished runs only; `GInv` adds what a run under way has behind it: every day
  from today to its own is done, and its own day up to its next slot
  (`RunsCover`), whichever date it read and wherever it started.  Since slots
  are never removed and today never goes back, this survives every other run.
  `RunsFit` keeps runs on the grid and within the horizon.
* `GenerationTypeCorrect`, `NoGapsRecorded`, `SlotsAreOfSchedule`, and
  `SlotsNeverOverlap`: different slots of a room are half an hour apart.  The
  exclusion constraint can refuse an insert only to two that insert the same
  slot at once; the run of one then fails (`GenerationFails`).  The arithmetic rests on `GridStep`: a
  day of whole half hours is tiled by slots of half an hour.
* `GenerationRefinesCalendar`: every step is a step of `RoomCalendar` or a
  stutter.  That a run may vouch for its target is `RunsCover` at the moment its
  day has reached it, from the date of that moment on and not from the date the
  run began with.  `SlotsLast` follows from the refinement.

Only model-checked: the liveness properties (`CreateEnds`, `CancelEnds`,
`JobEnds`, `HorizonFilled`), since TLAPS has no rules for fairness and
`ENABLED`.  Every other property of a passing run is the subject of a theorem.

## Not modelled

Key files, the signature of tokens, JSON, hashing, configuration and logging
(pure or library code): a token is what was signed, a password opens the account
it was stored for.  The gateway's plain proxying: what it may do to a call (lose
it, or its answer) is in the modules of the services called.  Reading endpoints.
The graceful part of a stop: it lets requests end, which the models do at any
time anyway.  Within the modelled parts: the order of claims, the length of
backoffs, texts of errors, the HTTP status an answer carries beyond success,
refusal or failure.

## Plan

An abstract specification of `Accounts` (a registry of identities that only
grows) and its refinement.
