# Verification of the drone booking service

TLA+ modules, TLC configurations and TLAPS proofs for the booking feature of the
drone booking service (`src/app`): what happens when several customers ask for
one drone at once, when the expiry job and a cancellation meet on one booking,
and when PostgreSQL, Redis, RabbitMQ or a worker fails in between.

Paths below are relative to `src/app/features/booking/` unless they begin with
`src/`.

## 1. The system

| Part | State it keeps | Operations |
|---|---|---|
| Booking status table (`domain/booking_status.py`) | none | `is_terminal`, `is_active`, `can_transition_to` |
| Booking entity (`domain/booking_entity.py`) | one booking in memory | `transition_to`, `mark_as_*`, `cancel` |
| Domain rules (`domain/booking_rules.py`) | none | not in the past, operating hours, minimum duration |
| Create use case (`application/create_booking.py`) and `POST /bookings` | local to a request | rules, overlap query, locks, save, commit, event, undo |
| Cancel (`application/booking_service.py`) and `PATCH /bookings/{id}/cancel` | local to a request | load, cancel, save, commit |
| Expiry job (`application/expire_booking.py`) | local to a run | find overdue rows; per row save, commit, release locks, event |
| Repository (`infrastructure/booking_repository.py`) | table `bookings` | `find_overlapping`, `find_expired`, `get_by_id_and_user`, `save`, `find_by_user` |
| Slot lock (`infrastructure/redis_slot_lock.py`) | one Redis key per drone, date and hour | `acquire_lock`, `release_lock`, the two loops over hours |
| Publisher (`infrastructure/rabbitmq_publisher.py`) | events on the exchange | `publish_booking_created`, `publish_booking_expired` |
| Read endpoints (`api/booking_controller.py`) | none | `get_booking`, `list_bookings` page by page |
| RabbitMQ connection (`src/app/shared/messaging/rabbitmq.py`) | connection, channel, lock | `get_channel` with reconnection, `close` |
| Redis and database pools (`src/app/shared/cache`, `src/app/shared/database`) | pools, sessions | `_get_pool`, `get_redis`, `get_db` |
| Application (`src/app/main.py`) | the lifespan of a worker process | checks at startup, shutdown |
| JWT, settings, logging, event bus, migration, legacy modules | little or none | see section 7 |

A create request checks the rules, asks PostgreSQL for overlapping active
bookings, takes one Redis lock (`SET NX EX`) per hour of its slot, inserts the
row as PENDING_PAYMENT, commits and publishes `booking.created`. The locks are
not released on success: they run out after 5 minutes. Any exception after the
locks were taken releases them. The expiry job, called by a scheduler outside
the repository ("e.g., every minute", `expire_booking.py:34`), turns overdue rows
into EXPIRED, releases their locks and publishes `booking.expired`. A
cancellation loads a row, cancels it in memory and saves it.

A worker process serves its requests on FastAPI's threads. They share one
SQLAlchemy engine, one Redis connection pool, made when it is first asked for,
and one RabbitMQ connection, dialled again by whichever thread finds it closed,
under a lock that is not held while a message is sent.

What makes this hard:

- **Check, then act.** The overlap query and the commit are separated by calls
  to three services. Only the locks decide between two requests that both saw
  the slot free. The schema has no exclusion constraint behind them.
- **Locks that run out** while their owner, or a rival with an old answer to its
  overlap query, is still at work.
- **Keys from clock readings.** The keys are computed from the local date and
  hours of the datetimes the client sent; overlap is computed from instants.
- **Snapshots saved over rows** by `merge`, without a version check.
- **Partial failure** at each service call, including a COMMIT that takes effect
  and raises, and one of several locks being taken.
- **One database session for a whole batch** of the job.
- **Liveness** of expiry and of requests that compete for locks.
- **Threads of a worker** that share connections and pools: a lock held through
  retries and sleeps, a channel used outside it, a link that is gone and does
  not look so, a pool made without a lock, resources to return on every exit.
- **Pages read one by one** from a table that changes in between.

What makes each part correct: no two active bookings of a drone overlap; every key
is held by one owner, and no one but its owner removes it before its time; a
refused request leaves neither row nor lock; answers and events agree with the
table; nothing expires before its deadline and everything overdue expires; each
new row and each expiry is announced, but for one per call that raises or process
that dies; no booking is served unpaid; terminal rows free their slot for good; a
message on its way to RabbitMQ is lost only to a failure, two threads on one
channel or a link nobody could know to be gone, and a broker that is down ends no
request and takes no database connection; a client that reads its list to the end
has seen all that was there when it began, if `created_at` tells it apart.

## 2. Modules

| Module | Models | State, and what it corresponds to |
|---|---|---|
| `BookingStatus` | the status table | constants only |
| `BookingEntity` | every business method of the entity, in any order | `status`, `expired_at`, `reason` are the entity's fields; `visited` is history |
| `SlotKeys` | the domain rules, `find_overlapping`'s test, the lock keys | operators only; a datetime is an instant and the offset it was written in |
| `BookingState` | what the processes share, and the operations on it | `status`, `expiredAt`: the columns; `locks`: the Redis keys with owner and time of expiry; `events`: how often each was given to `_publish`; `now`; `faults` |
| `CreateBooking` | one create request per member of `Bookings` | `pc`, `todo` (hours left in the current loop), `checkedAt` (when the overlap query answered), `dueAt` |
| `CancelBooking` | one cancel request per member of `Cancellers` | `cpc`, `target`, `cdirty` |
| `ExpireBooking` | one scheduled job per member of `Expirers` | `epc`, `found`, `current`, `etodo`, `edirty`, `broken` (the session), `expired`, `failed` |
| `BookingSystem` | composes the three, adds time; the properties | all of the above |
| `BookingInvariant` | the hypotheses, and the inductive invariants `IInv`, `RecordInv`, `OnceInv`, `SilencedInv`, `RefusalInv` of `BookingSystem` | |
| `SlotReservations` | what clients are promised: a slot is granted to one request at a time, given back for good, and answers agree with it | `place`: what a request has; `told`: what its client heard |
| `BookingRefinement` | how `BookingSystem` implements it, and how much of it on stores that fail | an active row is a slot held, a terminal one a slot given back |
| `RabbitMQConnection` | `get_channel`, `close` and `_publish` by several threads, pika's connections and their links | `holder`: who has `_lock`; `connection`, `channel`: the fields of those names, as the number of the dial; `open`, `openChannels`: `is_open`; `severed`: the links that are gone; `call`, `attempt`, `mine`: where each publish is; `racing`; `hit`, `declared`: history |
| `WorkerProcess` | extends it by the lifespan, the requests, the Redis and database pools | `at`: where a request or the lifespan is; `pool`: `_redis_pool`; `myPool`: the pool a client was built on; `dbHolders`: who has a connection to PostgreSQL |
| `BookingList` | `list_bookings` and `find_by_user`, the rows of one user changing meanwhile | `createdAt`, `updatedAt`: the columns; `visible`: committed rows; `limit`, `offset`: the query parameters; `seen`, `before`: the client |
| `MCBooking`, `MCSlotKeys`, `MCBookingList` | instances for TLC; the last adds the symmetry of bookings, which no formula of `BookingList` tells apart | |
| `SlotKeys_proofs`, `MCSlotKeys_proofs`, `BookingEntity_proofs`, `BookingInvariant_proofs`, `BookingRecord_proofs`, `BookingRefinement_proofs`, `WorkerProcess_proofs`, `BookingList_proofs` | theorems | |

**Grain.** A step is what happens between two calls to a service, so processes
interleave at every SELECT, flush, COMMIT, `SET`, release script and publish.
Each action has a counterpart for the call raising, and `Crash` and
`ExpirerCrash` stand for the death of the process at any step.
`CreateBooking` by lines of `create_booking.py`: `Start`/`Refuse` 94-114,
`AcquireLock`/`LockTaken` 133-143 (loop in `redis_slot_lock.py:146-159`),
`SaveBooking` 145-151, `CommitBooking` 152, `PublishCreated` 154-174,
`SaveOrCommitFails`/`ReleaseLock`/`GiveUp` 176-186. A booking's id is made by
its request, so one name stands for both.

**Decisions worth knowing.**

- *SQLAlchemy.* `save` merges: it selects the row afresh (the session's identity
  map is weak and the entity is not a mapped object), and flush updates only the
  columns that differ. A saved status equal to the row's is therefore no write at
  all, which `cdirty` and `edirty` record at the time of the merge. The row lock
  an UPDATE takes is released by the COMMIT that follows in the same step.
- *A failed statement* leaves the session unusable until `rollback()`, which the
  job never calls (`broken`).
- *Transactions* run at READ COMMITTED, PostgreSQL's default: uncommitted rows of
  others are invisible, so the overlap query sees committed rows only.
- *Publishing never raises.* `_publish` makes one attempt and swallows every
  exception. To the use cases a call is a call, so in `BookingState` an event has
  been *given to* `_publish`. Whether the message arrives is the question of
  `RabbitMQConnection`: it does, once, or is lost without notice, to a failure, to
  two threads on one channel or to a link that has gone stale, of which only the
  first is a failure of anything. The properties of `BookingSystem` about events
  say that none is announced untruly, and that none is forgotten but to a failure
  before the call; they do not say that it arrives.
- *A failure* (`Fault`) is a call that raises, for whatever reason, an empty pool
  of connections among them, or the death of a process.
- *Time.* `Tick` may happen between any two steps. Redis drops keys whose ttl is
  over; PostgreSQL rows get their deadline from the process that saves them. The
  clocks of the worker and of the job are one clock.
- *`get_channel` looks, then returns.* `_is_connected` (`Check`) and `return
  self._channel` (`Return`) are two steps: publishers hold no lock and may close
  the channel in between, so what is handed out need not be open.
- *Two threads on one pika connection* is not something pika defines.
  `RaceLoses` allows what follows from frames that mix: an event lost, the
  connection closed, or the broker hanging up.
- *`created_at` is `now()`*, the start of the transaction in PostgreSQL, so rows
  become visible in another order and two may have one `created_at`. Nothing
  else orders them: in `BookingList` every query takes any order that respects
  `created_at` (`Prefixes`), and the next may take another.
- *The job reads a slot back in the timezone of the database session*
  (`InDbZone`), so it can compute other keys than the request did. The release
  script compares owners, which makes this harmless for others.

## 3. Runs

The runs of `MCBooking` have at most two bookings of one drone; the properties
relate at most two, and the locks decide between pairs.

| Run | Instance | Question | Result |
|---|---|---|---|
| `slots` | pairs from a grid of starts, lengths and offsets, two drones | Do lock keys and overlap agree? | yes on one clock, for slots ending on the hour; and never a false conflict |
| `entity` | one booking, two payment windows, any order of calls | Is anything served unpaid, a payment lost, a deadline missing? | no; and so, against two documents, nothing paid expires |
| `booking` | 09-11 and 10-12, one cancellation, one job, one failure anywhere, clock 0..4 with TTL 3 | Double booking, leaked or stolen locks, untrue answers or events, refusals without a rival, more than one event forgotten per failure, rows that leave the status table, the inductive invariant, the refinement of `SlotReservations` | all hold |
| `faults` | 10-12 and 09-11 at +09:00, about to begin, one cancellation, one job; Redis may lose a lock and a COMMIT raise after taking effect; fairness | What holds with no hypothesis on the stores: events and reports that agree with the table; all of `SlotReservations` but the exclusion of clashing slots; does every request, to book or to cancel, end and every overdue booking expire? | yes |
| `worker` | two requests that publish, two that do not; 3 threads, 2 database connections, 1 Redis connection, 2 attempts to connect, two failures; fairness | Does every request and the shutdown end; what is left taken; whose event may be lost; is a half-made connection ever used? | yes; nothing; a failure's, a race's or a stale link's; no |
| `list` | four bookings, some with one `created_at`, pages of one or two, two cancellations | Is a list read page by page complete; what is shown twice? | yes, for rows that are not tied; one of them for each row that is new |
| `partial_hour` | 09:00-10:30 and 10:00-11:00 | `NoDoubleBooking` | **violated** |
| `mixed_offsets` | 09-10Z and 16-17+07:00 | `NoDoubleBooking` | **violated** |
| `lost_commit` | `booking` with a COMMIT that takes effect and raises | `NoDoubleBooking` | **violated** |
| `cancel_expire` | a cancellation and the job, no failure | `TerminalIsFinal` | **violated** |
| `batch` | two overdue bookings, one SQL error | `FailuresAreIsolated` | **violated** |
| `shared_channel` | two publishing threads, no failure | `ChannelUsedByOne` | **violated** |

**Bounds.** `MaxNow` bounds the clock: 4 in `booking` lets a booking become
overdue (Expiry 2) and the job process it, its lock expire (TTL 3) and a rival
lock the hour again while the job is still about to release it.
`MaxFaults` bounds failures: one suffices to leave any half-done state behind,
two in `worker` let a link break while the connection is made again.
`MaxRequest` is not a bound of the search but a hypothesis, see below.
TTL and Expiry are small, and in `booking` ordered otherwise than in production
(5 and 30 minutes), so that locks and deadlines interact: with the production
order a lock is long gone when its booking expires, and the job's release would
never meet one. `RefusedOnlyForARival` needs the clock to pass a ttl: with TTL 3
and `MaxNow` 4 the second request may come when the first one's locks are over.

In `worker` each limit is one less than what the requests could use: four
requests for three threads, three of them for two connections to PostgreSQL, two
for one to Redis. Two publishers suffice for one to wait for the lock, one to
close the channel of the other and both to race. `list` has pages that one new
row shifts by a whole page and pages that it shifts by half, and enough bookings
for two that are tied on either side of a page boundary with an untied one behind.

**Fairness.** `faults` and `worker` assume some. A handler that has begun goes on
(weak fairness of `Proceed`, `CancelProceed`, `Works`): it is straight-line code
on a thread, each call of it ends by an answer or a timeout, and what it waits
for, it waits for once. Nobody has to send a request: `Start`, `Load`, `Begin`
and the failures have no fairness. The job is called again and again (weak
fairness of `ExpireProceed`): that is the scheduler the docstring of
`expire_booking.py` expects, and it is not in the repository. Time passes.
Failures are finitely many, as `MaxFaults` bounds them. The lifespan goes on by
itself, and whether the worker is told to stop is open.

**Deadlock** is checked but in the four runs whose system really ends: the entity
in a terminal status with the clock at its bound (`entity`), the worker stopped
(`worker`), all bookings made and the list read (`list`), all events published
(`shared_channel`).

## 4. What the violations show

1. `partial_hour`: `end_time.hour` (`create_booking.py:131`) drops a last partial
   hour. 09:00-10:30 locks hour 9 only, and 09:00-09:30 locks nothing. Two racing
   requests are then both accepted.
2. `mixed_offsets`: the keys are read off the client's datetimes without
   conversion. 09:00Z and 16:00+07:00 are one instant and two keys.
3. `lost_commit`: an exception out of `commit()` is taken to mean that nothing
   was stored; the locks of a row that exists are released.
4. `cancel_expire`: a snapshot is saved over whatever the row holds, so EXPIRED
   becomes CANCELLED or CANCELLED becomes EXPIRED. That is the extent of it:
   `InactiveStaysInactive` holds, the slot is never taken again.
5. `batch`: after an SQL error the rest of the batch fails on the same session.
   `OverdueIsExpired` holds: the next run has a new session and catches up.
6. `shared_channel`: `get_channel` returns the one channel of the process, and
   `basic_publish` runs after the lock was released. Two requests that commit at
   about the same time are in pika together, which pika forbids; `worker` shows
   the extent: events lost and connections closed, of the calls in progress, and
   the next call reconnects (`LossIsExplained`).

Met while modelling, and without a run:

- The table of events in `src/README.md:158` promises `booking.cancelled`;
  `cancel_booking` publishes nothing.
- `src/README.md:118` draws "(any non-terminal) -> EXPIRED (via scheduler)", and
  `booking_status.py:18` says "Any state (except COMPLETED/CANCELLED)". The table
  (`booking_status.py:79-94`) allows it from PENDING_PAYMENT only, and
  `find_expired` looks for nothing else. `PaidIsKept` states what the code does:
  a booking once paid never expires, which holds in run `entity` and is proved
  (`PaymentIsNeverLost`). The two sentences are wrong of this code; that run is
  the finding's, and the property is the one to drop should the table follow them.
- `BOOKING_MIN_HOUR` may be 0 (`settings.py:75`). A slot from 00:10 to 00:40 then
  ends in an hour that `end_time.hour or 24` takes for midnight: it locks all 24
  hours of its day, and other requests for that day get 503 (`LocksWholeDay`).
  `CollisionMeansOverlap` and `RefusalsHaveARival` leave such slots out; every
  other theorem has them in.
- `ORDER BY created_at` (`booking_repository.py:182`) has no tiebreaker. Two
  bookings of a user with one `created_at` may be shown in either order by each
  query, so a client may miss one of them for good. The properties of
  `BookingList` are about bookings that are tied with no other (`Untied`).
- The operating hours (`booking_rules.py:54-85`) are compared as times of day of
  each end by itself, so a slot from 09:00 to 17:00 of a later day passes. Its
  keys cover hours of the first day only.
- A booking's locks expire (5 minutes) before the booking does (30 minutes), so
  the job's release finds them only under other settings.
- Between a cancellation and the end of the ttl the freed slot answers 503, and
  no longer (`RefusedOnlyForARival`).
- The table allows PAYMENT_FAILED -> PENDING_PAYMENT (`booking_status.py:93`),
  although PAYMENT_FAILED counts as terminal, "a final, non-changeable state". No
  caller makes the transition yet; one that did would have to check the slot again.
- `get_channel` returns "An active BlockingChannel" (`rabbitmq.py:82`) as far as
  pika knew when it looked: another thread's failing publish may close it before
  it is returned. With `heartbeat=60` and no thread that serves the connection, it
  is stale after any quiet few minutes, and the first event then goes nowhere.
- While the broker is down, every request that has committed waits for the lock
  in a thread of its own, behind one that sleeps and retries. The requests end,
  and hold no database connection (`BrokerWaitHoldsNoDb`), but FastAPI's threads
  are bounded: enough of them waiting, and no other request begins.
- A connection dialled by a thread whose `_connect` then fails is forgotten
  when the next attempt dials: `close` at shutdown knows only the last one.
- `total` in the answer of `list_bookings` (`booking_controller.py:261`) is the
  length of the page. A client that pages up to `total` reads one page; the one in
  `BookingList` goes on until a page is not full.
- `main.py:122` calls `response.headers.pop`, which the `MutableHeaders` of
  Starlette may not have; what that does to an answer is outside these models,
  which take an endpoint's answer as the client's.

## 5. The hypotheses of NoDoubleBooking

`BookingInvariant` names them; nothing in the code enforces any of them.

- `SlotsCovered`: two slots that overlap share a key, if both are within the
  operating hours: what the rules refuse does not matter. Proved for slots on one
  clock that end on the hour (`OnTheHourSlotsCollide`). The runs `partial_hour`
  and `mixed_offsets` show that neither restriction can go, and
  `PartialHoursAreExposed` that the first is exact: every valid slot that ends
  inside an hour of the day it begins on, the first excepted, overlaps a valid
  slot, the whole of that hour, with which it shares no key.
- `TimelyRequests`: a request commits within `MaxRequest` of its overlap query,
  and `2 * MaxRequest < TTL`. The factor of two cannot go: a rival's
  locks may be up to `MaxRequest` old when the request makes its check, and with
  `TTL = 2` in `booking.cfg`, where `MaxRequest` is 1, TLC finds a double booking. With the
  production ttl this leaves two and a half minutes between the query and the
  commit. Socket timeouts of 5 seconds make it plausible for Redis; neither the
  statements nor the lock waits of PostgreSQL have a timeout.
- `ReliableStores`: Redis keeps a lock until its ttl is over, and a COMMIT that
  raises had no effect. `src/docker-compose.yml:31-32` (`allkeys-lru`, 256 MB)
  gives no such guarantee when memory is short; `lost_commit` shows the second.

## 6. What is proved

All theorems are about any sets of bookings, cancel requests, jobs and threads,
any number of failures and any values of the constants that meet the named
assumptions; beyond those, the hypotheses are the ones in the table. The requests
of a worker, the jobs and the bookings of one user are assumed finite, as the
proofs count their members.

| Module | Theorem | Property | Hypotheses |
|---|---|---|---|
| `BookingInvariant_proofs` | `NoDroneIsBookedTwice` | `NoDoubleBooking` | the three of section 5 |
| | `HourlySlotsAreBookedOnce` | `NoDoubleBooking` | the same, `SlotsCovered` replaced by what a client can check |
| | `CommitsHoldTheirLocks` | `SavedHoldsItsLocks` | the three of section 5 |
| | `InvariantHolds` | `IInv` | the three of section 5 |
| | `LocksAreSafe` | `LocksStayWithOwner` | `ReliableStores` |
| | `Types` | `TypeOK` | none |
| `BookingRecord_proofs` | `RecordsAgree` | `RecordInv` | none |
| | `AnswersAreTrue` | `AnswerMatchesRow` | none |
| | `CreatedAfterCommit` | `CreatedEventHasRow` | none |
| | `WindowIsHonoured` | `NeverExpiredEarly` | none |
| | `ReportsAreTrue` | `ReportedIsReleased` | none |
| | `RefusalsReleaseAll` | `RefusedHoldsNothing` | none |
| | `SlotsStayFree` | `InactiveStaysInactive` | none |
| | `RowsObeyTheTable` | `RowsFollowTheTable` | none |
| | `AnnouncedOnce` | `ExpiredEventOnce` | none |
| | `SilenceIsCounted` | `OneSilencedPerFailure` | none |
| | `RefusalsHaveARival` | `RefusedOnlyForARival` | one timezone (`OneTimezone`), no slot that locks a whole day (`NobodyLocksADay`) |
| `BookingRefinement_proofs` | `Implementation` | `ImplementsReservations` | the three of section 5 |
| | `WordIsKept` | `KeepsItsWord` | none |
| | `PromiseIsEnough` | `NoDoubleBooking`, from `ImplementsReservations` | none |
| `SlotKeys_proofs` | `OnTheHourSlotsCollide` | `KeysCollide` | valid slots, one offset, ending on the hour |
| | `PartialHoursAreExposed` | no `KeysCollide` | a valid slot ending inside an hour of its day, not the first, `MinMinutes` at most 60 |
| | `ApartSlotsShareNoKey` | `NoFalseConflict` | valid slots, one offset, neither `LocksWholeDay` |
| `MCSlotKeys_proofs` | `GridOverlapsCollide`, `GridCollisionsOverlap` | both of run `slots` | none, for any grid of integers |
| `BookingEntity_proofs` | `PaymentPrecedesService`, `PaymentIsNeverLost`, `DeadlineIsSet`, `ReasonsMeanCancelled`, `EntityTypes` | all of run `entity` | none |
| `WorkerProcess_proofs` | `WorkerTypes`, `RedisStaysInItsPool`, `WaitingHoldsNoDb`, `NothingStaysTaken`, `LossesAreExplained`, `ExchangeIsDeclaredFirst` | the safety properties of run `worker` | none |
| `BookingList_proofs` | `ListTypes`, `ListingIsComplete`, `ListingSkipsNothing`, `ListingRepeatsLittle` | all of run `list` | none |

**No double booking.** `NoDoubleBooking` is not inductive: it says nothing of a
request that is about to commit. `RowInv` ties rows to the requests that made
them and to the cancellations and jobs that work on them; it is inductive by
itself, given that a raising COMMIT had no effect. `IInv` adds the locks.
`AcquiredIsHeld` says that what a request in flight acquired is still its own,
`OneOwnerPerKey` that nobody else has it. The heart is `RivalIsLocked`: if a
booking overlaps the slot of a request in flight that did not see it, then it was
committed during the flight, its check was at most `MaxRequest` before the
request's, and all its locks are still there. So a request at its commit holds
all its keys, so would such a rival, and `SlotsCovered` gives them a key in
common. The proofs are laid out by groups of variables: `StatusStep`, `LockStep`
and `FlightStep` say what any step may do to the table, the locks and the
requests in flight; each part of the invariant follows from those, and the
passing of time is a case of its own (`TickKeeps`).

The rules come before the locks, so whoever takes part in a race is within the
operating hours (`AskedInHours`): that is why `SlotsCovered` may leave out the
slots the rules refuse, and why `HourlySlotsAreBookedOnce` need not mention them.

**The refinement.** `IInv` makes every commit a `Grant` of `SlotReservations`,
and every answer one that it allows. `PromiseIsEnough` goes the other way: in
`SlotReservations` no two clashing requests hold their slots, and clashing is
defined by `Overlap`, so whatever implements it books no drone twice. When the
hypotheses fail, two clashing slots may both be granted, and nothing else of the
promise goes with them. `KeepsItsWord` is `SlotReservations` without clashes and
with a 500 that tells the client nothing; `RecordInv` gives each of its steps.

**What needs no hypothesis.** `RowInv` fails when a COMMIT raises after taking
effect. `RecordInv` takes that into account: a row comes from a request that
reached its COMMIT (`RowAfterCommit`), and every step keeps the table, inserts the
row of a request that had none, or ends a row that exists (`TableSteps`). What a
job has in hand was overdue when `find_expired` returned it, and deadlines do not
change (`DeadlinesPassed`); a request publishes as its last step
(`CreatedAtTheEnd`); the locks of a request are those its loops have passed, which
leaves a refused one with none (`LocksFollowLoop`). A deadline is set one payment
window after the overlap query or later, as the clock does not go back
(`WindowGranted`).

A job that has announced an expiry does not meet the booking again, as
`find_expired` selects pending rows only. With several jobs that is a matter of
counting: the announcements made and the jobs that have the booking in hand are
together no more than the jobs (`OncePerJob`), since a booking is found only
before its first announcement and put down with each. So two jobs may announce
one expiry twice, and no job does.

`RowStatuses` says which of the nine statuses a row ever has; with it,
`TableSteps` gives `RowsFollowTheTable`. The entity checks the transition on its
copy and the UPDATE checks nothing, so two copies can undo each other's CANCELLED
and EXPIRED, as the run `cancel_expire` shows: the theorem says that this is all
that stale copies can do.

**What failures cost.** `OneSilencedPerFailure` compares a set with a counter: the
new rows and the expiries that nobody gave to `_publish`, or is about to, and the
calls that raised or processes that died. The proof shows that no step adds two to
the set, and that the steps that add one count a failure. Which use cases
interleave does not matter for that. It does matter for the messages that were
given to `_publish`: two of them can cost each other their delivery without any
failure, as `shared_channel` shows, and that is the subject of `LossIsExplained`.

**Refusals.** A lock is of an hour its owner asked for and outlives the owner's
flight by the ttl at most (`LocksInTime`), and a request is in flight for
`MaxRequest` (`Timely`, by the guard of `Tick`). So a request that finds an hour
taken met the lock of somebody who asked for the same hour, and on one clock slots
that share an hour's key overlap (`ApartSlotsShareNoKey`). That the lock is not the
request's own follows from `LocksFollowLoop`.

**The worker.** `RedisStaysInItsPool` rests on `OnePool`: the check at startup
makes the pool before a second thread exists. `LossesAreExplained` and
`ExchangeIsDeclaredFirst` rest on `RabbitInv`: who is in `get_channel` holds the
lock (`LockIsHeld`), a connection is handed out with its own channel only
(`ChannelIsCurrent`), an open channel without its exchange is in the hands of the
thread that is still in `_connect` (`HalfMadeIsHeld`), and a call in progress on a
link that is gone or a channel that is closed is one that met a failure
(`BrokenIsKnown`).

**The list.** The position of a row in `ORDER BY created_at DESC` only grows, so
an unseen, untied row there was at the start stays ahead of the client
(`NothingSkipped`), and a page that is not full leaves nothing ahead. For repeats,
`RepeatsToCome` adds up the repeats so far and the rows already seen that lie
ahead again: each was pushed there by a new row of its own, which the proof
counts. That ties among other rows do not matter is `InPrefix`: whichever way a
query breaks them, an untied row is among the first `n` exactly if fewer than `n`
rows are newer.

TLC found no violation of `RecordInv`, `OnceInv`, `SilencedInv` and `RefusalInv` on
the instances of `booking` and `faults`, of `WorkerInv` on `worker` and of `ListInv` on `list`,
before they were proved; they are not in the runs, which check `IInv` and the
properties themselves.

**Only model-checked**: liveness (`EveryRequestAnswered`, `OverdueIsExpired`,
`EveryRequestEnds`), as fairness and ENABLED are out of the prover's reach. Every
safety property of a passing run is proved.

## 7. What is not modelled

- Prices, notes, packages and areas: no branch depends on them (`create_booking`
  passes `True` for both checks). The cancellation reason is in `BookingEntity`
  only.
- Datetimes without a timezone. `ensure_timezone_aware`
  (`api/booking_request.py:64`) runs before parsing and sees a string, so it does
  not reject them. Two of them are refused by `validate_not_in_past`; one with
  and one without raises `TypeError` in `validate_time_range`. Either way no
  state is touched.
- `get_booking`: it changes nothing, and its one query is the `Visible` of
  `BookingState`. `check_rabbitmq_connection`, `get_db_context`, `get_by_id`,
  `is_slot_locked` and the publish methods for cancelled, confirmed and completed
  bookings have no caller.
- Inside a worker, `WorkerProcess` keeps of a request only when it takes and
  returns what others wait for; its answers are `CreateBooking`'s. `/health/detailed`
  takes a connection as a request does, and returns it.
- The event bus, scheduling packages and legacy modules: nothing uses them, or
  they are empty.
- JWT: a library signs and checks tokens, nothing in the repository issues them,
  and a request keeps nothing of one but its user. Settings and logging: the
  settings that matter are CONSTANTS. Middleware and exception handler of
  `main.py`, migration: no state of their own.

## 8. Plan

Done, in this order: the booking feature with its runs; its main invariant and
the refinement of `SlotReservations`; the faults with liveness; the worker process
with its RabbitMQ connection and pools; reading a list while it changes; the
proofs of what had only been checked.

Left:

- `SlotReservations` has safety only. `EveryRequestAnswered` would be the liveness
  it promises; `faults` checks it on `BookingSystem` directly.
- Several worker processes: `WorkerProcess` is one, and `BookingSystem` has the
  requests of all of them without their pools. What they share are the services.
- Payment, confirmation and completion of a booking have methods in the entity
  and no caller in the repository. Once they have, they join `BookingSystem` as
  processes like `CancelBooking`, and `InactiveStaysInactive` is what to look at
  (PAYMENT_FAILED -> PENDING_PAYMENT, section 4).
