# Verification of fincal

TLA+ models of fincal (a financial earnings calendar: FastAPI web process, a
weekly pipeline of sync scripts, PostgreSQL), TLC instances that check them, and
TLAPS proofs. Source paths are relative to the repository (`src/`).

## 1. The system

| Component | State | Operations | Talks to |
|---|---|---|---|
| Sync runs (`app/sync_audit.py`, `app/timeout_reaper.py`, `scripts/sync_all.sh`) | table `sync_runs`, advisory locks, the stage processes | `start_run`, `consume_retry_requests`, heartbeat, `check_cancelled`, `finish_run`, reap, recover, cancel, request retry | every stage, admin endpoints, freshness report |
| Calendar response cache (`app/layer_cache.py`) | `_entries`, `_locks`, `_tickets`, `_applied` | `get_or_refresh`, background refresh, `invalidate` | `/api/earnings`, both watchlist writers |
| Calendar rows (`app/fiscal.py`, the write half of the stages, reconcile scripts) | table `earnings` and its two unique keys | Longbridge and Futu batches, reschedules, takeovers, predictions, collapses | pipeline stages, the API, the feeds |
| Subscription feeds (`app/routers/ical.py`, `app/ical_tokens.py`) | token cache, content cache, `users.ical_token` | resolve, generate, store, rotate, invalidate | universe, watchlist writers, admin |
| Universe and watchlist sources (`app/universe.py`, `app/watchlist/`) | last good universe, expiry, raw code cache | get, background reload, invalidate | feeds, API, pipeline |
| Database pool (`app/db.py`) | slots, idle connections, the cool-down | acquire, release, note failure | every request and stage |
| Provider pacing (`scripts/sync_futu.py`, `app/provider_client.py`) | window of call times, breaker counter | acquire, cool down, retry, break | Futu OpenD, Longbridge CLI |
| Singleflight (`app/singleflight.py`) | one flight per key | join, lead, clean up | feeds |
| Symbols (`app/symbol.py`, the migration in `app/db.py`) | table `watchlist` | normalise, resolve, add, remove, migrate | every reader and writer of a symbol |
| Repairs (`scripts/reconcile_*.py`, `backfill_report_types.py`, `merge_duplicate_symbols`) | `earnings`, its snapshots and backups | plan, re-point, fill, delete, relabel | run beside the pipeline |
| Freshness (`app/freshness.py`, `scripts/cron_sync.sh`) | none: it reads `sync_runs` and the derived tables | verdict of a stage, of a table, of a round | the round, health endpoint |
| Formatting, plumbing | none that a property depends on | ETag, metrics, redaction, schemas | - |

How they interact.  The pipeline (`sync_all.sh`) starts the stages one after the
other under `timeout`; an operator may start any of them by hand at the same time.
A stage opens a row of `sync_runs`, writes the calendar in batches, and closes the
row. The web process recovers stale rows when it starts, then a reaper thread
closes rows older than their budget; admins cancel runs and request retries through
it. Independently, `/api/earnings` reads the calendar through the layer cache, and
watchlist writes commit first and invalidate the cache afterwards. The feeds have
caches of their own, cleared by the same mutations.

What is hard.

- *Audit rows*: five writers race to close one row; a run's row and the retry
  requests it consumes are two transactions; the lock of a stage and the row of
  its run live and die separately; SIGTERM runs no `finally` block.
- *Cache*: overlapping fetches of a key land in any order; a waiter may give up and
  fetch without a slot; eviction and invalidation forget the ordering markers;
  a write may commit between a fetch's read and its store.
- *Calendar rows*: two natural identities of one row, three writers, partial batch
  failures, and rules applied one period at a time in a loop.
- *Feeds and universe*: read, then invalidated by someone else, then stored.
- *Pool and pacing*: limits at their boundary, one outage shared by many callers.
- *Symbols*: several entry points and a migration derive one key, each in its own way.
- *Repairs*: plans made in one transaction and carried out in another, cascading deletes,
  and no lock against the pipeline.
- *Freshness*: rows that are not runs, runs that delivered nothing, stages that never got a row.

What correctness means, per component.

- *Sync runs*: verdicts are final; one open run per key; one worker per lock even
  when the audit row says otherwise; a scheduled run is not robbed of its verdict; a
  request is fulfilled once, by a round that began after it; nothing stays running.
- *Layer cache*: one producer per key, always released; no snapshot is replaced by an
  older one; a key under production keeps what its readers need; an invalidation
  that meets no fetch is visible to the next request.
- *Calendar rows*: one confirmed row per fiscal period; a release is not replaced by
  a disclosure; a value carries its own source; the result does not depend on the order
  of rows in a batch.
- *Feeds*: a rotated token stops resolving; a feed never outlives an invalidation.
- *Pool and pacing*: never more than the limit; every slot comes back; every call ends.
- *Universe*: a change shows at once unless a reload had read past it, and always in the end.
- *Symbols*: one company, one key, the same on every way in.
- *Repairs*: no snapshot, figure or row is lost, no twin is made, users see what they saw.
- *Freshness*: green means that everything was delivered.

## 2. Modules

| Module | What it is |
|---|---|
| `RunLedger` | abstract: runs opened once and closed once, requests fulfilled once |
| `SyncRuns` | the audit protocol; `ImplementsLedger` is its refinement of `RunLedger` |
| `CacheReads` | abstract: what a cache promises a request of the data behind it |
| `LayerCache` | the response cache, its callers, refreshes and writers; `ImplementsReads` is its refinement of `CacheReads` |
| `CalendarRows` | table `earnings` under its three writers |
| `ReadPath` | operators: what readers make of a set of rows |
| `CalendarView` | `CalendarRows` and `ReadPath` together: what is shown of any reachable table |
| `Pool` | the connection pool, the cool-down, outages |
| `Universe` | the symbol universe, its source and the administrator's changes |
| `Feeds` | one subscriber's feed: token cache, content cache, singleflight, rotation |
| `SymbolKeys` | keys of a company, one user's watchlist, the migration |
| `Reconcile` | the four repair scripts over rows and snapshots, among syncs (uses `ReadPath`) |
| `Spellings` | the merge of an old spelling onto the canonical symbol |
| `FutuPacing` | a Futu run: limiter, retries, breaker, counters, verdict |
| `Freshness` | the weekly round, Longbridge paging, consensus, the freshness gate |
| `SyncRunsProofs`, `LayerCacheProofs` | theorems about one module each |
| `StageProofs` | theorems about `FutuPacing` and `Freshness` |
| `CalendarProofs` | theorems about `CalendarRows` and `CalendarView` |
| `WebProofs` | theorems about `Pool`, `Universe` and the composition `MCWeb` |
| `PartsProofs` | theorems about the composition `MCParts` |
| `WatchlistProofs` | theorems about `Feeds` and `SymbolKeys` |
| `RepairProofs` | theorems about `Spellings` and `Reconcile` |
| `MCSyncRuns`, `MCLayerCache`, `MCCalendarRows` | TLC instances of one module each |
| `MCWeb` | the fair web process: `Pool`, `Universe`, `LayerCache`, `SyncRuns`, one at a time |
| `MCParts` | `Feeds`, `SymbolKeys`, `Reconcile`, `Spellings`, `FutuPacing`, `Freshness`, one at a time |

`MCWeb` and `MCParts` put modules that share no state side by side: `part` is chosen at the
start and the others stay as they are, so that the reachable states are the sum of those of
the parts and a violation is one of a part.

### SyncRuns

One action is one transaction, or one step of a process between two.
`sync_runs` maps an id to a row: `phase` tells a retry request from a run (both are
rows of the table), `status` is the column, `age` is the time since
`COALESCE(heartbeat_at, started_at)`, `for`/`by` are the request's
`retry_requested_for` and `satisfied_by_run`. `locks` are the `pg_try_advisory_lock`
sessions, `lost` the processes whose session the server closed without their
noticing, `proc` the processes with their program counter, `up` the web process, `adm`
the retry requests it is serving. `owner` in a row (how its process ended) and
`late` in a process (batches committed after the run was closed) are history: no
guard reads them.

The stages differ where the code makes them differ: which lock they take
(`LockOf`), whether they pass an idempotency key (`KeyedStages`: prediction does
not), whether their loop calls `check_cancelled` (`PollingStages`), whether they try
`finish_run` again when it raised (`FallbackStages`), and whether the pipeline runs
them (`SYNC_STAGES`).

`start_run` is three actions: the look for a running row (`CheckRunning`), the INSERT
that the partial unique index guards (`InsertRun`), and the consumption of retry
requests in a second transaction (`ConsumeRequests`, which may raise:
`ConsumeRaises`). `Leave` is the end of a process: its session closes, and its row
is whatever it had made of it. `request_retry` is `RetryLoad`, `RetryCheck` and
`RetryInsert`, the statements others can fall between.

`attempt_number`, counters and error texts are left out: only people read them.

### LayerCache

One action is one critical section of the cache's mutex, one wait, or one part of a
fetch. `entries` and `lru` are the ordered dictionary `_entries` (`lru` gives each key the
keys used less recently: a total order without sequences), `locks`, `tickets` and
`applied` the three dictionaries beside it. `thread` holds the callers inside
`get_or_refresh` and, under the name of its key, the background thread of a
refresh: there is never more than one because it owns the slot. A payload is the
version (`origin`) of the data it was read from. Time is `Age`: a fresh entry becomes
stale, then expired. A wait may end at any moment, with the slot's release or with
`waiter_timeout`. A write commits (`Write`) and its request invalidates afterwards
(`Invalidate`), as both watchlist writers do; `invalidate(key)` for one key has no
caller. `seq`, `old`, `floor`, `idleFloor` and `started` are history.

### CalendarRows, ReadPath, CalendarView

`earnings` is a set of rows of one symbol. Two transactions of the pipeline are
long: `flush_batch` (Longbridge) and `flush_date_batch` (Futu) run several passes over a
response. `txn` is the open one: the response, the events a pass has still to see
(`todo`) and those it leaves to the next (`kept`), the flag `takeover` that the code
reassigns inside its loop, and the table `before` it. One action is the turn of one
event in one pass: `Reschedule` (`reschedule_confirmed_rows`), `Settle`
(`settle_same_date_rows`), `Upsert` (the INSERT ... ON CONFLICT), and `Label` for the
provenance UPDATE. `Guarded` is a statement under a savepoint; `Fail` rolls the batch
back. Everything else is one statement per action and falls between batches:
`FutuActual`, and the prediction run with what it read (`run.seen`) and where its
forward walk has got to.

`Committed` is what other sessions see: the properties speak of that, `TypeOK` also of
the table inside a transaction, because a unique index is checked there.

Abstractions: EPS and revenue are one figure; only Longbridge writes estimates, so `est`
stands for the estimate and its label; the date the predictor computes is any date;
which period comes after the last confirmed one is the order of `Periods`. A batch is
ordered, and ties of `dedupe_batch` and `collapse_rows_by_period` go to the first event as
in the code. Survivors are taken in the order of the response; the code may give one the
place of an event it replaced, which is the order of another response. Batches do not
interleave with single statements of another session, because that would be a statement about
PostgreSQL's row locks; two prediction runs at once are not modelled.

`ReadPath` gives the set of calendars that readers may see of a table, for a tie that only
timestamps or ids break gives each outcome: `Calendars` masks figures of future rows
(`hide_unreleased_actuals`), takes the best row of every period (`authority_key`) and then of
every date (`_collapse_same_date`). `PanelRows` is the decision endpoint's own choice, whose
SELECT has neither `is_predicted` nor `report_type` and which masks nothing. The window of the
query is applied before the collapse, as in the code, so that the row that represents a period may
depend on the window. `CalendarView` asks these of the committed rows of every reachable state, over every
window of its dates (`Shown`).

### Pool

A caller passes the cool-down check (`Ask`), waits for a slot (`TakeSlot`, or gives up:
`Saturated`), and is given an idle connection (`Reuse`) or connects under the lock of psycopg2's
pool (`Connect`, then `Connected` or `ConnectFails` and `NoteFailure`). `PutBack` and `ReleaseSlot`
are the two halves of `putconn`. `Dial` and `HangUp` are `db_connection`, which shares the
cool-down and nothing else. `Outage` kills every connection, also idle ones, which the next caller
finds dead. The ping of the health endpoint is one of the callers. psycopg2 loses a connection when
the rollback inside `putconn` raises; that is its own state and left out.

### Universe

`reload` holds, for each thread, what it has read of the upstream list and the managed table;
`source` is what the source object remembers of each, dropped by `InvalidateSource`. `refresh` is the
flight other callers join. An administrator's change is three steps: the table, the snapshot's
expiry, the source object. `quiet` is history: no reload had read the table when the change was
announced. A failed read of the managed list is silent in the code and reported healthy; `sure` (history)
tells the property about it.

### Feeds

One subscriber. A request looks up its token, is served from the cache, or reads the
watchlist and joins or leads the flight that generates the body; `CleanUp` is the thread that removes a
finished flight. Rotation in the service is a transaction and then the dropping of what is
cached; rotation by the script has no cache to drop, and lives with the token's time to live.
Last-Modified and ETag are data. Two rotations at once are not modelled.

### SymbolKeys

A spelling is a word, or a number with the digits it is written with, with a market before or behind
it, in capitals or not. Each derivation of a key in the code is an operator over these; `Start` is
the part of `init_db` that converges the rows of older releases, with its deduplication, its `LPAD` and its
unique key, and `Add` and `RemoveKey` are the watchlist endpoints. What a release accepted is a set of records
(`Words`, `NumberCodes`), so that a proof may speak of any set of words and numbers.

### Reconcile

One script at a time, one statement per action where a sync can come in between: the fiscal and
the same-date merge plan in one transaction (`Start...Merge`), then carry the snapshots and figures
over (`Carry`) and delete (`RemoveDropped`); labels and types are one transaction each. `SyncWrites` is a row
the pipeline writes meanwhile. A unique violation restores what the script's transaction found, but for what
syncs wrote since. `Tables` and `Answers` are any tables and calendars that the assumption describes: finite, of the
stored types, with ids and keys that are unique (`KeysHold`; the other half of `Legal` is the snapshots' key,
`SnapshotsHold`). A merge moves a snapshot whose instant is taken by microseconds, of which an instant has
`Instant`; a sync's instant is its `NOW()`, which is taken to be past all of these (`Past`).

### Spellings

`Merge` is the whole transaction of `merge_duplicate_symbols`: upserts, re-pointing one by one under
savepoints, the deletion of what nothing holds back. `history` is every snapshot ever taken.
Figures of rows and snapshots change between merges (`WriteFigure`, `TakeSnapshot`). A copy has the id of the old
row, negated: ids of different copies differ whatever the table.

### FutuPacing

`age` is how long ago each call was made, capped at the window; `held` how many of the latest calls the tracker
still holds. `acquire` is `AcquireFree` or `AcquireWaits`; a refusal is a retry that sleeps a window
and empties the tracker (`RefusedRetry`), or final. `fates` is history: what became of each symbol.

### Freshness

`audit` is `sync_runs` in the order the freshness query sorts by; a row that is written again becomes the
newest (`Rewritten`). Bound: a stage has one open request for a retry at a time. `StartRound`, the stages and `Gate`
are `cron_sync.sh`; a stage may find itself running already, never start, be killed, fail, or
end. The Longbridge stage pages through its range (`ReadPage`, `ReadEmptyDay`), stores each
market and ends with `RunFailed`; the consensus writes its tables and closes its run in a second
transaction. Rounds do not overlap with the clock: a tick is days. The reaper only closes rows without a
process here; its timing is `SyncRuns`'. Page dates are ISO dates: with an empty next date and a last page
date that is not, the code stops paging without an error. A consensus run does not poll its cancellation, so a
cancelled one still exits 0.

## 3. Runs

| Run | Instance | Shows |
|---|---|---|
| `sync_runs` | 2 processes, stages futu (locked, keyed, polling) and prediction (none of these), 2 rows, budget 1, recovery grace 1, ages to 2 | types, `OneWorkerPerLock`, `ScheduledRunKeepsVerdict`, `CancelledRunStops` |
| `sync_runs_rounds` | 1 process, stock_names, 4 rows | `ImplementsLedger`, `EarlierRequestsFulfilled` over repeated rounds, retries and restarts |
| `layer_cache` | 2 keys, 2 callers, cap of 1 entry, 3 requests, 1 write per key | types (with `AppliedIffStored`), `OneProducer`, `IdleInvalidationIsVisible`, `OrderedSnapshots`, `LiveKeyKeepsEntry`, `ImplementsReads` |
| `calendar_rows` | 2 dates, 2 periods, retention 0; either 2 rows, 7 Longbridge responses (one of two events) and 2 Futu responses (one of two), or 3 rows, 3 Longbridge responses and 1 Futu response (`wide`) | types and both unique keys, `PeriodIsPersistent`, `ProviderRowStaysConfirmed`, `NoPeriodVanishes`, `ConfirmedDatesFollowProviders`; of every reachable table `ReleasesAreShown`, `ViewIsDetermined`, `PanelAgreesOnFacts` |
| `web` | fair; pool of 2 (1 kept) with 3 callers, 1 of them with sessions of its own, 4 uses, 2 outages; 2 managed codes, 1 upstream, 2 threads, 2 changes, 1 failed read; 1 key, 2 callers, 2 requests and 1 write of the cache; 1 process, 2 stages, 2 rows, grace 2, no administrator | types, `SlotsConserved`, `CallsEnd`, `QuietChangeIsVisible`, `UniverseOfWebConverges`, `SlotIsReleased`, `StrandedRunIsRecovered` |
| `parts` | 2 requests, 3 polls, 1 edit, 2 tokens; 1 ticker, numbers of 3 to 5 digits, 3 old rows, 2 edits; 3 rows at 3 dates, 2 scripts, 1 sync; 3 rows of two spellings, 2 merges, 1 provider run; 3 symbols, a window of 2 calls, 1 retry, a breaker of 2; 2 stages, 2 days, 1 market, 4 audit rows | types, `CalmEditIsServed`, `RevokedTokenStops`, `StartConverges`, `RepairsLoseNothing`, `LabelsAddNoTwins`, `MergesKeepTheView`, `HistorySurvivesSpelling`, `WindowQuota`, `RetryWaitsAWindow`, `VerdictIsHonest`, `GreenMeansDelivered`, `RoundIsHonest` |
| `invalidation` | 1 key of the cache | violated: `InvalidationIsVisible` (section 6) |
| `older_snapshot` | 1 key, 4 requests | violated: `NeverOlderSnapshot` |
| `prediction_run` | 3 dates, 2 periods, releases of period 1, 3 rows, retention 1 | violated: `PredictionRunCompletes` |
| `prediction_masks` | 2 dates, 2 periods, 3 rows | violated: `PredictionNeverMasks` |
| `failure_hidden` | the freshness part | violated: `FailureStaysReported` |
| `rename_currency` | the spellings part | violated: `CurrencyTravels` |

Why the bounds are enough. For sync runs, two processes are what a race for a lock or
a key takes; one locked and one unlocked, keyed and unkeyed, polling and blind stage
cover every combination that `LockOf` and the sets above make; two rows make the second
round meet the leftover of the first, four rows hold a failed run, two requests and the
round that fulfils them. Budgets are one tick and the grace is at least a budget, as
in `app/config.py` (600 to 2400 s against 3600 s); ages stop one tick past the grace,
where nothing compares them any more. For the cache, a cap of one entry for two keys
makes every store evict or fail to evict; two callers plus the background refresh give
three overlapping fetches of one key; one write tells old data from new. Four requests
are the least that restart a ticket counter under a waiting fetch and store over it.
For the calendar, two rows are what a collision on either key takes: a row
that wants to move and the one in its way. Two dates and periods make every
relation between an event and a row occur (same key or not, same period or not, release or
disclosure, with or without a period), batches of two events make a statement partly fail and
meet a key twice, and a retention of 0 lets a prediction expire on the second day; the
60 days of the code only stretch that. The bound on rows is on insertions ever:
with three of them the answers are those that a third row needs, a release of each period and a disclosure.
Callers and processes are interchangeable, and so are the keys of the cache, so their permutations are a symmetry
(never used in a liveness run). Requests are bounded, so the cache's instances stop:
their configurations turn the deadlock check off. Sync runs and calendar never stop.

For the pool, three callers and two slots make one wait while others connect, work and
return; two outages make a cool-down end and begin again. Two threads are a reload and one that starts
after its flight has ended. For the feeds, one request leads or caches while the other joins, looks up or waits, and
two tokens are a rotation. Numbers of three to five digits are padded, left alone and cut. Three rows are a
survivor and two dropped ones with snapshots of one instant; the tables hold doubles of every kind.
Three symbols let a breaker of two stop a stage early; a window of two calls with calls that take
less or half of it reaches every fill of the tracker. Four rows of the audit table are a round and
another after a failure, or a request for a retry of it; two days are one page boundary, and a derived
table is one of three that are treated alike.

Fairness. `StrandedRunIsRecovered` assumes that Docker restarts the web process
(`restart: unless-stopped`), that its reaper loop goes on (it catches everything and
sleeps), that time passes and that `timeout` kills what it started; nothing is assumed
of stage processes or admins. `SlotIsReleased` assumes that a thread inside the cache
goes on and that a fetcher returns or raises (its database calls carry statement
timeouts); nobody has to call, write or invalidate. `CallsEnd` assumes that each caller of the pool goes on
(connects, statements and waits for a slot have timeouts); nothing of the server. Calls are bounded there, so it shows that
nobody is stuck, not that psycopg2's lock is handed out fairly among ever new callers. `UniverseConverges` assumes that
a reload's reads end (their timeouts), that requests keep asking for the universe, that time to live
passes, and that an administrator's request finishes. In `MCWeb` one fairness condition names a
step of each part: as a behaviour is of one part, that is the condition of the part's own specification.

## 4. Proofs

Every theorem is for all values of the constants that the module's assumption admits, and TLC evaluates
each assumption on the instances of section 3. Every invariant and every safety action property of a passing
run is a theorem.
Each proof follows one line: an inductive invariant, a lemma for each action that it survives, and from it the
properties; action properties add what a step may make of a state that satisfies it.

`SyncRunsProofs`. None of the properties is inductive by itself. `IInv` adds to the types that a process
holds a run exactly from its INSERT on, that this run is a row of kind "run" and of its stage, that a retry
request is terminal from the start (so no `WHERE status = 'running'` touches it), and that a process past its lock
holds it unless the server closed its session: `TypeCorrect`, `MutualExclusion`, and `LedgerImplementation`,
which adds one lemma per way of changing the table. `Audit` is a second invariant on top of it
(`AuditInvariance`): no two processes share a run, the age of a scheduled run's row is at most the time its
process has run and that is at most its budget, a batch after a verdict stands in front of a poll that stops the
process, and ids are drawn without gaps. The second of these is why neither the reaper nor a recovery closes the
row of a living scheduled stage (`VerdictsAreKept`; it needs that no budget exceeds the grace), the third
`CancellationStops`, the last `RequestsAreFulfilled`: a later row has a higher id.

`LayerCacheProofs`. `IInv` ties slots to program counters (a slot's owner is at fetch, got,
failed, fallback or release, of that key, and knows it), entries to applied tickets, and tickets
to the order in which fetches started: among threads and entries of one ticket
sequence (nothing forgot the key in between), a later `seq` is a larger ticket. That is
what turns `put`'s comparison of tickets into a statement about fetches: `SlotOwnership`, `MarkersMatchEntries`,
`SnapshotOrder`, `LiveEntries`. `IdleInvalidations` rests on `Promise`: an entry, and a value on its way
to one or to an answer, is at least as new as what the last invalidation that met no fetch promised of its key.
`CacheTypes` adds that the order of use orders exactly the stored keys, any two of them.
`ReadsImplementation` maps the cache to `CacheReads`: a key has the version of its origin, the floor that the last
settled change left, the snapshot stored, and each caller its call; `Lookup` asks, `Put` may bring the snapshot
to any version that exists and answers its caller, `Invalidate` settles every change that met no fetch, and the steps between are
steps of nobody. It needs one more invariant (`WasRead`): what an entry or a thread has was read from the origin,
and a request that has seen nothing yet has nothing to answer. Of the abstract module it is then proved
that answers are current (`CurrentAnswers`, by `ReadsKept`), so that this holds of the cache.
`CallsReturn` is liveness that the prover does reach: a rank (`Ahead`) counts the steps a thread has left before it is out,
its own step lowers it (`OwnStep`), and no step of another raises it (`OthersStep`). Its premise `KeepsRunning` is weak fairness
of the thread's step with the enabling condition written as `Ahead(t) # 0`, because ENABLED cannot be
expanded; that a thread inside always has a step can be read off the actions. Then every call ends and every slot a
thread owns becomes free, however many threads there are; the run `web` checks the same under WF itself.

`CalendarProofs`. A batch is many steps, and what it may commit is not what one of its statements may do. The
invariant `CalendarInvariant` therefore speaks of the table an open transaction found and the one it
has made so far (`Succeeds`): rows keep their period, facts stay facts and releases stay releases, every
confirmed row and every period is still there; and a confirmed row is at its old date or where the batch dates
its period (`DatesFollow`). `Succeeds` composes, so each pass need only be shown to do this for one event. While
rows are being moved no row has got a period (`SamePeriods`): a row that is moved was of the event's period
already in the table the transaction found. What a prediction run has read were releases and still are
(`SeenReleases`), whatever a batch did between its read and its moves. From these: `TableTypes` (types and both
unique keys, in the middle of a transaction too), `PeriodsPersist`, `FactsStay`, `PeriodsRemain` and
`DatesFollowProviders`, for every set of responses and every retention. `ReleasesShown`, `ViewDetermined` and
`PanelAgrees` are about what readers make of such a table. They need of it only that its keys hold: a view is
the function that picks the leading row of each period and the disclosures that yield to a release of their date
(`ViewOf`), and `authority_key` is a strict order in which only bare predictions of one period tie.

`StageProofs`, of `FutuPacing`: `QuotaKept` and `RetriesSpaced` for every window, budget, retry limit and
number of symbols. The tracker holds some of the latest calls only; the invariant is that every call it
has dropped is a whole window old, and that ages grow towards the past, so that the limiter's look at
what it holds is a look at every call. `VerdictHonest` ties each counter of the audit to the fates of the symbols
behind it, stage by stage, with what leaving a stage early implies for the counters.

`StageProofs`, of `Freshness`: `GreenIsEarned` and `RoundsAreHonest` for every pipeline, range, number of markets and
threshold. `FreshInvariant` says that a success in the audit table is no younger than its stage's delivery (which
needs that a stage has one running row, and that a calendar counted as complete was read to the end of
every market that is done), and that an unbroken round has delivered the stages behind it.

`WebProofs`: `SlotsAreConserved` counts: free slots and callers between `TakeSlot` and
`ReleaseSlot` are `MaxConn`, which no outage and no failing connect changes. `PoolErrorUnreachable`
follows: whoever connects finds fewer than `MaxConn` connections in use, because each is held by
the holder of a slot, so psycopg2's "connection pool exhausted" cannot be raised. `UniverseTypes` and `QuietChanges`:
a reload between its two reads holds upstream codes only (`UpstreamFirst`), and one about to publish, while the change is
quiet, holds the managed codes as they are now (`QuietReload`). `WebIsItsParts` is about the composition that TLC runs: a behaviour of
`MCWeb` is, for each part, a behaviour of that part's own module; so what is proved of the part holds of it in
the composition, its types for one (`WebTypes`).

`PartsProofs`: the same for the six modules of `MCParts` (`PartsAreTheirOwn`, `PartsTypes`).

`WatchlistProofs`. `CalmEdits` and `RevokedTokens` for any number of requests and rotations: a body on its
way was read after the last calm edit, or its flight is no longer the one others join; a replaced token is
cached no longer than its time to live, unless the request that caches it was late. `KeysTypes` and
`KeysConverge`: the rows of older releases are words and numbers in the spellings those releases took (`Acceptable`),
a start turns each into one of four shapes (`Settled`: a US ticker, a mainland listing, an HKEX code, a number too
long for one), and both edits and further starts keep these. The two halves of the migration need
a shape of their own in between (`Converged`): a number that still stands under US.

`RepairProofs`. `HistorySurvives`: a copy of an old row is at its date and of its type, ids tell copies from old
rows, and every snapshot's row is there; so each snapshot is found again wherever a merge, a refused merge or a
provider's write left it. `RepairInvariance` relates what a script has planned to tables that syncs have changed since:
survivors are not among the dropped, the figures a plan goes by are those of the table or a sync came later, what a
rollback restores has every row and snapshot there is, and a row about to be deleted is in the backup and has no
snapshot but those of syncs since. `RepairsKeepAll` and `LabelsAreSafe` follow; the second needs that winners of one
period are one, because the order of authority with ids is total. `RepairTypes` is all of `ReconcileTypeOK`: both
unique keys hold and no snapshot is left without its row, also after a rollback. It needs that no plan removes the
row that another keeps, which holds because a period has one plan and a date keeps no disclosure; nothing
about what the moves of the snapshots compute, because a statement that would break the key undoes the script. `MergesKeepView` rests
on `BestStay`: while no sync writes, every row the merge has removed is outranked by one of its period that is there,
and outranking is transitive; a calendar of the whole table never shows an outranked row.

Found while proving, and corrected in the modules: a formula of `Universe` whose precedence was not the one
meant; an empty pipeline, for which a round has nothing to be honest about (assumed away:
`sync_all.sh` names its stages); a rollback that takes back a merge's own filling (now in `OwnFiguresStay`); the fiscal plan
drops everything but the row it shows; `Add` drew ids below a hidden bound; older releases' rows unique by
date and type were an unnamed assumption on `Tables`.

Only model-checked:

- liveness under WF (`CallsEnd`, `UniverseOfWebConverges`, `SlotIsReleased`, `StrandedRunIsRecovered`): ENABLED
  is out of the prover's reach. `CallsReturn` is as near as it comes to `SlotIsReleased`;
- what `Repointed` computes: it folds over a sequence, which needs induction over data.

## 5. Plan

1. Modelled and checked: everything in section 2. Proved: a theorem or more about every module, and every safety
   property of a passing run.
2. Next proofs: a semaphore as the abstract specification of `Pool`, and ranks like `Ahead` for the callers of `Pool` and
   the reloads of `Universe`.
3. Next in the model: the figures of a row with the period they were announced for and the
   attribution of comparisons (`fiscal.py:374-635`), concurrent rotations.

## 6. Where the code and its texts disagree

With a run:

- `InvalidationIsVisible`: both writers "must be visible on the next request"
  (`app/routers/api.py:43-45`). `invalidate` skips keys that have a producer, whose
  fetch may have read before the write; the old data stays up to its TTL. What does
  hold is `IdleInvalidationIsVisible`.
- `NeverOlderSnapshot`: "can never overwrite a newer one" (`app/layer_cache.py:8-10`).
  A caller that waited in vain keeps its ticket while an invalidation restarts the
  counter. What does hold is `OrderedSnapshots`, whose premise is exactly that no
  invalidation or eviction forgot the key in between.
- `PredictionRunCompletes`: `mark_confirmed` deletes first so that promoting cannot
  "raise UniqueViolation and abort the run" (`scripts/predict_earnings.py:647-650`). It
  looks for confirmed rows only. Once Futu's actual is on a prediction, the predictor may
  not move it, and inserts a twin when it computes another date; the next actual fills
  both, and both are promoted by one UPDATE. Every later run fails the same way.
- `PredictionNeverMasks`: "a prediction must never mask real data" (`app/fiscal.py:170`). The
  same-date pass ranks a release before a disclosure before it looks at `is_predicted`, and a prediction is
  always of type Q: one of the next period on the date of a confirmed disclosure replaces it. What does
  hold is `ReleasesAreShown`.
- `FailureStaysReported`: "A failed most-recent run now reports the stage as failed"
  (`app/freshness.py:29-32`). The request for a retry is a row of the stage as well, newer and 'skipped':
  asking for the retry makes the stage green. An interrupted or cancelled latest run hides an earlier failure
  in the same way. What does hold is `GreenMeansDelivered`.
- `CurrencyTravels`: "a rename must not strip date_source / actual_source / estimate_as_of and friends"
  (`scripts/predict_earnings.py:719-721`). `actual_currency` and `actual_basis` (and `company_name_en`) are not
  in the list of columns a rename copies.

Met while modelling, without a run of their own:

- `run_sync` promises that every exit path, SIGTERM included, takes its row out of running
  (`scripts/sync_futu.py:959-962`). No script handles SIGTERM, and a failure of `start_run`'s second
  transaction comes before the `try`. The reaper closes the row later (`StrandedRunIsRecovered`).
- `request_retry` answers None when a request is still waiting (`app/sync_audit.py:182-186`), but checks
  and inserts in two statements with no unique index: two at once are both recorded. One round fulfils both.
- "a Futu-written actual on the same row keeps Futu's own attribution" (`scripts/sync_earnings.py:634-637`): the
  provenance UPDATE of the same function labels it `longbridge`.
- The decision endpoint reads rows on a path of its own: nothing is masked, and a prediction is ranked as a
  release, against "cannot disagree" (`app/fiscal.py:562-563`). `PanelAgreesOnFacts` is what holds.
- "an outage costs exactly one connect_timeout" (`app/db.py:241-242`): callers that passed the cool-down check
  and queued behind the first failing connect each pay one.
- "Consecutive identical quota rejections" (`app/config.py:164-165`): only a served call resets the breaker's
  counter, so refusals with other failures between them trip it.
- "A failed read keeps the last known universe" (`app/universe.py:18-20`): a change of the managed list drops the
  source object with what it remembers of the upstream; the next failed read loses the upstream codes. An
  invalidation that meets a reload past its read is undone until the time to live ends, against "visible on the
  very next request" (`app/universe.py:13`).
- The migration pads a numeric US row with `LPAD(n, 4, '0')` (`app/db.py:540`), which cuts a code of five digits to
  its first four: another company. Decorated duplicates in small letters are deduplicated by one key and updated
  to another, which aborts `init_db` (`app/db.py:486-507`). `US.0700` with market US raises ValueError and
  is answered 500; `AAPL.HK` and `US.0700.HK` are accepted as HK.
- Snapshots that collide after a merge "are offset by the smallest free microsecond instead of being refused"
  (`scripts/reconcile_fiscal_rows.py:22-25`): two dropped rows of one period with snapshots of one instant that
  the survivor lacks end the script. `RepairsLoseNothing` holds because the transaction is rolled back.
- The repairs: the same-date script drops its previous backup table on every apply; its SELECT lets a
  prediction be the survivor of confirmed rows; a survivor is filled from a stale plan; the
  fiscal merge ranks unmasked figures, so that a future-dated actual makes `--apply` change the view; deleting
  a same-date disclosure may make a prediction visible; the report-type backfill fails as a whole when a date
  holds both types; a bracketing rule may override a release that matches a label.
- The merge of spellings: a row that something holds back overwrites the canonical figure on every run;
  two confirmed rows of one period at different dates violate the identity index and fail the stage each week.
- A statement field that has drifted fails the symbol, but the period's other figure is written all the same, against
  "write nothing for this period" in `scripts/sync_futu.py`.
- The round: an empty provider is a success (against `scripts/check_sync_freshness.py:14-15`); `cron_sync.sh`
  never exits 2 (its header, 19-20); a stage found running counts as ok (`scripts/sync_all.sh:23`).

## 7. Not modelled

Rendering and parsing (ICS text, CSV, ETag strings, log redaction), schemas, metrics, configuration, the
browser, company names, one-off backfills of provenance and deployment scripts: they keep no state the
properties speak of. Authentication is one upsert behind a trusted header. The statistics that compute a
predicted date or figure are abstracted to any date. The attribution of comparisons and the growth
figures are pure functions of rows. The Longbridge client's retry loop shares no state. `request_cancel` of
a names or consensus run, quality counters and service checks only read what `SyncRuns` and `Freshness` hold.
`PROJECT.json` lists every component with its status and every hazard with the properties that cover it.
