# VigilAfrica: specifications, model checks and proofs

VigilAfrica pulls flood and wildfire events from NASA EONET, places the floods
by asking GDACS for their real geometry, stores them in PostGIS and serves them
to a dashboard. This directory holds TLA+ specifications of the API server: the
ingestion pipeline with its lease, retries, budget, records and alerts, the
in-memory structures and the queries of the HTTP side, the daily digest, and
the pure computations in between. TLC checks them on small instances; TLAPS
proves theorems about every part, for all values of its constants and inputs.

All paths below are under `src/api` unless they say otherwise.

## 1. The system

| Component | Code | State | Operations | What is hard |
|---|---|---|---|---|
| Scheduler and lease | `internal/ingestor/scheduler.go`, `queries.go` (`Try/ReleaseSchedulerLock`) | one `scheduler_locks` row; a goroutine and a ticker per replica | start-up run, tick, acquire, run, release, shutdown | replicas interleave; a lease that runs out; late releases; lost answers; clocks that differ |
| Ingestion runs and alerts | `eonet.go` (`IngestWithBudget`, `runOutcome`), `scheduler.go` (`notifyIfDegraded`), `queries.go` | `ingestion_runs` rows; e-mails already sent | create, complete, look up, send, mark, carry | every step may fail executed or not; dedupe rests on a chain of rows; orphaned rows |
| EONET fetch | `eonet.go` (`fetchEONET`, `runIngest`) | attempt, transient attempt, wait | request, refuse, back off, give up | two retry budgets in one loop; time against the lease |
| GDACS resolver | `gdacs.go` | request budget, deadline, cache of a run | resolve, scan episodes, spend, cache | partial answers; what may be cached; what a cache key must tell apart |
| Event store | `eonet.go` (`processEONETBody`), `database/db.go`, the labelling trigger of migration 000013 | `events` rows | upsert, metadata-only update, skip | two ingesters; columns from different observations; lost writes |
| Staleness watchdog | `alert/watchdog.go`, `queries.go` (`Try/ReleaseStalenessAlert...`) | `alert_dedupe` rows; `lastAlertReference` | tick, claim, send, release | replicas race; claim and send are two calls |
| Alert client | `alert/resend.go` | none | send | a send may fail although delivered |
| Health and readiness | `handlers/health.go` | none | read the last run of each country | reads beside in-progress and orphaned rows |
| Rate limiter | `handlers/middleware.go` | a map of token buckets | find bucket, allow, evict | two mutexes with a gap between them |
| Response cache | `handlers/middleware.go` | a map and an LRU list | look up, compute, store, evict | computing is outside the mutex |
| Ingest command | `cmd/ingest` | none | a run without lock or alerts | overlaps the scheduler |
| Server process | `cmd/server` | one context | start, cancel, exit | `main` does not wait for the goroutines |
| Normalizer | `internal/normalizer` | none | choose a geometry, date, source; check coordinates | geometries come in no promised order, some undated; deep coordinate trees |
| Daily digest | `internal/digest` | a goroutine and a timer | wait, list, mail | wall clock against monotonic clock; a day's end; ingestion goes on |
| Events API and paging | `handlers/events.go`, `country.go`, `states.go`, `queries.go` (`ListEvents`), the pager of `web/.../EventsDashboard.tsx` | a reader's place in the list | parse, count, read a page, go on | two statements without a transaction; offsets over a live table; pages of different ages |
| Visitor context, client IP | `handlers/context.go`, `proxytrust.go`, `middleware.go` (`clientIP`), `geoip` | none | resolve an address, a place, nearby events | trusted peers; explicit and looked-up places; unusual numbers |
| Sentinel | `cmd/sentinel` | none | audit a branch | CI checks out a merge that is nobody's commit |
| Docs, enrichment counts, migrations, seed, rest of the dashboard | see `PROJECT.json` | none of the running system | stateless reads, one-off loads | nothing to interleave; section 7 |

How they interact: `main` starts the scheduler, the watchdog and the digest
goroutines with one context, cancelled by SIGTERM. The scheduler takes the
lease and ingests each country with one shared `RunBudget`. Each country's run
writes an `ingestion_runs` row, fetches the open and then the closed events,
resolves the polygons at GDACS and writes `events`; its result decides the
e-mail. The watchdog and `/health` see ingestion only through
`ingestion_runs`. The ingest command runs the same pipeline in another process.
HTTP requests pass the limiter and, for the event list, the cache. The digest
reads the list through `ListEvents`, as the API does, and mails it.

What makes each part correct is what the modules state; the hazards that the
properties are meant for are listed, line by line, in `PROJECT.json`.

## 2. Modules

Every database call, e-mail and upstream request is a step of its own, and may
fail executed or not executed. Code between two calls is one action.
`Faulty variant` operators are mutations of the code, each of which breaks one
property; nothing in the specifications refers to them.

**SingleIngester / SchedulerLock.** `SingleIngester` is the promise: one
ingester at a time begins and ends runs. `SchedulerLock` has the lease row
(`lock`: holder and time left, so `locked_until <= NOW()` is `left = 0`), a
program counter per replica, the holder string of its process, the tick timer
and the one-slot ticker channel. `TakeTick` reads the replica's clock for
`locked_until` (`lease`: the time until then, counted down like the row's),
`Acquire`/`AcquireDenied` are the upsert, `EndRun` is the return of
`runAllCountries`, `Release` the deferred delete. Nothing bounds a call or a run:
`Tick` is always enabled, so a run may outlast its lease and another replica
ingest beside it. What the lease promises is stated of replicas within it: the
ingester that `SingleIngester` sees leaves when its lease runs out. After SIGTERM (`Cancel`)
calls on the cancelled context fail: the row then stays until it expires. `Exit`
is a crash or the return of `main`; `Start` may come back with the same
`host:pid` (a container restarted in place) or with a new one. Holder strings of
live replicas are taken to be distinct; `schedulerLockHolder` falls back to
`unknown-host`, and on two such hosts with equal pids they would not be.

**IngestionRuns.** `rows` is the table in id order; `cur` the scheduler's
current run. `CreateRun`, `CompleteRun`, `NotifyDegraded`, `SendAlert` and
`MarkAlerted` follow `IngestWithBudget`, `runScheduledIngest` and
`notifyIfDegraded`; each has its `...Fails` twin. `alertAt` stands for
`alert_sent_at`: an index into the deliveries. `Restart` may change whether
alerting is configured; `CommandCreates`/`CommandCompletes` are the ingest
command. A run reads the clock before it inserts its row (`BeginRun`,
`CommandBegins`, then `CreateRun`, `CommandCreates`), so the rows of the
scheduler and the command may have `started_at` and `id` in opposite orders.
`IsPreviousCompleted`, by `id`, is the query of the dedupe, and `IsLastRun`, by
`started_at`, the one of `/health`. Equal clock readings, and replicas whose
clocks differ by more than a run, are left out.

**StalenessWatchdog.** References (completion of the last successful or
degraded run) are numbered in time order. `TickSends`, `Claim`, `SendOK`,
`SendFails`, `Release` are the tick's steps; `lost` records the references whose
claim was left behind by a call without an answer, `crashed` those whose tick a
crash interrupted.

**EonetFetch.** `runAllCountries` down to each attempt of `fetchEONET`, with the
constants of `eonet.go` and seconds: `AnswerOK`, `AnswerOther` (no retry),
`AnswerRefused` (429/503), `AnswerBroken` (network error, other 5xx), `Retry`,
`SleepCancelled`. What is done with a body takes no time, so its times are lower
bounds of a real run's: GDACS (up to its own budget) and the database come on top.

**GdacsResolver.** One run's resolutions. GDACS has published a sequence of
episodes per URL, each a set of rings, unchanged during the run; it may answer
in full, in part or not at all. `Ask` is `resolveTyped` (cache, budget,
deadline), `FetchEvent` the event document (with the truncation at
`maxGDACSEpisodes`), `FetchEpisode` one geometry, `ScanEnds` the decision.
Which rings `positionsCorrespond` accepts for an event is the constant `Match`.

**EventStore.** EONET publishes successive snapshots of its events; a row keeps
which snapshot each group of columns came from (`meta`, `geom`, `label`,
`dated`). `StoreEvent` is the upsert with the trigger that labels the row,
`RefuseGeometry` and `GeometryOutage` the metadata-only update, `SkipEvent` the
`continue`s before any write. `Served` is what a query is answered: every open
event, and the closed ones dated within `closedEventWindowDays` (`recent`; an
event may be published with an older date, and `LeaveWindow` is time passing over
its date). One country; the scheduler and the command are
both present. The order of a body's events is not used, so they are taken in
any order.

**RateLimiter.** Buckets live on a heap, because a request may hold one that the
map has given up; `BucketForKnown`/`BucketForNew` is `bucketFor` under the
limiter's mutex (evictions included), `Allow` is `allow` under the bucket's. A
ghost bucket per client, never given up, says what should have happened.

**ResponseCache / EventPages.** `LookupHits`/`LookupMisses`, `Read` (the
handler's work) and `Store`, with the map and the LRU list as separate state and
the age of the data next to the age of the entry. `EventPages` extends it with
the handler and a client: `CountRows` and `ReadPage` are the two statements of
`ListEvents`, `WriteRow` a write between them that moves the list, `Shown` what
the pager of the dashboard makes of a response. The keys are the offsets. Every
step of `EventPages` is a step of `ResponseCache` or a stutter.

**DigestScheduler.** The goroutine's loop: `Fire` reads the clock, `Build` is
`BuildTodayDigest`, `Mail` the send that was accepted, `DigestFails` either
failing, after which the timer is armed again. `now` is the wall clock and
`timer` what is left on the monotonic one; `Jump` moves the first only. Two
replicas are two such loops with nothing shared.

**Normalizer, PolygonPlacement, VisitorContext, EventsQuery, SentinelAudit.**
Pure operators: `Normalize` and its choice of geometry, source and date;
`PolygonCoordinatesPlausible`, a walk over coordinate trees;
`PositionsCorrespond`, `EnvelopesOverlap` and `RepresentativePoint` over integer
points, in a scaled grid; `ClientIP`, `Responses` (all answers `GetContext` may
give) and `VerifyGatewayTrusted`; `CacheKey`, `Filters`, `LimitUsed`, `Selects`
over parameter lists; `Passes`, the verdict over a sequence of commits. Each module
ends with what its answers promise (`IsForward`, `EachVertexCounts`,
`RecognisedEitherWay`, `KeptWhereMarked`, `MarkedBetweenEdges`, `AnsweredAsAsked`,
`GatewayProven`, `AnswersWhatIsAsked`, `JudgedByItsTip`).
`MCPureParts` gives each of them its inputs. Two of them are histories that grow
by steps, an event and a branch; the rest are initial states.

## 3. What the runs check

| Run | Instance | Properties | Distinct states |
|---|---|---|---|
| `scheduler_lock` | 2 replicas, 3 holder strings, lease 3, runs of any length, interval 2, skews -1 and +1, 2 faults | `LeaseCoversIngestion`, `OneIngester` (refinement), `LeaseNotStolen`, `IngestionContinues` | 145,722 |
| `ingestion_runs` | 2 countries (symmetric), 3 runs, 2 faults | `AlertTimesAreDeliveries`, `NoSilentStreak`, `AlertedOncePerStreak`, `NilErrorMeansRecorded`, `FailureStaysVisible` | 498,067 |
| `watchdog` | 2 replicas, 2 references, 3 faults | `OneAlertPerReference`, `ClaimIsExclusive`, `StalenessReported` | 13,796 |
| `fetch` | 2 countries; the code's own timeouts, delays and limits | `FetchTimeBounded`, `RunEnds` | 945,863 |
| `gdacs` | 3 events, 2 countries, up to 3 episodes (cap 2), 4 requests | `PlacedRight`, `OutageIsCurrent` | 159,330 |
| `event_store` | a polygon with 2 snapshots and a point, both ingesters, dates in and before the window, 1 fault | `RowsAreWhole`, `SuccessMeansCovered`, `ClosedIsLearned` | 696,568 |
| `rate_limiter` | 3 clients, 2 requests, 2 buckets of one token refilled in 2 ticks (symmetric) | `AdmittedAsConfigured` | 326,826 |
| `read_path` | a walker and another client, 2 rows, pages of 1, room for 1 response, TTL 1, 1 write | `ServedFresh`, `ListMatchesMap`, `WalkBound` | 389,688 |
| `digest` | 3 floods (symmetric), 2 days of 3 hours, lists of 2, 3 writes, 1 clock jump | `DailyCadence`, `MailIsItsDay` | 684,668 |
| `pure_parts` | events of 3 geometries and 2 sources, branches of 3 commits, coordinate trees three deep, polygons of up to 5 corners or with one hole, query and context inputs | `RevisionsForward`, `PolygonsPlausible`, `PlacedInside`, `LocationDisclosed`, `AnswerIsTheQuerys`, `BypassIsCurrent` | 359,323 |

Each run over a module with state also checks its type invariant (`TypeOK`,
`LimiterTypeOK`, `PagesTypeOK`, `DigestTypeOK`). In `GdacsResolver` that includes that the
requests issued and the budget left add up to the run's budget, over all
countries.

Two more runs state what a comment of the code says and find it violated:

* `run_fits_lease`: "5 minutes comfortably covers the worst-case ingestion run".
  One EONET fetch alone may take 320 s, and a run over two countries 21 minutes
  (`RunTime` in section 5).
* `gdacs_cache`: two events with different footprints "must not share a cached
  answer". With the same URL and the same vertex count they do.

Four configurations are kept for their traces, each of which ends in a
counterexample: `MCWatchdogGap.cfg` (with `StalenessWatchdog`), `MCRetryBudget.cfg`
(with `EonetFetch`) and `MCTwoHoles.cfg` (with `MCPureParts`), which entries of
section 6 rest on, and `MCClosingWindow.cfg` (with `MCEventStore`), of an event
that is stored open, closes with a date before the window, and stays open.

What some of the properties mean:

* `LeaseCoversIngestion`, `OneIngester`. Until the `locked_until` it computed has
  passed, a replica that ingests owns the row with exactly that much time left,
  and no other replica ingests within a lease of its own. A run that outlasts its
  lease, or a lease that a slow call or a clock behind has shortened to nothing,
  is in the model, and is not protected.
* `ClosedIsLearned`. An event that EONET has closed is stored as closed, as long
  as its date is in the window of the closed query. `days=` goes by the event's
  date: one that closes later than that after its date is in neither answer, and
  its row stays open for good (`ClosedIsLearnedAtAnyAge` is what does not hold).
* `ServedFresh`. A slower request may replace a newer answer by an older one and
  restart its TTL; what is bounded is the age of the data, by the TTL plus the
  time of one response.
* `WalkBound`. Paging by offset over a live table cannot be exact. What the code
  gives is a bound: a client that walks the list to its end misses, or sees
  twice, no more of the rows that stood still than there were writes between the
  statements its pages were made of. Because of the cache these statements need
  not be in the order of the pages: a later page may be older, and the distance
  counts in either direction. With no write in between, every row is shown once.
  That needs the `id` tie-break of the ORDER BY; without it the same table may
  be returned in two orders.
* `DailyCadence`. At most one mail a day, and two more for each jump of the
  clock (the timer that was running fires at the wrong hour, the next one at the
  right one). While the clock does not jump, a day's digest is attempted unless
  the process was down or still at the one before.
* `RevisionsForward`. Geometries that EONET appends never take an event back in
  time. Two geometries with the newest date are the exception: which one is used
  may then change.
* `LocationDisclosed`. An explicit position is answered or refused, never
  replaced. Without one, `AboutCaller` says which place and source an answer has:
  Lagos if that is forced, else the place of the overriding address, of the
  forwarded one (or the real-IP header's) when the peer is trusted, or of the
  peer. An address the database places in a country without coordinates is
  answered for 0, 0, as in the code.
* `PlacedInside`. The marker is inside the outline or on it, for polygons with
  at most one hole; with two holes it may be in a hole (`MCTwoHoles.cfg`). Inside
  is decided by a vertical line through the marker, where the code scans a
  horizontal one. The other parts are `KeptWhereMarked`, `MarkedBetweenEdges` and
  `RecognisedEitherWay`, which section 5 proves of all outlines.
* `AnswerIsTheQuerys`. ILIKE is taken as equality: the patterns of the filters
  hold no wildcards.

### Bounds, and why they are enough

* Two replicas, two countries, two ingesters: every race in the code is between
  two, and the third party that matters (a successor of a crashed process) is
  the third holder string.
* `scheduler_lock`: a lease of 3 (2 for the replica whose clock is behind, 4 for
  the other) with an interval of 2 and runs of any length makes expiry under a
  run, takeover and late release all happen; two faults give "lost acquire, then
  crash" and the like.
* `ingestion_runs`: three runs are the shortest chain with an alerted, a carried
  and a re-sent run, with an orphan between two runs, or with a command's run
  that began before a scheduled one and is inserted after it.
* `gdacs`: two rings near one event, one for another, three episodes with a cap
  of two (so truncation happens), four requests for two countries (so the
  budget runs out inside a scan). No two events share URL and vertex count with
  different rings here; that they may is the separate run.
* `event_store`: two snapshots of the flood (it closes, and may leave the
  country's box), one of the fire; either may be dated before the window, or fall
  behind it at any time.
* `rate_limiter`: one client more than there is room for; times just long enough
  to cross every expiry. `BucketTTL` is assumed to exceed the refill time plus
  the stall (900 s against 60 s by default); with an idle time shorter than that,
  forgetting a client would give it extra tokens. A token takes two ticks, so
  refusals on a partial refill occur.
* `read_path`: two pages and room for one, so every walk evicts; a TTL of one, so
  expiry falls between the pages; one write may come between any two
  statements of either client.
* `digest`: a day of three hours has an hour before and one after the digest's;
  three floods overflow a list of two.
* `pure_parts`: three geometries give an older, a newer and an equal one after
  the first; the coordinate trees hold every mixture of numbers, positions and
  lists of two elements; the polygons cover concave outlines and every place of a
  hole on a small grid.

Deadlock is checked in the scheduler, limiter, read-path and digest runs. The others stop by
design: runs end, rows and faults are used up.

## 4. Fairness

* `SchedulerLock`: time passes (`WF(Tick)`) and a live goroutine takes its next
  step; a dead process need not come back and no fault has to happen.
  `IngestionContinues` therefore speaks of a replica that stays up.
* `StalenessWatchdog`: a live process's ticker keeps firing, and a dead one is
  restarted (`restart: unless-stopped` in the compose files).
* `EonetFetch`: requests end because the client has a timeout, sleeps end.
* `EventStore`: only the scheduler is fair, whose ticker repeats it. The command
  may run at any time or never, EONET need not publish, and GDACS may be out for
  ever: `ClosedIsLearned` holds all the same, through the metadata-only update.

No property relies on an upstream, a database or a mail service recovering,
beyond faults being finite in an explored behaviour.

## 5. Proofs

`tlapm` checks, for every value of the constants that satisfies the modules'
assumptions:

* **SchedulerLock_proofs.** `TypeCorrect`, `LeaseCovers`, `Exclusion`,
  `NotStolen` and `Refinement`. The inductive invariant is `TypeOK`, holder
  strings of live replicas are distinct, and a replica that ingests within its
  lease owns the row with as much time left as its own `lease`. That equality is
  what makes the exclusion inductive: "owns the row" alone is lost when the row
  expires before the replica's lease does. `Refinement` maps a state to the
  replicas that ingest within their leases; each step, a `Tick` that ends a lease
  included, maps to `Begin`, `End` or a stutter. Nothing is assumed of how long a
  run takes, and so `Exclusion` says that of two replicas ingesting at once one
  has outlasted its lease. That it may come to this with the code's constants is
  `run_fits_lease`.
* **IngestionRuns_proofs.** All of the module's properties. The invariant of
  `TypeCorrect` and `NilErrorRecorded` adds to the type that the current run's
  row is the scheduler's own (so a command never completes it) and that the
  steps of alerting belong to a run without error. `FailureVisible` is an action
  property: it splits the steps into those that change no outcome (a new row, a
  mark), for which the last completed row stays, and those that complete a row,
  where a country's state can only turn to good if that row began after every
  completed one and is a success. `AlertTimes` and `SilenceIsCovered` rest on
  `StreakInv`: a recorded time, a time about to be carried and the alert just
  sent are each a delivery in the streak of their run, and the current row is the
  scheduler's last and unmarked, so that no step changes a row some streak rests
  on. `OncePerStreak` adds `OnceInv`: a degraded row that is done with and was
  not disturbed is marked (`Marked`), alerts are sent for degraded rows in
  increasing order (`DeliveredGood`), and a run about to send has an excuse for
  each earlier alert of its streak (`SendGood`), because the run before it was
  either marked, and then it would carry, or disturbed, or a command's.
* **EonetFetch_proofs.** `TypeCorrect`, `FetchTime` and `RunTime`. The time bound of a fetch is
  inductive with what the attempts so far account for (`FetchInv`): a fetch that
  has made `n` attempts, `k` of them broken, has spent at most their timeouts,
  the longest accepted hints, and the `k` fixed delays. The last attempt sleeps
  only if it broke. For a run, `RunInv` splits the elapsed time: less the query it
  is at, it is paid for by the countries before and the first query of this one,
  and a query that was answered did not sleep after its last attempt. So a run
  spends at most 8 timeouts and 395 s on each country: 1,270 s for two. That is
  exact: with `LeaseTTL` 1270 in `MCRunFitsLease.cfg` TLC still finds a violation,
  with 1271 none. The code's lease is 300.
* **GdacsResolver_proofs.** `TypeCorrect`, `OutageCurrent`, `ScanPlaces` and
  `Placed`. The budget conjunct of the type holds because every request is counted
  where it is issued. `SoundInv` says that what is cached, and what a scan without
  gaps has found, is exactly what the episodes hold for an event with that key.
  `ScanPlaces`: what a scan itself concludes is right for its own event, on
  whatever partial answers. `Placed`: any answer, from the cache too, is right for
  some event with the same URL and vertex count. Nothing is assumed of the key:
  that the code's does not tell footprints apart is `gdacs_cache`, and these two
  say that nothing else can misplace an event.
* **EventStore_proofs.** `TypeCorrect`, `WholeRows` and `SuccessCovered`.
  `StoreInv` holds that each write takes its columns from one snapshot and that a
  run's `missed` events are those that set its storage or upstream flag.
* **Middleware_proofs**, about the two structures of `middleware.go` and the list
  that is read through one of them.
  * The cache. `Fresh`: `FreshInv` bounds the age of the data by the age of its
    entry plus the longest computation, so an entry is never younger than its
    data by more. `ListAndMapAgree`: the list holds each key of the map once and
    no other (`ListInv`); that a store leaves room for one more is the lemma on
    evicting from the back as many keys as are too many, and it needs the list to
    be without repeats. `PagesImplementCache` shows that the list with its client
    implements the cache's specification, which gives `PagesFresh` and
    `PagesListAndMapAgree`; `PagesTypeCorrect` is the type of the whole.
  * The pager. `WalkBounded`, for a finite set of rows: there is a history of the
    table, one entry for each write so far, from which each statement that was
    answered, each page in the cache and each page of the walk was made
    (`WalkInv`). The first `n` rows of a version and of the next one differ by at
    most one row that is not itself rewritten, so pages made of two versions differ
    at their seam by at most the writes between them, in either order of the
    versions; the walk's account is the sum over its seams. The history
    is a bound variable of the invariant: no specification has it.
  * The limiter. `LimiterTypeCorrect` and `Admission`, for a finite set of
    requests. `LimiterInv` relates each client's ghost bucket to the one it finds:
    a request holds a bucket of its own client (`Owned`); the bucket in the map is
    never short of the ghost by more than the time since they parted refills
    (`NoneShort`), nor ahead of it (`NoneExtra`). A bucket the map has given up is
    why neither is inductive alone: what a client got from the old bucket has to
    be earned again before the new one is found, and this is where the assumption
    that `BucketTTL` exceeds refill plus stall is used.
* **Mailers_proofs**, about the two goroutines that send mail.
  * The watchdog. `WatchdogTypeCorrect`, `ClaimsExclude` and `OneAlert`. One alert
    per reference is not inductive alone; the invariant adds that a replica at work
    on a reference holds its claim alone, and that a reference with a successful
    send stays claimed with nobody at work on it.
  * The digest. `DigestTypeCorrect`. `MailsAreTheirDays`, for a finite set of
    floods: a listed flood is dated in the list's day or was re-dated since
    (`MailInv`), and the days have no moment in common. `OneMailADay`:
    `CadenceInv` counts with the mails of a day those that may still be sent for it
    without another jump (`Planned`: the digest in hand, the one of its hour, the
    one of a timer out of step), and a jump adds two to these at most; `AttemptInv`
    says that, before any jump, a timer never passes over an hour.
* **PureParts_proofs**, about the computations, for all their inputs.
  * `VerticesChecked`: whatever the JSON array, `PolygonCoordinatesPlausible` takes
    no vertex on the strength of another and refuses no polygon. JSON is any set of
    values that holds the items of its arrays (`IsJson`), so trees of any depth and
    width are covered. An accepted tree is met down to its last level, and nothing
    in it is deeper: the proof goes down the levels together (`SubtreesAreMet`),
    and up again to the polygon whose rings are given (`Upwards`).
  * `NeverBackInTime`: of geometries and sources in any number and order. The one
    chosen has the newest date (`SelectedIsLatest`), and one more geometry replaces
    it only if it is as new (`SelectedGrows`).
  * `QueriesAnswered`, of any two queries; `CallerAnswered`, of any request, trusted
    networks, GeoIP places on the globe and finite set of events;
    `GatewayChecked`, of any routing table; `BypassNeedsItsTip`, of any branch.
  * `MarkedInside`, `MarkedIsKept` and `OutlineRecognised`, of outlines of any
    number of corners at integer positions. Going round an outline that is not flat one
    passes the line half way up at least twice, once in each direction
    (`GoesRound`, `CrossedTwice`). So in the order of the sort there are a first
    crossing and a second, which bound a span (`SpanExists`); the widest exists
    because spans are finite (`BestIsASpan`), and what is left of its middle is
    what is left of its first crossing, an even number, and that one
    (`MiddleOfSpan`). Each crossing lies between the ends of its edge, rounding
    included (`BetweenTheEnds`), so the mark is in the outline's box
    (`MarkInBox`), and a country that holds the mark overlaps that box.
  * `EventsForward`, `PolygonsChecked`, `AnsweredQueries`, `Disclosed` and
    `AuditedByTip` apply these to the inputs of `MCPureParts`. Three of them need
    the inputs to be such as the theorem assumes (`InputInv`, `TreesAreJson`,
    `RoutesOfTheInstance`); histories and branches may be of any length.
  * Both walks over trees are recursive functions on depths. The equation of such a
    function is proved from the well-foundedness of the natural numbers (`LeastOf`,
    `Iterates`): of all depths at which it failed there would be a least.

Only model-checked:

* All liveness (`IngestionContinues`, `StalenessReported`, `RunEnds`,
  `ClosedIsLearned`), which needs fairness and ENABLED.
* Of `PlacedInside`, the test by a vertical line: that a mark with an odd number of
  edges to its west also has an odd number above it, and never stands in a hole.
  Parities along two directions agree by an argument that goes round the ring
  corner by corner: induction over data.

## 6. Comments and documents that do not match the code

With the quotations, in `PROJECT.json` under `findings`:

* The watchdog's comment names a crash as the one residual gap
  (`alert/watchdog.go:87-93`). A lost answer to `TryRecordStalenessAlert`, or a
  failed release, silences the reference too (`MCWatchdogGap.cfg`).
* "5 minutes comfortably covers" a run (`scheduler.go:75-77`): `run_fits_lease`.
* The two retry budgets are called distinct (`eonet.go:364-366`). They share four
  attempts, and running out of them returns neither a body nor an error
  (`MCRetryBudget.cfg`).
* Two footprints "must not share a cached answer" (`gdacs.go:678-680`):
  `gdacs_cache`.
* `representativePoint` is "guaranteed to lie INSIDE" (`gdacs.go:534-546`). Not
  with two holes (`MCTwoHoles.cfg`), and on an edge it may lie as well.
* The buckets are "kept for the lifetime of the process"
  (`middleware.go:201-202`). They are evicted when idle and when there is no room.
* The digest's mail and its JSON "never drift"
  (`src/docs/operations/daily-digest.md`). A flood stored or dated after the
  hour of the mail is in the one and not in the other.
* The sentinel's workflow is to "catch drift on every direct push to
  development". There the three-dot diff is empty, and the audit passes.
* "Reject a tree that mixes positions and nested arrays" (`normalizer.go:258`).
  A position next to a list of positions passes.
* The API contract gives `/v1/context` no query parameters and only open events
  of the visitor's state. It takes `lat` and `lng`, and returns events of any
  status within 200 km.

## 7. Not modelled

* One event above 256 KiB, which aborts the body it is in at every run.
* The wording of e-mails, JSON decoding, PostGIS distances and the GeoIP file:
  inputs, or outcomes chosen freely.
* Two replicas of the digest: nothing is shared, so each sends its own mail, as
  the code's comment says.
* The seed command and the deployment scripts: one-off and sequential. The
  embedded documents and the enrichment counts are stateless reads. Of the
  dashboard only the pager is modelled: its other views hold no state of the
  system. HTTP routing and shutdown of the server process hold none either.

## 8. Running

    tlc -config MCSchedulerLock.cfg MCSchedulerLock.tla
    tlapm SchedulerLock_proofs.tla

Each run takes from a second to a minute; the proofs take some ten minutes.
`PROJECT.json` lists the runs, the
mutations, and for every definition the source lines it models.

## 9. Plan

Done: the ingestion core, in the order lease, runs and alerts, watchdog, fetch,
resolver, store, because it decides what users and operators are told; the
limiter; the read path through cache, list and pager; the digest; the pure
parts; and the theorems of section 5.

Left:

* **Composition.** Scheduler, runs and watchdog together: an ingestion that
  stops is reported, by e-mail or on `/health`. Each part is checked alone
  today, over an interface of one table.
