# Specifications of map-service-hub

map-service-hub is the data hub of a walking and cycling application: one asyncio
process (FastAPI, APScheduler) that polls the weather service into PostgreSQL, caches
and proxies map, transit and shared-mobility providers through Redis, and keeps within
the providers' daily quotas. This directory holds TLA+ models of its stateful parts,
TLC configurations that check them on small instances, and TLAPS proofs about them for
every instance. `PROJECT.json` ties each definition to its source lines, each property
to a mutant of the code it detects, and lists the hazards the properties are for.

Paths below are relative to `src/app/`.

## 1. The system

| Component | State | Operations | Interacts with |
|---|---|---|---|
| Polling guard (`scheduler/hub_scheduler.py`, `routers/internal_router.py`, `main.py`) | `_polling_active`, the event loop's tasks and their names | start by lifespan, cron job, watch job, watchdog, `POST /internal/kma/run-now`; end, cancel, restart | wraps all four polling loops |
| Short-term polling | loop locals (edition, deadline, failed), `short_term_forecast`, gauge `hub_kma_unloaded_targets` | rounds over the active grids, upsert, report; hourly housekeeping | guard, grid administration, forecast answer |
| Mid-term polling | the same with two tables, `mid_land_forecast` and `mid_temp_forecast` | rounds over land, then temperature regions; freshness watchdog | guard, grid administration, forecast answer |
| Observation polling (nowcast, air) | snapshot tables | one pass per hour over the provinces | guard, weather-now |
| Daily budgets (`_odsay_call_allowed`, `_google_media_allowed`, `cache/hub_cache.py`) | a Redis counter per day with expiry | add, judge, take back | transit lookups, photos |
| Transit lookups (subway, routes, lane) | Redis cache entries | look up, call, retry with the fallback key, cache; total time limit | daily budget, ODsay |
| Photos | place-id cache | place id, picture names, URLs issued in parallel | daily budget, Google |
| Snapshots (bike stations, PM vehicles) | cache entries of a whole city | page loop or company fan-out under a total time limit | Seoul and PM APIs |
| Forecast answer (`/v1/weather`) | none (reads three tables) | horizon split, aggregation | polling |
| Weather now | none (reads the snapshot tables) | observation of the caller's grid or the province's, station choice, comparison with an earlier day | observation polling |
| Places, reviews, addresses, directions | cache entries; map data version of a road | cache, provider, degrade to empty or 503 | Kakao, Naver, OSRM |
| Provider clients (`clients/hub_clients.py`) | none | request, repetition after a 429, paged reading of an edition, paths to options, shapes to legs | all lookups and polls |
| Course sync (`scheduler/places_sync.py`) | `courses` table | startup sync if empty, weekly forced sync | Durunubi API |
| Administration | `subscribed_grids`, `forbidden_zones` | toggle grid, zone CRUD | polling, rules engine |
| Rules engine | none | radius filter, indoor bonus, dwell estimate, zone test | zones |
| Location sealing | none | open sealed coordinates | every public route |
| Lifecycle (`main.py`, `db/hub_db.py`) | singletons | start, shutdown, engine disposal | all |

What is hard here. *Concurrency without threads*: between two awaits a coroutine is
atomic, so every read-then-write over an await is a potential race (guard, budgets,
toggles). *Several owners of time*: editions appear on the provider's clock, jobs fire
on cron's, loops stop at a deadline, keys and rows expire, lookups are cut off by a
total limit. *Failure is normal*: every provider call may fail, Redis and the database
too, and the design answers by degrading; what must not happen is that a failure is
told as a fact. *Two processes* overlap during a deployment.

What makes each component correct:

- guard: one loop per kind; never left held; a confirmed trigger runs;
- polling: an edition is complete again soon after a disturbance; loops end; the gauge
  is true; rows never go back in time nor vanish too early;
- budgets: the cap holds; refusals leave no trace; no counter without expiry;
- lookups: requests stay in the budget; failure, refusal and "no route" are not mixed up;
- observations: what weather-now tells is recent, its comparison is of an earlier day at
  about the same time, and the station told was measured at the time told;
- snapshots and other cached lookups: a bike list that lacks a page, or a set of PM
  vehicles that lacks a company that failed, is never remembered as "ok" nor for as long,
  and what a failure left behind is forgotten soon after the provider recovers;
- roads: a process with a map data version answers and caches no road of another graph;
- clients: an edition read over pages is one edition and whole; the transit list fits
  its button, and a line lies on its own leg;
- photos: the URLs issued stay within the budget, whenever the request is cut off;
- forecast answer: each requested day is answered from the right table and the newest
  edition, what has been seen is not taken back, none is dropped;
- course sync: an interrupted first sync is made good in the end;
- lifecycle: the database engine is not taken from under a startup task.

## 2. Modules

| Module | Models | Code |
|---|---|---|
| `PollLease` | abstract: one lease per kind of loop | the comment at `hub_scheduler.py:66` |
| `SinglePoll` | who may run a loop; implements `PollLease` | `_single_poll`, `run_now`, `_find_running_task`, watchdog, lifespan |
| `ShortTermPolling` | the 3-hourly forecast over time | `short_term_polling_loop`, `upsert_short_term_items`, `housekeeping_expire`, `toggle_grid` |
| `MidTermPolling` | the 12-hourly forecast, two tables, watchdog | `mid_term_polling_loop`, `mid_freshness_watchdog`, `loaded_mid_*`, `latest_mid_tm_fc` |
| `DailyBudget` | one counter per day, any number of callers | `_odsay_call_allowed`, `_google_media_allowed`, `RedisCache.incr_by` |
| `TransitLookup` | concurrent lookups over `DailyBudget` (INSTANCE) | `_subway_route`, `_transit_routes`, the two retries, the endpoints' `wait_for` |
| `ForecastAnswer` | the three forecast tables and one `GET /v1/weather` reading them | `get_weather`, `_split_dates_by_horizon`, `_aggregate_*`, `fetch_*_range`, `upsert_*`, `_short_term_expires_at`, `housekeeping_expire` |
| `GooglePhotos` | concurrent photo requests; extends `DailyBudget` and refines its callers | `_google_photos`, `_google_place_id`, the endpoint's `wait_for` |
| `CachedLookups` | the seven lookups with nothing but a cache entry: places, address, nearby, reviews, lane, bike, PM | `get_places`, `search_address`, `get_nearby_places`, `get_reviews`, `_transit_lane`, `_seoul_bike_all`, `_pm_vehicles`, their clients and `wait_for` |
| `RouteLegs` | roads between two places, several processes, one cache, changing map data | `_route_one_leg`, `_route_cache_key`, `OsrmClient.route` |
| `WeatherNow` | hourly observations and one request reading them | `nowcast_polling_loop`, `resolve_nowcast_base`, `fetch_recent_nowcast`, `fetch_nowcast_snapshot`, `get_weather_now`, `_fetch_recent_snapshot` |
| `AirQuality` | hourly dust values and the station that is told | `air_polling_loop`, `upsert_air_snapshots`, `fetch_recent_air`, `_pick_air_station`, `_stored_air` |
| `CourseSync` | the course table and the two runs that fill it | `durunubi_sync_loop`, `DurunubiClient`, lifespan |
| `KmaEdition` | one reading of a forecast over pages while the provider publishes | `KMAClient`, `AirKoreaClient` |
| `TransitOptions` | paths to list, list to button, shapes to legs | `_to_route_option`, `_normalize*`, `_filter_routes_by_mode`, `merge_lane_geometry` |
| `HubProcess` | how a process ends; engine, sessions, tasks, jobs | the lifespan, `db/hub_db.py` |
| `MC*` | constants, symmetry and history for TLC | |
| `*_proofs` | theorems | |

How state corresponds to code:

- `SinglePoll.task[k][l]` is the life of the coroutine that launcher `l` started for
  kind `k`. *created* and *looping* differ because `create_task` makes a task visible
  to `asyncio.all_tasks()` before its first step puts the name into `_polling_active`.
  Job tasks have no name of the kind, so `RunningNamedTask` ranges over the startup task and
  requests only.
- `ShortTermPolling.loop[h]` holds the loop's locals: `base` (`base_at`), `elapsed`
  (time against `deadline`), `targets`/`todo` (`pending` and what is left of it),
  `failed`. `age[g]` is the newest `base_at` among the rows of grid `g`, as an age:
  editions are named by how many slots old they are, which keeps the model finite
  without a calendar. The queries, each poll and the end of the round are separate
  actions, because the code awaits between them.
- `MidTermPolling.stored[r]` is a set of ages, since the mid-term tables keep several
  editions side by side (the primary key includes `tm_fc`).
- `DailyBudget.call[c].status` is the program counter of one budget call; `count` and
  `ttl` are the Redis key. INCRBY and EXPIRE are separate actions.
- `TransitLookup.lookup[l].pc` is the await a lookup is at; the budget's part of the
  lookup is DailyBudget's own actions for the call `<<l, key>>`.
- `ForecastAnswer.tables` holds per row of a short-term day its `base_at`, and of a
  mid-term table the editions (`tm_fc`) it has rows of; what an edition contains is
  KMA's (`Carried`, `Offsets`, external). Hours are absolute here, since a day's
  offset from today is what the code computes with. The hourly rows of a half-day are
  one row. `request` holds what `get_weather` keeps between its awaits: today, the
  range, the region, what it has read; `known` and `prompt` are history. The answer is
  the set of rows each day is made of (`Item`); a day without any is in `missing_dates`.

- `CachedLookups`: what a provider holds is a set of *parts*: bike pages; of each PM
  company its first page and, as one part, what lies behind it; or the one part that a
  single call of the other lookups brings, however much more the provider has. `Sought`
  is what a lookup sets out to get, the whole list of bike pages but first pages only of
  the companies: `fetch_by_provider` asks for `pageNo=1` with `PM_NUMOFROWS` rows and
  looks at no total, so a cut-off reply is a success. `req[r].pc` is
  the await a coroutine is at; `lost` are the companies that failed, `aged` that a unit
  of time has passed since the request began; `calm` is history. Bike and PM endpoints
  answer a partial snapshot as "ok"; the model speaks of the status in the entry.
- `RouteLegs`: a road is the data version of the graph it comes from. `config[h]` is
  `OSRM_DATA_VERSION` of process `h`, which only a restart changes.
- `WeatherNow`: hours are counted through, so a day is a block of `HoursPerDay`. Each SQL
  statement is an action; `caller` holds what `get_weather_now` keeps between them.
  `AirQuality` has no request: its answer is one SELECT and a choice, `AirAnswers`.
- `CourseSync.run[r]` is a run's page and what is left of it; `healthy` is whether the
  outage is over.
- `KmaEdition.listed` is the provider's list, changed by it between any two pages.
- `TransitOptions`: a path is its time and its legs (what it rides, how far); a shape is
  the leg it belongs to. The lane reply may lack shapes
  or hold shapes without points; positions are sets put in order (`InOrder`), which can be
  reasoned about where a filter over a sequence cannot.
- `HubProcess`: engines are numbered as they are made; a session holds the number of
  its engine, and `instance` is the one `get_hub_db` would hand out.

The parts from `CachedLookups` on, with two overlapping processes of
`ShortTermPolling`, share no variable in the code (different tables, keys, providers).
`MCHub` extends them all and takes `ShortTermPolling`, whose constants differ from the
run `short_term`'s, as an instance (`Polling`); it puts them side by side in one
specification: which of them moves is chosen at
the start (`part`), so its states are the sum of the parts' and not their product, and
a property of one part is checked in every behaviour of that part.

The four loops share the guard; the two forecast models take from `SinglePoll` that
in one process a trigger meeting a running loop changes nothing.

## 3. Runs

| Run | Instance | Checks and shows |
|---|---|---|
| `single_poll` | 2 kinds, startup, 3 jobs, 1 request | `AtMostOneLoop`, `GuardMatchesLoop`, the refinement `LeaseSpec` of `PollLease`, and under fairness `GuardReleased` |
| `single_poll_triggered` | same | violation: `TriggeredRuns` (finding 1) |
| `short_term` | 1 hub, 2 grids, 36 units of 5 min per slot | `RecoversInSlot`, `LoopEndsSoon`, `ReportIsExact`, `HousekeepingSparesCurrent` |
| `mid_term` | 2 grids, 1 land and 2 temperature regions, units of 10 min | `WatchdogRefills`, `LoopEndsSoon`, `ZeroReportMeansLoaded` |
| `mid_term_report` | same | violation: `ReportByKind` (finding 2) |
| `google_photos` | requests for 2, 2 and 1 pictures, cap 3, one midnight | `CapHolds`, `CounterSettles`, `NoEternalCounter`, `UrlsWithinCap`, the refinement `BudgetSpec` |
| `transit_lookup` | 2 lookups of up to 2 calls, cap 2, one midnight | `RequestsWithinCap`, `AnswersAreTrue`, `RefusedOnlyWhenFull`, `BudgetSpec` |
| `transit_refusal` | same | violation: `RefusalNotCached` (finding 3) |
| `forecast_answer` | short-term editions of 05, 20, 23 h, mid-term of 06, 18 h, 48 hours, 2 regions | `NeverOlder`, `NothingWithheld`, `CoversTheWeek`, `ExtremesKept` |
| `forecast_overlap` | the same with short-term editions of 05, 17, 20 h and 46 hours | violation: `OverlapIsWhole` (finding 4) |
| `hub` | `MCHub`, bounds below | lookups: `OkHoldsAllSought`, `ForgetsTrouble`; roads: `LegsOfConfiguredData`; observations and air: `WeatherIsHonest`; clients: `WholeEdition`, `TransitIsDrawnTrue`; process end: `EngineOutlivesStartup`; courses, under fairness: `CoursesMadeGood`; two polling processes: `EditionNeverRegresses` |
| `weather_now_comparison` | `WeatherNow`, 9 hours of 3-hour days | violation: `ComparedWhenKept` (finding 5) |

Two names in `hub` stand for more than one formula: `WeatherIsHonest` is
`ComparesWithEarlierDay` of `WeatherNow` and `AirTellsItsHour` of `AirQuality`;
`TransitIsDrawnTrue` is `ButtonGetsItsRoutes` and `ShapesOnTheirLegs` of
`TransitOptions`.

### Bounds

- *Launchers*: startup, two jobs per kind and one request are each way in; a request
  may be made again after it ended. More launchers only repeat these (and the proofs
  cover any number).
- *Short-term clock*: the real one, 3 h in units of 5 min, deadline 20 min, cron at
  slot + 10 min, the watch at every :25, time to live 6 h. Five minutes is the largest
  unit that separates :10 from :25 and is larger than a poll (10 s request limit) or a
  pause (30 s). Two grids are enough for one to fail while another succeeds and for
  the deadline to cut a list. `RecoveryUnits` = 17 (85 min) is how long recovery
  may take after the last disturbance: 13 units lie at most between a mark and the last
  reading before the loop of the next one is through, and 4 (`Settled`) pass until no loop
  from before the calm runs. 16 is violated. `LoadUnits` = 6 allows the slot's own load
  half an hour.
- *Two polling processes* (in `hub`): slots of 12 units, and the recovery property is not
  asked.
- *Mid-term clock*: an edition lasts 2 h in the model and not 12 h: the hours between
  two editions repeat (one watchdog run each), and two of them show a missed and a
  following watchdog. `RecoveryUnits` = 16 (160 min); 15 is
  violated. The real 12-hour edition serves the theorem's hypothesis `MarksServe` with the
  same 16 and not with 15.
- *calm* saturates at `CalmCap`; it is a history counter and no guard depends on it.
- *Budgets*: a cap that the first two calls fill in one way and exceed in another, and
  one midnight, is the smallest instance in which over-count, roll-back, straggler and
  new day all occur. Calls are made once and the calendar ends, so these runs do not
  check deadlock.
- *Lookups*: two requests of one key; 2 pages at most and a list of 1, 2 or more; each
  page with or without unusable rows; two companies, so that none, one or both fail,
  each with one page of vehicles or more.
  Time in units of the shortest lifetime (30 s); longer lifetimes are cut to four units,
  past every short one plus the unit a request may take (`LongUnits`).
- *Roads*: two processes, two versions and "none set", on either side of every change.
- *Observations*: days of three hours, two days of retention, eight hours: a midnight,
  a day without rows, a comparison two days back and rows that are deleted all occur.
  Two stations, one in the city, and four hours for the air.
- *Courses*: four on two pages of two, so that the last page is full; two restarts.
- *Editions*: four row keys in any order, pages of two, two pages.
- *Transit list*: up to three paths out of 16 that cover each kind of leg, with the
  bus ratio exactly at its limit; a list of two.
- *Process*: two startup tasks, a job and a request; a second engine is the last one.
  The parts end or wait for good (calendar, page lists, a process that is down), so `hub`
  does not check deadlock.
- *Forecast answer*: the clock stops at 0, 6, 21 and 23 h of the day and ends at 23 h of
  the second (`Horizon` = 47). So between two stops lie the expiries of the three kinds
  of short-term edition (11, 02 and 05 h) and, on the second day, that of both mid-term
  ones; both the change of day and the hours after the evening mid-term edition, which
  lacks D+4, occur with up-to-date tables. Two editions can be stored in either order.
  The lives are the real 6 and 24 h. The requested range, yesterday to D+11, reaches
  beyond the split at both ends, and a region has both mid-term codes or one.
  `CoversTheWeek` ends with D+9: D+10 is only in the editions of the same day, so before
  the morning one arrives it is missing.

### Assumptions

- One APScheduler per process, `max_instances=1`, jobs fire within their unit
  (`misfire_grace_time` 5 min). A job due while the process is down is not made up.
  `kma_mid_watch` and the housekeeping have no grace time (APScheduler's default is one
  second): one that the event loop reaches later is dropped. For `WatchdogRefills` an
  hour whose watch was dropped counts as a disturbance from which the calm begins anew.
- What ODsay says is taken for what it knows: the client reads a 200 body with neither
  an error nor a result as an empty list of paths, and `AnswersAreTrue` counts that as
  "no route"; every other malformed reply is a failure.
- `CourseSync` is about courses with a usable track: an item without one is skipped by
  every run and never stored, however healthy the provider is.
- A running loop takes a step in every unit. A poll or query that takes longer is the
  *slow round* that resets `calm`.
- Fairness is used by two properties. `GuardReleased`: weak fairness of a task's next
  step (the event loop serves every ready task, and a body returns at its deadline,
  `LoopEndsSoon`); nothing is assumed of jobs, requests or restarts. `CoursesComplete`
  of `CourseSync` (`CoursesMadeGood` in `MCHub`): weak fairness of a run's next step, of the weekly job while the process is up
  (APScheduler fires it), of the supervisor starting the process again, and of the end of
  the outage; restarts are finitely many, because the job's interval begins anew with
  each process and a process that is restarted within every interval never fires it. Recovery is
  stated as a bound in time (`RecoversInSlot`, `WatchdogRefills`), which is stronger than
  an eventuality and needs no fairness.
- `DailyBudget`, `GooglePhotos` and `CachedLookups` are about deployments with keys and Redis; without them every call is refused or answered empty at once.
  A day whose key has expired (`gone`) is not judged: truncation to whole seconds lets
  the key go in the last second of the day.
- `ForecastAnswer`: a short-term edition is not stored more than `ShortLate` hours after
  its issue, within its 6 hours (loops end at their deadline, `LoopEndsSoon`); a
  request takes less than an hour, so the clock turns at most once during it; hourly
  housekeeping has run before the clock moves on. Nothing makes an edition come.
  The clock ends, so these runs do not check deadlock.

### Findings

1. `run_now` answers "triggered" for a loop that the guard drops when a cron or watch
   job is running it: job tasks carry no name, so the 409 test does not see them.
2. `mid_term_polling_loop` reports the failures of both kinds as `mid_land` at the
   deadline and leaves `mid_temp` at its last value.
3. The fallback key's refusal for the daily cap is cached as "unavailable", against the
   README and the comment beside the first refusal.
4. `get_weather` takes D+3 from short-term as a whole day when it has TMN and TMX.
   Those are kept to the end of the forecast day, the hourly rows of the same edition
   for six hours: after a missed edition D+3 is answered without rain and sky although
   mid-term has both, against the comment beside `_OVERLAP_OFFSET`. The next stored
   edition ends it.

5. `get_weather_now` takes the observation from the province's representative grid when
   the caller's own has none, and looks for the earlier day on the caller's own grid
   only. The hourly poll stores representative grids, so a caller elsewhere gets an
   observation and never a comparison, where `nowcast_polling_loop`'s docstring says that
   hourly observations make missing comparisons disappear.

Met while reading and not modelled, in three groups.

*Docstrings and comments that differ from the code.* `_split_dates_by_horizon` counts
D+4 to mid-term, the code to the overlap; `get_weather` asks for both region codes where
either is enough, and does not name its last resort, the part of a day that short-term
has; `_aggregate_mid` joins by offset, the code by date; the repository README gives 32
as default of `GOOGLE_PHOTOS_DAILY_MEDIA_CAP`, `config.py` 50; `nowcast_polling_loop`
says :12, the job fires at :15; `_pm_vehicles` says "ok" when some companies fail, the
code "partial" (and the endpoints of bike and PM turn "partial" into "ok");
`_kakao_nearby` speaks of an empty answer, its endpoint answers 503;
`durunubi_sync_loop` says that a failing page is warned of and passed over, the code
stops there; "yesterday" in the schema may be up to three days back; the docstring of
`_fetch_recent_snapshot` describes an earlier shape of it; the comment at `main.py:381`
holds for startup tasks only, jobs and run-now tasks may still be using the engine.

*Behaviour a reader may not expect.* A 200 answer of Kakao's address and category search
that is not JSON is no `KakaoApiError` and becomes a 500. A bike list whose length is a
multiple of the page size is always partial, since the page behind it fails. The total
time limit of the bike lookup discards the pages that came. PM companies are asked for
their first page of `PM_NUMOFROWS` rows: what a company has beyond it is missing from a
snapshot that is kept as "ok" for the full lifetime, and nothing tells that it is. After a failed nowcast poll there are fifteen minutes in each hour
without an observation young enough. Housekeeping just after midnight deletes the
oldest day a comparison could still use. A newest air hour without values hides older
ones that have some. OSRM rebuilt under an unchanged data version leaves old
roads for seven days. The interval of the weekly course job begins anew with each
process. A dead provider makes every transit lookup wait for the total limit, because
the cancelled coroutine does not get to cache the failure.

*Unused settings.* `WEATHER_NOW_OBSERVATION_BUDGET_SEC`, `WEATHER_NOW_ENRICH_BUDGET_SEC`,
`WEATHER_NOW_CACHE_TTL_SEC`, `AIRKOREA_CACHE_TTL_SEC` and `AIRKOREA_FAIL_CACHE_TTL_SEC` are
read nowhere.

## 4. Proofs

All from the named assumptions on constants in the modules (sizes, finiteness,
disjointness), for any number of launchers, hubs, grids, calls, any amounts and caps. TLC
evaluates each of them in a passing run. Two theorems have a hypothesis of their own
(`MarksServe`), which the MC modules assume of the real marks, so TLC evaluates that, too.

- `SinglePoll_proofs`. `GuardInv` (types, one loop per kind, guard held iff a loop
  runs) is inductive: `AtMostOneLoop` alone is not, because the guard's test says
  nothing about loops unless the guard and the loops agree. The same invariant turns
  every step into an acquire, a release, a process exit or a stutter of the lease
  (`StepEffect`), hence `ImplementsLease`.
- `ShortTermPolling_proofs`. `TimeInv` bounds a loop's running time by where it is:
  within the deadline plus one while it polls, plus two at the head of a round, with the
  unit's step taken or not. `LoopEndsSoon` follows for lists of any length.
  `EditionNeverRegresses` follows step by step from the upsert's WHERE for any number
  of processes, `HousekeepingSparesCurrent` from the life of an edition against the slot
  (`LifeAssumption`: 6 h and 3 h). `ReportIsExact` is proved of hubs that run `Alone` (with
  two it is false: an older process leaves out a grid that a newer one has filled).
  `LoadInv` is its invariant: no row is newer than what the loop asks for; of its
  list, the grids without that edition are those to do and those that failed. Two
  things could break it besides the loop: housekeeping deleting what a slow loop has just
  stored, and a loop that sees two editions pass; the deadline is too short for both.
  `RecoversInSlot`, of a hub alone: `Phase` says where a loop stands after k calm units. One
  that began in the calm fails nothing and makes one round (`Begun`); one from before
  goes round once more at most and is over after `Settled` units (`Inherited`). `Served`
  follows each mark passed since: its job is still to fire, everything is fresh, or a loop
  no younger than the mark is at the newest edition, so the guard dropped nothing that
  mattered. `MarksServe` says what the marks must do for that: at every reading past
  the slot's load one lies far enough back for its loop to be through and within the
  recovery. The real marks do, with 17 units and not with 16.
- `MidTermPolling_proofs`. `TimeInv` is the same bound, a unit longer because a round goes
  through two lists (`LoopEndsSoon`). `Accounted`, for `ZeroReportMeansLoaded`: what a loop
  set out to load is to do, failed or loaded. "Loaded" could be lost to an edition
  passing while the loop runs, so the invariant also says that it sees at most one pass
  (`EditionAssumption`). `WatchdogRefills` is argued as recovery is for the short term, with
  one case more: at an edition's first watch a loop of the edition before may hold the
  guard. The last watch of that edition has loaded it by then (`EarlierLoaded`), so
  such a loop finds nothing to poll and is gone (`NotBusy`), if the calm is old enough
  (`Notice`).
- `DailyBudget_proofs`. `BudgetInv`: the counter is the sum of the units of the calls
  in it, and the calls granted or bound to be granted (their own total was within the
  cap) sum to at most the cap. The second part is the heart: a call is only bound to
  be granted if everything in the counter when it added, itself included, was within the
  cap, and calls only leave that set by leaking. Sums are cardinalities of sets of
  unit tokens, which avoids recursion. `CapHolds` and `CounterSettles` follow.
  `NoEternalCounter`: a call whose units are in an unexpired counter has a key, so a
  counter that has no expiry still has the call that created it before its EXPIRE, or
  lost it. `ShortInv`: a call sees a total above the cap only on a day on which what
  will stay in the counter and this call's units exceed it.
- `TransitLookup_proofs`. `DailyBudget`'s theorems instantiated with one unit per call
  (`Books`), with the link that a request went out only for a granted call. Every step of a
  lookup is a step of one budget call or leaves the budget alone; being cancelled is a
  refusal, a leak or nothing (`CutOff`), which gives `BudgetSpec`. `RequestsWithinCap`
  follows from the cap, `RefusedOnlyWhenFull` from `ShortInv`: with one unit
  each, nothing is left over for a refusal to waste.
- `GooglePhotos_proofs`. `PhotosInv` is `BudgetInv` with the link of the two layers: a
  request whose URLs were asked for has a granted call. `DailyBudget`'s own lemmas
  (`BudgetStep`, `CapFollows`) are used again, since every step of a request is a step of
  its budget call or leaves the budget alone; being cut off is a refusal, a leak or
  nothing (`UsesBudgetAsDescribed`), and the budget's theorems carry over
  (`PhotosKeepTheBudget`). `UrlsWithinCap` follows, because granted calls are
  among those that fit the cap.
- `HubParts_proofs` is about the parts that `MCHub` puts together and their composition.
  *Roads*: `LegsOfConfiguredData` with "what is about to be written is a road" is
  inductive: an entry was written under the version in its key, and a process takes only
  roads of the version it makes keys with.
  *Shutdown*: `ProcessInv`: from the end of the gather no startup task is alive, and until
  the disposal the engine there is is the only one made. The property alone does not
  exclude a session of an engine that was never `instance`.
  *Cached lookups*, for any requests, page cap and companies. `LookupInv`: a request
  walking the pages holds exactly those before its page, and the provider's pages are an
  initial segment, so a page that is not full is the last; a request that gathers holds
  first pages only, so without a failed company it has all of those
  (`OkHoldsAllSought`; what is behind a company's first page is not claimed).
  `TroubleInv`,
  for `ForgetsTrouble`: whatever in a request's record goes back to a failure is at most
  one unit old, and then the request is, too; once written, the entry's remaining time
  and the calm since add up to at most the short lifetime plus one. The exceptions in
  the property are those of `Excepted`, which never changes.
  *Observations*: `WeatherInv` adds to the property that a request which compares has an
  observation, and one that has not compared no comparison; the day is counted back from
  the observation's, which the request keeps over midnight.
  *Air*: `AirInv` counts missed hours, so that rows stored every hour are at most two hours
  behind, within the age limit (`AirAssumption`: three hours).
  *Editions*: `KmaInv`: what is read so far is a sequence of listed rows. A read that ends with
  as many different rows as are listed has all of them (a subset as large as its
  finite superset), so counting the keys at the end is enough whatever moved meanwhile.
  *Transit list*: counting what stands before each element of an ordered finite set
  numbers the set through (`RanksNumber`); stable sort (`ByTimeIs`) and selection (`AtIs`)
  are two uses of it, and the least-number principle stands in for induction where the
  running totals of metres are built (`TotalsExist`). `OptionsInv` then says that the
  list is the reply sorted, filtered, cut, and `TransitIsDrawnTrue` compares it with what
  was left out. A line lies on its leg because lanes that come in order and in
  number are all the ridden legs (`MergedIs`).
  *Courses*: types only. *Two polling processes*: `ShortTermPolling_proofs` instantiated
  with the hub's constants (`Shown`), whose assumptions the hub meets (`PollingFits`).
  *Composition*: a step of the hub is a step or a stutter of every part (`PartsMove`), a
  part that is not chosen begins in a state of its own, too (`PartsBegin`); so a hub
  behaves as each part does (`PartsBehave`), and the theorems above hold of `MCSpec`.
- `ForecastAnswer_proofs`. `ExtremesStay`: `ExpiresAt` of an extreme is after every hour of
  its day whatever its edition is (`ExtremesOutlive`), so neither an upsert nor housekeeping
  nor the clock takes it. `NeverBehind`: `NeverOlder` says nothing until the answer is
  done; `AheadInv` says for each known row where it is meanwhile. Before its table is
  read it is still there, replaced by a newer one, or past its life; the last case is
  harmless because what is stored afterwards is newer (`LateAssumption`), and because
  what is read of mid-term is still alive. After the read the same holds of what was read.
  `TypeCorrect` also says that each row is one that its edition carries.
  `NothingEverWithheld`: `RequestInv` says of what was known that it is read, or gone for
  good when it is passed over (`ShortKept`, `MidKept`). `CoversTheWeekAlways`: `StoredWhole`:
  an edition of which one hourly row lives is there as a whole, so a live edition with
  hours of today answers today and the days it carries; of the mid-term editions, one of a
  morning is always live (`SourcesAssumption`: they live 24 to 36 hours, and one hour of
  issue is before noon and no earlier than the short-term life). "Up to date" asks for a
  live short-term edition with hours of today: the one of 23 o'clock begins with the
  next day, and without another today has no row that is left, as the run with the
  slot at 23 shows.

Only model-checked: liveness under fairness (`GuardReleased`, `CoursesMadeGood`), which
is out of the prover's reach. Every invariant, action property and refinement that a
passing run checks is a theorem.

## 5. Not modelled

Request building and field parsing in `clients/hub_clients.py`, floating-point geometry
(`utils/`), SQL and PostGIS expressions beyond what the models use, schemas, code
tables, stubs and migrations: no state and no order of steps, or out of TLC's reach.
`AnswersAreTrue` speaks of the lookup itself: the choice for a button may still turn "ok"
into "not_found", and `TransitIsDrawnTrue` says when it may.

- *Rules engine*: the score of one request in floating point over one PostGIS query.
- *Location sealing*: a library's cipher and a chain of checks on one request.
- *Administration*: a grid's toggle is in the polling models; `before` and `after` of its
  report are read in two transactions, of which nothing in the hub makes use; zones are
  single statements.
- *Places*: the courses of the table merged into `/v1/places`, sorting, paging, GPX.
- *Bike and PM*: the search around a point in a snapshot, a pure distance filter.
- *Weather now*: the region search, and today's forecast in the answer (the read that
  `ForecastAnswer` models, of one day).
- *Transit list*: fares, names, the times of legs, the lane's parts.

Of the forecast answer: malformed or missing values inside an edition (a mid-term
payload with gaps, AM and PM apart), the search for the region and its serving grid
(`Regions` are its outcomes), response times and reasons. That no day is both
in `daily` and in `missing_dates` holds by the shape of the loops and is not a property.

## 6. Plan

What is left, in this order:

1. `ForecastAnswer` with gaps inside an edition (AM and PM of mid-term apart), and the
   edition arithmetic of `resolve_*_base` against a reference definition.
2. The two hazards without a property: the truncation of a counter's time to live to
   whole seconds, and the two transactions of a toggle's report. And the PM vehicles
   behind a company's first page, once the code promises anything of them.
3. `ReportIsExact` and `RecoversInSlot` with two processes: what holds of the newer one.
