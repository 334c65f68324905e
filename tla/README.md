# Formal models of the stock-analysis application

TLA+ modules, TLC runs and TLAPS proofs for the backend in `src/backend` (FastAPI, SQLite in WAL
mode, nightly cron scripts) of the ticker-analysis application. Sources are named relative to
`src/backend` below. `PROJECT.json` lists, for every definition that models code, the lines it
models; each run; each mutant (a plausible bug that the property must detect); every hazard; every
theorem. A helper that only names a part of an operation is covered by that operation's entry.

## 1. Inventory

The program is one API process (uvicorn, a thread pool for the synchronous endpoints), short-lived
worker processes it spawns, cron scripts, and one SQLite file they all share. Sessions open a
transaction only before the first DML statement (`core/db.py:130`), so a read and the write that
follows it are two transactions: most of the hard behaviour below comes from that.

| component | state it keeps | operations | what is hard, what makes it correct |
|---|---|---|---|
| **Score recompute job** `data/score_recompute.py`, `pipeline/score_recompute_job.py`, `core/main.py` | `ScoreRecomputeRun` rows (state, pid, heartbeat), worker processes, watcher and stopper threads | claim, save, spawn, record pid, watch, reap, terminate; the worker's begin / progress / finish writes | one run at a time, no run holds the slot forever, a superseded worker stops soon, only the right process is signalled |
| **Score weights and score rows** `data/score_weights.py`, `data/moat.py`, `data/ticker_score.py` | the weights row and its version, the moat multiplier, a 5 s per-process cache, `TickerScore` rows with the version they were computed with | save, reset, moat save, compute, on-demand refresh, recompute | a row stamped with the saved version really has the saved inputs |
| **Statement cache** `core/cache.py`, `core/history_merge.py`, `pipeline/refresh.py`, `pipeline/prune_cache.py` | cached JSON bodies with `fetched_at`, quarterly history | get-or-fetch, serve stale on failure, merge, Refresh, prune | concurrent writers re-read before they merge; history never shrinks, a failed Refresh keeps the last good score |
| **Shared bars cache** `clients/shared_bars_cache.py` | one series of bars per ticker and interval | fetch window, compare, replace or merge, prune | one price basis, a narrow fetch never narrows a wide series, provisional bars are replaced |
| **FMP client, data groups** `clients/fmp_client.py`, `core/data_groups*.py` | token bucket, auth breaker, 402 canary; a group's switches, status, failure count | request, retry on 429, trip, trial, re-probe, switch | the rate never exceeds the bucket, a pause drains, ends and reopens, only a refused canary restricts a group |
| **Cron health** `core/cron_health.py` | heartbeat rows per job | start, success, failure, skip, SIGTERM | a green light was earned; a job that died without a word is told from one that runs |
| **Tracked universe and wipe** `data/tracked_universe.py`, `pipeline/wipe_untouched_tickers.py`, `data/watchlists.py` | views, added marks, protections, all rows of a ticker | open, add, remove, plan and apply a wipe | a ticker touched since the pass began keeps its data |
| **Warren signal** `analysis/warren_signal`, `data/warren_*` | replay counters, one watch row and event log per ticker | nightly replay of new candles, removal by hand | a stop never drops and sits below the price it was set at; a removed trade does not come back |
| **Trend, entry signal, support zones** `analysis/*`, `data/*_data.py` | nightly signal rows with their sessions | step per week or session, sweep, copy into the score row | rows follow corrected and replaced bars; a stored row says what session it is of |
| **Statement recheck** `data/statement_recheck_data.py`, `helpers/statement_recheck.py` | one episode per flagged ticker | scan, recheck within a budget, settle | attempts are bounded, a clean row is never replaced by a bad one |
| **Opportunities** `data/opportunity_*.py`, `scoring/opportunity_*.py` | weekly lists, daily flags with a run log, outcome rows per horizon, the scorecard | build, flag with catch-up, price, censor, revive, rebuild | every judged session's hit is a flag, an outcome is completed once, from the right sessions |
| **Moat check** `data/moat_check.py`, `pipeline/moat_check_*.py` | run folders, rows | prepare, two passes, save, finish, sweep | a row rests on two passes over the criteria its run was prepared with |
| **Backups** `pipeline/backup_db.py` | dated copies, temp files | back up, prune | the tiers kept (days, weeks) whatever fails, hangs or overlaps |
| **Price targets** `pipeline/nightly_price_target_snapshot.py`, `helpers/price_target_history.py` | dated consensus rows with their method | snapshot, backfill, tag, read | a row says where its figure comes from |
| **Ticker header and last close** `data/ticker_summary.py`, `data/last_close_data.py` | FMP's quote, the official close | read, nightly close | figures shown together rest on one price |
| **Market breadth, momentum, heatmap, ETF screener** `data/market_breadth_data.py`, `data/momentum_data.py`, `data/sector_heatmap_data.py`, `data/etf_screener_*.py` | dated aggregate rows | gate, count, rank, upsert, backfill, prune | a partly reached night writes only what it has seen |
| **Scoring steps, statement views** `scoring/*.py`, `data/step*_data.py`, `helpers/*` | none | pure functions | which path, which figure, which side of a limit |
| **Schema and migrations** `core/db.py`, `core/models.py` | tables | create, migrate at every start | two starts at once, a start killed anywhere |
| **Authentication** `core/auth*.py`, **log rotation and other prunes**, **derived views** (`data/chart_data.py` …), **scrapers**, **frontend**, **start / stop scripts** | | | not modelled, section 5 |

Interactions: every API read of a score may refresh it (score rows), which reads the statement cache,
which calls the FMP client through the data-group gate; a weights or moat save claims the recompute
slot *before* it saves and launches the worker after; the worker computes each ticker of the tracked
universe from cached data only; the cron scripts are the other writers of every cache and report
through cron health; the wipe deletes from all of them. The weekly lists are built from score rows
and signal rows, the flags and outcomes from the lists and the shared bars.

## 2. Modules and code

Each module's header comment says what it models and what it leaves out; the correspondence of its
state and its main actions to the code follows.

### The stores several processes write

**`RunSlot`** is abstract: a table of runs of which at most one is running; claim, settle, and the
promise that the slot is freed. **`ScoreRecompute`** implements it (`SlotSafety`).

| state | code |
|---|---|
| `state[r]`, `pid[r]`, `lastId` | the `ScoreRecomputeRun` rows |
| `stale` | the rows `reap_stale` would select: no heartbeat for `HEARTBEAT_STALE_SECONDS`, or running longer than the limit |
| `caller[c]` | an API thread inside a status request or a save: where it is, and the rows it read and is about to reap |
| `os[p]`, `job[p]` | what a pid is for the operating system; the worker it runs, with the write it is in the middle of |
| `watching`, `closing`, `stopping` | the `_watch` threads, the `fail_run` calls between their read and their commit, the `terminate_worker` threads |

A request is `Request` – `Reap` – `ClaimRun` or `Conflict` – `Spawn` – `RecordPid`; each is one
transaction or one system call, and `SaveOrSpawnFails` and `RecordPidFails` are their error paths. The
worker is `Start`, `ScoreTicker`, `Finish` and, for every status write, `UpdateReads` /
`UpdateReadsNothing` then `UpdateCommits` or `UpdateRaises`; `Superseded` is `RunSuperseded`.
`PidReused`, `Dies`, `GoesStale` and `ApiRestarts` are the environment. Abstracted: quiet and overdue
rows are one set, which only matters for running rows; the identity check of `terminate_worker` and
its signal are one step; so are the commit of a new run's row and the read of its id that follows; the save
between claim and launch is opaque here (it is `ScoreRows`).

**`ScoreRows`**: `saved` is the weights row and its version, `narrow` the multiplier, `row[k]` a
`TickerScore` row with the inputs it was computed from, `cache[p]` a process's five-second snapshot,
`task[t]` a compute between two of its reads, `saver[s]` a save between two of its commits. `View`,
`SetTickerMoat`, `StartCompute` begin a compute; `LoadCached`, `LoadSaved`, `StoreLoaded`,
`ReadMultiplier`, `Upsert` are its steps; `ClaimForWeights` / `ClaimForNarrow`, `SaveNarrow`,
`ReadVersion`, `CommitVersion`, `DropCache`, `Launch` are a save's. Its slot is `RunSlot!Claim` and
`RunSlot!Settle`, that is what `ScoreRecompute` was shown to implement. Coroutines of the API share
one event loop (`LoopFree`): one that has begun a read of the database finishes the stretch up to its
next await. Abstracted: one weights row that exists (version 1); a reaper leaves a save alone (it
takes less than `HEARTBEAT_STALE_SECONDS`); the formula version, ETFs and delisted tickers.

**`StatementCache`** holds the merge of `core/history_merge.py` as operators (`Merge`: an empty answer
keeps the cached rows, undated rows replace or keep, dated rows are united, the answer's winning, and
cut to the newest) and a row per key (`fresh`, `stale`, or `invalid` for `INVALIDATED_AT`), tasks that
have asked FMP and wait (`await`) or have merged and are about to write (`write`), the prune's
selection and the stored score. `Get` / `Take` are the three read-through functions, `Arrives` the
merge after the await, `Upsert` the write, `Raises` the failing call with the row it may
fall back on, `Refresh` / `RefreshFrozen` the endpoints, `Persist` what `compute_ticker_score` stores,
`ComputeCached` the recompute worker. The select before the merge runs on the session of the call. For
`get_or_fetch` and `get_or_fetch_earnings_aware` that session has held the row since before the await, so
SQLAlchemy's identity map answers with it as it was loaded (`loaded`); `force_fetch` keeps no reference and
really reads again. If the prune deletes the row meanwhile the select finds none, or the held instance when
SQLite gave the id to the row that followed (`Forgets`). Abstracted: one untracked ticker; an answer is fixed
when it is asked for; `clear_ticker_cache` is one step; one row per period; a ticker without a profile; the
fetches of one session follow each other, so none of them commits, and thereby expires what it holds, while
another waits.

**`FmpGate`**: `call[r]` is a coroutine in `get`, in the canary call that follows a 402, or in a
re-probe; `owed` is what the token bucket lacks to be full (`_tokens = Burst - owed / Period`),
`failures` and `pause` are the breaker, `chip`, `banner`, `master`, `enabled` the rows of
`core/data_groups.py`. `Attempt` is one round of `_send` from the breaker to the reservation of a
token, `Dispatch` the end of the sleep for it, `Retry` the end of the 429 backoff, `Answer` everything
up to the next await after an answer. What runs between two awaits is one step because the client
lives in the event loop of the API. Time is in ticks, and `Tick` does not pass a sleeper that is due.
Abstracted: answers are classes of statuses; a 402 of the canary symbol is possible only once the plan
does not cover the group; the group's switch, its tier and the plan's tier are one switch; one group,
without request variants; the five-second snapshot of `get_snapshot`, which is exact for the process
that writes; the pacing of cron scripts.

**`SharedBars`** is one ticker and one interval: `bars[s]` the cached bar of a session (its price basis
and whether it is final), `written` the row's newest `fetched_at`, `published`, `basis` and `plan` what
FMP serves, `job[j]` a fetch between its snapshot and its write. `AskFor` / `AskAgain` are the decision
what to ask and how far back, `Receive` the comparison with the cache as it is then, `Write` the batch's
store, `Unserved` an answer too thin to use, `PruneOldBars` the retention. Abstracted: a price is its
basis; batching inside a job; the sixty-minute bars of a session come and go together.

**`StatementRecheck`**: `rows[t][k]` is the newest row of a cached statement (`old`, `bad` or `good`),
`filed` the filing date of a bad row, `state[t]` the `RecheckState` row, `night` the job. `NextDay`,
`Scan` (select what is due within the budget), `Recheck`, `Answered` / `Fails`, `Settle`, `Abandon` (anything
else that raises in one ticker's recheck: the job goes on, and does not count the calls that were made), `Done`;
the normal pass and page views write the same statements; the job may die between any two. Abstracted: a
rule trips or not; the rows derived from a statement are refreshed elsewhere.

**`TickerHeader`** follows the reads of `get_summary` (`ReadProfile`, `ReadQuote`, `ReadPe`,
`ReadValuation`, `WriteRow`) with the nightly close (`FetchClose`, `UpsertClose`) landing among them.

**`StartupMigrations`**: each process is at a step of `init_db` (`startAt`) with what it read for it
(`startSeen`); `Boot`, `Look`, one action per migration, `Fail` for a failed statement or a kill.

### The nightly jobs

| module | state | actions |
|---|---|---|
| `CronHeartbeat` | `log` the CronRunLog rows, `alive` runs, `doneAt` when the work was last really done | `Start`, `End` in each of eight ways, `Hour` |
| `TrackedUniverse` | `viewed`, `added`, `protections`, `stored`, `delisted`; requests between two transactions (`opening`, `adding`), the wipe `pass` with what it read | `OpenPage`/`PageShown`, `AddChecked`/`AddCommitted`, `RemoveAdded`, `PassBegins`, `ApplyWipe`/`ApplyAdopt`/`ApplySkipped` |
| `WarrenReplay` | the counters of `state_machine.py` | `Candle` |
| `WarrenWatch` | the stored `row`, the replay up to the newest candle (`trade`) and the one before (`before`), the `job` between its read and commit | `NewCandle`, `Revise`, `ReadRow`, `Commit`, `Remove` |
| `WeinsteinStage` | the closes in the window, the stage | `Week` |
| `SignalRows` | a night's bars, the rows of the five jobs, the event log; of the replay, that near its window's start it takes a yellow arrow for a gray one, for longer than the write gate lasts | the jobs in their order, corrections, replaced series, skipped nights, sweeps |
| `OpportunityList` | the universe, the weekly lists | `BuildLists` |
| `OpportunityFlags` | flag rows, run rows, each process's run (`judging`) | `Begin`, `Look`, `Judge`, `Write`, `Close`, `Stop` |
| `OpportunityOutcomes` | one ticker's outcome rows per horizon, its bars, the `updater` | `NextDay`, read, price and commit, fail, forced rebuild |
| `OutcomeRun` | the three outcome tables, the runs under way, the log | one scheduled run and one by hand over the tables in turn |
| `Scorecard` | stored outcomes, the answer | `Answer` |
| `MarketBreadth`, `BoardSnapshots`, `EtfScreener` | the bars held, the stored rows | a night's fetch, gate and write; the backfill; the prune |
| `MoatCheck` | run folders, criteria version, rows | `Prepare`, `Pass` (external), `Save`, `Finish` |
| `Backups` | copies, temp files, the runs | copy, rename, prune, fail, hang, die |
| `PriceTargets` | dated rows, the cache row, the runs, the backfill | snapshot, backfill, tag, the tab |

### The computations

`Arithmetic` (half-way points, medians, and the trend pattern of a series, `scoring/trend.py`),
`FinancialsStep`, `ProfitabilityStep`, `DebtStep`, `ValuationMethod` and `TickerRow` (one score row with
the Growth Rate check) are operators over figures, given one input on either side of every limit;
`StatementView` is what the scorers read of the cached rows.

### What combines them for TLC

A behaviour of a combined module runs one part, chosen at the start; the other parts stay at their
initial states, so the state graph is the disjoint union of the parts' graphs and a run says of each
what a run of its own would. `MCMachines`: `CronHeartbeat`, `TrackedUniverse`, `WarrenWatch`,
`OpportunityFlags`, `OpportunityOutcomes` (extended), `WarrenReplay` and `WeinsteinStage` (instanced, over
constants `MCMachines` declares with their assumptions); all seven are proved about. `MCStoredRows`: `ScoreRows` and `StartupMigrations`
extended, `StatementCache` instanced. `MCRecovery`: `StatementCache` extended, `ScoreRows` instanced.
`MCStatementRecheck`: `StatementRecheck` extended, `Backups`, `PriceTargets`, `OutcomeRun`,
`TickerHeader`. `MCCards`: the five cards, a score row, a view, the lists, the scorecard, signals,
breadth, boards, the screener and the moat check, with the figures they are given; those of the Debt card,
of the screener and of the moat check are constants with assumptions (`DebtAssumption`, `ScreenerAssumption`,
`MoatAssumption`), as they are proved about.
`ScoreRecompute`, `FmpGate` and `SharedBars` are checked as they are.


## 3. Runs

| run | instance | what it shows |
|---|---|---|
| `slot` | `ScoreRecompute`: 2 callers, 2 pids, 2 runs, 1 ticker, no restart, symmetric | types, the refinement of `RunSlot`, and that only workers of closed runs are signalled. Two of everything is what a race needs; a reused pid and a third run would only repeat it. |
| `run_ends` | `ScoreRecompute`: 1 caller, 1 pid, 2 runs, 3 tickers with a report every 2, 1 API restart, fair | every run ends, a stopper stops its worker, a superseded worker scores at most `PROGRESS_EVERY` more tickers (3 tickers let it pass a report and go on) |
| `stored` | scores: 1 ticker, 2 coroutines, 1 job, 1 saver, 2 weight sets, 2 multipliers, no failing write. Statements: 2 coroutines, one history key of window 2, 1 publication, no switch, no cron process. Start: 2 processes, 3 starts, 2 days | types; a row stamped with the saved version has the saved inputs; a recompute uses the save that started it; the history gets shorter only by a call whose own copy of it was overtaken while it waited; a process that is up works on a migrated database; no start loses a pick, a view or a grace date |
| `recovers` | scores: 1 page, 1 job, 1 saver, 1 failure or restart. Statements: a history and a snapshot key, 1 page. Fair | a row that keeps being viewed ends on the saved weights; a Refresh whose calls fail keeps the last good score; a key that is asked for becomes fresh again |
| `fmp_gate` | `FmpGate`: 2 requests, threshold 2, 1 retry, 1 token per 2 ticks, longest wait 3, pause 4, fair | types, rate, pause, record of the groups; every call and every pause ends. The wait exceeds the refill period, so two calls can queue; the pause exceeds the wait, so its end matters. |
| `bars` | `SharedBars`: 1 job, look-backs 3 and 10, daily and hourly, sessions 0–12 without 9, days 10–11, tiers 3 / 10 / 18, plans 6 / 12, 1 restatement, fair | types, one price basis, a fetch never narrows or ratchets, the width once asked for is kept, provisional bars settle. The span can exceed the widest look-back, and the smaller plan serves so much less than the wider tier that the difference shows. |
| `recheck` | `StatementRecheck`: 1 ticker, 2 statements, 8 days, 2 calls a night, fair; beside it `Backups`, `PriceTargets`, `OutcomeRun`, `TickerHeader` with the constants in `MCStatementRecheck` | attempts bounded, a clean statement never replaced by one that trips a rule, flagged tickers are taken up; what each archive promises |
| `machines` | jobs that start 3 times in 3 hours; 2 tickers over 2 days with 1 idle day; 3 candles; 3 sessions judged by 2 runs, one by hand; horizons 1 and 3 with grace 1, 4 sessions, 6 days, 1 revised bar | a green light was earned, a wipe spares what was touched, stops hold, a removed trade stays away, every session judged is accounted for, outcomes keep up and settled ones stay |
| `cards` | one input on either side of every limit of every card, and the nights of `SignalRows`, `MarketBreadth`, `BoardSnapshots`, `EtfScreener`, `MoatCheck` | the promises of each card; the promises of each nightly table |
| `history_lost`, `added_wiped`, `row_not_kept` | as small as they fail | findings, section 6 |

Bounds: rows ever claimed (`MaxRuns`), starts, restarts, failed writes (`MaxFailures`), publications (`MaxEdition`), switches
(`MaxSwitches`), restatements (`MaxBasis`, `MaxRevisions`), mishaps, days and sessions are counters a run caps; each is named in
its module. `FmpGate` has none: its counts stop at the threshold from which the code does not tell them apart.
`CHECK_DEADLOCK FALSE` stands where a bounded system may stop: all runs claimed and ended, the last day over.

A property of a combined module that names a part (`part = "backups" => ...`) is about the behaviours that run it;
`NoRegression`, `WipeSparesTouched` and the others of an extended module hold of the rest because they leave its variables
alone. The three violated properties are stated as the code's comment or docstring states them.

Fairness, in the liveness runs only:
- *ScoreRecompute*: threads and processes that can run do, a quiet row is seen as quiet eventually, and the page that
  shows a run keeps polling its status, which is what reaps. Nothing is assumed of a ticker's scoring (it may hang), of new
  requests, or of an exit.
- *ScoreRows*: a page keeps being opened (strong: the loop is busy with other requests in between), a compute goes on, a
  five-second snapshot expires.
- *StatementCache*: a call returns (the client's 30 s timeout) and its task goes on; a key that keeps being asked for gets
  an answer sooner or later, as often as its group is live (strong).
- *FmpGate*: calls return (the same timeout), sleepers wake, time passes. Nothing is assumed of what FMP answers, nor of
  new calls.
- *SharedBars*: time passes, FMP publishes, the prune and the jobs with the widest window run each night, and FMP answers
  again and again.
- *StatementRecheck*: the nights go on, each with its scan, its calls' answers or failures, and its settling.

Every property of a passing run has a mutant in `PROJECT.json`, a change of a modelled definition as a plausible bug would
make it, which TLC finds to violate the property in the same instance.

## 4. Proofs

The theorems hold for every value of the constants that satisfies the named `ASSUME` of the module that declares them
(naturals where naturals are meant, disjoint sets, and the relations between settings listed below); TLC evaluates each
`ASSUME` on the instance of a run. Every component with a proof has one inductive invariant, and one lemma per action
that shows the action preserves it.

**`ScoreRecomputeProofs`** (`Bounds`)
- `TypeCorrect`.
- `OneRunningAlways`, `ImplementsSlot`, `StopsOnlyClosed` from `SlotInv`. `OneRunning` alone does not carry the refinement:
  callers, closing threads, workers and stoppers hold run numbers they read earlier, so `SlotInv` adds that these rows exist
  (`<= lastId`), that exactly the rows past `lastId` are empty, and that a stopper's run is over. `SlotStep` shows that each
  action is a step of `RunSlot` or leaves `state` and `lastId` alone.
- `SupersededWorkersStop`: what a worker has scored since it lost the slot is counted from its last report, at which it
  would have stopped: nothing while its run holds the slot, at most `processed % PROGRESS_EVERY` between two reports.

**`StoredRowsProofs`** (`Bounds`, `StartAssumption`)
- `TypeCorrect`, `WorkersUseTheSave`, `StampAlwaysHonest`. A save is alone with the weights row from its claim to its launch,
  because it holds the slot; snapshots, computes and rows are never newer than the weights row and equal to it at its
  version; the multiplier is the saved one unless a save is between its two commits. `StampAlwaysHonest` assumes that no
  write of a save fails half-way (`MaxFailures = 0`): with a failure it is false, section 6.
- `ServesMigrated`, `StartsLoseNothing`, for any number of processes and any tables and columns: a process has the steps
  before its own done, knows of the DDL and the weights all that was left when it looked, and nothing that is done is undone
  (`Onward`); the grace dates are given to all tickers at once.

**`StatementCacheProofs`**
- Lemmas on the merge: `NewestAreEnough` (the newest `n` of a set are at least `n`, or all of it), `MergeDatedKeeps`,
  `MergeKeeps` (a merge of a list with anything is no shorter than the list, up to the window).
- `TypeCorrect`; `OnlyOvertakenFetchesShorten`: with no cron process, at most one task is between its merge and its write,
  and what it writes is no shorter than the row there is, unless it merged with a copy that was overtaken. That the history
  never gets shorter at all is false (`history_lost`); this says that a stale copy is the only way, so clamped, empty and
  undated answers, refreshes, prunes and forced fetches lose nothing by themselves. The assumption is needed: a cron process
  can come between merge and write. Run `stored` checks the property on its instance.
- `RefreshKeepsScore`: until the group is switched, inputs that are missing were recorded as failed by the compute that
  misses them, so it does not replace the score; whatever other tasks and cron processes do.

**`FmpGateProofs`**: `TypeCorrect`, `FloodIsPaced`, `PauseDrains`, `RecordAlwaysHonest` from `GateInv`, which adds `Fits`, that
a call in the queue is still owed its token by the bucket (`timer + Room + Period <= owed`), hence a later reservation is due
a period later; the relation of the timers to the pause; and that canary and probe calls are never for foreign symbols.

**`SharedBarsProofs`**: `TypeCorrect`; `FetchesStayNarrow`, from two facts: the cache is never more than `MaxGap + 1` days behind,
and daily bars span at most retention, slack and a day, so that the width a fetch must preserve stays under the next tier;
`BasisIsOne == Spec /\ []NoOverlap => []OneBasis`: the series is contiguous and on one basis, an incremental answer that
agrees in the overlap is on the basis of everything it keeps, and a kept shorter answer reaches into the older bars.
`NoOverlap` (at most one fetch of a series between its snapshot and its write) is an assumption on schedules that the nightly
jobs, which run one after the other, satisfy and that two requests need not: see section 6. The assumption on constants holds
of the code's: tiers 30 … 1825, 3650, hour tiers … 730, widest look-backs 1825 and 730, retention 2190 and 1095, slack 10,
overlap 7.
`TiersAreKept` (`WidthKept`) from `Reaches`: a job asks for the widest tier it saw, and a full answer begins within an overlap of
what was asked for or of what the plan serves. It speaks of tiers: another look-back is snapped down (section 6).

**`JobsProofs`** (`RecheckAssumption`, and one assumption for each of the four other jobs, in `MCStatementRecheck`)
- Of the recheck: `TypeCorrect`; `RechecksAreBounded` (attempts are bounded by the nights up to the last recheck, and a ticker
  selected for tonight stays due until its own settling; calls counted and statements still to come are within the budget);
  `NeverRegresses` (the recheck never replaces a row it has read clean by one that trips a rule).
- `BackupsAreKept` from `BackupInv`. What may be deleted among some files may be deleted among more (`PrunableGrows`: weeks
  are counted by their last dates, and more files make no fewer of them), so what each prune dooms, by the files it saw, may be
  deleted among all there ever were. That the tiers are all that is left needs the prunes to be nested: of two under way
  one has seen what the other has, as far as it is still there, and what a prune has not seen is new or was seen by one that
  ended (`PrunesAreNested`). Names: every temp file in use is of a name that was taken and not finished.
- `TargetsAreTrue` from `TargetsInv`: a row is of the day it says and made as it says; what a run is about to write is no older
  than the day before its date, because the cache row is of its own half day (`PRICE_TARGET_STALENESS_DAYS` is 1, and the
  proof needs that); a reconstructed row is followed by none missing. The forward fill of the reconstruction is shown to carry
  each firm's last word (`CarriedIs`), and the nearest snapshot to move forward with the day (`NearestForward`).
- `OutcomeRunsAreTruthful` from `OutcomesInv`: a scheduled run that began since SPY's last session and is not partial has
  priced every table it is through with, over that session; so has the run whose date is in force; and the rows such a run
  has still to price are those of its table that are not current.
- `HeadersAgree` from `HeaderInv`: as long as no close landed in between, what a compute has read so far agrees with the close.
- `ArchivesAreKept`, `RecheckIsSafe`: the same of the specification that run `recheck` checks, where a behaviour is one part's.
  Two things TLC had not shown at its bounds came out of these proofs. A run of the outcome updater that began before the last
  session, and a failing run beside the rebuild of a list, leave rows behind that the next scheduled run skips
  (`SkippedTablesAreCurrent` names both). And a snapshot run that is days late can put the live consensus of its date in the
  place of a reconstructed row, so a month may be without a *reconstructed* row between two (`ReconstructionIsWhole`).

**`MachinesProofs`**
- `GreenIsEarned`: the finish that a closed success states is never later than the work that was last really done.
- `WipeIsRechecked`: a pass that is under way began today or earlier, so a view that is idle at the delete, which is when
  views and protections are read again, is idle by today's date.
- `FlagsAreAccountedFor`: each process's run row is its own and still open, the sessions up to where it starts are covered,
  hits are in the table once written.
- `StopsHold`, `RemovedTradesStayAway`: one candle moves the stop only up and below the close (`AdvanceIs`, from
  `CandleAssumption`, supports are below the close); a removed trade's cut is what the row remembers.
- `OutcomesKeepUp`, `SettledRowsStay`: the rows of a date are missing together or not at all, a row that is complete was
  priced with the sessions it is over, and the grace of a shorter horizon is over once a longer one completes. The last
  needs horizons further apart than the grace (`OutcomesAssumption`), true of 5, 10, 20, 60 with 3.
- `IndicatorsAreTrue`, of the specification run `machines` checks. The gray arrow: stops and triggers are counted together
  (`StopsNeedYellows`: a stop needs two triggers, a second stop a third, and the latch tells whether a trigger came
  between), for any levels, lows and counters that tell 4 from less (`ReplayAssumption`). The projection: totals are numbers, so an
  average cannot both rise and fall (`OneWay`); then, from any stage but Advance, a week enters Advance exactly if it
  confirms it, and likewise Decline (`EntersWhenConfirmed`); by induction over the horizon (`Climb`) the machine stays out
  of the pending stage up to the first week that confirms. It holds for every length, slope, band and horizon.
- `MachinesAreTyped`: every machine keeps its types; the runs of the flags need that a list used is older than its
  session, the trades that every rule's signal is of a candle there was (`ReplayedTyped`), the outcome rows that a priced
  row exits at its horizon (`OutcomeExit`).
- Recursion over a range of numbers (the total, the projected stages) is unfolded with `Climbing`: such a function
  exists; the prover has no induction over operators, but `Climb` states it over sets.

**`CardsProofs`** (`DebtAssumption`: whole amounts, no negative liabilities, weight sets in the bounds, order and sum of the
Settings page; `ScreenerAssumption`: some funds, two days or more; `MoatAssumption`: the words of a pass are the criteria's,
closes are positive)
- `BreachesAlwaysCount`, of the specification run `cards` checks; run and theorem differ in that the run has the figures on
  either side of every limit and three weight sets, the theorem all. `DebtInvHolds`: an answer is the one its path gives.
  A ratio that is in breach has 15 points at most (`GraduatedIs`), an excused one 50 at least (`MarginalIs`: more favourable
  signals than unfavourable). The order of the weights leaves debt 41 of 100 or more, so 15 points there, or on both other
  ratios, keep the blend below 69.5 of 100, with the debt servicing ratio in it or out of it (`BlendIs`), and a half-way
  score may be rounded either way (`NearestUnder`). The current ratio is excused only while under 1, debt only while the
  current ratio is 1 or more, and neither without a known debt servicing ratio, so they cannot vouch for each other.
- `ScreenerKeepsWhatItFound` (the conjunct `ScreenerHolds` of `CardsHold`), for any funds, answers, thresholds and nights. No
  date column is of a later day than its source was read (`RowFits`), so a column written again only moves on (`RowUpserted`);
  what has no column but a signal is not worth writing unless it has a row (`Counts`).
- `MoatRowsHold` (the conjunct `MoatHolds`), for any companies and judgements and any number of hours, runs and mishaps.
  A folder's block is of a company that was not refused; rows are numbered by their count and dated by an hour that never goes
  back, so each ticker has a newest (`RowAppended`), and two valid passes are reconciled to no more than either says
  (`Reconciled`). The one pass over the closes finds the deepest fall between any two of them (`ChartIs`), by induction along
  the closes (`Climb`); the fall from a higher peak is no less deep (`Monotone`).

Only model-checked:
- liveness (`RunsAndStoppersEnd`, `ScoreRowsCatchUp`, `StatementRowsRecover`, `CallsAndPausesEnd`, `BarsSettle`, `EpisodesKeepUp`):
  out of the prover's reach;
- `CardsHold`, but for its conjuncts `ScreenerHolds` and `MoatHolds`: what the other computations yield on the inputs
  enumerated.

## 5. What is not modelled

- *Authentication*, log rotation and the other prunes, the derived views (`chart_data.py` and its like recompute from caches
  what they show), scrapers, the frontend and the shell scripts.
- *Scoring*: Step 1's float engines are given by their answers; the cash conversion cycle's days, the price features of the
  opportunity lists and whether a view's rows landed are inputs; the median of an even number of line sizes in logarithms;
  Step 1 without a balance sheet.
- *Signals*: Weinstein with one moving average and the flat scenario; a signal's replay is known by what it mislabels, a
  yellow arrow as a gray one up to some session of its window; the jobs of one table run one at a time. How many wrong
  labels pass the gate is not modelled, only where (`WrongLabelsAreFromTheMargin`): the code measured 2-4 % of the events
  from day 181 to 300.
- *Nightly tables*: a breadth bar is its close, with two of the three averages; boards with months of equal length and
  without the 1-week and 1-month columns; the heatmap's
  upsert and its prune, two commits, are one step; ETF figures are the day they are of, and the ETF universe is never empty.
- *Moat check*: what the two passes find (they are made outside the program), a pass that is made again, and a pair that
  is saved again. *Backups*: one name per half day, free space a
  choice, removals that are to be quiet succeed. *Price targets*: a consensus is the day FMP gave it; the universe, the ETF
  filter and the rating counts are left out. *Outcome runs*: one name per list and table; the failed creation of a log row.
  *Header*: a quote always has a price, one share, one job at a time; the ETF path and the other tiles are left out.
- *Recheck*: the refresh of the rows derived from a statement, and the wording. *Start*: the unique index and the log line of
  the journal mode.

Abstractions inside a modelled component are in section 2 and in the header of its module.

## 6. Where the code differs from what is written about it

With a run:
1. `history_lost`: two coroutines that fetch one history key can leave it shorter. The row is selected again before the
   merge (`core/cache.py:77`), but on the session that has held it since before the await (172, 243), so the merge is with
   the older copy, against "the row as it is NOW (re-read here, not the copy a caller loaded before awaiting FMP)"
   (`core/cache.py:74`) and "the stored history is never shorter than before" (`core/history_merge.py:11`). With a second
   process even a real re-read would not do: the merge and the upsert are two transactions (line 46).
2. `added_wiped`: the wipe checks a ticker again with the added marks it read when the pass began, so one that was added
   since is wiped (`pipeline/wipe_untouched_tickers.py:156`), against "added is never one" (`data/tracked_universe.py:424-425`).
3. `row_not_kept`: an estimate that makes the growth rate a complex number raises a second time behind the next guard, and
   the ticker's whole row is not written (`data/ticker_score.py:116`), against "must not blow up this ticker's whole score
   row" (line 41).

Seen while modelling, without a run.

*Scores.* A worker's final write can put `done` over a `failed` row (`pipeline/score_recompute_job.py:52`). A recompute worker
that read a ticker's old moat overwrites the row that the moat change computed, and the stamp does not tell
(`core/main.py:1175` states the contrary). When the version bump fails the multiplier has been saved, although the reply says
it was not (`core/main.py:572`). A worker whose pid was never recorded is reaped but not stopped. A reader can store into the
process cache what it read before a save dropped it (five seconds of staleness). A save that takes longer than 120 s loses
the slot to the reaper.

*Statements, FMP.* A group switched off in the middle of a Refresh lets a degraded score be stored, because no tracker records
the refusal. An older answer of full length that lands late leaves no room for the newest quarter. The prune deletes rows
fetched again after it selected them. Calls that wait for a token when the breaker opens are sent during the pause
(`clients/fmp_client.py:360`; `PauseOnlyDrains` is what does hold), and when it ends all waiting requests are trials, not one.

*Shared bars.* Two overlapping fetches around a restatement splice the series: job 1 receives a full answer on the old
basis, FMP restates, job 2 stores the series on the new basis and asks an increment that agrees with it, job 1's answer is
stored, then job 2's. It stays spliced until the weekly forced resync, against the comment at `shared_bars_cache.py:399`. A
look-back of 1460 days, which is no tier, is snapped to 730 (`docs/specs/fmp-data-and-bar-cache.md:281`).

*Opportunities.* A run as of a past date, or one with nothing to do, stores SPY's date, so later nights skip sessions
(`opportunity_daily_data.py:21-23`, `docs/specs/opportunities.md:170`). A weekly list built late is never used for Monday.
The comment on partial runs in `opportunity_outcome_update.py` is false when an earlier run stored the date. A complete row of
a longer horizon is frozen while a shorter censored one is revived, so it can miss the stop (`docs/specs/opportunities.md:132`).
A `--force` rebuild during an update mixes the two. A targeted run's date makes the next scheduled one skip the other lists
until SPY has a new bar; so does, for the table it was through with, that of a run during which SPY gets one. The scorecard's cache is stale after a request during the update (`opportunity_scorecard_data.py:18-19`)
and after a forced rebuild (SQLite reuses the largest id). `get_run` reads its header and its rows in two SELECTs. Flags
survive a forced rebuild, so flagged may exceed eligible. `weekly_opportunity_snapshot.py` says that `--force` deletes pick
rows; `persist_run` never deletes any.

*Scoring.* The comment of `MethodSelection` in `step3.py` is false when cash flow is missing and net income then chosen.
`cfo_ttm` is projected negative when the TTM capex is missing. A spread of zero is scored as wide (`step2_data.py:261`,
`docs/specs/growth-rate.md:116-117`). The smoothed net income differs from the average that was checked when the TTM repeats
the fiscal year (`docs/specs/valuation.md:115-117`). "No moat reaches Pass only with four perfect scores"
(`docs/specs/overview.md:53-54`) is false; so is that a Growth Strong Pass needs tight agreement, from a Magnitude weight of
90 on. Debt is not monotone: a debt-to-equity of 3.9, unexcused, has fewer points than 4.1, severe; a raw current ratio of
0.95 adjusted to 2.5 scores 100, a raw one of 1.05 scores 70. Nor is the trend: 103 → 104 as the TTM of 200, 105, 100, 95, 99
turns a resolved dip (66) into multiple dips (40), and a full recovery from a deep double dip lowers 70 to 65. A bank without
a CET1 ratio reads "not supported" and is exempt. `docs/specs/profitability.md:26-31` is outdated: a negative latest ROE at
weight 15 gives 91, and both returns negative at weights that sum to 40 give 76. A positive conversion cycle that improves
past zero drops from 100 to 40. A ROE or ROIC of placeholders only scores 0 as if real. Receivables that grow less than 2
points faster each year for ten years can score 0. A gap in net income with operating income present and a failed gate
scores 0; the "latest" net income is that of the last year present. The comment at `step4_data.py:61-64` needs lists that share
their newest year. An annual row that is a placeholder and off in scale blanks its fourth quarter without a mark.

*Signals and boards.* An arrow's label in the event log is the one it had when it left the rewritable part of the replayed
window, with 180 days of context before it, and stays; the comment that events are "written insert-if-absent and never revised"
(`warren_signal_data.py:125`) is older than the reconciliation. A sweep across signals leaves a Warren row active without its date until the Warren sweep. A
reconciliation that is refused still overwrites the latest state. A trend recomputed on demand before the nightly run makes
`stage_changed` flip back. A Bollinger fire on a provisional session is never retracted. A prune of the last buy leaves the
score row until 03:25. The `should_advance` guard is never reached by bars one session old. A sector of one name without a bar
passes the gate by the floor rule, and then its row is refused. Momentum ranks a ticker it did not reach on its old price. A
heatmap fund some days behind shows a one-day return of 0. A screener row mixes sessions; "no profile cached" lets `/etf/info`'s
name replace a stored one; some columns may be written empty; an empty ETF universe would prune every row.

*Archives.* The moat check's save accepts one pass file twice, and passes of two runs; the same pair saved again is a second
row; a run over a day old is swept by
another's prepare. A backup whose prune finds a file gone is marked failed although its copy is good; one that is resumed
days later may prune its own file. After one failed commit of the price-target job the session is never rolled back, so every
later ticker fails (`nightly_price_target_snapshot.py:196` says the contrary); a group switched off in the middle records old
cached consensus under today's date; a ticker fetched a few seconds less than a day earlier gets yesterday's value; rows
backfilled on another date than the migration's are never tagged; a run late by days can overwrite a reconstructed row with
the live consensus. The header reads the last close twice, so the nightly job
landing in between leaves a row of two closes (`docs/specs/overview.md:335`); with the live quote off, the price is the close
and the market cap is not scaled to it; the header's shares and Step 3's can disagree (`helpers/shares.py`);
`overview.md:337-338` is outdated (`valuation.md:40`); one empty profile answer replaces a cached profile and reads "not found"
for 30 days.

*Start.* A second rebuild of the saved views turns an ETF view saved in between into a stock view; an old weight set that is
rescaled overwrites weights saved in between; a repeated ALTER or CREATE ends a start, and the next one goes on.

## 7. Plan

Done, in this order: the score recompute and its slot; score rows; the statement cache; the FMP gate; shared bars; the
nightly machines (cron health, tracked universe, Warren, Weinstein, flags, outcomes); the recheck; the archives; the
start; the cards and the nightly tables; and the proofs of section 4, those of the cards last.

Left:
1. Invariants of the other nightly tables of `MCCards`: signals, breadth, the boards.
2. Lemmas about the computations: which scores are monotone in which figure, and where they are not (section 6).
3. Authentication, if it is ever to be modelled: sessions and their expiry.
