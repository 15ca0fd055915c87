# Formal model of the screener / paper-trading system

TLA+ modules, TLC configurations and TLAPS proofs about this repository: a
TypeScript monorepo with an API server, a web UI and background workers that
scan NSE stocks, value them, send alerts and trade a *paper* (simulated) wallet.

The interesting code is not the arithmetic of the scanners. It is the handful of
places where several callers change the same rows with `await`s in between: the
paper wallet, the worker's schedule leadership, the auto-scan snapshot, the
once-a-day jobs, the position journals and the alert de-duplication. The
modules are about those.

## 1. Inventory

Paths are relative to the repository. `DA` is `packages/data-adapters/src`.

| Component | State | Operations | Hard part |
| --- | --- | --- | --- |
| **Paper wallet** (`DA/intraday-paper-trader.ts`, `DA/swing-paper-trader.ts`) | `paper_wallets`, `paper_positions`, `paper_orders`, `paper_ledger_entries`, arm flags | tick of each book (manage, then enter), close, partial, open, void (repair), archive/reset, arm | two ticks and API requests change one wallet; rows are found before the transaction that writes them; balances are written as absolute values |
| **Position trackers** (`packages/intraday`, `packages/swing`) | none (pure), but their output is written back as stop and evidence | walk candles, decide exit / stop move / partial | re-walk of a trade whose stop has already moved |
| **Worker scheduler** (`apps/worker/src/worker.ts`) | `isScheduleLeader`, intervals, job workers | refresh leadership, run a tick if leader, shutdown | several worker processes, ticks that overlap themselves, death without release |
| **Cache and locks** (`packages/cache/src/index.ts`) | Redis keys with TTL | acquire / release / renew a token lock, hold / release the leader key, counters | TTL expiry between two commands; Redis down |
| **Job queues** (`packages/jobs`, BullMQ) and **job rows** | pending / running / completed / failed | enqueue, process, progress | worker death leaves `running` |
| **Auto swing scan** (`DA/auto-swing-*.ts`, `packages/swing/src/incremental-scan.ts`) | snapshot in Redis and in the archive table, rotation offset | plan, execute, merge, persist, re-warm | check-then-create; stale re-warm; truncated refresh set |
| **Daily sync and other schedulers** (`DA/daily-sync.ts`, `fundamental-auto-scheduler.ts`, `swing-ta-prewarm.ts`) | run and step rows, lock keys | tick, run, step | once a day with a trigger, a tick and a crash |
| **Evening GTT, exit alerts, proof** (`DA/evening-gtt-signals.ts`, `open-position-exit-alerts.ts`, `strategy-daily-proof.ts`, `signal-alerts.ts`) | run rows, day marks, dedupe keys | look for the mark, build, send, mark | send before mark; marks shared by ticks and requests; a crash in between |
| **Journals** (`apps/api/src/services/*-positions.ts`) | the users' positions | create, edit, close, reopen, refresh with ratchet, overnight sweep | undo after a duplicate was created; a sweep beside a request; a ratchet fed by a bad tick |
| **Settings** (`DA/app-config.ts`) | one JSON object | patch | lost update |
| Screener and verify jobs, valuation and verification engines, TA and backtests, adapters, API routes, web UI, seeds | none shared, or I/O | | left out, see section 7 |

How they interact: the worker's intervals call the ticks when the process
believes it is the schedule leader; the ticks read the auto-scan snapshot, call
the trackers and write the paper wallet; the API calls the same wallet
functions on a user's request, without any leadership; alerts are sent from
within the ticks. Everything shared is in Postgres (READ COMMITTED) or Redis.

What would make each correct: *wallet*: balances equal the opening balance plus
what was realised, the reserve is the cost of the open rows, no order is filled
twice, cash is spent once, closed stays closed, caps and kill switch hold. *Leadership*:
one leader at a time, some leader eventually. *Locks*: a holder never deletes or
extends another's lock. *Auto scan*: scans go on, full ones too, and
every symbol is refreshed. *Daily jobs*: at most once, and eventually. *Journals*:
one open position per symbol. *Alerts*: not twice.

## 2. Plan

Done, in this order:

1. `PaperAccount`, `PaperWallet`: the shared wallet, at the level of
   transactions, and the account it implements.
2. `WorkerLease`: leader key, refresh, flag, shutdown, crash, Redis outage.
3. `LockedRun`: a job under a token lock, with the scheduled LTG scan's double
   check.
4. `AutoScan`: when a swing scan starts, its job and job row, the snapshot in
   Redis and in the archive.
5. `DailyJobs`: the five once-a-day jobs, their marks, rows and dedupe keys.
6. `PaperExit`: one intraday paper position through a session, with the candle
   walk and the backtest it is to agree with.
7. `SwingTrail`: the live refresh of a swing position and the two books that
   store what it computes.
8. `IntradayJournal`: the users' intraday positions and the overnight sweep.

9. Proofs (section 6): every safety invariant and action property that a passing
   run checks, and the refinement of `PaperAccount`.

Left, in this order:

10. `RefreshSet`: the symbols of an incremental scan and the rotation through the
    universe.
11. `ConfigReload`: the settings object and its reload in each process.

Every module takes its parameters as CONSTANTS with named assumptions, has one
action per operation and no RECURSIVE operator, so that a `_proofs` module can
extend it.

## 3. Modules

### PaperWallet

One user's wallet and any number of callers. An operation of the code has the
form

    find rows  ->  transaction { read the wallet;  write rows and new balances }

and each arrow is an `await`. The model gives each arrow an action: `CloseFind`,
`CloseRead`, `CloseWrite`, and likewise `Partial*`, `Open*`, `Void*`, and
`ArchiveFind`, `ArchiveDisarm`, `ArchiveReset` for the archive with wallet
reset. What a caller has read lives in its record `loc[c]`: the row it found
(`row`), the wallet it read in the transaction (`w`), the target and the share
count of a partial. `Fail` is a rolled-back transaction or an exception: it ends
the tick, except around an intraday entry, where the code catches it.

| TLA+ | code |
| --- | --- |
| `wallet` | `paper_wallets`: cash, reserved, realised P&L |
| `pos` | `paper_positions`, only the columns that matter: status, order key, open and original quantity, P&L, T1/T2 flags, day of close, kind of exit mark |
| `orders` | `client_order_id`s, unique per user |
| `ledgerPnl` | sum of the ledger's P&L rows since the last funding or reset |
| `armed` | `auto_armed` and the setting `swing_paper_auto:<user>` |
| `TickBegin(c, s)` | `tickPaperUser`, `tickSwingPaperUser` up to the arm check |
| `CloseFind ... CloseWrite` | `closePaperPosition` |
| `PartialFind ... PartialWrite`, `Refind` | `bookPaperPartial`; `Refind` is its call of `closePaperPosition` when a sale would empty the row |
| `OpenFind ... OpenWrite` | `openFromSignal`, `openSwingPaperCandidate` with `canOpenPaperTrade` |
| `VoidFind ... VoidWrite` | `repairScaleMismatchedPaperCloses` |
| `Archive*` | `archiveSwingPaperPeriod` with `reset_wallet` |

Data kept: share counts exactly, with `sharesForPartialWeight` and the partial
weights; money as whole units, an entry at `Price` per share, a sale with a
result per share taken from `Moves` (fees and slippage included). A row's
`reservedCash` is always entry price times open quantity in the code, so it is
the derived `Held(row)`. Heat, sector caps and stop sizing can only refuse an
entry, so they are in the choice of entries. A close's mark is "compatible" or
"edge": inside the 20% band by less than the exit slippage.

`Spec` lets callers interleave at every `await`. `SerialSpec` is the same system
when one operation runs at a time (ticks and requests still alternate): it says
what the code's arithmetic promises when its operations do not overlap. The code
has no lock that enforces this. The Redis lock of the swing tick covers swing
ticks only.

### PaperAccount

What the wallet promises: an account with atomic `Fund`, `Enter`, `Sell`,
`Adjust` and `Reset` events. `PaperWallet` instantiates it (`Account`) with the
wallet's balances and `held <- [p |-> Held(pos[p])]`, and `AccountSpec` is
checked of `SerialSpec`: every step of every operation is one event or invisible.

### WorkerLease

The worker processes, the key `sv:worker:leader` with the time it has left, and
each process's `isScheduleLeader`. `tryHoldWorkerLeader` is two commands and a
reply, and the interval does not wait for the refresh before it:

| TLA+ | code |
| --- | --- |
| `leader`, `isScheduleLeader`, `up` | the key, the flag of `worker.ts`, the process |
| `call[w][s]`, `since` | how far each refresh in flight is; time since the last one began |
| `Boot`, `Start` | the awaited first refresh of `main`; the interval |
| `Get`, `Expire`, `SetNx`, `Answer` | the commands of `tryHoldWorkerLeader`, and its answer being stored |
| `Throw` | its `catch`: the worker takes itself for the leader |
| `Stop`, `Release`, `Exit`, `Crash` | SIGTERM, `releaseWorkerLeader`, exit, death |
| `Clock` | time: the TTL runs down |
| `calm` | history: time since a command threw or a worker booted |

`Throw` may happen at any time and to one worker only: the cache package shares
one Redis client per process, and the first cache call that fails closes it
under all others. A worker that has been asked to stop is not counted as a
leader (its intervals do run until it exits; exit is not delayed by them).

`Spec` puts no bound on delays. In `TimelySpec` time does not pass while a
refresh is late: one that is due starts, one in flight ends within `Latency`.

### LockedRun

Jobs under one lock of `acquireCacheLock` / `releaseCacheLock`. *Starts* take the
lock, run and release (`tickSwingPaperTrade`, `prewarmSwingTaCache`, a user's
`startFundamentalAutoScan`); *ticks* (`tickFundamentalAutoScan`) first look
whether the snapshot is due, and look again when they have the lock. A job may
throw, the process may die, and each Redis command may fail, with the answer the
code gives then: the lock counts as not acquired (though the key may be set), a
snapshot as missing, a save or release is skipped. A fresh token for every call
is the caller's name: a call is not over before its token can matter again, so
no second token of the same caller is ever alive. The snapshot is its age, up to
the interval. Jobs may outlive the lock, which nothing renews; the history
variable `overran` says that one has.

### AutoScan

The worker's tick, and a user's request, look at the job rows and at the
snapshot, make a plan and create a job row; BullMQ gives the job to a worker,
which scans, saves a snapshot in Redis and archives it; whoever reads a snapshot
and finds none in Redis puts the newest archived one back.

| TLA+ | code |
| --- | --- |
| `redis`, `archive` | the snapshot key; the newest `swing_auto_snapshot_archive` row |
| `job`, `orphans` | the jobs with their rows; whether rows are left that no job belongs to |
| `Plan`, `PlanHidden`, `Force` | `tickSwingAutoScan` and `triggerSwingAutoScan` up to the plan; `PlanHidden` when a user's own scan hides the radar scan from `hasActiveAutoScanJob` |
| `Create`, `CreateOnly` | row and enqueue; the row without the enqueue |
| `Start`, `Save`, `Archive`, `Finish` | `processSwingScanJob`, `executeAutoScanPlan`, `persistSnapshot` |
| `Miss`, `Warm` | `getSwingAutoSnapshotDurable` |
| `Throw`, `Crash`, `Abandon` | the worker's `catch` with BullMQ's second attempt, redelivery, and a job that ends without its row being written |
| `SaveFails`, `ArchiveFails`, `Blind`, `Evict` | Redis and the archive failing |

A snapshot is its two ages (saved, last full scan, each up to its interval) and
`whole`: whether what was recorded as the last full scan was over the universe.
It need not be: an incremental plan that finds no snapshot when it runs takes
the branch of a full scan with the symbols of the plan. Which attempt of a job
fails is left open, a changed regime and an empty list of hits are the choice
of a full plan at any time.

### DailyJobs

The daily sync, the morning prewarm, the evening digest, the exit alerts of open
positions and the strategy proof have one shape: a tick fires every minute,
looks for a mark of today, and runs the job when the minute is one of the two
after its cron time; the API runs the same functions on request. The module has
the shape once, and the five jobs where they differ.

| TLA+ | code |
| --- | --- |
| `now`, `Due`, `Midnight` | the minute of the day in the job's time zone; `isDailyCronDue`; the change of `dateKeyInTimezone` |
| `day`, `Weekend`, `Muted` | the phase `weekend` of `nseSession`, which the digest's tick, the exit alerts and the proof return at (the last two unless `skip_weekends` is off for them: `WeekdayJobs`); no SMTP, or exit alerts switched off. Such a return leaves no mark |
| `mark`, `rows` | the row of a finished sync, the Redis marks (`prewarm:last`, ...), the digest's run row; `strategy_daily_runs` |
| `orphan` | a sync row left `running` by a process that died |
| `keys`, `sent` | the dedupe keys of the day; what was delivered |
| `Tick`, `Ask`, `Recheck`, `Begin` | the tick's look, a request, the function's own look, the row or mark it starts with |
| `SyncSteps`, `SyncDone`, `Warmed` | `runStep`, the end of `executeDailySyncJob`, and its last step, which writes the prewarm's mark too |
| `Build`, `Check`, `Send`, `SetKey`, `Mark` | an alerting run: build, then per channel key, message, key; then the mark |
| `ProofRow` | one strategy of `runStrategyDailyProofBatch` |
| `Throw`, `Crash`, `Clock(gap)` | a failure in a run, a process that dies, a window that no tick fell into |

The weekend is that of the jobs' own date: `nseSession` reads IST, and all cron entries
of config/schedules.yaml do. A switch or the SMTP settings do not change while the
model runs; whether the next day is a weekend is free (`Midnight`).
Every message of a channel is one item, a day's run of five symbols or fifty
alike. `own` says that a run began today; one that crosses midnight works with
yesterday's keys. `looked`, `after` and `excuses` are history: which jobs had a
tick, which ran at their hour, and what of the day was out of order.

### PaperExit

One position from its entry to its close. Prices are the five levels of a plan
(stop, entry, T1, T2, T3); a print extends the bar in progress or opens the next
one, so a tick sees half a bar. The worker's tick and requests interleave at
each `await`. The chart is the five-day one the code fetches
(`intraday-chart.ts:132`): it starts with the bars of earlier days (`Charts`),
some of them labelled past the time stop.

| TLA+ | code |
| --- | --- |
| `bars`, `late` | the chart, each bar with its low, its high, whether its label is past `TIME_STOP_MIN` and whether it is the session's; the clock past `TIME_STOP_MIN` |
| `Forward`, `WalkBar`, `Walk` | `forwardBarsSinceEntry` with its fallback to all bars (line 45), `walkIntradayPositionActions` |
| `SimBar`, `Sim` | `simulateScaledTrade` |
| `TickBegin`, `Manage`, `Flatten` | `tickPaperUser`, `manageOpenPositions`, the force-close |
| `PartialFind`, `PartialWrite`, `CloseFind`, `CloseWrite` | `bookPaperPartial`, `closePaperPosition` |
| `Enter` | `openFromSignal`; `from` is the first bar a walk will look at, which depends on time frame and data delay |

`run` is history: whether the price has reached T1 and come back since.

### SwingTrail

One open swing position whose refreshes overlap. `Refresh` is `refreshPosition`
with the rules X1, X2 and X6 of `evaluateExit`: high-water mark, active stop,
trailing stop, the stored trail capped. Prices are integers around an entry of
10000, percentages in hundredths of a percent, so all thresholds are the code's.
The journal stores by `trailRatchetFields` (`Ratchet`, `PersistTrail`), the paper
book by `manageSwingPaperPositions` (`Manage`, `UpdateStop`, `FindPartial`,
`BookPartial`, `CloseRow`). Users close, reopen, edit and delete journal rows;
a ratchet that finds its row deleted throws. A chart is what is outside of the row: a quote, which
is the last price or a bad tick that never traded, the daily bars (which may lag),
the EMA trail, the plan's hard stop, the structural stop and the regime. `other`
stands for the exit rules that are not modelled. `traded` is the highest price since
the open of the entry day, for `maxBarHighSinceEntry` takes that day's bar whole; it
and `clash` are history. `Early` names the peaks at which the EMA trails though the
trail is not armed: half of a target under 5% is less than the 2.5% that arm it.

### IntradayJournal

The rows of one user and one instrument. `AddFind`/`AddWrite`,
`EditFind`/`EditWrite`, `CloseFind`/`CloseWrite`, `ReopenFind`/`ReopenWrite` are
the requests, each a look and a write; `SweepFind`, `SweepWrite`, `SweepDies` are
`flattenOvernightIntradayJournal` with an `await` before each row; `UndoExpires`
ends the five minutes in which a close can be undone, `Midnight` the session. An edit
names an entry, a stop, both or neither (`Keep`), and its write stores what it names.
`torn` is history: the rows that two edits, and the sessions that two adds, had in hand
at once, each between its look and its write; nothing in the code keeps them apart.

### MC modules, proof modules

The `MC` modules hold the instances for TLC; `PaperWallet_proofs` and
`PaperWalletSerial_proofs`, `WorkerLease_proofs`, `LockedRun_proofs`,
`DailyJobs_proofs`, `PaperExit_proofs`, `SwingTrail_proofs` and
`IntradayJournal_proofs` the theorems (section 6).

## 4. Runs

| Run | Question | Bounds and why they suffice |
| --- | --- | --- |
| `wallet_races` | Can two overlapping callers open one order twice, or corrupt a row they hold a stale copy of? | two callers, two rows, two order ids: a race needs two operations, one order each, or two of one; 3 shares sell as 2 and leave a runner |
| `wallet_serial` | Do the operations, one at a time, implement the account? | two intraday/swing instruments, two days, closes at a gain and at a loss |
| `lease_timely` | Is there one leader, does a leader keep its lease, and does leadership settle, when refreshes are on time? | two workers: one that leads, one that takes over or still believes. TTL 5 is the least that the assumption `Refresh + 2 * Latency < LeaderTTL` allows for 2 and 1; one less breaks the run. Any number of workers is proved |
| `lease_late` | What survives refreshes of any length? | two workers; several refreshes of one worker in flight are covered by the proof |
| `locked` | One job at a time, no scan that is not due, no stolen lock, no end of scans? | two ticks and two starts; the lock outlives the interval, as 3600 s and 900 s do |
| `autoscan` | Do scans go on, whatever failed before? | two callers and a reader around one job at a time |
| `autoscan_overlap` | Do full scans come again when two scans overlap? | one caller, two jobs; a full scan is due after two intervals, in between there is room for one incremental scan |
| `daily_jobs` | Is each job done once a day, at its hour, and is what is marked done whole? | two ticks and a request, two runs at once; a window of two minutes with minutes before and after it; two strategies; each job by itself, and sync with prewarm, which share a mark; weekdays and weekends in any order, exit alerts that keep to the weekdays, a proof that does not (`WeekdayJobs`; any choice is proved), alerts switched on and off |
| `paper_exit` | Does the walk decide as the backtest does, does the stop only tighten, is nothing booked that no bar reached? | every sequence of three prints, each in the bar in progress or a new one, after an opening at the entry of a long: T1, T2 and a return, and for a short its entry, T1 and T2 or a return; an earlier day that went through T1 and T2; 1 share (a partial has to become a close) and 10 (7, 2 and a runner); a worker's tick and one request |
| `paper_exit_runner` | a statement of the documents the code does not keep (section 5) | smallest instance that shows it |
| `swing_trail` | Does anything a refresh has stored distort a later one? | two overlapping refreshes; prices at the entry, above cost-to-cost, at a peak of 2.4% and over T2, a bad tick above all, an entry day that has seen each of them before the entry; a target of 4%, whose EMA trail starts early, under cost-to-cost, and one of 8.25%, to which a user may change the first (`Edits`; any are proved); the regime with the tightest trail, where a stored floor can force an exit that the price alone would not |
| `journal` | Do stops stay protective, rows single and sessions closed? | one request and one sweep at a time, overlapping; two rows, two sessions, two entries and stops on both sides of each. Two requests at once are beyond TLC (over 27 million states searched to a depth of 19 without a violation); the theorems are for any number |

Bounds: `MaxPos` (rows ever created) and `MaxDay` of `PaperWallet`, `Calls`
(refreshes in flight) of `WorkerLease`, `Jobs` (jobs not yet over) of `AutoScan`,
`MaxRuns` (runs in flight) of `DailyJobs`, `MaxPrints` of
`PaperExit`, `Rows` and `LastDay` of `IntradayJournal` are guards,
named in their modules. Clocks saturate where nothing tells larger values apart.
Callers of the wallet, ticks of `DailyJobs` and refreshes of `SwingTrail` are
symmetric, which is sound as no liveness is checked there; the other runs use no
symmetry.
`PaperExit`, `SwingTrail` and `IntradayJournal` may stop (a closed row, a used-up
session), so their runs do not check for deadlock.

### Fairness

* Redis and the clock: a command that was sent is answered or throws, time
  passes. (`WF` of `Refreshing`, of each call's step, of `Clock`.)
* Intervals: `setInterval` calls the refresh and the tick again and again (`WF`
  of `Start` in `Refreshing`, of `Begin` for ticks). Users' starts have none.
* A process that ended is started again (`WF` of `Boot`): docker-compose says
  `restart: unless-stopped`.
* A shutdown ends (`WF` of `Ending`).
* BullMQ delivers a job, and its worker works it off (`WF` of `Work`).
* Failures are not fair. The liveness properties have the premise `Quiet`: from
  some moment on no command throws and no process dies. Where a failure can have
  the effect of a regular step (a refused caller and one whose acquire throws
  both go away), `Quiet` says that every step is also a regular one: forbidding
  the effect would forbid the regular step and make the premise false.
* `NoOrphans` is a second premise of `ScansGoOn` and `FullScansGoOn`: a job row
  that nobody will finish counts as a scan under way for ever (section 5).
* The journal's sweep: the worker ticks again and again (`WF` of `SweepFind`), and
  no row is always the one before which a sweep dies (`SF` of `SweepWrite(r)`).
  A weak fairness would not do: a sweep that keeps failing on its first row is
  never continuously about to write the second.

The wallet and the exits have no liveness property: their progress depends on
market data. What `DailyJobs` says of days that end well is a safety property of
the last minute of the day (`DayIsServed`, `RunsAtItsHour`), as the code's windows
are.

What holds, and what it says:

* `OneRowPerOrder`: the lookup of the order id is a race, the unique index is
  what decides it.
* `T2NeedsT1`, `OpenHasShares`, `ClosedIsFinal`: partials and closes computed
  from stale rows can repeat work (that is why `Reconciled` is *not* claimed of
  `Spec`: two overlapping closes credit the wallet twice, or one credit is lost)
  but never produce a row that is open and empty, or open again.
* `Reconciled`, `ReservedBacked`, `LedgerExplains`, `OneOpenPerInstrument`,
  `AccountSpec`: hold when operations do not overlap.
* `OneLeader`: with refreshes on time there is one leader once
  `2 * Refresh + Latency` have passed without a throw or a boot. One interval is
  not enough: a worker that failed open may, at its next refresh, read its *own*
  old key just before it expires, and extend the key somebody else then takes.
* `LeaseIsKept`: a leader that owns the key is not replaced while it runs.
* `KeyIsNotStolen`, `LockIsNotStolen`: hold whatever the delays.
* `SomeLeader`, `StableLeader`, `ScansAgain`: no crash or lost answer leaves the
  schedule or the scan without anyone for good.
* `ScansGoOn`, `FullScansGoOn`: evictions, late re-warms of an old snapshot,
  overlapping scans and full scans that were none delay the next scan or bring
  it forward, but never end the series. The snapshot *can* go back in time (a
  late `Warm`, or the older of two overlapping scans saving last); no property
  claims that it does not.
* `OneAtATime` and `ScanOnlyWhenDue` are claimed until a job outlives its lock
  (55 s for the swing tick, an hour for the LTG scan); the code does not enforce
  that, and beyond it jobs do overlap.
* `ScanOnlyWhenDue`: the second look is needed. A tick that cannot read the
  snapshot scans anyway, and is exempt.
* `OncePerDay`: a mail or message goes out twice only after a failure, from two
  runs that overlapped, or on request; a request cannot repeat the digest's
  WhatsApp message.
* `SyncsOverlapInOneMinute`: look and create are not atomic, so two syncs can run,
  but only if both began within the minute of their looks.
* `DoneProofIsWhole`: also after crashes, retries and midnight, a finished proof
  has a row for each strategy, unless a request named a few.
* `DayIsServed`, `RunsAtItsHour`: the two-minute window, the marks and the
  midnight reset lose no day on which nothing failed, and a job that rests, at the
  weekend or switched off, rests the whole day. `RunsAtItsHour` leaves out the prewarm
  on a day with a sync, `DayIsServed` a sync whose row was left running (section 5).
  A job whose run failed is *not* made up later in the day, except inside its window.
* `WalkAgreesUntilT1`: up to the booking of T1, a walk over half-formed bars decides
  as the backtest does over whole ones. After T1 it does not (`paper_exit_runner`).
* `StopOnlyTightens`: also when partials are written from stale rows.
* `BookedWasReached`: a target is booked only if a bar that counts for the row
  reached it: one of the session from 15 minutes before the entry on. If the chart
  had none of those at the entry, any of the five days counts (section 5).
* `VerdictForgets`: with bars at hand, a verdict on a real price is what it would be
  with nothing stored. A bad tick is forgotten, and so is a genuine floor. Where the
  EMA trails early a stored floor does force an exit, bad tick or not, but never above
  the trail that the high-water mark justifies.
* `StopFitsPeak`: however ticks and partials overlap, the paper stop belongs to the
  high-water mark beside it, unless the EMA trails early (section 5).
* `EvidenceKeepsPartials`: without overlap no update loses the record of a partial.
* `HighWaterHeals`: a refresh with bars and a real quote brings a wrong mark down to
  what traded from the open of the entry day on, which may be more than since the entry.
* `StopIsProtective`, `MovedStopTightens`, `SecondRowIsUndone`: whatever overlaps, but
  for what is `torn`: a row that two edits had in hand at once, a session that two adds
  had. There all three can fail (section 5).
* `OvernightIsFlattened`: whatever is reopened and however often the sweep dies.

## 5. Disagreements between documents and code

One has a run. `paper_exit_runner`: after T1 the stop is the entry price, and the
next tick walks again from the entry bar, which touches it. The runner is closed
one tick after T1 with the price still beyond it, where the documents let it run
to T2 and T3, and the backtest does. PROJECT.json quotes the lines.

The others were met while modelling; the models do what the code does.

Paper wallet (`PaperWallet`):

* The cash re-check inside the transaction (`intraday-paper-trader.ts:761`) is not
  enough: under READ COMMITTED two overlapping fills may read the same cash, pass
  it both, and write the same absolute balance. The cash is spent twice and the
  first cost is lost. Nothing is claimed of the balances when operations overlap.
* The position cap is counted before the transaction
  (`intraday-paper-trader.ts:678`), so overlapping entries of the two books exceed
  it; docs/SWING-IMPROVEMENTS-COMPLETED.md:42 states one cap.
* The flat book a reset requires (`swing-paper-trader.ts:366`, comment) is looked
  for two writes before the reset (line 460); an entry in between loses its reserve.
* The daily loss kill sums by the session a row was opened in
  (`intraday-paper-trader.ts:665`); docs/INTRADAY-PAPER.md:15 speaks of the day's
  realised P&L.
* A close is judged by its mark and the repair by the stored fill price, so a close
  at the edge of the 20% band may be voided (`VoidFind`).
* A wallet that is disarmed is skipped by the 14:30 force-close
  (docs/INTRADAY-PAPER.md:47).
* `POST` of a manual swing tick takes no lock (`server.ts:1479`) and may overlap the
  worker's: its stale row is written over a partial's stop and evidence, which
  counts the entry fees of that partial again at the close.

Schedules (`AutoScan`, `WorkerLease`, `DailyJobs`):

* A job row that was created and never enqueued, or whose worker died for good,
  stops all scheduled scans (`auto-swing-scheduler.ts:104`; docs/SWING-AUTO.md:38:
  every 5 minutes when due).
* Every worker whose Redis command throws takes itself for the schedule leader
  (`Throw`), while docs/PRODUCTION-DEPLOYMENT.md speaks of a single holder.
* The 06:00 sync ends with the prewarm and writes its mark, so the prewarm of 08:45
  "before open" (config/schedules.yaml:84) does not happen on a day with a sync
  (`morning-prewarm.ts:66`).
* A forced run before the hour writes the day's mark, and the scheduled run is
  skipped; overlapping exit-alert runs mail twice (comment at
  `open-position-exit-alerts.ts:283`); a proof that died after its first good row
  counts as done; a sync that ends after midnight counts for the new day.

Intraday exits (`PaperExit`):

* "Bars from entry bar onward" (`position-tracker.ts:28`) are all five days' bars
  when the chart has none from 15 minutes before the entry on (line 45), as when
  its data is late. A target an earlier day went through is then booked, a stop it
  went through closes the row, and as every full earlier day has bars labelled past
  14:30, such a walk never holds.

Swing positions (`SwingTrail`):

* The stored trail never holds an exit where today's chart justifies less, for it
  is capped at the trail from the high-water mark: in a bear market's end the trail
  widens from 1.8% to 2.5%. docs/SWING-POSITIONS.md:43 calls it a floor that only
  moves up, and `position-tracker.ts:167` says that a genuine trail never loosens.
  The *column* only moves up, and only while refreshes do not overlap.
* For a target under 5% the EMA trail starts before the trail is armed at a peak of
  2.5%. Both books can have one: the journal takes any target (`schemas.ts:99`, 114),
  and a paper row pairs a live entry with the target of an older snapshot, refused
  only at or under the entry (`swing-paper-trader.ts:692`). There the stored floor
  counts without a check against the armed trail: at a peak of 2.49% in a bear market,
  a target of 4.5% and a trail stored from a bad tick, the price 10050 is an exit at
  10064 that a row without the stored trail would not have. And the stop the paper
  book stores is then the EMA trail, be it under cost-to-cost (X1 still exits there;
  docs/SWING-POSITIONS.md:290: "trail floored at CTC / profit-lock").
* "High-water mark since entry" (`position-tracker.ts:38`) includes what the entry day
  traded before the entry: a row opened 3% under the day's high has its profit lock at
  once, and X1 asks for the exit at the first refresh.
* A journal row deleted while a refresh is under way makes the ratchet's update
  throw (`swing-auto.ts:260`), and with it the refresh of all other rows.
* The stop the paper book stores may fall below the entry after T1 was booked, when
  the bars do not confirm the quote that booked it.

Journal (`IntradayJournal`):

* A `PATCH` with `stop_loss: null` clears a stop, and the next one may be looser
  than the one before (`intraday-positions.ts:265`: never loosen).
* Two edits of a row that overlap are each judged on what the other has not written:
  an entry and a stop that each fit the old row may leave the stop on the wrong side, and
  the looser of two stops may be written last. Two adds that overlap both find no open
  row and make two (`intraday-positions.ts:196`; there is no unique index).
* Editing the entry does not judge the targets again; a reopened row may be the
  second open one of its session; a close that overlaps the sweep is overwritten.

## 6. Proofs

`PaperWallet_proofs` proves of `Spec`, for any sets of callers, instruments,
order sizes and results, and any bounds:

* `TypeCorrect`: `[]TypeOK`;
* `TargetsInOrder`: `[]T2NeedsT1`;
* `OpenRowsHaveShares`: `[]OpenHasShares`;
* `OrdersAreUnique`: `[]OneRowPerOrder`;
* `ClosedRowsStayClosed`: `ClosedIsFinal`.

`TypeOK` is not inductive: a partial writes `l.row.qty - l.sell`, and only the
knowledge that the stale row had more shares than are sold keeps this a natural
number. The inductive invariant is

    RaceInv == TypeOK /\ RowSound(rows) /\ LocSound(callers) /\ OneRowPerOrder

with `RowSound` (an open row has shares, at most its original ones; T2 implies
T1) said of the stored rows, and `LocSound` the same of the copies callers hold,
plus: a pending entry is an unused row, a pending partial sells fewer shares
than its copy has. The proof has one step per action (`CallerStep`, `FindStep`,
`WriteStep`), lemmas for the arithmetic (`SharesForBounds`, `CreditType`), and
`RaceStep` puts them together. The assumptions used are `BooksAreSound` and
`AmountsAreNumbers`, evaluated by TLC in every run.

`PaperWalletSerial_proofs`, of `SerialSpec` (the operations of one user's books
one after the other, while ticks begin and end, flags flip and days pass):

* `BooksReconcile` (`Reconciled`), `ReserveIsBacked` (`ReservedBacked`),
  `LedgerIsComplete` (`LedgerExplains`), `NoSecondOpen` (`OneOpenPerInstrument`);
* `WalletIsAnAccount`: `SerialSpec => AccountSpec`, the refinement. The initial
  states map by `InitMaps`; `StepMaps` takes each write of the wallet to the
  fill, sale, void or reset of the account it is, every other step to a stutter.

The balances are not inductive: a write uses copies of the row and of the wallet
made steps before it. `SerialInv` adds to `RaceInv` that at most one caller is
inside an operation (`OneBusy`), that its copies are true (`FreshLoc`), and that
closed rows hold no shares (`BookSound`). The reserve is a sum over the rows, by
the library's fold; its laws (it exists, it does not depend on the order, one
row can be taken out or changed: `SumIsAdditive`, `SumSplit`, `SumAgrees`) are
proved from a minimal counterexample, since `StrictSubsetOrdering` of a finite
set is well-founded.

`WorkerLease_proofs`, for any number of workers and refreshes in flight:

* `LeaseTypeCorrect` and `OnlyOwnersRelease` (`KeyIsNotStolen`) of `Spec`;
* `OneLeaderAtATime` (`OneLeader`) and `LeadersKeepTheirLease` (`LeaseIsKept`) of
  `TimelySpec`, from `RefreshFits`.

`OneLeader` speaks of the flags, which say nothing about the key by themselves.
The inductive invariant `LeaseInv` says of each worker `Sound(w)`: `Alone` (one
refresh at a time when they are on time), `Backed` (a flag set by a lease, or a
refresh that has found its key, has a key with enough time left for the refresh
to reach it) and `Seen` (a worker that leads without the key has not refreshed
since, so `calm` is still small). One lemma per action that moves the key or the
flag (`GetSound`, `ExpireSound`, ...) puts each part back.

`LockedRun_proofs`, for any number of calls:

* `RunTypeCorrect`, `OnlyHoldersRelease` (`LockIsNotStolen`), `OneRunAtATime`
  (`OneAtATime`) and `ScansAreDue` (`ScanOnlyWhenDue`), all of `Spec`. `RunInv`
  says that until a job has overrun whoever is inside owns the lock, and a tick that could
  read the snapshot runs only while it is due; a save that would end that is
  made from inside, so by the tick itself.

`DailyJobs_proofs`, for any number of ticks and requests in flight, any plan,
cron times, grace and number of strategies:

* `DayTyped` (`[]TypeOK`), `MessagesOncePerDay` (`OncePerDay`),
  `SyncsOverlapOnlyInTheirMinute` (`SyncsOverlapInOneMinute`), `ProofIsWhole`
  (`DoneProofIsWhole`), `DayServed` (`DayIsServed`), `JobsRunAtTheirHour`
  (`RunsAtItsHour`), each from `DayInvariant`.

`DayInv` goes from what one run knows to what the day owes. `RunsSound`: which
phases a run of a job can be in, that a run not of today is excused as carried,
a request's as asked, that a tick before its work is inside the window. `SyncInv`:
syncs at work began in the same minute, and a call about to begin one is still in
it. `ProofInv`: the strategies a proof has behind it have rows. `OneOwn`: without
an overlap each job has at most one run of today. `KeyInv` and `MailInv`: on a calm
day a message that was sent has its key, or its run is about to set it, and a run
about to send it has not sent it yet; the digest's mail has no key, so there the
mark or the run takes its place. `ServedInv` and `HourInv`: every job whose window is
over was looked at by a tick, and what a tick looked at is done, at work, or in the
hands of a tick that is about to begin; `RestInv`: a job that
rests has not run today unless somebody asked for it. `Midnight` puts all of it back at once. Per
action there is a lemma of what it moves (`TickMoves`, `AskMoves`, ...), and per
group one of how each action keeps it; `DayStep` joins them. `DayInv` was first
checked by TLC on the instance of the run `daily_jobs`.

`PaperExit_proofs`, for sessions of any length, any number of overlapping ticks
and requests, and any order sizes:

* `ExitTyped` (`[]TypeOK`, with a position that is never oversold),
  `TargetsWereReached` (`BookedWasReached`), `StopsOnlyTighten` (`StopOnlyTightens`),
  `WalkAgrees` (`WalkAgreesUntilT1`).

The walk and the backtest are folds over the bars. `WalkIsChain` and `SimIsChain`
turn each into a chain of states, one per bar: a solution of the fold's recursion is
built on the sets of indices (`FoldExists`), and the value on the interval 1..k
follows from the one on 1..k-1. What holds along a chain is shown from a least
counterexample (`LeastNat`): `WalkReaches`, a partial the walk asks for has a bar
that touched the target, and `WalkAgreesWithSim`, the two chains stay together
until the stop or T1 (`BarsAgree`, one bar). `ExitInv` then says of the row that its
stop follows from what is booked and that what is booked was reached, and of a
caller that the reading it holds is of the same trade (`ManageInv`), that the
target it is about to book was reached (`PartialInv`), and that its copy has
the shares it sells (`PartialTxInv`). Other callers may overtake the reading; it stays
good since bars only widen and are only added (`ReachedGrows`) and the trade
keeps its side, entry and size (`CallerKeeps`). A partial therefore always writes
the entry as the stop, whichever copy it writes from (`PartialWrites`). TLC checked
`ExitInv` on the instance of the run `paper_exit`.

`IntradayJournal_proofs`, for any rows, sessions, entries and stops, and any number of
requests in flight:

* `JournalTypeCorrect` (`TypeOK`), `StopsProtect` (`StopIsProtective`),
  `SecondRowsAreUndone` (`SecondRowIsUndone`) and `StopsTighten` (`MovedStopTightens`).

`JournalInv` adds to the types that *every* row that is not torn fits, closed ones too,
since they can be reopened; `Apart`: two edits in hand of one row, or two adds of one
session, have torn it; and `LookHolds(c)` for each request: what it has found is still so
when it writes, or what it found is torn. It is, because every other step is `Settled`:
it closes rows or opens undone ones, and moves no stop (`OthersSettle`); an add of
another session, or an edit of another row, does not touch what was found.

`SwingTrail_proofs`, for any number of overlapping refreshes and any prices, bad
ticks, levels and regimes:

* `SwingTypeCorrect`: `[]TypeOK`;
* `VerdictsForget` (`VerdictForgets`) and `StopsFitPeaks` (`StopFitsPeak`), for every
  target;
* `EvidenceIsKept` (`EvidenceKeepsPartials`) and `HighWaterIsHealed`
  (`HighWaterHeals`).

Below them are lemmas about what one refresh computes (`ActiveStopFits`,
`TrailStopFits`, `RefreshFits`, `TrailForgets`): outside of `Early` there is no trail
before it is armed, and an armed trail is at least cost-to-cost and not moved by a
floor that is capped at the first of its parts; inside, the trail is that of the EMA
or the floor. `FitInv` then carries "this stop fits this mark" from the refresh that
computed it, and from the row a partial has read, to the row, whose target nobody
edits in the paper book; `SoloInv` says that without an overlap what a refresh has
read is still there, and that the mark a sound refresh leaves (`Healing`) has traded.

Assumptions used are `BooksAreSound` and `AmountsAreNumbers` of the wallet,
`NoWorkerIsNone`, `TimesAreNumbers`, `RefreshFits` of the lease,
`CallersAreDistinct` of the locked run, `DayIsSound` and `TicksAreNoRequests` of
the day, `SidesAreSides`, `BoundsAreNumbers` and `ChartsAreCharts` of the exits, `WorkerIsNoUser`,
`SidesAreSides`, `PricesAreLevels`, `LastDayIsNatural` of the journal, and
`EntryTrades`, `PricesAreNats`, `EditsAreTargets`, `LevelsAreNats`, `BadTicksAreBad` of the swing
positions, all evaluated by TLC in the runs.

Only model-checked: the liveness properties (`ScansGoOn` and `FullScansGoOn` of
`AutoScan`, `SomeLeader` and `StableLeader` of `WorkerLease`, `ScansAgain` of
`LockedRun`, `OvernightIsFlattened` of `IntradayJournal`), which need fairness and are
out of the prover's reach, so `AutoScan`, whose properties are all of this kind, has
no proofs; and the disagreement of section 5, which is a counterexample.

## 7. Not modelled

Most of the repository's lines are not a matter for a model checker, which is why
the modules cover a small share of them: the web UI (about a third of the lines),
the valuation and verification engines, the technical analysis, chart patterns,
scores and backtests (numerical functions without shared state), the data adapters
(HTTP and parsing), the API's routing, seeds and migrations. The models take from
them what they decide on: a quote that may be missing or wrong, an indicator's
level, the exit rules that are not modelled as a free choice.

Within the modelled components: how an order is sized and which gates refuse it,
fees, mark-to-market snapshots, archive rows; the symbols of a scan and how hits
are merged (`RefreshSet` of the plan); morning, radar and ops alerts; the swing
journal's add; the targets and prices of a journal row. The settings object
(read-merge-write) is a small component of its own, in the plan as `ConfigReload`.
Screener and verify jobs share the life cycle of `AutoScan`'s jobs, without its
schedule.
