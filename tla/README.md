# CherryPick core: a formal model

TLA+ modules, TLC configurations and TLAPS proofs about `cherrypick.core`, the
library shared by the CherryPick trading suite. Source paths below are relative
to `src/cherrypick/core/`; line numbers refer to the commit the modules were
written from.

To check a run: `tlc -config <cfg> <module>` in this directory, with the pairs of
section 3. To check the proofs: `tlapm <Module>Proofs.tla`.

## 1. The system

`cherrypick.core` is a library, used in process by trading modules. Most of it
computes; the other parts act over time, hold state across `await`s or threads, and
talk to a feed, a broker, a keyring or a database.

| Component | State it keeps | Operations | Talks to |
|---|---|---|---|
| `streamer`: subscriptions and windows | `state.subscribed`, `window_syms`, `centers`, `chains`; the WebSocket's own subscriptions | `_apply_subscriptions`, `_poll_subscriptions`, one `_symbol_refresher` per underlying, `_listen_trade` | the feed; the consumer's `extra_subscriptions` and `protected_symbols` callbacks; the cache |
| `streamer`: run loop | `stop_event`, `delay`, `reconnect_count`, the task group | `run`, `run_async`, `stop`, signal handler, `_watch_stop` | asyncio |
| `streamer` + `streamcache`: durability | rows of the SQLite cache, `pending_writes`, `last_event_at`, the status row | the four listeners' writes, `_maybe_commit`, `_flush_status`, `upsert_status`, `write_chain` | SQLite, readers in other processes |
| `broker` + `risk`: orders | none of its own: the account's buying power | `place_order`, `_deploy_governor`, `evaluate_deploy_limit` | the broker |
| `auth` | the cached session (per process or per thread); secrets in the keyring | `get_session`, `reset_session`, `get_secret`, `set_secret`, `delete_secret` | the OS keyring, the session factory |
| `dxfeed` | the values collected by one call | `collect_events` and five wrappers | the feed |
| `calendar` | none | holidays, Easter, trading-day loops, expiries, FOMC list | nothing |
| `db` | the schema of a consumer's database | `connect`, `apply_additive_migrations` | SQLite, other processes at the same file |
| `gex` | none | `compute_gex`, `compute_gex_profile`, walls, zero crossings | nothing |
| `profiles` | none: the consumer's configuration and trade log | `merge_profile`, `compare_profiles`, `recommend_promotion` | nothing |
| `fees` | none | cost of a fill, condor fee schedule | nothing |
| `home`, `viz` | none | path lookups; payload formatting | environment |

How they interact: a consumer builds a session (`auth`) and hands it to a
`ChainStreamer`, to `dxfeed` or to `broker`. The streamer fetches the day's chain
through the injected session, writes it and every event to the cache
(`streamcache`), reads the spot price back from the cache to place its windows,
and asks the consumer's callbacks which legs are open. `place_order` asks `risk`
whether an order fits the account.

### Hard behaviours, and what makes each part correct

* **Subscriptions.** Polls and window updates interleave at every awaited feed
  call, and each works from a snapshot taken earlier. Correct means: the
  underlyings' trades stay subscribed, a strike kept by a moving window never
  loses a feed, nothing stays subscribed behind a window, the window follows the
  price, legs are followed.
* **Run loop.** Stops, failures and cancellations arrive at any moment. Correct
  means: backoffs follow their schedule, and a stop ends the run.
* **Durability.** Rows are committed in batches, but status upserts commit on the
  same connection in passing, and commits fail. Correct means: a crash loses less
  than a batch (and one per failed commit), the status row never claims what the
  cache lacks, rows become durable when the feed goes quiet.
* **Migrations.** Nothing holds the file between the look at `table_info` and the
  `ALTER`. Correct means: a startup that returned has its columns, in the file
  and not only on its own connection; no startup fails but for a locked file
  (which is refuted); one that is started again and again does not fail for ever,
  so no race of startups and no open batch of the streamer keeps the others out.
* **Orders.** The governor reads balances that other callers change before the
  order is sent. Correct means: dry runs are inert, a governed order passes its
  cap by no more than what others deployed in between.
* **Sessions.** Nothing is locked. Correct means: authentications are bounded, a
  thread-local session never crosses threads, the factory is not handed a missing
  secret.
* **Collectors.** A timeout, an error, a cancellation and late events race.
  Correct means: latest value wins, the drain waits for the silent symbols and no
  longer, and the call ends in time (which is refuted: the timeout is the drain's
  only).
* **Calendar.** Rules collide around weekends and the turn of the year. Correct
  means: each rule closes the market on its own day, in its own year (but for a New
  Year on a Saturday, section 4); Easter is Easter; loops skip no trading
  day.
* **Gamma exposure.** Two engines with opposite signs for puts, one rounding
  before it compares. Correct means: they read a plain and complete chain alike
  (others they do not, section 4), and the flip is where the regime of the
  running sum turns.
* **Profiles.** A consumer merges one profile after the other onto one base, and
  reads one log for many books. Correct means: no profile leaves a trace; the
  ladder is climbed a rung at a time, on the profile's own trades, and never onto
  a rung kept for deliberate choice.
* **Fees.** Caps per leg, rounding per order. Correct means: cutting a position
  into orders changes its cost by rounding only.

`PROJECT.json` lists every hazard at its line, with the properties about it.

## 2. The modules

Each await (or each call of a thread to the outside) ends a step: one action is
what a coroutine does from one await to the next. Faults and outside inputs are
nondeterministic and, where they could go on for ever, bounded by a `Max...`
constant that appears in the action's guard.

**`ChainStreamer`**: `wire` is what the current connection is subscribed to,
`subscribed`, `windowSyms`, `centers`, `chains` are the fields of `_State`,
`apply` and `refresher[u]` are the coroutines in flight with their local
snapshots, `price` the last trade in the cache, `legs` what the callbacks report.
Actions: `Connect`, `Drop`, `PollBegin`, `ApplySubscribe`, `ApplyUnsubscribe`,
`ApplyEnd`, `ApplyFault` (`_apply_subscriptions`, lines 141-175), `FetchChain`,
`FetchFault`, `Recenter`, `RefresherSubscribe`, `RefresherUnsubscribe`,
`RefresherFault` (`_symbol_refresher`, lines 271-330), `TradeTick`, and the
consumer's `LegChange`. An option is an underlying and a strike: calls and puts
of a strike always travel together. The policy is given by `SpotKinds` and
`LegKinds`, the kinds it wants the underlyings and the open legs on: a consumer's
`extra_subscriptions` is used *instead of* the default (lines 88-93), so that the
underlyings' trades are among them is an assumption on the consumer
(`PolicyAssumption`).

**`StreamerFaults`** adds a history variable to `ChainStreamer`: of each failed
call, whether it took effect on the feed behind the books, or cut a window update
short. The liveness properties are stated here, since what a failed call may cost
depends on it.

**`StreamLifecycle`**: `pc` is where `run_async` is, `tasks` the members of the
task group. `asyncio.TaskGroup` is modelled by its rules: a task that raises
aborts the group, one that ends in `CancelledError` only leaves it. That rule is
why `_watch_stop` (line 342) does not stop the listeners. A listener whose feed
runs out (`ListenerRunsOut`) leaves as well, stop or no stop, and nothing starts it
again while the connection lasts.

**`CacheWriter`** counts events: `written` and `durable`. The handlers do not
await inside a write, so each is one action; `WriteBatched`, `WriteCommits` and
`WriteCommitRaises` are the outcomes of `_maybe_commit`, `Flush` and
`OtherCommit` the upserts that commit in passing, `Start` and `End` the process.
**`LaggedLog`** is its abstract specification: a log of which a reader lacks at
most `MaxLag` events. `CacheWriter` implements it with lag
`MaxPending + MaxFaults - 1`.

**`StreamDaemon`** composes `StreamLifecycle` with an instance of `CacheWriter`: a
listener writes, and a flusher commits, only while its task is in the group of a
connection that is up; an attempt to connect upserts the status; `Close` ends the
run, `Dies` and `Restart` are the process. `CacheWriter` alone lets every handler
run at any time.

**`Migrations`**: the startups of several processes at one file, one step for each
look (`Check`), each `ALTER` and the commit (`Finish`). A caller that has written
rows before holds the write lock throughout; any other `ALTER` commits by itself,
as the `sqlite3` module opens no transaction for it. A failed `ALTER` ends the
startup. **`CacheFile`** composes it with `CacheWriter` on the daemon's file: an
open batch holds the lock against the others, and they against it.

**`OrderSubmission`**: each caller's `place_order` goes through `preflight`,
`governor` and `submit`; between any two of them other callers may move the
account. `seen` keeps the balances the governor read (its report). The broker is
external: it refuses what exceeds the buying power and may refuse anything.
Balances and percentages are integers; the code's `Decimal` comparison is exact,
so the comparison is written without its division.

**`Sessions`**: threads that miss the cache go through four keyring reads (two of
`missing_secrets`, two for the values), the factory and the store, each a step.
`threadLocal` is chosen initially, so both modes are explored. A hit changes
nothing and is no action. `epoch` and `resets` count resets so that a property
can speak of a stale session.

**`EventCollector`**: one call of `collect_events` through any wrapper. The feed
delivers events of the requested symbols whose field is a number, `None` or what
`float()` refuses; the drain takes them one by one. The phases follow the
`async with`: `entering`, `subscribing` and `closing` are its awaits without a
timeout, `draining` the one `wait_for` covers. `__aexit__` is a step of its own
(`Close`, `CloseFails`), and one that never comes when `__aenter__` raised or was
cancelled (`EnterFails`, `CancelledOutside`): `connection` is then left as it was.

**`MarketCalendar`**: a date is its ordinal, as `date.toordinal()` counts; the
operators of `datetime.date` are external. Each iteration of `next_trading_day`,
`previous_trading_day` and of the loop in `quarterly_expiry_dates` is a step.

**`GammaExposure`**: a chain that grows by any option in any order, with repeats.
The dollar gamma of an option is one number at the multiplier of the call, in half
dollars so that rounding meets ties, and `Missing` where `compute_gex` skips the
option (no greeks, no open interest, or open interest zero). Its kind says which
of the letters `C` and `P` its type contains, which is all the engines look at
(`.SPXWc` has both), and what its own `shares_per_contract` is against the
multiplier of the call. `ComputeGex` and `Profile` are the two engines, with their
different ideas of what counts (`Counts`), what is a put (`SideOf`, `SlotOf`,
`Signed`) and what a repeat does (`Side`, `LastIn`); `InterpolateZeroGamma` and
`NearestZeroGamma` are the two crossings.

**`Profiles`**: the consumer is external and the code under it is not: `Trade`
logs a trade under any tag, `Promote` follows `recommend_promotion`, `Choose` is a
human, and both merge through `SwitchTo`. A configuration has top-level values
and one namespace of entries with fields, the two shapes `merge_profile` treats
differently.

**`Fees`**: an order that grows leg by leg, priced in exact decimals
(hundred-thousandths of a dollar). **`Totals`** is Python's `sum()`, for the two.

**`Calculations`** puts the four modules that only compute side by side: a
behaviour asks one and leaves the others at rest. **`CoreLibrary`** does the same
for `Calculations`, `Sessions` and `OrderSubmission`, which share no state either,
so that one run checks what a consumer calls.

The `MC...` modules give instances for TLC; `...Proofs` modules hold theorems.
Definitions commented as mutants are plausible bugs: with one in place of the
definition that follows it, TLC finds the property paired with it in
`PROJECT.json` violated. No specification uses them.

## 3. The runs

| Run (cfg) | Module | Asks | States |
|---|---|---|---|
| `ChainStreamerSafety` | `MCChainStreamer` | `TypeOK`, `SpotFeedKept`, `WindowUninterrupted`, `NothingStray`, `WindowCentred` | 1.7 M |
| `ChainStreamerLiveness` | `MCStreamerFaults` | `WindowFollowsPrice`, `LegsFollowed` | 175 k |
| `ChainStreamerReconnect` | `MCChainStreamer` | `SpotFeedResumes`, refuted | |
| `ChainStreamerWindowFed` | `MCChainStreamer` | `WindowFed`, refuted | |
| `StreamDaemon` | `MCStreamDaemon` | `TypeOK`, `BackoffLaw`, `StopEndsRun`, `RowsBecomeDurable` | 299 k |
| `StreamLifecycleQuiet` | `MCStreamLifecycle` | `StopEndsRun` on a quiet feed, refuted | |
| `CacheFile` | `MCCacheFile` | `TypeOK`, `LossBounded`, `StatusHonest`, `DoneMeansComplete`, `IsLaggedLog`, `FailuresEnd` | 507 k |
| `CacheFileRace` | `MCCacheFile` | `StartupSafe`, refuted | |
| `OrderSubmissionRace` | `MCOrderSubmission` | `GovernedUnderCap`, refuted | |
| `EventCollector` | `MCEventCollector` | `TypeOK`, `LatestWins`, `EndsWithLastReport`, `OnlyFeedHoldsUp` | 1.2 M |
| `EventCollectorUnanswered` | `MCEventCollector` | `CallEnds`, refuted | |
| `CoreLibrary` | `MCCoreLibrary` | of the calendar `TypeOK`, `NothingSkipped`, `ShortClosures`, `EveryHolidayCloses`, `EasterFollowsFullMoon`; of the other calculations `EnginesAgree`, `FlipTellsRegime`, `SwitchLeavesNothing`, `ClimbsEarned`, `CutsCostTheSame`; of sessions `SessionTypeOK`, `BuildsBounded`, `OwnSession`, `NeverBlind`; of orders `OrderTypeOK`, `OnlyLiveOrdersMoveAccount`, `OvershootIsOthers` | 2.2 M |

`CoreLibrary` uses symmetry of the threads, and has no liveness property. In each
of its behaviours one part is asked, so its states are the sum of those of the
parts (341 thousand of the calculations, 1.6 million of sessions up to symmetry,
and 253 thousand of orders), and every behaviour of a part alone is there.

### Bounds, and why they are enough

* `ChainStreamer`: one underlying (underlyings share only the feed and the
  policy, and no step of one reads the books of another, except through the union
  of the windows); a chain of three strikes and a window of one strike on each
  side, so that a move keeps some strikes, drops some and adds some; two possible
  chains; two price ticks, so that the price moves during an update; two changes
  of position, so that a leg opens and closes again across one poll; one fault
  and one reconnect. The three kinds are one of each way the policy and the
  refreshers treat a kind: `Quote` carries windows and legs, `Summary` windows
  and spots, `Trade` all three and no sparing of windows; `Greeks` is `Quote`
  without legs. A window then moves in up to six calls, and polls fit between
  any two.
* `ChainStreamerLiveness`: two kinds, both carried by windows and legs; a leg in
  reach of the window of the longer chain and out of reach of the shorter one, so
  both kinds of leg occur; it is held or not at first and changes twice (closed
  and reopened between two polls); one call fails, with or without effect. Each
  exception that `WindowFollowsPrice` and `LegsFollowed` make is needed: without
  any one of them TLC refutes the property.
* `StreamDaemon`: seven reconnects pass the cap of the backoff (2, 4, 8, 16, 32,
  60, 60). Two listeners and one refresher stand for the four and the many:
  members of one class behave alike. Batches of two, three events, one failed
  commit and a restart put the tail of a batch into an outage, a backoff and a
  stop.
* `CacheFile`: two processes: the daemon, which asks for one column, and a newer
  tool that asks for two, in a transaction of its own or not; every
  initial set of columns; two deaths, two runs of the engine, batches of two, five
  events and two failing commits, which overrun a batch twice and relate a status
  row to an earlier run.
* `CoreLibrary`, orders: ten units of buying power, orders from -4 to 3, caps of 30
  and 50 percent and none, from an account already over the lower cap. Four
  calls by two callers let each race twice.
* `CoreLibrary`, sessions: two threads, one legacy service, two resets; every initial content
  of the keyring. One write, one withdrawal and one fault each fall between any
  two reads.
* `EventCollector`: two symbols and four events: a value, its replacement, a
  `None` after it, and the other symbol.
* `CoreLibrary`, calculations: every day of 1980 to 2050 (Easters in which the correction term
  of the algorithm matters, 1981 and 2049, Saturdays and Sundays on every fixed
  holiday, both sides of 2022); every chain of up to three options on three
  strikes, unevenly spaced, or at strike zero, with dollar gammas from 0 to 3,
  halves among them, or none; calls, puts, and options with both letters in their
  type and twice the multiplier of the call;
  three rungs, the last a deliberate one, with a flat profile, one that overrides
  a field (and an entry the base lacks) and one that adds a field; three trades
  over two sessions with missing, blank and padded tags, against a rule of two
  trades, 60 percent and two sessions; orders of up to four legs of four quotes
  (fair, wide enough for the cap, worthless, crossed) at 1, 3 and 12 contracts,
  the last past the cap of ten dollars.

### Fairness

* `ChainStreamer`: a coroutine that can run is run and the feed answers its calls
  (`WF` on the progress of the poll and of each refresher, and on connecting).
  Nothing is assumed of ticks, faults, drops and positions. At most `MaxFaults`
  calls fail: a feed that fails every call follows nothing.
* `StreamLifecycle` and `StreamDaemon`: sleeps end, ready tasks run, connecting
  works or raises, the flusher and the poll go on while they are in the group,
  `conn.close()` ends. On top of it `BusyFeedSpec` and `BusyDaemonSpec` assume
  that each listener gets a next event; without that `StopEndsRun` is false of the
  code, which `StreamLifecycleQuiet` shows. Nothing restarts a daemon that died.
  `RowsBecomeDurable` excepts a `run_async` thrown out of its backoff by a
  cancellation: it skips `conn.close()` and may keep its transaction while the
  process lives.
* `CacheFile`: the status flusher and the poll go on (they sleep 5 and 30 seconds
  whatever the feed does); commits fail only `MaxFaults` times. A startup that was
  begun takes its steps. Nothing in the code retries one that failed, and nothing
  is assumed to: `FailuresEnd` is about whoever does.
* `EventCollector`: the event loop runs a call that is ready, and the timer of the
  drain fires. Nothing is assumed of connecting, subscribing, delivering and
  closing; `OnlyFeedHoldsUp` says that nothing else can keep a call. In
  `EventCollectorUnanswered` closing ends, and the call does not.

The runs whose cfg says `CHECK_DEADLOCK FALSE` are of systems that stop: the run
ended, the call returned, or the bounds are used up.

## 4. What the checks found

Each is refuted by a run, and `PROJECT.json` quotes the promise.

* After a reconnect nothing is subscribed again: `state.subscribed` and
  `window_syms` outlive the connection they describe (`ChainStreamerReconnect`).
* A poll decides what to unsubscribe from windows it read before it awaited the
  feed; a window that moves meanwhile loses a feed for good
  (`ChainStreamerWindowFed`).
* On a quiet feed `stop()` does not end the run (`StreamLifecycleQuiet`).
* Two governed orders can pass the deploy cap together (`OrderSubmissionRace`).
  The model also says what does hold: `OvershootIsOthers`, and a single caller
  never passes it (a theorem).
* Two startups can both find a column missing; the slower `ALTER` raises although
  the function is called idempotent and safe to run on every startup (`db`, lines
  43-48), and with nobody holding the file (`CacheFileRace`).
* A call that is to last until every symbol has reported "or `timeout` seconds
  elapse" (`dxfeed`, line 47) lasts for ever on a feed that does not let it in or
  does not confirm its subscription (`EventCollectorUnanswered`).

Noted while modelling, and not run by a configuration of their own:

* A New Year on a Saturday "is observed on the prior Dec 31" (`calendar`, lines
  81-82), but that year's holidays do not contain it: `is_trading_day` says yes to
  that day. `EveryHolidayCloses` counts the holidays the code has, so without it.
  (The exchange does not close then either: the comment, and not the code, is
  likely to be what is wrong.)
* "Every consumer [...] draws from one implementation" (`gex`, lines 7-8): the
  dashboard and the trading loop run two, which can place the zero crossing of one
  book differently: TLC finds such a chain among those of the run within seconds.
  They differ on options without data or open interest (the dashboard has a row of
  zeros, which counts as positive), on strikes that are not positive, on repeats
  (one adds up, one keeps the last), on types with both letters or none, and on an
  option's own multiplier. `EnginesAgree` is about the chains that are left, and
  says that they agree there.
* A leg that a window passes over can be lost for good, or stay behind: a window
  update unsubscribes what `state.subscribed` goes on claiming (lines 314-320 of
  the streamer), and a poll then sees nothing to do. `LegsFollowed` holds because
  it names this as one of two causes; the other is a call that raises after it
  took effect.
* A failed window update moves `centers` without the window (line 328).
* `stop()` before `run_async` has created its state is lost (line 346). One that
  arrives during a backoff is noticed when the sleep is over.
* An `__aenter__` that raises after it has opened something is never followed by an
  `__aexit__` (`dxfeed`, line 71); an `__aexit__` that raises takes the place of a
  cancellation, and line 76 swallows it.
* A process-wide session manager may build one session per thread; a reset while
  one is built is undone by its store; the secrets may change between their check
  and their use.
* `triple_witching_dates(2026)` contains Juneteenth.
* `compare_profiles` puts rows without a tag into the group of a profile that is
  called like them (`unassigned`, or `default` for one consumer); nothing keeps a
  registry from naming one so.
* `_ic_fee` knows no cap per leg, `_commission` does, and both are called the same
  schedule (`fees`, lines 5 and 11). XSP's index fee is zero at any quantity, the
  comment at line 125 says under ten contracts.
* `merge_profile` validates top-level keys only: an override of an entry the base
  lacks is skipped without a word (line 198).

## 5. What is proved

For every value of the constants that satisfies the module's `ASSUME`, and
without bounds on the number of steps:

| Theorem | Argument |
|---|---|
| `ChainStreamerProofs!TypeCorrect` | one lemma per record type |
| `!SpotFeedIsKept`: every interleaving of polls, updates and faults keeps the underlyings' trades on the first connection | `SpotsHeldUp`: the snapshots in flight want the spots, and no removal in flight contains one. The property alone is not inductive, as a removal is decided calls before it happens |
| `!WindowsAreTracked`, and from it `!WindowsUninterrupted`, `!NothingGoesAstray`, `!WindowsCentred` | `WindowsInv`, per kind: an option on the feed is claimed by the polled list, or held by its window, or being taken off or put on by a call in flight; a call in flight works on the difference between the window it leaves and the one around the price it read, less what the polled list claimed then |
| `StreamLifecycleProofs!TypeCorrect`, `!BackoffIsLaw` | `DelayInStep`: `delay` is the table at `reconnectCount` everywhere, not only in a backoff |
| `!DaemonBackoffIsLaw` | the same argument: the daemon's other steps are the loop's, but for `Dies` and `Restart`, which starts the table anew |
| `!DaemonIsWriter`: `StreamDaemon` implements `CacheWriter` | each joint action is a step of the writer or leaves its variables alone |
| `CacheFileProofs!TypeCorrect`, `!LossIsBounded`, `!StatusIsHonest`, about `CacheWriter` | `Consistent`: all three and what relates the books to the files, inductive together |
| `!WriterIsLaggedLog` | under `Consistent`, each action is a `Write`, `Persist`, `Lose` or a stutter of `LaggedLog` |
| `!StartupsComplete`, for any processes and lists of columns | what a finished startup asked for is in the file; what a running one has passed is visible to it; no two hold a column as added |
| `!FileIsWriter`, `!FileLossBounded` | the lock only disables steps of the writer; the bound follows by the refinement |
| `OrderSubmissionProofs!TypeCorrect`, `!DryRunsAreInert`, `!RacesBoundOvershoot` | `LiveAtSubmit`, `AllowedAsSeen`: a call that waits to submit is live, and was within its cap on the balances it saw |
| `!SoleCallerUnderCap` | assumes all callers equal; then `SeenIsUsed`: the balances seen are still current |
| `!LibraryIsItsParts` | a behaviour of `CoreLibrary` is one of `CalcSpec`, of `SessionSpec` and of `OrderSpec`: each of its steps is a step of one part and leaves the variables of the others alone |
| `SessionsProofs!TypeCorrect`, `!BuildsAreBounded`, `!SessionsAreOwn` | `BuildsInv`: a thread that may still build has a build left in its epoch; `OwnInv`: a thread-local get_session is always of the current epoch |
| `!FactoryNotBlind` | `SightInv`: while nothing was withdrawn and nothing failed, a secret once found stays found, so the checks that passed stand for the reads that follow |
| `EventCollectorProofs!TypeCorrect`, `!LatestValueWins`, `!EndsOnTime` | `LatestWins` is inductive with the types; `EndInv`: the symbols that remain are the silent ones, some remain while the drain runs, and the event that ends it is the first of its symbol |
| `MarketCalendarProofs!WalksSkipNothing`; `ObservedOnWeekday`, `NthWeekdayIsNth`, `LastWeekdayIsLast` | loop invariant; arithmetic modulo seven |
| `!EasterAfterFullMoon`, `!EasterAlwaysFollows`: in every year, not the 71 that TLC asks for | each quotient and remainder of the algorithm is named by its defining equation; the epact then follows from the age of the moon by cases, and the day from arithmetic modulo seven |
| `!HolidaysCloseInAnyYear`, `!HolidaysAlwaysClose` | the observed holidays of any year lie in ten windows of the year that do not meet, each a weekday |
| `!OpenWithinFourDays`, `!WalksEndSoon`, `!WalksStayNear` | of four days in a row two are weekdays in the same or in adjacent years; two holidays on neighbouring weekdays would contradict the windows |
| `CalculationsProofs!CalendarHolds` | `CalcSpec` implies the calendar's `Spec` |
| `!SwitchesForget`, for any ladder, registry and base | `ProfileInv`: the base is the one on disk, and the traded configuration is its merge with the current profile; then what the merge is, key by key |
| `!ClimbsAreEarned`, for any log, tags and thresholds | the same invariant: the advisor reads the group of the current rung, which is the profile's own trades, as no rung is called like rows without a profile (`TagAssumption`) |
| `!FlipsTellRegime`, for chains of any length | `ScanFindsTurn`: the loop of `interpolate_zero_gamma` returns the zero at the first turn of the partial sums, or they all have one sign; `ZeroIsBetween`: a rounded zero lies between its strikes; `SomeStrikesCross`: partial sums that turn need two adjacent strikes of different sign |
| `!EnginesAlwaysAgree`, for chains of any length | `EnginesShareRows`: on a complete chain of plain options without repeats the last option of a side is the sum of its side (`LastIsOnly`), so the dashboard's rows are the loop's, rounded; `TotalsNear` bounds the rounding; in whole dollars one series is twice the other, and scan and peaks do not see the factor (`FlipOfHalves`, `PeakOfHalves`) |
| `!CutsAlwaysCostTheSame`, for any quotes and any number of legs and contracts | sums of parts by induction; before rounding legs add up, and contracts do under a concave cap; rounding three amounts errs by less than two cents |

Induction over data: the library's induction theorems take an operator as a
parameter, which the provers do not instantiate. `CalculationsProofs` therefore
proves induction for *sets* of numbers (`SetInduction`) from the least element of
a well-founded order, and from it that `FoldLeft` with addition is the last of
the partial sums (`TotalIsLastSum`, `TotalOfPart`).

Assumptions on constants, beside those on bounds: `LadderAssumption`, that the
ladder has a rung; `TagAssumption`, that no rung is called what untagged rows are
called, without which their trades would count as its own; `GexAssumption`, that
strikes, dollar gammas, the spot and the scale of a multiplier are integers and
`None` is not; `PolicyAssumption`, that the subscription policy names the
underlyings' trades;
`FeesAssumption`, that quotes are integers; the profile a consumer starts under
validates (a conjunct of `Init` of `Profiles`: otherwise `merge_profile` raises and
nothing starts).

Two definitions are written so that proofs can open them: a group of rows is the
set of their positions (`SelectSeq` is recursive), and `sorted()` is the increasing
function onto a set (`SortSeq` chooses among permutations). TLC finds the same
states and properties with either.

Only model-checked: all liveness, which TLAPS does not reach under fairness:
`WindowFollowsPrice`, `LegsFollowed`, `StopEndsRun`, `RowsBecomeDurable`,
`FailuresEnd`, `OnlyFeedHoldsUp`. Every invariant and every action property of a
passing run is a theorem, of the run's specification or of one that it is proved to
implement (`FileIsWriter`, `DaemonIsWriter`, `LibraryIsItsParts`, `CalendarHolds`).

## 6. What is not modelled

* `home`: path lookups in the environment, without state. `viz`: formatting of
  payloads.
* `calendar`: the FOMC list, which is data, and triple witching, one expression
  over `nth_weekday`.
* `gex`: the volume series, implied volatilities, `strike_scale`,
  `max_gex_strike`, `net_walls` and `volume_totals`: the same sums and comparisons
  on other columns. Fractions of an open interest, which one engine cuts off.
* `profiles`: a merge that does not validate, the default of `merge_profile` (line
  165): the consumer modelled here passes `validate=True`, and with an unvalidated
  one a misspelt key would reach the traded configuration. Where `load_profiles`
  reads the registry from.
* `fees`: overrides of the schedule. The floats behind its amounts: sums are exact
  here, and the ties in which a float rounds the other way do not occur in the
  schedule. Orders whose legs and quotes differ in number, and quotes without a bid
  or an ask (taken for 0).
* `streamer`: a policy that leaves out the underlyings' trades (see
  `PolicyAssumption`). A commit that fails by an I/O error or a full disk, upon
  which SQLite may roll the batch back: the model's failed commits leave it open,
  as a locked database does. After a rollback `last_event_at` would be ahead of
  the rows until they are replaced, and `StatusHonest` is not claimed there.
* `broker`: resolving accounts, reading chains, `build_order` (pure or read-only).
  `streamcache`: the schema and the read-only queries.
* The internals of the feed, the broker, SQLite and the keyring: they are
  nondeterministic within what the code handles.

## 7. Plan

Written in this order, the most important behaviour first: `ChainStreamer`,
`StreamLifecycle`, `CacheWriter` over `LaggedLog`, `OrderSubmission`, `Sessions`,
`EventCollector`, `MarketCalendar`; then `StreamDaemon`, `Migrations` and
`CacheFile`, `StreamerFaults`, and `GammaExposure`, `Profiles`, `Fees` in
`Calculations`; `CoreLibrary` over the parts that share nothing. Next:

1. An abstract specification of the subscriptions (what a consumer may rely on
   between two polls), with `ChainStreamer` shown to implement it on the first
   connection.
2. Two underlyings on one feed, with a stop while calls are in flight.
