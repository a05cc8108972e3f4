# Verification of cryptoai-trader

TLA+ models of the parts of cryptoai-trader whose correctness depends on order,
timing, staleness or interruption; TLC runs that check them on small instances;
and TLAPS proofs of what matters most for every value of the constants. Paths are
those of the repository.

- [1 The system](#1-the-system)
- [2 Plan](#2-plan)
- [3 What is modelled](#3-what-is-modelled)
- [4 What the runs show](#4-what-the-runs-show)
- [5 Fairness](#5-fairness)
- [6 What is proved](#6-what-is-proved)
- [7 What is only model-checked, and what is left out](#7-what-is-only-model-checked-and-what-is-left-out)

## 1 The system

cryptoai-trader looks for intraday trades in BTC/USD and ETH/USD on Kraken, sizes
them, and asks a human to approve each one over Telegram. A separate research layer
turns the exchange's trade history into bars, labels, sample weights and
cross-validation splits. The online part is a chain of calls inside one process:

    KrakenClient -> TechnicalAnalyst -> RiskGate -> (caller) -> TelegramNotifier
                 \____ SignalCoordinator ____/                      |
                                                             reviewer's phone

and the offline part a chain of batch jobs that meet in an HDF5 file:

    build_dollar_bars -> labels -> sample weights -> purged cross-validation

### Components

| Component | Source | State | Operations | What is hard | What makes it correct |
|---|---|---|---|---|---|
| Telegram approval gate | `notifications/telegram.py`, `types.py`, `formatter.py` | one coroutine per request: `sent_at`, `offset`; on the server the update queue and the message's buttons | `request_approval`, `_poll_response`, the reviewer's taps | long polls racing the deadline, failed and repeated polls, redelivery (`offset` restarts at `None`), several pollers on one bot, exceptions after an update was consumed | a decision is the reviewer's own, about that message, in time; every request ends |
| Risk gate | `agents/risk.py` | none (a pure function of signal and `SystemState`) | `validate`, `check_kill_switch` | rounding, zero as "missing", order of the checks, a latch left to the caller | risk per trade, open positions, drawdown and capital stay within the limits |
| Signal coordinator | `agents/coordinator.py` | `_system_state`, the last snapshot it was given | `update_system_state`, `run_pipeline`, `evaluate_symbol` | every symbol of a run is judged against one snapshot while positions and P&L move | what one run may clear is bounded by the limits |
| Technical analyst | `agents/technical.py` | none | `analyze` | indicator warm-up, crossover on the last candle; the RSI band differs from `docs/strategy.md` | a signal only under the documented rules; levels on the right side of entry |
| Dollar bars | `data/bars.py` | accumulator, pending bars, cursor; in the file the bars table and `last_trade_ts` | `build_dollar_bars`, `_flush_bars`, `load_dollar_bars` | two writes per flush, aborts between any steps, pages ending inside bars and milliseconds, resumption | every trade in exactly one bar, bars faithful, no data lost |
| HDF5 keys | `data/hdf5_keys.py` | none | `symbol_to_key`, `threshold_to_key` | truncation makes keys collide | one key, one data set |
| Kraken client | `data/kraken.py` | the ccxt exchange object | `fetch_candles`, `fetch_historical_candles` | overlapping pages, a page shortened by `until` | all candles of the interval, once |
| Historical candle store | `data/historical.py` | the `candles` table | `seed_database`, `fetch_and_store`, `fetch_and_store_all_deep` | repeated seeding, failures per symbol, `ON CONFLICT DO NOTHING` on a candle that was still forming | re-seeding is harmless and fills gaps |
| Reviewer state | `notifications/reviewer_state.py` | the `reviewer_sessions` table | `log_decision`, `current_session_override_rate`, `historical_mean_override_rate`, `should_escalate` | several queries before the row is written, rows without `decided_at`, a sliding window cut into calendar days | a flag has a cause in what went before; every override counts |
| Discretionary signals | `notifications/discretionary.py` | the `discretionary_signals` table | `submit`, `get_pending`, `mark_consumed` | read and mark in two transactions, several consumers, one that dies in between | how often an idea can be used is bounded |
| Database | `database/` | tables | model and session declarations | - | - |
| Labels | `research/labels/` | none (the bars are the input) | `cusum_filter`, `get_events`, `get_bins` | arms reset one at a time, first touch among three barriers, events at the end of the data | a label says which barrier was touched first, and no label looks ahead |
| Label and weight stores | `research/labels/storage.py`, `research/weights/storage.py` | HDF5 nodes with attributes | `store_*`, `load_*`, `list_*_configs` | overwriting in several steps, keys that collide, a listing keyed by the recipe's hash alone | what a store returned for can be loaded, and is listed as its own |
| Sample weights | `research/weights/` | none | `num_co_events`, `avg_uniqueness`, attribution, decay, sequential bootstrap | inclusive ends, repeated draws, decay rates below zero and below -1 | two ways of counting agree; a repeated draw never weighs more; what an old label weighs follows the rate |
| Purged cross-validation | `research/validation/` | none | embargo, purge, `PurgedKFold`, combinatorial splits, `cv_score` | lookups of block ends among event starts, rounding of the embargo to nothing | no training label overlaps a test label |
| Parallel engine | `research/features/mp_engine.py` | worker pool, futures | `mp_pandas_obj` | workers finish in any order, jobs fail, workers die | same result as the sequential map |
| Research seam | `research/seam.py` | none | a DTO with range checks | - | - |
| API, execution, sentiment, fundamental agents | `api/main.py`, `execution/`, `agents/sentiment.py`, `agents/fundamental.py` | none | a health endpoint; files with a docstring only | - | - |

### Interactions

Inside the process everything is a call. What runs concurrently with it, and is
therefore an actor of its own in the models, is: the reviewer (taps when he likes),
the Telegram server (holds long polls, numbers and forgets updates), the exchange
(trades are made and positions close while code runs), other requests on the same
event loop, other processes on the same database, and the operating system (a batch
job can die at any step). The trading loop that would join the coordinator, the
notifier and an execution layer does not exist yet (`execution/` holds docstrings),
so the models take the caller from the docstrings of the components, and say so.

`PROJECT.json` lists the hazards with the line at which each one bites.

## 2 Plan

In order of importance, done first:

1. `ApprovalGate` with `HitlPromise` - the human in the loop. Done, with proofs.
2. `RiskGate` and `SignalPipeline` - the limits, under stale snapshots. Done, with proofs.
3. `DollarBars` - the resumable pipeline. Done, with proofs.
4. `PurgedCV` - embargo, purge and both splitters; no leak, nothing dropped without
   need, and the block end that is not an event start. Done, with proofs.
5. `ReviewerLog` - decisions, the windows over them and the escalation rule, with
   the timeout that has no `decided_at`. Done, with proofs.
6. `DiscretionarySignals` - several consumers that may die. Done, with proofs.
7. `RecipeStore` - label and weight stores with an abort between any two writes, key
   collisions, listings. Done, with proofs.
8. `HistoricalSeed` - Kraken's pagination with the candle table. Done, with proofs.
9. `TripleBarrier` - CUSUM filter, barriers and bins, built after every bar, and
   `SampleWeights` on top of it. Done, with proofs.
10. `MpEngine` - workers finishing in any order, shown to implement `ParallelMap`. Done,
    with proofs.
11. `TechnicalAnalyst` - when there is a signal. Done, with proofs.

Every safety property that a run checks is stated by a theorem as well. Liveness stays with
TLC, but for what of it is safety: that no step of a run is in vain, and that a run which
ends has done its work (section 7). Modules that are proved about use recursive
functions and folds, no RECURSIVE operator.

## 3 What is modelled

### ApprovalGate: `TelegramNotifier.request_approval`

A request is one call of the coroutine; `pc[r]` is the `await` it is suspended at, so
that requests interleave exactly where asyncio lets them. What the code does between
two awaits is one action.

| Code | Model |
|---|---|
| `sent_at = time.monotonic()`, `send_message` (93-100) | `Start`, `Deliver`, `SendReturns`, `SendFails` |
| head of `while True` (164-175) | `LoopHead`, part of every action that reaches it; `Expired`, `PollFor` |
| `await self._bot.get_updates(...)` (177-182) | `Reply`, then `ReceiveNone` or `ReceiveTap`; `PollFails` for the `except` (183-185) |
| `for update in updates` (187-205) | `Mine`, `ActsOn`, `Beyond` |
| `await cq.answer()` (197) and the two comparisons of `cq.data` (199-205) | `AnswerReturns`, `AnswerFails` |
| the edit of the message, its error swallowed (108-134) | `EditReturns`, `EditFails` |
| the buttons of a message (`formatter.py`) | `Tap` |

Time is counted in ticks; `elapsed[r]` is `time.monotonic() - sent_at`. A call to
Telegram takes between nothing and `Latency` ticks beyond its long-poll timeout.
`TicksPerSecond` exists because the poll's timeout is `int(remaining)`: with two
ticks to the second the loop reaches a deadline with half a second left and polls
without waiting. The server's queue is `log` with `confirmed`, the largest update it
has forgotten. A failed poll may have been served before it failed. `Horizon` caps
`elapsed` one tick above the largest value `DecidesInTime` allows.

`HitlPromise` is the gate without clock and network: taps, and one outcome per
request that is either a decision the reviewer has tapped on that request or none at
all. `ApprovalGate!KeepsPromise` is the refinement; `tapped` maps to the set of
taps in `log`.

`mode` says whether the callers wait for one request to end before they make the next
(`"in turn"`) or not (`"at once"`). `Init` picks it and no step changes it; the code
allows both, and two of the properties are about the first only.

Not modelled: `send_alert`, `from_env` and the wording of messages; updates that are
not taps (the code passes over them like taps on another message); cancellation of
the coroutine; the limit of 100 updates per reply.

### RiskGate and SignalPipeline: `agents/risk.py`, `agents/coordinator.py`

`RiskGate` holds the checks of `RiskGate.validate` as operators, in the code's order
(`Validate`), with the hardcoded limits and the price levels the technical analyst
gives a signal (`Levels`). Prices are integers per lot, a lot being the 1e-8 units of
`position_size.quantize`; `Quantize` is the half-even rounding. `Invalid` keeps the code's
truthiness test: a price of exactly zero is missing, a negative one is not.

`SignalPipeline` composes it with the coordinator. `RunPipeline` starts a run,
`Judge` and `NoVerdict` are one `evaluate_symbol` each (the second stands for every
early return and caught exception before a verdict), `UpdateSystemState` is the
setter. Fetch and analysis are choices: any direction, entry and distance of the stop.
The caller is external and behaves as the docstrings ask: it reports changes between
runs, takes approved signals to execution (`Execute`) or not (`Cancel`) one at a
time, asks `check_kill_switch` after each change of the P&L and latches the flag
(`PnlMoves`), and resets it by hand (`ManualReset`). It does not check the limits
again. `PositionCloses` and `PnlMoves` may happen between any two steps of a run.

### DollarBars: `data/bars.py`

One `build_dollar_bars` after another. Trades are added to `market` at any time
(`Trade`), several to a millisecond. A run is a loop of `FetchPage` (fetch, ingest
each trade, decide whether to flush), `AppendBars` and `MarkCheckpoint` (the two
writes of `_flush_bars`), and ends with `FetchNothing` or a short page, `CloseBar` (the
trailing partial bar) and `MarkFinal`. `Abort` ends it at any step: the process dies,
or `fetch_trades` raises. `Start` resumes one millisecond behind the checkpoint, or at
a `since_ms` the caller gives. Bars carry the positions of their trades (`ids`), a
history variable that only properties read.

Assumed of the exchange: it lists trades oldest first, does not change them and
answers with the first `PageSize` trades from `since` on. Assumed of HDF5: a write that has
returned is in the file, and a write that was cut off is not. The conversion of
decimals to floats when bars are stored is left out.

### PurgedCV: `research/validation/`

An event is a position in `t1`, with a start (`t0`) and an end. `Init` chooses the
events, the embargo and the recipe. `PurgedKFold` and `CombinatorialPurgedKFold` are the
same generator for a different number of tested groups (one, for the former, whose
combinations are its folds in order), so one loop models both: `NextFold` takes the
next combination in canonical order and prepares the rows of `test_times`
(`BlockStart`, `BlockEnd`, `Embargoed`), `PurgeBlock` is one turn of the loop in
`get_train_times`, `Yield` ends the fold, and `Score` is the turn of `cv_score` that
consumes it. `EmptyGroup` and `FitFails` are the ways it raises.

`Embargoed` keeps what `test_times.map(embargo_map)` does with an end that is not a
key of the map: it becomes `NaT`, and every comparison with `NaT` is false.

Assumed: event starts are distinct, which `cusum_filter` guarantees (`split` only tests
for non-decreasing). `embargo_pct` is a whole percentage and the product exact;
the rounding of the floating-point product is left out. Estimators, weights and scores are
left out.

### HistoricalSeed: `data/historical.py`, `data/kraken.py`

One run of the seeding program after another, at times the operator picks
(`SeedDatabase`). A run is a list of phases: for each market a deep one and one of recent
15-minute candles (`DeepPlan`), or one per market with `--timeframe` (`SinglePlan`).

| Code | Model |
|---|---|
| `until = datetime.now()`, `since = until - ...` (historical 58-59, 98-99) | `BeginPhase` |
| a turn of `while current_since < until` (kraken 213-236) | `FetchPage`, `LastPage`, `PagesDone` |
| the `seen` loop (kraken 238-243) | `Reports`: of each candle the first report |
| `INSERT ... ON CONFLICT DO NOTHING` (historical 216-222) | `Insert`, in `StoreCandles` |
| the `except` of a phase, the rollback of its session | `PhaseFails` |
| process dies | `SeedKilled` |

Time is counted in the shortest timeframe and goes on between any two steps, so a
candle may close, and a new one open, between two pages. The exchange is external: it
serves the last `Kept` candles, the first `PageLimit` from `since` on, and shows a
candle that is still open. Prices are left out: what the table can get wrong is which
candles it has and whether it shows them closed.

### ReviewerLog: `notifications/reviewer_state.py`

`LogDecision` is `log_decision`: the metrics are computed from the log as it was
(`SeenByMetrics`), then the row is added. `ShouldEscalate` is `should_escalate` with the
mean, the standard deviation and the z-score multiplied out, since `sqrt` is not exact.
The log is kept by age in half days, so that the two sliding windows (24 hours and
`WindowDays`) cut calendar days as in the code. A row is an override that was
cancelled, one that timed out, or neither.

### DiscretionarySignals: `notifications/discretionary.py`

`Submit`, `GetPending` and `MarkConsumed` are the three methods, each one transaction.
The consumer between the last two is not in the repository; it is external: it uses
what it has fetched in any order (`UseIdea`) and may die (`ConsumerDies`). `uses` counts.

### TechnicalAnalyst: `agents/technical.py`

`Look` is a candle that closes, after which the coordinator has the last `Fetched`
candles analysed. `Analyze` makes the checks of `analyze` in their order. An average is kept
as a numerator over the denominator that all of its values share (`EmaScale`, a power
from `Powers`), so every comparison is exact where the code has 28 digits. The levels are
those of `RiskGate`. The fast period is above one, as in the code (9): an average over one
candle is the price itself, which is not above itself.

### TripleBarrier and SampleWeights: `research/labels/`, `research/weights/`

The build reads the whole history of bars at once. The model lets it grow a bar at a
time and is at each state what a build would give then: `FilterBar` is a turn of
`cusum_filter`'s loop, and events, barriers and bins are functions of the bars so far
(`Events`, `VerticalBarrier`, `FirstTouch`, `Barrier`, `Bin`, `GetBins`). That is how a label
which looks ahead would show: it changes when a bar is added (`LabelsAreFinal`). Bars
without a volatility are not filtered (`WarmUpBar`). Prices are powers of two (`Powers`),
so log returns are differences of levels and simple returns are exact fractions;
volatility is any of a set. A move that would take the level below zero is left out, which
keeps prices whole; `BaseLevel`, the first one, says how far down there is to go.

`SampleWeights` goes on from a history: `BuildWeights` counts concurrency and computes the
uniqueness, from which the attribution, the decay and the weight column follow, and
`Draw` is a draw of the sequential bootstrap, where the random generator is a choice.
`Whole`, the number a share is counted in, is a constant that every denominator which can
occur divides (`WeightAssumption`), so shares are exact. `TimeDecay` takes every rate that
`WeightConfig` does, in quarters; its three cases are the signs the slope's denominator can
have, and at -1, where the code divides by zero and every factor is NaN, it is 0/0.

### MpEngine and ParallelMap: `research/features/mp_engine.py`

`ParallelMap` promises what the comment "Single-process path - easier to debug, same
result" says: the call returns the atoms' results batch by batch, or raises, as the
sequential call would; and it does return if no worker is lost. The batch order, atom `a`
going to batch `(a-1) mod batches` and batches end to end, is stated as the one order
that meets those two conditions (`BatchOrder`), not as a computation. `MpEngine` is
`mp_pandas_obj`: `SubmitJobs` makes the batches and tests that they can be sent,
`RunInline` is the path with one thread, `GetFuture` waits for the next future, `Reduce`
puts the results together. With more batches than atoms the last parts of
`nested_parts` are empty and removed (`Parts`). The pool is external: idle workers take jobs, end them, or die
and are replaced (`TakeJob`, `EndJob`, `WorkerDies`).

### RecipeStore: `research/labels/storage.py`, `research/weights/storage.py`

Both stores in one file. A recipe is a symbol as it is spelled, a threshold, a label
recipe and perhaps a weight recipe; `Key` is the node it lies at. `BeginStore` is a call
up to the removal of the old node, `PutFrame` and `PutAttrs` write the new one, and
`StoreAborted` ends it between any two of them. `store_labels` and `store_weights` take
the same steps, and the map points to the latter. `known` remembers what returned.

A listing (`RowsListed`) is a function from the hash a row goes by (`Hash`) to the row
(`ListingRow`): the recipe with its label set, and the count. Of two nodes with one hash the
last in `store.keys()` leaves its row. Which one that is depends on the hashes; the
model takes one of them and no property asks which (`Contested`).

### Parts

The last seven share no state with one another. `Parts` puts them side by side, so that one
run checks them (`MCParts` gives the constants): the first state picks a `subject`, whose
steps alone are taken from then on. This is the sum of their state spaces, not the
product, and every property is stated about the one part it is about. For the other parts
it holds of their initial state.

## 4 What the runs show

| Run | Checks | Shows |
|---|---|---|
| `approvals` | `TypeOK`, `DecidedByOwnTap`, `FirstTapWins`, `DecidesInTime`, `PromptTapIsHonoured`, `EveryRequestEnds`, `KeepsPromise` | two requests about the same signal, one after the other with up to two taps on either message, or polling the same bot at once |
| `approval_late` | `ApprovedWithinTimeout` (violated) | an approval after the deadline is honoured |
| `pipeline_bounds` | `TypeOK`, `OpenBounded`, `HaltTakesHold`, `RiskWithinShare`, `CommitmentBounded` | what the limits guarantee although a run works from a stale snapshot |
| `pipeline_overshoot` | `PositionsWithinLimit` (violated) | one run opens a fourth position |
| `bars` | `TypeOK`, `CompleteAndOnce`, `OnlyTiesSkipped`, `BarsAreFaithful`, `LossIsBelowOneBar`, `BarsEndAtThreshold`, `RunCatchesUp` | aborts at any step, resumptions, `since_ms`, trades in one millisecond; a run that is left alone catches up |
| `purged_folds` | `TypeOK`, `NoLeak`, `EmbargoHolds`, `OnlyLeaksPurged`, `EvenlyTested` | every small set of events, both splitters |
| `purged_leak` | `TestRowsExcluded` (violated) | a fold trained on its own test rows |
| `parts` | `PartsTypeOK` and the properties below | seven parts that share no state, one at a time |
| `reviewer_blind` | `TimeoutsCount` (violated) | a timed-out signal does not show in the override rate |
| `bars_lost` | `NothingLost` (violated) | an abort after a flush in mid-bar loses trades |
| `decay_truncates` | `OldestShareTruncated` (violated) | a negative rate `c` zeroes the oldest `-c`, not the oldest `1 + c` |
| `weights_listed` | `EveryWeightSetListed` (violated) | of two label sets with one weight recipe the listing hides one |

The properties of `parts`:

| Part | Properties | What they say |
|---|---|---|
| `HistoricalSeed` | `NoGap`, `OnlyTheTipIsStale`, `SeedingEnds` | a phase that succeeded has all of its range in the table; the only rows that stay unfinished for ever are the candles in progress when a phase began; runs end |
| `ReviewerLog` | `FlagNeedsEarlierCancel`, `FlagNeedsSixDays` | no decision raises its own flag; a day of nothing but overrides is not flagged on a log of five days or fewer |
| `DiscretionarySignals` | `UsesBounded` | an idea is used once per consumer and once more per death |
| `TechnicalAnalyst` | `SignalFollowsPrice` | a long signal enters above both averages with its stop below the recent lows, a short one the reverse |
| `TripleBarrier` | `CusumIsDrawup`, `LabelsAreFinal`, `BinAgreesWithBarrier` | what the arms measure; no look-ahead; label, barrier and path agree |
| `SampleWeights` | `UniquenessPathsAgree`, `RepeatsLoseWeight`, `DecayByRegime` | sweep and indicator matrix agree; a repeated draw gets less likely; which labels a rate zeroes, and whether the old or the new weigh more, above, at and below -1 |
| `MpEngine` | `EngineIsAMap` | the refinement of `ParallelMap`, liveness included |
| `RecipeStore` | `KeepsWhatWasStored` | what a store returned for is loaded until a store with the same key, and a listing shows it as its own unless the same weight recipe is stored for another label set |

**Bounds of the approval runs.** Two requests are enough for a redelivered tap, for a
swallowed one and for the re-sent signal, since each of these involves one earlier or
concurrent request. Timeout 4, chunk 2 and two ticks per second give a full poll, a
shortened one and one of zero length; a call can take one tick longer, which is what
makes a late reply possible. Two taps are a change of mind, or one tap on each message.
Requests that overlap get one tap (`MCMaxTaps`): two overlapping polls and one tap already
show the swallowed tap (the request then times out), and the second would only make the
run longer than liveness allows.

**Bounds of the pipeline runs.** Two symbols are the program's own `SUPPORTED_SYMBOLS`.
The distances of the stop are picked so that each verdict occurs: 0 is a flat stop, 1
and 3 tie up all and a third of the capital, 40 needs rounding, 50 puts a short's
target at exactly zero, and 100 a long's stop (a price is not below zero, so no long's stop
is farther away than its entry). P&L on either side of the 5 % limit, and at it. Nothing else bounds
the runs: the limits do, which is what `OpenBounded` says.

**Bounds of the bars runs.** A bar is one trade of price 3 or up to three of price 1,
and a page two trades, so bars end inside pages, pages inside bars and both at once.
Four trades are two bars of three and one, or a bar and a partial one, over two full pages
and an empty one. Two aborts are enough for a second loss next to the first. A flush after
every bar, of which a page can close two, comes with and without an unfinished bar. Bars that
stay pending over a page, with a longer interval, are left to the theorems, which hold for
every `Interval` and every number of trades and aborts.

**Bounds of the purged runs.** All sets of up to five events on six bars, with all ends,
include events that end between, on and after the starts of others, that envelop a
block, and blocks with and without a known end. Embargoes of no, one and two events;
two and three folds, and two of three and of four groups, so that groups differ in
size, are empty, and two blocks are adjacent or apart. The theorems say that nothing
depends on these bounds.

**Bounds of `parts`.** Seeding: one market, pages of two candles over ranges of up to
five, an exchange that keeps four, three ticks of the clock; a range is shorter than,
equal to and longer than a page and reaches behind what the exchange keeps, and runs
overlap at their tips. Markets are independent rows of the table, so one is enough.
Reviewer: a window of five days and six rows (the code has 90 and 10), of which two
are overrides and one a timeout, at all ages; the shortest history that can be flagged fits.
Ideas: two consumers, two ideas and one death are an idea used three times. Analyst:
periods of two and three and a window of five, one more than the least, so that it slides; six candles at three
prices with both kinds of volume give every crossover and rejection. Labels and
weights: seven bars, of which four are filtered, steps up and down, two volatilities, a
horizon of two; every barrier occurs, labels overlap up to three deep, and two draws are
a repetition. Engine: up to four atoms, three batches, three threads, one failing atom.
Stores: two spellings, two thresholds with one key, two label recipes with one weight
recipe, three calls. The decay's rates are one or two of each regime: -1.5, -1, -0.75, -0.25,
0, 0.5 and 1. `decay_truncates` has -0.75 and -0.25 (at -0.5 the documented share and the
real one are the same), and `weights_listed` two calls.

### Where the code and its documents differ

1. *Late approvals* (`approval_late`). `request_approval` promises "approved=True on
   /approve within timeout" and ADR-002 "90 seconds -> auto-cancel (never assume
   approval)". The deadline is only looked at before a poll, so a tap made after it, in
   the time the last reply is under way, is returned as an approval. `DecidesInTime`
   bounds how late: one call to Telegram.
2. *A fourth position* (`pipeline_overshoot`). The limit is the "maximum open positions at
   once", but both symbols of a run are checked against the same snapshot. `OpenBounded`
   says that the excess is one run's other symbols and does not add up.
3. *Lost trades* (`bars_lost`). A flush in the loop checkpoints the last trade that was
   read, not the last that is in a bar. What is in the accumulator is skipped after an
   abort. `LossIsBelowOneBar` says that each gap is worth less than a bar.

4. *Test rows in the training set* (`purged_leak`). The splitters look the end of a
   block up among the starts of events. An outcome is known at some bar, and usually no event
   starts there; then nothing at all is purged for that block, not even its own rows.
   The unit tests use events that end where they start, which are always found. `NoLeak`
   and `EmbargoHolds` are stated for blocks whose ends are found, and hold.

5. *Timeouts do not count* (`reviewer_blind`). An override is "a non-approval (cancel or
   timeout)" on a confident signal, but the row of a timeout has no `decided_at` and every
   query asks for one. A reviewer who lets everything lapse has an override rate of zero.

6. *The truncated share* (`decay_truncates`). `WeightConfig`, `time_decay` and its test say
   that a negative `decay_c` zeroes "the oldest (1 + c) fraction of cumulative uniqueness".
   The formula zeroes the oldest `-c`: a quarter at -0.25, where three quarters are announced.
   The test's rate is -0.5, where the two agree. "There is no lower bound" on `decay_c`, but
   at -1 the slope is infinite (decay.py:21-24) and every factor NaN, and below it nothing is zeroed and
   older labels outweigh newer ones. `DecayByRegime` states what the code does for every rate.

7. *A hidden weight set* (`weights_listed`). `list_weight_configs` promises "every weight
   recipe stored for (symbol, threshold), across ALL parent label sets", with the hash of the label
   set as "the provenance link". Its rows go by the weight hash alone, so of two label
   sets with one weight recipe it shows one. The tests list different weight recipes.
   `KeepsWhatWasStored` says that this is the only case in which a stored recipe's row is
   not its own.

Smaller ones, seen while modelling and not worth a run:

- After an aborted store a listing raises, because a node has no attributes
  (weights/storage.py:192).
- `docs/strategy.md` gives RSI bands of 40-70 and 30-60; `analyze` rejects only above 70
  for a long signal and below 30 for a short one (technical.py:122-127).
- "Upsert candles" (historical.py:198) is an insert that leaves existing rows alone.
- A crossover through equality, one candle where both averages meet, is not seen as one
  (technical.py:240-246).
- `threshold_to_key` documents that it truncates; that two thresholds then share stored
  data is not said.

`FirstTapWins` and `PromptTapIsHonoured` are claimed for requests that do not overlap.
With two pollers on one bot the offset of one confirms, and so swallows, taps that
belong to the other; `KeepsPromise` holds even then, because a swallowed tap can
only turn a decision into a timeout.

### Mutants

Each property of a passing run has a mutant in `PROJECT.json`: a small change of one
definition, of the kind a bug would make (a bound by one, a kept field, a
comparison of the signal instead of the message), under which TLC finds the property
violated. The mutated operators stand just before the definition they replace
(`MineBySignal` before `Mine`); the specifications do not use them.

## 5 Fairness

`ApprovalGate!FairSpec` assumes that time passes (`WF(Tick)`) and that each request's
coroutine takes a step when one stays possible (`WF(Step(r))`): asyncio is fair
between ready coroutines, and the HTTP client bounds every call to Telegram, so each
await returns or raises. It is not assumed that any call ever succeeds, nor that the
reviewer taps. `EveryRequestEnds` says that again and again no request is under way: a
request is made once, so after the last of these moments all have ended. `Tick` cannot pass a call's bound, so the fairness of steps is
what moves a call on, and `EveryRequestEnds` does not rest on a poll succeeding.

`DollarBars!FairSpec` assumes that a run that has begun goes on: it is a
plain loop over blocking calls. This is weak fairness of `RunStep`, written out (a run has a
next step exactly while `pc` is not "down"), which TLC checks faster. It is neither assumed that a run is ever started nor
that trades stop arriving; `MaxTrades` bounds them in the runs.

`HistoricalSeed!SeedSpec` and `MpEngine!EngineSpec` likewise assume that a program that
runs goes on (`WF(SeedStep)`, `WF(EngineStep)`); the workers' steps are among the
engine's, since a pool of living processes works its queue off. A worker's death is
not assumed away: `ParallelMap` promises an answer only while none is lost. `Parts!PartsSpec`
states the same two conditions for the part the behaviour is about.

The pipeline has no liveness property: nothing in the code makes a caller call it.
Deadlock is not checked for the approval gate, which stops when every request has
returned, nor for the generator of folds, which stops when it is exhausted or has
raised, nor for `parts` and `reviewer_blind`, where a part stops at its bounds or when its call has
returned; it is checked in the other runs.

## 6 What is proved

Forty properties are checked by the passing runs; the theorems below state all of them for
every value of the constants, except liveness (section 7). `THEOREM X ==
Spec => []P` is written here as `X`: `P`.

**`DataFacts`** holds what the other modules share: least and greatest elements, minimal
subsets, division with remainder, sums over finite sets (any order gives the
same) and along sequences, their order and exchange, counting pairs and images, and powers.
Two of its lemmas, `Induction` and `SetInduction`, are induction itself, stated for the
*set* of numbers or of subsets that have a property, since a lemma cannot take the property
as an operator; and `RecursionFrom` says that a recursive function with a step given as a
function exists and unrolls. Everything the models compute by recursion (ingested pages,
averages, sweeps, folds) is reasoned about through these.

**`ApprovalGateProofs`**, for any set of requests, any timeout, latency and chunk, and
any number of taps, sequential or concurrent, with any failures:

- `TypeCorrect`: `TypeOK`.
- `OwnTapDecides`: `DecidedByOwnTap`. The invariant `OwnTapInv` adds what is
  known before the decision: the update a request acts on is a tap on its own message
  from the moment it is picked until it is reported.
- `InTime`: `DecidesInTime`. `TimelyInv` bounds the age of a request plus what
  its call may still take, for each await: a poll never outlives the deadline by more
  than one call, and answering the tap adds one more.
- `FirstTapDecides`: `FirstTapWins`. `UnreadInv` is needed because the property
  says nothing of taps that are not read yet: with one request at a time, every tap
  below a running request's offset is on another message, and every tap on its own
  message is neither confirmed nor passed over.
- `PromptTapsCount`: `PromptTapIsHonoured`. `PromptInv` looks at a request whose polls all
  succeeded: a tap that the reply on its way back lacks was made after the server sent
  that reply, at most one call ago. So once the loop sees that the deadline has passed, a
  tap it does not know of was made in the last call before it.
- `GateKeepsPromise`: the gate implements `HitlPromise`. Each action is mapped to a tap, a
  decision, giving up, or a stutter, under the invariant of `OwnTapDecides`.

**`SignalPipelineProofs`**, for any list of symbols, prices, distances, P&L values and
capital:

- `PipelineTypes`: `TypeOK`, which is not immediate because a snapshot contains a sum.
- `PositionsStayBounded`: `OpenBounded`.
- `HaltIsFinal`: `HaltTakesHold`.
- `SizedWithinShare`: `RiskWithinShare`, from lemmas on division and on the
  half-even rounding.
- `MoneyStaysBounded`: `CommitmentBounded`.
- `OneSymbolKeepsLimit`: with one symbol, `PositionsWithinLimit`. The finding of
  `pipeline_overshoot` takes a second symbol.

All rest on `PipelineInv`. Neither bound is inductive as it stands: a run that
was judged by an old snapshot may still open as many positions as it has cleared
signals and symbols to go (`MayYetOpen`), so the invariant counts those along with the
open ones, and a run can only have something cleared if the snapshot it works from had
room. Likewise for the trades after a halt (`MayYetTrade`): a run that starts after the
flag is set clears nothing. `CommitInv` does the same for money: what is tied up, what the
cleared signals would tie up and, for each symbol to go, the room that the snapshot
left, are together within the bound. It counts everything twice, because rounding a size to
a lot costs half a lot.

**`PurgedCVProofs`**, for any grid of bars, set of events, embargo and recipe:

- `FoldsTyped`: `TypeOK`.
- `TrainingNeverLeaks`: `NoLeak`.
- `EmbargoIsKept`: `EmbargoHolds`.
- `PurgeIsMinimal`: `OnlyLeaksPurged`.
- `EventsEvenlyTested`: `EvenlyTested`.
- `LookupDecides`: the rows of a block whose end is found are not trained on, and a fold
  none of whose ends is found is trained on every event (`ExcludedWhenFound`). For
  `PurgedKFold`, whose folds have one block, this is exactly when `TestRowsExcluded` fails.

`PurgeInv` says, at every turn of the purge, that what is kept overlaps no block but
those still to come, and that what is dropped overlaps some block (`Purged`). The rest is
about one block: groups lie within the list of events (`GroupsInside`, by Euclid's
division), its end is the latest of its events' ends (`LatestEnd`), the embargo reaches `Step`
positions further (`EmbargoFound`), and positions count events because starts
ascend (`CountBetween`). For `EventsEvenlyTested` `OwedInv` says that every combination of groups is
either ahead, under way or scored, and only one of these (unless the generator raised); that a group is in the
same share of all combinations follows by counting the pairs of a group and a combination
in two ways, the groups being interchangeable.

**`DollarBarsProofs`**, for any trades, page size, threshold, flush interval and number
of aborts. One lemma, `IngestedKeeps`, goes through the trades of a page; each
invariant uses it with a relation of its own between a trade and the state it leaves.

- `BarsTypes`: `TypeOK`, with `TypesInv`: between runs nothing is left in memory.
- `StoredBarsAreFaithful`: `BarsAreFaithful`, and `BarsEnd`: `BarsEndAtThreshold`. `BarsInv`
  says of every bar, written or not, that it sums up its trades, and that without the last
  of them it was below the threshold.
- `SkippedTradesAreTies`: `OnlyTiesSkipped`. `PositionInv` relates cursor, last trade read
  and checkpoint: a page starts where the last one ended, nothing is marked that was
  not read, and a flush is written before it is marked. `TiesInv` extends the property to
  a run under way, whose trades may still be in memory.
- `LossStaysBelowOneBar`: `LossIsBelowOneBar`. `HeldInv` says that what was read since the last
  mark is still held, that the accumulator holds the newest trades without a gap, and that
  a trade which a mark puts behind the checkpoint comes before those in the accumulator.
  So what an abort loses was in one accumulator, worth less than a bar, and two losses
  never touch.
- `BarsCompleteAndOnce`: `CompleteAndOnce`. `CompleteInv`: bars, pending bars and
  accumulator, end to end, are the first trades of the market, and exactly those up to the
  last one read.
- `NothingLostUninterrupted`: while nothing was aborted, `NothingLost`. The finding of
  `bars_lost` takes an abort.
- `RunsWindDown` and `RunsReadToTheEnd`: what of `RunCatchesUp` is safety. `StepsLeft` is
  three steps for each trade the run has yet to read, and what remains of its present
  stage; every step of a run takes at least one off, because a page that is not empty holds a trade
  that was unread (`PageShortens`), and a trade made meanwhile adds three at most. The loop is
  left only on an empty page or after a short one, and then every trade there is has been read
  (`EmptyPageIsLast`, `ShortPageIsLast`: what is due and not on the page would have
  had room); a run that began at the checkpoint ends with the last trade it read behind it.

**`CandleProofs`**. About `HistoricalSeed`, for any markets, spans, limits and clock:

- `SeedLeavesNoGap`: `NoGap`.
- `StaleOnlyAtTheTip`: `OnlyTheTipIsStale`.
- `SeedingWindsDown`: what of `SeedingEnds` is safety. `SeedLeft` bounds the steps of a run by
  its phases and by the length of what each has yet to fetch, and every step lowers it,
  although the clock goes on: the range of a phase is fixed when it begins, and a
  full page moves the cursor (`GoodBatch`).

All rest on `SeedInv`. Its part `GotInv` is about the pages fetched so far while the clock
goes on: every candle of the phase's range below the cursor has been got, and
only the candle in progress when the phase began can be an open one, because the
`until` of the last page filters the later ones.

And about `TechnicalAnalyst`, for any periods and candles:

- `AnalystTypes`: `AnalystTypeOK`.
- `SignalsFollowPrice`: `SignalFollowsPrice`. `AdviceInv` only says that the advice is what
  `analyze` gives for the window; the work is in the averages. Each is a mean of the last
  price and the previous average (`EmaUnrolls`), with more weight for the price in the fast
  one, so the two can only change places at a price beyond both (`CrossedByPrice`); and the
  stop lies beyond the lows, or highs, of the window (`Extremes`, `NewestAre`, `SwingBounds`).

**`PartsProofs`**. About `DiscretionarySignals`, for any finite set of consumers and
any number of ideas and deaths:

- `UsesAreBounded`: `UsesBounded`. Once an idea is marked the bound is not
  inductive by itself: those who fetched it earlier will still use it. `UsesAccounted`
  counts them: before the mark, whoever used an idea has it in hand or has died; after it,
  uses and waiting consumers together are within the bound. `HandsApart` says that a
  consumer does not wait for what it has in hand, so nobody is counted twice.

And about `ReviewerLog`, for any window and history:

- `FlagsHaveCause`: `ReviewerSpec => FlagNeedsEarlierCancel`. If no day differed, the sum of
  squares would be zero and there would be no score.
- `SixDaysBeforeAFlag`: `FlagNeedsSixDays`. Today is one of the days it is measured against,
  and no value of `n` lies further than (n-1)/sqrt(n) deviations above their mean
  (Samuelson's inequality, `FurthestFromTheMean`); that is below two for five days.

And about `Parts`, for any constants of the seven:

- `PartsBehaveAsAlone`: a behaviour of the whole is one of each part, so what is proved of a
  part holds where the run checks them side by side.
- `PartsKeepTypes`: `PartsTypeOK`, from the types of the parts.

**`LabelProofs`**. About `TripleBarrier`, for any configuration, volatilities and moves:

- `CusumMeasures`: `CusumIsDrawup`; the case of each arm, reset or not.
- `NoLookAhead`: `LabelSpec => LabelsAreFinal`. A bar changes nothing of the history
  (`HistoryGrows`); what is new of the touches of a resolved event lies behind all that was there, so
  the first one stays (`LabelStays`, with `LeastExists` of `DataFacts`), and with it
  barrier, return and bin.
- `LabelsTellTheStory`: `BinAgreesWithBarrier`. The first touch is one of the bars that
  crossed a barrier (`FirstTouchIs`), and the simple return there has the sign of the log
  return, prices being positive (`GainHasSign`).

About `SampleWeights`, for any such history, decay and draws, under `WeightInv` (the labels
were built from the history and their weights from the labels):

- `UniquenessIsOne`: `UniquenessPathsAgree`. The sweep over starts and ends is a count
  that goes up with each label that begins and down after each that ends; `SweepCounts` shows
  that it equals the number of labels over each bar, which is what the matrix counts.
- `DrawsLoseWeight`: `RepeatsLoseWeight`. One more label over each bar makes every share
  smaller, and strictly so, because shares are exact in units of 1/`Whole`.
- `DecayFollowsItsRate`: `DecayByRegime`, for every rate that `WeightConfig` admits, one case
  per regime. The cumulative uniqueness is ascending (`CumulativeGrows`) and positive
  (`CumulativeIsPositive`), and the slope has the sign of `1 + c`. That the zeroed share is
  `-c` contradicts the documents (finding 6).
- `WeightTypes`: `WeightTypeOK`. That an average uniqueness is at least 1 in units of
  1/`Whole` and at most `Whole` is a mean of shares each between these (`UniquenessIsAPart`).

About `RecipeStore`, for any symbols, thresholds and recipes:

- `StoreKeeps`: `KeepsWhatWasStored`. While a call is under way, no recipe
  with its key is known to be stored (`CallUnderWay`), which is why an abort loses
  nothing that is known. A label set's hash is the last part of its key, so no other node
  takes its row; a weight set's is not (finding 7), and its row is proved to be its own where no
  other label set has the same weight recipe.

About `MpEngine`, for any calls, failing atoms, threads and deaths:

- `EngineImplementsMap`: `EngineSpec => MapSafety`. Every step of the engine maps to a
  step of `ParallelMap` or to a stutter. `EngineInv` says that what is collected is the first
  batches, none of which failed, whatever the order the workers ended in;
  `BatchesInOrder` that all batches end to end are in the order of the sequential call.
- `EngineTypes`: `EngineTypeOK`.
- `CallsRunOut` and `CallsNeverStick`: what of the return of a call is safety. Each step, a
  worker's death included, lowers `EngineLeft` (three for a queued job, two for a running
  one, one for one that is done), and while no worker is lost there is always a step to
  take: the next future to be asked for is done, is running, or is queued
  while a worker is free or busy. `JobsInv` says that what is collected is the first jobs
  and that a job is lost only if `lost` says so.

Assumptions are the `ASSUME`s of the modules (`ConstantsAssumption`, `PipelineAssumption`,
`AnalystAssumption`, `BarsAssumption`, `PurgedCVAssumption`, `SeedAssumption`,
`ReviewerAssumption`, `IdeasAssumption`, `LabelAssumption`, `WeightAssumption`,
`StoreAssumption`, `EngineAssumption`), which TLC evaluates in the runs. Most give types and
signs. Those that say more: the exchange's page holds more than one candle
(`SeedAssumption`; the code would not get past a page of one), labels have a legal configuration as
the code's own checks demand (`LegalConfig`), periods are ordered as in the code's
constants (`AnalystAssumption`), and shares are counted in units that divide exactly, with decay
rates any multiples of a quarter up to one, which is all that `WeightConfig` asks (`WeightAssumption`).

## 7 What is only model-checked, and what is left out

Liveness is out of the prover's reach: `EveryRequestEnds`, `RunCatchesUp`, `SeedingEnds` and,
of `EngineIsAMap`, that the call does return. For the last three the safety half is proved:
every step of a run lowers a number that is never negative (`RunsWindDown`,
`SeedingWindsDown`, `CallsRunOut`), and what holds at its end is what was promised
(`RunsReadToTheEnd`, `SeedLeavesNoGap`, `EngineImplementsMap`). What remains for TLC is that
fairness brings such steps about, which needs one to be possible until the run is over. For
the engine that is proved as well, in the form of its guards (`CallsNeverStick`); the loops
of the other two have a step in every stage, the guards within a stage being complementary.
For the gate the bound on the age of a request, `DecidesInTime`, is the safety half: only the
passing of time ends a request whose polls fail for ever. `RunCatchesUp` is checked with
trades bounded; without a bound, a market that makes trades as fast as a run reads them
keeps it running, and `RunsWindDown` says what each of them costs.

The library's induction theorems take an operator as a parameter, which the provers do not
accept. Where a proof needs induction it goes through the lemmas on sets named above, and every
property of a recursive function is proved for that function.

Not modelled: `ewma_vol`'s value, whose only effect is the size of targets and
thresholds (it is any value in the model), the estimators and scores of
`cv_score`, redux functions and pickling in the parallel engine, `fetch_ticker` and `fetch_balance`,
corruption of an HDF5 file by an abort inside the library, the declarations of tables
nothing writes yet, the research seam, the API, the stubs and the scripts: they have no
behaviour over time that a model could show wrong, or compute floating-point values that
nothing else depends on.
