# ReclaimEdge: verification project

TLA+ models of the live trading runtime of ReclaimEdge, checked with TLC and
proved about with TLAPS. Source paths below are relative to the repository
root.

## 1. The system

ReclaimEdge trades one perpetual contract at OKX or Binance. A monitor turns
candles and trades into ticks; a strategy turns ticks into intents; workers turn
intents into orders and keep what the program believes in step with what the
exchange holds.

```
 websocket feeds -> BollBandBreakoutMonitor -> tick queue -> strategy tick worker
                                                              | on_tick: intents
                                                              v
     exchange <---- Trader / TP-SL managers <---- execution worker <- execution queue
        ^                                              |  strategy.state, ExecutionState
        |                                              v  (state_lock)
        +-------------------------------------- account sync worker
                                                       |
                        live state file, journal, rolling-loss state, e-mail
                                                       ^
                              weekly summary loop + compaction thread
```

### Inventory

| Component | State | Operations and interactions | What makes it correct | Module |
|---|---|---|---|---|
| Strategy tick worker, queues (`src/live/workers/strategy_tick_worker.py`, `queue_helpers.py`) | tick queue, execution queue, `pending_order_count` | one tick: `on_tick`, halt filter, snapshot, enqueue; a full queue halts and rolls back | no tick while a command is pending or under a full halt; the rollback leaves nothing half done | `LiveRuntime` |
| Execution worker (`execution_worker.py`, `execution_command_processor.py`, `execution_failure.py`) | the command in process, `ExecutionState` | entry, take-profit update, trend stop update, runner exit; failure handling, rollback, alert | every command is counted down once; a failed entry with a live position halts, tracks and exits it | `LiveRuntime` |
| Account sync worker (`account_position_sync_worker.py`, `account_sync/*`) | the fetched position, payloads of the cycle | fetch, flat detection, settlement, cost sync, take-profit progress, delayed exit, protective stops, save | a settlement never erases an entry; a flat is settled; a position is adopted | `LiveRuntime` |
| Halt modes (`halt_modes.py`) | none | reason to mode to intents | only the right halts are lifted | `HaltModes` |
| Delayed market exit (`delayed_market_exit.py`) | ten fields of `strategy.state` | arm, due, mark, clear | armed, countdown, one exit, wait, clear | `DelayedMarketExit`, `LiveRuntime` |
| Startup recovery (`startup_recovery/*`, `scripts/run_boll_cvd_live.py`) | reads everything persisted | trust check, restore, order recovery | the position found is tracked | `LiveRuntime` (position), planned (orders) |
| Rolling loss guard (`src/risk/rolling_loss_guard.py`) | drawdown window, triggers, active halt | evaluate after a flat, resume, reset | each threshold triggers once; a halt lasts its hours | `LiveRuntime` (decision), planned (numbers) |
| Live state store (`src/reporting/live_state_store.py`) | one JSON file | save, load, clear | the file describes the open position | `LiveRuntime` (side, id), planned (rest) |
| Trade journal (`trade_journal.py`) | append-only event file | append, group, hand out position ids | events are not lost; ids are not reused | `JournalCompaction` |
| Journal compaction (`journal_compactor.py`) | archive files, summary file | archive, rewrite, summarise, restore | a trade is counted exactly once | `JournalCompaction` |
| Reports (`daily_trade_reporter.py`, `report_*.py`) | none | render journal and summary | a function of the files | not modelled |
| Trader (`src/execution/trader.py`) | contracts held, order ids | market orders, sizing | an error does not mean that nothing filled | `LiveRuntime` (outcomes), `ExitOrders` (stops) |
| Take-profit and stop managers (`tp_sl_*.py`, `order_specs.py`) | live order ids | cancel and place, retries, market exit | no position without exit orders, no orphan orders | `ExitOrders`, `LiveRuntime` (outcomes) |
| Private clients (`okx_private_client.py`, `okx_trading_client.py`) | request rate window | signed requests, retries | the limiter never exceeds its rate | planned |
| Exchange semantics and adapters (`src/exchanges`) | none | mapping, signing, preflight | the plan sent is the plan meant | planned in part |
| Market data feeds (`src/data_feed`) | subscriptions, last sequence | connect, decode, reconnect | events in order after a reconnect | planned |
| Monitor (`src/monitors`) and warm-up | candles, band, queue, cooldown of signals | REST poll, stream, recalculation, dispatch | the band follows the newest candle; a signal is a crossing | `BandMonitor` |
| CVD tracker (`src/indicators/cvd_tracker.py`) | rolling windows | update, evict, snapshot | sums equal the events in the window | `CvdTracker` |
| Reclaim strategy (`boll_cvd_reclaim_strategy.py`, `reclaim_*.py`, `anchored_orderflow.py`) | setup, order flow and extremes of each side, cooldowns | `on_tick`: observe, arm, confirm, enter, miss | one side at a time; no entry on a used-up break | `ReclaimEntries`, `LiveRuntime` (intents) |
| Adds, freeze chain, shock strategy (`extreme_retest_add.py`, `add_freeze_chain.py`, `boll_cvd_shock_reclaim_strategy.py`) | layers, gates | - | not built by the live program | not modelled |
| Take-profit plans and runners (`tp_*.py`, `middle_*.py`, `three_stage_runner.py`, `trend_runner.py`; `tp_progress*.py`) | plan, stage, runner flags, split of the first bucket | select, degrade, recognise, update | stages advance once, in order, when they were sold, and each asks for its stop | `TakeProfitProgress`, `TrendRegime` |
| Regimes, trend breakout (`regime/*`, `trend_breakout*.py`, `trend_upgrade_addon.py`) | breakout, detector, metrics, closed candle | assess, confirm, enter, upgrade, add on | a trend is entered on its close; its stop tightens | `TrendRegime` |
| Position sizing, cost basis | cost fields | size, sync, apply | floating point arithmetic | `TakeProfitProgress` (cost sync), `LiveRuntime` (adoption) |
| Alerts, e-mail, logging | deduplication | send | failure leaves the rest alone | as awaits |
| Assembly, configuration, watchdog, tools | none or external | start | - | not modelled |

### What is hard here

* Three tasks share `strategy.state`, `ExecutionState` and the state file; each
  reads, awaits the network, and writes what it concluded.
* An order may fail and fill; a fill may be seen late by the sync.
* A failed command restores a deep copy of the strategy state taken at its tick.
* A crash keeps the exchange position, the state file and the guard's file, each
  as old as its last write.
* The delayed exit must neither be lost, sent twice, nor postponed for ever.
* The compaction thread rewrites the journal while the event loop appends.
* `strategy.state` is replaced as a whole by a flat, a rollback and a restore;
  what the strategy keeps outside it (order flow, extremes, breakout, detector,
  candles) is not.
* The stage of a position is inferred from quantities, while the plan, the
  orders and the total it is measured against change.
* Trades, candles and answers of the exchange arrive late.

## 2. Modules

| Module | Lines of the system it models |
|---|---|
| `HaltModes` | halt reasons, modes, and the lists the settlement and the delayed exit consult |
| `DelayedMarketExit` | abstract specification: what a delayed exit promises to the outside |
| `LiveRuntime` | the three workers, failures, time, the exchange, crash and startup |
| `MCLiveRuntime` | instances of `LiveRuntime` for TLC: sets of sides and their symmetry |
| `JournalCompaction` | journal, archive, summary, the event loop and the compaction thread |
| `ExitOrders` | take profits and protective stops as individual orders: the managers, the trader's and the strategy's ids of them, and the sync beside the worker |
| `TakeProfitProgress` | the stages of a position over quantities: plans, legs, partial fills, recognition, degrades, stops asked for |
| `BandMonitor` | candles, band and tick queue under the four loops of the monitor |
| `CvdTracker` | the windows and sums of the order flow |
| `ReclaimEntries` | the setups of the two sides, from the first break of a band to an entry |
| `TrendRegime` | the trend regime: breakout, detector, entry, and the stop of a position from stage to stage |
| `MCStrategy` | one instance of the last four side by side, the parts a tick passes |
| `LiveRuntime_proofs` | proofs: types, the inductive invariant, the safety theorems, the refinement of `DelayedMarketExit` |
| `JournalCompaction_proofs` | proofs: the inductive invariant of the journal |
| `ExitOrders_proofs` | proofs: numbers, kinds and covers of the orders; every safety property |
| `TakeProfitProgress_proofs` | proofs: what ties state, command and sync together; every safety property |
| `ReclaimEntries_proofs` | proofs: setups, also in the state a rollback restores |
| `TrendRegime_proofs` | proofs: what an entry and a tightening stop rest on |
| `MarketData_proofs` | proofs: what a signal and a newer band rest on, and the sums and extremes of the order flow |
| `MCStrategy_proofs` | proofs: what holds of a part of the strategy holds of the parts side by side |

### LiveRuntime

*Atomicity.* The tasks run on one event loop. No section under `state_lock`
awaits, so the lock is never contended, and control changes hands only at an
await on the network, a queue, a timer or an e-mail. Each action is the code
between two such awaits; `worker.pc` and `sync.pc` name the await at which a task
stands.

*State.* `position` and `late_order` are the exchange. `trading_halted`,
`halt_reason`, `current_position_id` and `pending_order_count` are the fields of
`ExecutionState`. `state` is the part of `StrategyPositionState` the workers
decide on: the tracked side, the delayed exit (status, reason, side, whether its
deadline passed) and how many legs of the first take profit have asked for their
protective stop. `queue` holds `TradeCommand`s with their snapshots; `guard` and
`disk` are the persisted rolling-loss state and state file. Prices, quantities
and order ids are abstracted; where the code branches on them (a fill, a stop
that is refused) the model branches both ways. Four protective
stop reasons that are treated alike share one name, and every reason outside all
lists is `execution_failure_live_position`.

*Actions and code.*

| Actions | Code |
|---|---|
| `Tick`, `StrategyTickQueueFull` | `strategy_tick_worker`, `enqueue_strategy_tick` |
| `TakeCommand`, `EntryCashFetched`, `CommandRaises` | `execution_worker`, start of `process` |
| `EntryFills`, `EntryFillsUnseen`, `EntryProtected`, `EntryUnprotected`, `EntryFailureAlerted` | `Trader.execute_intent`, `_apply_entry_result`, failure branch of `process` |
| `UpdateSucceeds`, `UpdateFails`, `UpdateFailureAlerted` | `_apply_update_tp_result`, arming branch of `process` |
| `RunnerExits`, `RunnerExitApplied`, `RunnerExitFails` | `execute_market_exit_runner`, `_apply_market_exit_runner_result` |
| `FailureFetched`, `FailureApplied`, `FailureMailed` | `handle_execution_failure` |
| `SyncFetch`, `SyncFlatDetected`, `SyncNothingHeld`, `SyncHeld` | `run_account_sync_pre_core_position_phase`, take-profit progress |
| `DmeSideGone`, `DmeSideGoneMailed`, `DmeTerminal`, `DmeDue`, `DmeExits`, `DmeExitMarked`, `DmeExitFailed` | `run_delayed_market_exit_phase` |
| `StopsPlaced`, `StopsFail`, `StopsFailureAlerted` | `run_account_sync_protective_orders_phase` |
| `SettleReset`, `SettleFinish` | the two flat settlement phases, guard evaluation |
| `DeadlinePasses`, `HaltExpires` | the clock of the delayed exit and of the guard |
| `PositionCloses`, `ManualTrade`, `LateFill` | the exchange |
| `Restart` | crash and `main` up to the start of the tasks |

*Timing assumptions.* Two comparisons of durations are assumptions of the model,
each visible in a guard: a market entry is answered before a whole sync cycle
settles around it (`OpeningInFlight`, against the order timeout of
`Trader.execute_intent`), and the thirty minutes of a delayed exit do not elapse
within one command (`DeadlinePasses`). Order requests take seconds; both
durations are configured orders of magnitude apart.

*Left out.* The stale split add guard (`execution_command_processor.py:153-197`)
is dead, since `SPLIT_TP_PLANS` is empty (`tp_progress.py:16`). The dirty
post-TP1 stop guard, the TP2 cancel-pending halt and the
`*_net_position_missing` halts only add halts that need an operator. Cash
transfers, cooldowns, failing disk writes and exceptions inside `on_tick` do not
touch the modelled state or end the process, which `Restart` covers. The stop of
a runner whose size does not fit (`tp_progress_phase.py:287`) is left out: the cost
sync of the same cycle (line 90) has just made the total equal to the quantity
left, so the reduction it asks for is never seen. After
`Restart` the stop of a partial take profit is due again, which over-approximates
what the file remembers. Startup may take over any id the journal has not just seen
closed, more than `find_latest_unclosed_position` offers.

### JournalCompaction

Files are sets of events grouped by position; an event carries its position, its
kind and the week it was written in. `LiveTradeJournal.append` opens the file by
name and writes to what it opened: between the two, `os.replace` in the
compaction thread may have installed another file and the event goes to the old
one. The thread's writes are separate actions, each may raise, and the process
may stop between any two. Events of no position always stay in the journal and
are left out.

### ExitOrders

*State.* `tps` and `stops` are the open orders at the exchange; `cover` are the
stops placed for the whole position as it is now (an add makes the older ones too
small). Three parties remember ids: the trader (`tp_order_id`, `sl`), the strategy
state (`state`), and the command at work (`worker`), and each may be out of date.
`alarm` is an armed exit or a halt, which `LiveRuntime` models in full; `gone`,
`stale` and `foreign` are history variables for the properties.

| Actions | Code |
|---|---|
| `Enter`, `EntryStopPlaced` | `Trader.execute_intent` after the fill |
| `UpdateTakeProfit`, `NothingToProtect`, `CancelOwnTakeProfits`, `FindUnmanaged`, `PlaceLeg`, `LegFails`, `RunnerStopPlaced` | `replace_take_profit` |
| `UpdateTrendStop`, `TrendStopPlaced`, `CancelOldStop` | `_execute_update_trend_sl` |
| `StopUnverified`, `StopFails` | `place_protective_stop_with_retries` |
| `RunnerActivates`, `SyncStopPlaced`, `SyncStopFails` | take-profit progress and protective orders phases |
| `SettleFlat` | settlement of a flat |
| `MarketExit` | `market_exit_remaining_position_with_retries`, `_cleanup_after_market_exit` |
| `TakeProfitFills`, `StopTriggers`, `OwnerPlacesTakeProfit` | the exchange and the owner |

*Left out.* Prices and sizes; the split of the first take profit, whose fast leg
has a stop slot of its own; a restart, after which the trader knows only its take
profits; the shared slots of the middle, trend and post-TP1 runner stops, which
are one slot here because the branches for them repeat each other. Orders of one
cancellation are cancelled in one step.

### TakeProfitProgress

*State.* Sizes are contracts, ratios thousandths. `qty` and `legs` are the position
and its resting take profits at the exchange; `st` is the part of
`StrategyPositionState` that says which plan is on, how the first bucket is split and
what was recognised as sold; `ex` is the execution worker with the intent it carries
out, `sync` what the account sync has fetched and not yet used; `asked` is a history of
the stops the sync asked for.

| Actions | Code |
|---|---|
| `Enter`, `UpdateTp`, `UpdateWaitingTp2` | `tp_plan_selector.py`, `middle_bucket_split*.py`, `tp_update_coordinator.py`, `tp_lifecycle.py` |
| `Fetch`, `Place`, `PlaceFallsBack`, `UpdateFails`, `Apply` | `tp_sl_core_tp_manager.py`, `order_specs.py`, `_apply_update_tp_result` |
| `SyncFetch`, `SyncApply`, `Settle` | `tp_progress_phase.py`, `tp_progress.py`, `cost_runtime.py`, `middle_bucket_split_state.py` |
| `Fill`, `Close` | the exchange |

*Left out.* Prices; adds (the live strategy sends none); the market exit of a runner
and restarts, which `TrendRegime` and `LiveRuntime` have.

### ReclaimEntries

*State.* Each side has a setup in `strategy.state` (`st.setup`: observed, armed, its
missed confirmations, its break) and trackers outside it (`tr`: whether the order
flow is anchored, the fractal extremes). `st.side` is the position, `st.cool` the
sides under the cooldown after a stop loss, `pending` the entry in flight with the
state from before its tick, `v2` whether version 2 of the reclaim entry is on. `broke`
(sides whose break is not used up), `outlived` (sides whose setup stayed although its
break was) and `torn` are history variables for the properties.
Prices are depths beyond a band; comparisons of order flow and of time are left open.
Bands move, so the zone of a tick is independent of the levels of earlier ones.

| Actions | Code |
|---|---|
| `Tick` | `on_tick` without a position: `_update_armed_state`, both setups, `_route_regime`, `open_position` |
| `HeldTick`, `HeldTickRefused` | `strategy_tick_worker`: a tick with a position, and a queue without room |
| `EntryFilled`, `EntryRolledBack` | `_apply_entry_result`, `handle_execution_failure` |
| `FlatSettled`, `Adopted`, `Restart` | settlement, adoption and restore: the state is replaced, the trackers stay |

*Left out.* The volume profile and the size of an entry. A cooldown that is over is not
put back by a rollback.

### TrendRegime

Breakout, detector, metrics and closed candle advance on different ticks, and none is
in `strategy.state`. A position has a regime, a stage of its take profit, and two
stops: that of the stage and that of the trend. `order` is what the last tick sent
and what the position was before it. The model is of `TREND_BREAKOUT_ENABLED` with
`TREND_CONFIRM_REQUIRE_CANDLE_CLOSE` and closed candles; both stop kinds share one
scale of levels, a higher one being tighter.

| Actions | Code |
|---|---|
| `FlatTick` | `_route_regime`, `TrendBreakoutAssessor.assess`, `TrendDetector.assess`, `open_trend_position` |
| `ManagedTick` | `maybe_update_tp`, `_maybe_update_trend_trailing_sl`, `_maybe_trend_upgrade_addon` |
| `ExitTick` | `_maybe_trend_runner_market_exit` |
| `CandleClosed`, `BreakoutAges` | the candle and the clock of the detector |
| `CommandDone`, `CommandFailed` | the results of the execution worker, `apply_trend_upgrade_addon_state`, the rollback |
| `FirstPartSold`, `SecondPartSold`, `PositionGone`, `TrendRestart` | account sync, settlement, restore |

### CvdTracker and BandMonitor

`CvdTracker` keeps the deques and sums of `CvdTracker.update` as they are, over
integer times, prices and volumes; `counted`, the trades counted so far, is the
reference they are compared with. `BandMonitor` keeps the list of candle times and the
band as the four loops of the monitor change them; a tick that finds the queue full
waits with the band it took. Both stand alone: the regimes take any order flow and any
band.

## 3. Runs

| Run | Question | Result |
|---|---|---|
| `live_runtime` | safety with two positions, both sides, queue of two, late fills, one crash; the inductive invariant | holds, 3.2 million states |
| `live_runtime_manual` | refinement of `DelayedMarketExit` when the owner trades too, the first take profit fills in two legs and the guard halts | holds, 3.9 million states |
| `live_runtime_progress` | liveness under fair workers, two stops that may fail | holds, 391 thousand states |
| `live_runtime_restart` | does a countdown survive a restart? | violated |
| `live_runtime_rolling` | does a rolling-loss halt last its hours? | violated |
| `journal_compaction` | are trades counted once and is history kept, through failures, races and a crash? | holds, 2.3 million states |
| `journal_compaction_crash` | is every recorded close counted? | violated |
| `exit_orders` | are positions covered and orders accounted for, whatever placing or cancelling fails? | holds, 1.7 million states |
| `exit_orders_trend_stop` | does a trend stop update leave only the new stop? | violated |
| `take_profit_progress` | are stages recognised once, in order, when sold, and protected? | holds, 577 thousand states |
| `strategy` | monitor, order flow, setups and trend positions under late data, rollbacks, flats and restarts | holds, 615 thousand states |
| `reclaim_entries_deaf` | does the first break after a cooldown start a setup? | violated |

### Properties

* `PendingIsOutstandingWork`, `PendingDrains`: the flag that silences the
  strategy equals the work outstanding and falls.
* `SettlementNeverDropsEntry`: the reset at a settlement overlaps no entry.
* `ArmedMeansFullHalt`: no path that lifts or replaces a halt lets the program
  trade beside an armed exit.
* `NamedPositionIsTracked`, `LivePositionIsTracked`: a position with an id is
  tracked; a position at the exchange is eventually tracked.
* `AtMostOneExitPerArm`, `ImplementsDelayedMarketExit`: rule 8 and the status
  machine of `delayed_market_exit.py`, under all interleavings.
* `NoCommandStartsUnderArmedExit`: a command is not sent under an armed exit.
  A failed update can thus not find an exit armed for its own reason: the branch
  of `process` that leaves such a countdown alone (lines 216-220) never runs, and
  `UpdateFails` has no action for it.
* `ArmedExitConcludes`, `WaitingFlatEnds`: an armed exit ends.
* `CountedOnce`, `LoadedHistoryKept`, `ArchivedPositionsAreClosed`,
  `ClosedIdsStayClosed`: what the reports and the startup need of the journal.
* `ProtectedOrAlarmed`: once no command is at work, an open position has a stop
  for the whole of it or an alarm is raised.
* `TakeProfitsStand`: the take profits the trader believes in were not cancelled
  by the program.
* `RecordedStopsStand`: nor were the stops the strategy has on record, although
  two workers replace them.
* `ForeignOrdersKept`: an order placed by hand survives every replacement.
* `CoverNeverCancelled`: no cancellation takes the last cover of an open position.
* `ProgressInOrder`, `StagesWereSold`: no stage is recognised before the one it follows
  or without its contracts sold, whatever the sync read before the plan changed.
* `SplitHasItsLegs`: between commands, while the state expects the legs of a split, no
  single exit rests in their place, even after legs were refused. The exception is
  `unsent`: a candle changes the split in the state before it compares the plans, and
  sends nothing if no price moved by 0.0001 or more.
* `StagesKept`: what was recognised is not forgotten while the position is held; the
  property leaves out the result of a command, see the observations below.
* `EveryStageAsksForItsStop`: a recognised stage has asked for its stop.
* `SoldBucketRecognised`: under a fair sync a bucket that is sold, whole or leg by leg,
  does not stay unrecognised.
* `OneSide`: the setups of the two sides are never both under way.
* `TornOnlyByReplacement`: a setup and its trackers disagree only after
  `strategy.state` was replaced, never by a tick.
* `EntryNeedsFreshBreak`: an entry takes a break of its own band since the last
  position, the last missed reclaim and the last break of the opposite band. `outlived`
  has the two exceptions: the cooldown blocked the opposite break while the setup was
  observed and not armed, and the tick that used the break up was put back.
* `TrendEntryHasItsClose`: a trend is entered on a candle that closed on its side; the
  property names the one exception, a candle that was judged for the other direction.
* `TrendStopTightens`: the stop of a runner or a trend never loosens, with the two
  exceptions it names; a runner that becomes a trend starts on another stop.
* `WindowsMatchTrades`: the sums and extremes kept incrementally are those of the
  trades of their window. It says nothing of the extremes of a burst, the values of the
  range samples, or the drift of floating point sums.
* `BandGoesBackOnlyByRest`: only a late REST answer takes the newest candle away.
* `SignalCrossedBand`: a signal is a crossing of the band as it is now.

### Bounds

`MaxPositions` limits new entries: two positions are needed to see one confused
with the next, and the invariants relate at most a position and its successor. A
queue of two is the least that holds both intents of a tick; a queue of one
makes the second overflow. One crash suffices because a crash erases memory and
the files are checked at every later state. The journal needs two positions,
one archived and one kept, and two compactions, the second after a failed or
interrupted first. Five orders let an entry have its stop, a plan of two legs, a
runner's stop and one more: a replacement, an unverified or a foreign order. Sides are
symmetric except in the liveness runs, which use one side and no symmetry. The proofs remove every one of these bounds, here and in the
next paragraphs, for every safety property: positions, crashes, weeks, queue sizes,
orders, legs, contracts, depths, stop levels, candles, ticks, trades and windows are
any number. The invariants `live_runtime_manual` does not repeat are among those
theorems.

A position of twenty contracts is the least that every plan and the split of its first
bucket divide into whole legs that fill in pieces. Three depths tell an extreme, a
shallower return and a deeper one apart; one position and its flat (`MaxCycles`) are
enough to tear a setup from its trackers. Two stop levels are a tighter and a looser
one. Four trades at gaps up to two let every window evict several trades at once and
the baseline evict too. One candle is a band, three candles let a late answer hold
fewer than the list, and a queue of one makes a tick wait.

### Fairness

`FairSpec` assumes weak fairness of the execution worker, of the account sync
worker and of the passing of a deadline. Each worker is a loop whose awaits are
network calls with timeouts, timers and e-mails that return or raise; the event
loop resumes whatever is ready. Ticks, fills, manual trades and crashes are not
fair. The liveness runs exclude crashes, manual trading and late fills, which can
recur for ever. The runs of the strategy assume no fairness: their properties are
invariants and action properties. `take_profit_progress` assumes a fair account sync
only: nothing is asked of the execution worker, candles or fills.

### Disagreements found

1. *Countdown and restart.* `delayed_market_exit.py:20-21, 47` promises that the
   countdown survives a restart; the state file has no such field and startup
   begins unhalted. `CountdownSurvivesRestart`.
2. *Rolling-loss halt.* Under the halt a tick marks a position before its intent
   is dropped; the phantom is settled as flat and the settlement clears the halt.
   `RollingHaltHolds`.
3. *Summary after the journal.* The docstring of `compact_after_weekly_summary`
   says that archived events leave the journal only after their summary is
   durable; the code replaces the journal first. A crash in between counts the
   trades nowhere. The same property also fails without a crash when a close is
   appended during the rewrite. The order of the docstring would not be safe
   either: a crash after the summary would count the trades twice (the mutant
   `WriteSummary_first`). `RecordedClosesAreCounted`.
4. *Deaf side.* The settlement of a flat replaces `strategy.state`, while the order flow
   of the two sides is a field of the strategy and keeps its anchor. The next break
   of the band finds it anchored and starts no setup, until the opposite band is crossed
   or the program restarts. `SetupAfterCooldown`.
5. *Trend stop.* The docstring of `_execute_update_trend_sl` promises a strict
   replacement; the stop placed at the entry is not the one the trader remembers,
   so the first update leaves it open. `OldTrendStopCancelled`.

Observed while modelling, without a run of their own.

Orders:

* The fallback of a split plan "to one full-size final TP"
  (`tp_sl_core_tp_manager.py:216`) raises when a leg had been placed, because the
  trader does not know that order yet.
* An add leaves the stop of the entry before it open beside its own.
* A plan that is degraded while its runner activates cancels the stop the sync has
  just placed, which `RecordedStopsStand` names as its exception.

Take-profit progress:

* The split of the first bucket is changed in the state before the plans are compared
  (`middle_bucket_split_apply.py:269`), and its price is an average that may lie within
  0.0001 of the price of the whole bucket (`tp_plan_selector.py:446-470`): the update is
  then skipped (`tp_update_coordinator.py:783-803`), and the state expects two legs where
  one exit rests, or the other way round, until the next command.
* Outside the three-stage plan the cost sync sets the entry quantity to the quantity
  left (`cost_runtime.py:31`), so a middle runner whose first close fills in two steps
  is never recognised (`SoldBucketRecognised` is about three-stage plans only), and the degraded-protection check of the same cycle sees no
  reduction (`tp_progress_phase.py:90, 287`).
* An exit degraded to one full-size order keeps the three-stage flag
  (`cost_runtime.py:113-115`): the bucket is split again and its sale recorded twice.
* Degrading a split to a single order may reset a first take profit already
  recognised.
* The sync overwrites `trader.position_contracts` with what it fetched
  (`tp_progress_phase.py:54`), so a command under way may offer a filled leg again.
* A three-stage plan degraded to a middle runner keeps a split bucket of 600
  thousandths while its orders use the 800 of the first close.

Reclaim entries:

* A break that the cooldown blocks resets the other side only if that is armed
  (`boll_cvd_reclaim_strategy.py:1279, 1306`), against the comments at lines 1278 and
  1305: "Still reset opposite upper setup — market broke opposite side". An unblocked
  break resets it always (1287, 1314). A setup of version 2 that is observed and not yet
  armed survives the blocked break and can go on to an entry: the first exception of
  `EntryNeedsFreshBreak`. TLC reaches it after a settlement with one side in cooldown, a
  break of the other band and a break of the blocked one.
* The rollback of a tick that reset the order flow restores `observed` with a flow that
  is not anchored; the next tick anchors it anew and mixes two episodes.
* A failed entry restores the time of the last order as well, so its setup tries
  again on the next tick and the cooldown of orders never holds it back.
* `previous` extremes carried over a new break are dead once the first extreme is unset.
* The order flow snapshot of a late trade has no cumulative volumes
  (`cvd_tracker.py:416-446`, defaults at 73-74): on that tick the flow since the anchor
  is the negative of the anchor, and an anchor taken on it is 0. `WindowsMatchTrades`
  excepts it. The age rule of `no_new_low` (line 337) holds at one millisecond only,
  as an older low has left the window.

Trend regime:

* A breakout is made anew only by a break of the other band, so a later one of the same
  side is judged by the age of the first (`trend_breakout.py:237, 258`).
* The seconds inside the band are not reset when the price leaves it
  (`trend_breakout_metrics.py:247-261`).
* A band is fed to the compression history with every tick, so its "96 candles" are 96
  ticks.
* In live mode (`BOLL_USE_LIVE_CANDLE=true`, the default) no candle is closed, so with
  `TREND_CONFIRM_REQUIRE_CANDLE_CLOSE` no trend is confirmed.
* The score of a downward pressure is negated twice (`pre_breakout_pressure.py:203,
  286`).
* The branch for an expired compression (`trend_detector.py:185-197`) is unreachable.
* The regime, the trend stop and the upgrade are saved and not restored
  (`live_state_store.py:320-333`, `basic_restore.py:47-178`).
* An upgrade sets the trend stop in memory without an order for it, and the add-on's
  stop replaces it even when it is looser (`trend_upgrade_runtime.py:53`).
* The helpers that tighten a middle runner's and a waiting position's stop are called by
  tests only; the live path lets these stops relax.

Monitor:

* A tick that waited in a full queue signals with the bounds of the band it took and
  the zone of the band as it is now (`boll_band_breakout_monitor.py:408-428`).
* A late REST answer takes the newest candle away until the next trade, and with it the
  "once per candle" of the take-profit updates: two more updates follow.

## 4. Proofs

Every safety property of the passing runs is a theorem of its specification, and so is the refinement of `DelayedMarketExit`. None of the properties is inductive. Each
proof module states the invariant that is, which TLC checked on an instance before it
was proved (`IInv` of `LiveRuntime` and of `JournalCompaction` stay in their runs), has a
lemma per action or group of actions that touch the same parts, and concludes each
property from the invariant.

### The inductive invariants

*`LiveRuntime_proofs`*, in three layers. `TypeInv`, that is `TypeOK` and
`PendingIsOutstandingWork`, is inductive on its own: the types of the queue need the
count, and the count the types. `IInv` adds that a snapshot never holds an armed exit
and tracks nothing only for an opening entry that is alone (`RollbackIsSound`), that
entries under way have their side tracked (`EntriesAreTracked`), that an armed exit is
unsent except between its order and its mark (`ArmedExitIsUnsent`), and that the sync
reaches its exit phase with a position (`SyncPositionHeld`). `ExitInv` adds what the
refinement needs: an exit that is cleared is not due, in snapshots neither
(`OnlyArmedIsDue`); once an exit is due or sent nothing is pending, so nothing can arm it
anew (`DueExitIsAlone`); the sync stands at its exit phase only with an armed exit that is
due (`SyncSeesTheExit`).

*The refinement.* The mapping takes status, side, deadline, exits sent and the position
from the state of the runtime. `ExitProceeds` and `ExitClears` say which changes of them
are a step of the abstract machine; every action of the runtime either leaves them alone
(`ExitUnmoved`) or is shown to make one of those changes (`ExitMoves`). What has to be
excluded is that a rollback or an adoption brings an old exit back (`RollbackClears`,
`AdoptionClears`), that a failed command rearms an exit whose order is on its way, and
that two orders are sent for one arming. It follows that the exit is still armed when its
order is marked: the branch for one that was cleared meanwhile (`AfterMark`) never runs.

*`JournalCompaction_proofs`*: besides the properties, that the open position has no
recorded close (`OpenHasNoFlat`), that an entry and its close leave a file together
(`EntryLeavesWithFlat`), and what the thread holds at each step (`CompactorHolds`).

*`ExitOrders_proofs`*: orders are numbered as they are placed, so what one worker has just
placed is none of what the other cancels (`Numbered`); an order that anybody takes for a
stop is no take profit, nor one placed by hand the trader's own, and what was cancelled is
not open (`Kinds`). `Tracking` and `Steps` say what the strategy and a command hold at each
step, `Apart` that the stop of the entry and that of the runner are different orders,
`EntryCovered` that what is on record was not cancelled and the stop of the entry covers
the position from one entry to the next, its successor being placed before it is
cancelled, and `TargetsKept` the same of the take profits. Two workers replace stops on
copies of each other's ids, and the numbers are what keeps a stale copy harmless.

*`TakeProfitProgress_proofs`*: the order of the stages is a fact of the plan alone
(`InOrder`), which every revision and every degrade keeps. That a stage was sold (`Sold`)
although the sync recognises it from an old quantity needs that nothing is bought while a
position is held, so what was fetched is at least what is left (`SyncIsBehind`). That a
split has its legs needs that the split a command was made for stands until the command is
done, though strategy and sync run in between (`SplitStands`).

*`ReclaimEntries_proofs`*: one side has no setup, and a setup that may still become an
entry has a fresh break, or outlived what used it up; a side under the cooldown has none
at all. Both are carried for `strategy.state` and for the state from
before the tick of an entry in flight, which a rollback restores (`Sound`, twice in
`ReclaimInv`). A tick takes a side through some ten operators; each keeps the side valid,
and all but those of a break leave a quiet side quiet.

*`TrendRegime_proofs`*: breakout, detector, metrics and candle advance on different ticks.
An active detector has its breakout and metrics (`Assessed`), a close outside is that of
the candle that was tracked (`TrackedClose`), and a stop on its way to the exchange is no
looser than the one in force when its result arrives, also after a rollback
(`OrderTightens`, with `PlainTrend` and `OrdersHavePosition`).

*`MarketData_proofs`*, of the band monitor: the zone of the last price is always that of
the current band, or unknown (`ZoneIsCurrent`): a recalculation judges it again, so a tick
that waited crosses the band it is compared with. The newest candle is at least as new as
the band unless an old answer was noted (`NewestCandleKept`).

Of the order flow, `CvdInv`: the trades are counted in order (`Counted`), so each deque is
the slice of them between two times (`Deques`), and there is a range sample for each trade
of two of them (`Sampled`). What enters and what leaves a deque are slices next to it, and
the sum of a slice is a difference of the sums up to its ends, so every sum stays that of
its deque (`Added`) however many trades leave at once. A deque of extremes holds trades of
its window in order, each strictly better than the next, and for every trade of the window
one at least as good and no older (`ExtremesOf`, `Extreme`): that one keeps the head the
extreme when older ones expire. An extreme that shares the price of the newest trade is
that trade, so a report that the price makes no new low is about a lower one, also at the
edge of the window (`OffTheExtreme`).

Sums over sequences of any length need an induction, and the theorem of the library takes
its predicate as a parameter, which the provers cannot instantiate. `UpTo` states it of a
set of numbers instead, and rests on the theorem that an injection of a finite set into
itself is onto; each induction then is about a set (`SumsExist`, `SumOfSlice`).

*`MCStrategy_proofs`*: a behaviour of the composition is one of each part, which stutters
while another moves, so the theorems of the parts hold of what `strategy` checks.

### The theorems

| Theorem | Property |
|---|---|
| `TypeCorrect`, `PendingCorrect`, `InvariantCorrect` | `TypeOK`, `PendingIsOutstandingWork`, `IInv` of `LiveRuntime` |
| `SettlementCorrect`, `ArmedHaltCorrect`, `NamedPositionCorrect`, `OneExitCorrect`, `OvertakenCorrect` | the safety properties of `LiveRuntime` |
| `ExitRefinement` | `ImplementsDelayedMarketExit` |
| `JournalInvariantCorrect` | `IInv` of `JournalCompaction` |
| `CountedOnceCorrect`, `LoadedHistoryKeptCorrect`, `ArchiveCorrect`, `ClosedIdsCorrect` | the safety properties of `JournalCompaction` |
| `ExitInvariantCorrect`, `ExitTypeCorrect` | the inductive invariant and `TypeOK` of `ExitOrders` |
| `ProtectedCorrect`, `TakeProfitsCorrect`, `RecordedStopsCorrect` | `ProtectedOrAlarmed`, `TakeProfitsStand`, `RecordedStopsStand` |
| `ForeignOrdersCorrect`, `CoverCorrect` | `ForeignOrdersKept`, `CoverNeverCancelled` |
| `ProgressInvariantCorrect`, `ProgressTypeCorrect` | the inductive invariant and `TypeOK` of `TakeProfitProgress` |
| `ProgressInOrderCorrect`, `StagesWereSoldCorrect`, `SplitHasItsLegsCorrect`, `EveryStageAsksCorrect`, `StagesKeptCorrect` | the safety properties of `TakeProfitProgress` |
| `ReclaimInvariantCorrect`, `ReclaimTypeCorrect` | the inductive invariant and `TypeOK` of `ReclaimEntries` |
| `OneSideCorrect`, `TornOnlyByReplacementCorrect`, `EntryNeedsFreshBreakCorrect` | the safety properties of `ReclaimEntries` |
| `TrendInvariantCorrect`, `TrendTypeCorrect` | the inductive invariant and `TrendTypeOK` of `TrendRegime` |
| `TrendEntryCorrect`, `TrendStopCorrect` | `TrendEntryHasItsClose`, `TrendStopTightens` |
| `SignalCorrect`, `BandCorrect` | `SignalCrossedBand`, `BandGoesBackOnlyByRest` |
| `WindowsCorrect` | `WindowsMatchTrades` |
| `StrategyTypeCorrect`, `StrategyCorrect` | `StrategyTypeOK`, and the properties of the parts for `StrategySpec` |

They assume what the modules assume of their constants, which TLC evaluates in the runs:
`ConstantsAssumption` of `LiveRuntime`, `ExitOrders` and `TakeProfitProgress`,
`BoundsAssumption`, `MonitorAssumption`, `CvdAssumption`, `ReclaimAssumption`,
`TrendAssumption` and `NilAssumption`. They give the constants their types, set the model
values for "none" apart from what they are told apart from, and say nothing of the size of
the rest, but that the burst window is shorter than the baseline (3 s and 60 s by default,
`cvd_tracker.py:22`).

### Only model-checked

* `PendingDrains`, `ArmedExitConcludes`, `WaitingFlatEnds`, `LivePositionIsTracked` and
  `SoldBucketRecognised`: liveness under fairness, which needs `ENABLED`, beyond the
  prover.
* The five properties that are found violated.

## 5. Plan

In this order:

1. `ExitOrders`, continued: the split first bucket and its stop, the adoption of
   orders at a startup.
2. `RollingLossGuard`: integers for equity and thresholds; each trigger once per window,
   halt hours respected, saved state equals memory after a restart.
3. `StateStore`: what is saved against what is restored field group by field group, and
   stale saves at the end of a sync cycle.
4. The private clients (rate limit, retries) and the reconnection of the feeds.

Not modelled, and not planned: adds, the freeze chain and the shock strategy, which the
live program does not build; reports, adapters, assembly and tools, which keep no
state of their own; the warm-up of the trend history, whose outcome is a compression
that `TrendRegime` leaves open anyway.

Runs use model values for sides and orders and at most two positions; new
modules keep one action per operation and no recursive operators so that they
can be proved about.
