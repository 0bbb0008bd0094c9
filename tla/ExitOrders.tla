----------------------------- MODULE ExitOrders -----------------------------
(***************************************************************************)
(* The orders that close a position: the trader's reduce-only take profits *)
(* and protective stops, as the take-profit, stop and market-exit managers *)
(* place, replace and cancel them for the execution worker, while the      *)
(* account sync places the stop of an activated runner and settles a flat. *)
(*                                                                         *)
(* An order is its number.  Prices and sizes are left out; `cover' keeps   *)
(* what matters of a stop's size: that it was placed for the whole of the  *)
(* position as it is now.  One runner slot stands for the middle runner's, *)
(* the trend runner's and the post-TP1 stop, which the code treats alike.  *)
(* The first take profit is not split into a fast and a slow leg, so that  *)
(* an activated runner has no older stop.  Restarts, late fills, rollbacks *)
(* and the window of a settlement are LiveRuntime's; add-ons that turn a   *)
(* mean-reversion position into a trend one are left out.                  *)
(***************************************************************************)
EXTENDS Naturals, FiniteSets

CONSTANTS
  Regimes,     \* how positions are entered: subset of {"mean", "trend"}
  Faults,      \* what the exchange may do wrong, see FaultKinds
  MaxLegs,     \* take-profit orders of one plan
  MaxOrders    \* bound: orders placed in a behaviour

\* "tp": placing a take profit fails; "cancel_tp", "cancel_stop": a cancel is
\* not carried out; "stop": a stop cannot be placed; "unverified": a stop is
\* placed but neither seen again nor cancelled; "foreign": the owner of the
\* account places a take profit by hand.
FaultKinds == {"tp", "cancel_tp", "stop", "unverified", "cancel_stop", "foreign"}

ASSUME ConstantsAssumption ==
  /\ Regimes \subseteq {"mean", "trend"}
  /\ Faults \subseteq FaultKinds
  /\ MaxLegs \in Nat \ {0}
  /\ MaxOrders \in Nat

VARIABLES
  held,         \* the exchange: is there a position?
  reduced,      \* has a take profit closed a part of it?
  tps,          \* the exchange: open reduce-only limit orders
  stops,        \* the exchange: open stop orders
  cover,        \* those placed for the whole position
  placed,       \* orders placed so far
  gone,         \* history: orders the program has cancelled
  stale,        \* history: runner stops cancelled as those of an older plan
  foreign,      \* history: take profits placed by hand
  tp_order_id,  \* trader.tp_order_id, as a set
  sl,           \* trader: entry and runner stop ids, NONE if unknown
  state,        \* strategy.state: the position it tracks and its stop ids
  alarm,        \* delayed exit armed, or trading halted
  worker,       \* the execution worker and its last result
  sync          \* the account sync worker: "idle" or placing a "stop"

exchange == <<held, reduced, tps, stops, cover, placed, gone, stale, foreign>>
vars == <<held, reduced, tps, stops, cover, placed, gone, stale, foreign, tp_order_id,
          sl, state, alarm, worker, sync>>

-----------------------------------------------------------------------------
NONE == 0
Order == 1 .. MaxOrders
MaybeOrder == Order \cup {NONE}
NewOrder == placed + 1

Untracked == [tracked |-> FALSE, regime |-> "mean", active |-> FALSE,
              entry |-> NONE, runner |-> NONE]
StrategyState == [tracked : BOOLEAN, regime : {"mean", "trend"}, active : BOOLEAN,
                  entry : MaybeOrder, runner : MaybeOrder]

Commands == {"OPEN", "UPDATE_TP", "UPDATE_TREND_SL"}
WorkerSteps == {"idle", "entry_stop", "cancel", "place", "runner_stop",
                "trend_stop", "cancel_old"}

\* The command at work, or the last one and its result: the legs it has placed
\* and has still to place, whether it fell back to a single leg, whether it is
\* to move a runner's stop or degrades the plan of a position without one, the
\* stop it placed and the one it replaces, and the stop id its intent carries.
WorkerState ==
  [pc : WorkerSteps, command : Commands, legs : 0 .. MaxLegs, of : 0 .. MaxLegs,
   done : SUBSET Order, fallback : BOOLEAN, runner : BOOLEAN, degrade : BOOLEAN,
   intent_id : MaybeOrder, old : MaybeOrder, new : MaybeOrder,
   entry : MaybeOrder, ok : BOOLEAN]

IdleWorker ==
  [pc |-> "idle", command |-> "OPEN", legs |-> 0, of |-> 0, done |-> {},
   fallback |-> FALSE, runner |-> FALSE, degrade |-> FALSE, intent_id |-> NONE,
   old |-> NONE, new |-> NONE, entry |-> NONE, ok |-> TRUE]

Init ==
  /\ held = FALSE /\ reduced = FALSE
  /\ tps = {} /\ stops = {} /\ cover = {}
  /\ placed = 0 /\ gone = {} /\ stale = {} /\ foreign = {}
  /\ tp_order_id = {}
  /\ sl = [entry |-> NONE, runner |-> NONE]
  /\ state = Untracked
  /\ alarm = FALSE
  /\ worker = IdleWorker
  /\ sync = "idle"

-----------------------------------------------------------------------------
(* Placing and cancelling.                                                 *)

CanPlace == placed < MaxOrders

PlaceStop ==
  /\ CanPlace
  /\ placed' = NewOrder
  /\ stops' = stops \cup {NewOrder}
  /\ cover' = cover \cup {NewOrder}

\* cancel_protective_stop: an order that is already gone counts as cancelled; a
\* request that fails is reported and otherwise ignored by every caller.
CancelStops(orders) ==
  \E failed \in SUBSET (orders \cap stops) :
    /\ failed # {} => "cancel_stop" \in Faults
    /\ stops' = stops \ (orders \ failed)
    /\ cover' = cover \ (orders \ failed)
    /\ gone' = gone \cup ((orders \cap stops) \ failed)

\* Bug: the orders to cancel are not checked against the trader's own.
Unmanaged_none == {}

\* Reduce-only orders the trader does not know as its own.
Unmanaged == tps \ tp_order_id

\* What the exchange keeps of the take profits once the position is closed.
Closed ==
  /\ held' = FALSE
  /\ tps' \in {{}, tps}

-----------------------------------------------------------------------------
(* Results.                                                                *)

\* Bug: an entry whose stop or take profit failed is reported but not alarmed.
AlarmAfter_updates_only(raised) ==
  alarm \/ (worker.command # "OPEN" /\ (raised => held))

\* A failed command arms the delayed exit.  An update that raised is handled by
\* the failure handler, which halts over a live position and else rolls back.
AlarmAfter(raised) ==
  alarm \/ ~raised \/ worker.command = "OPEN" \/ held

Fail(raised) ==
  /\ alarm' = AlarmAfter(raised)
  /\ worker' = [worker EXCEPT !.pc = "idle", !.ok = FALSE]

\* Bug: a replaced runner stop is recorded under its old id.
Recorded_old(w) ==
  [state EXCEPT
     !.entry = IF w.command = "UPDATE_TREND_SL" THEN w.new
               ELSE IF w.command = "OPEN" THEN w.entry ELSE @,
     !.runner = IF w.runner THEN (IF w.old # NONE THEN w.old ELSE w.new) ELSE @]

\* What the processor writes into the strategy's state after a success.
Recorded(w) ==
  [state EXCEPT
     !.entry = IF w.command = "UPDATE_TREND_SL" THEN w.new
               ELSE IF w.command = "OPEN" THEN w.entry ELSE @,
     !.runner = IF w.runner THEN w.new ELSE @]

Succeed(w) ==
  /\ worker' = [w EXCEPT !.pc = "idle", !.ok = TRUE]
  /\ state' = Recorded(w)

-----------------------------------------------------------------------------
(* Entries: the market order has filled, the stop comes next.              *)

Enter(regime) ==
  /\ worker.pc = "idle" /\ ~alarm
  /\ state.tracked => /\ state.regime = regime /\ ~state.active
                      /\ state.runner = NONE /\ sync = "idle"
  /\ held' = TRUE
  /\ cover' = {}
  /\ state' = [state EXCEPT !.tracked = TRUE, !.regime = regime]
  /\ \E legs \in 1 .. MaxLegs :
       worker' = [IdleWorker EXCEPT !.pc = "entry_stop", !.legs = legs, !.of = legs]
  /\ UNCHANGED <<reduced, tps, stops, placed, gone, stale, foreign, tp_order_id,
                 sl, alarm, sync>>

\* The stop is verified.  A trend entry is done; any other gets take profits.
EntryStopPlaced ==
  /\ worker.pc = "entry_stop"
  /\ PlaceStop
  /\ LET w == [worker EXCEPT !.entry = NewOrder]
     IN IF state.regime = "trend"
          THEN Succeed(w)
          ELSE worker' = [w EXCEPT !.pc = "cancel"] /\ UNCHANGED state
  /\ UNCHANGED <<held, reduced, tps, gone, stale, foreign, tp_order_id, sl,
                 alarm, sync>>

StopSteps == {"entry_stop", "trend_stop", "runner_stop"}

\* A stop that was placed but not seen again, and could not be cancelled: the
\* manager tries anew and forgets it.
StopUnverified ==
  /\ "unverified" \in Faults
  /\ (worker.pc \in StopSteps \/ sync = "stop")
  /\ CanPlace
  /\ placed' = NewOrder
  /\ stops' = stops \cup {NewOrder}
  /\ UNCHANGED <<held, reduced, tps, cover, gone, stale, foreign, tp_order_id,
                 sl, state, alarm, worker, sync>>

\* Every attempt failed.
StopFails ==
  /\ "stop" \in Faults
  /\ worker.pc \in StopSteps
  /\ Fail(FALSE)
  /\ UNCHANGED <<exchange, tp_order_id, sl, state, sync>>

-----------------------------------------------------------------------------
(* replace_take_profit: cancel, place leg by leg, then the runner's stop.  *)

UpdateTakeProfit ==
  /\ worker.pc = "idle" /\ ~alarm
  /\ state.tracked /\ state.regime = "mean"
  /\ \E legs \in 1 .. MaxLegs, degrade \in BOOLEAN :
       /\ degrade => ~state.active
       /\ worker' = [IdleWorker EXCEPT !.pc = "cancel", !.command = "UPDATE_TP",
                       !.legs = legs, !.of = legs, !.degrade = degrade,
                       !.runner = state.active, !.intent_id = state.runner]
       /\ state' = IF degrade THEN [state EXCEPT !.runner = NONE] ELSE state
  /\ UNCHANGED <<exchange, tp_order_id, sl, alarm, sync>>

\* The position fetched first is gone: there is nothing to protect.
NothingToProtect ==
  /\ worker.pc = "cancel" /\ ~worker.fallback /\ ~held
  /\ Fail(FALSE)
  /\ UNCHANGED <<exchange, tp_order_id, sl, state, sync>>

\* Bug: the cancellation is sent without a stop to cancel.
StaleStops_unchecked ==
  IF worker.degrade /\ ~worker.fallback THEN {sl.runner} ELSE {}

\* A degraded plan has no runner: the stop the trader knows of one is stale.
StaleStops ==
  IF worker.degrade /\ ~worker.fallback THEN {sl.runner} \cap stops ELSE {}

CancelOwnTakeProfits ==
  /\ worker.pc = "cancel" /\ (held \/ worker.fallback)
  /\ Unmanaged = {}
  /\ \E orders \in SUBSET tps, runner \in SUBSET StaleStops :
       /\ orders # tps => "cancel_tp" \in Faults
       /\ runner # StaleStops => "cancel_stop" \in Faults
       /\ tps' = tps \ orders
       /\ stops' = stops \ runner
       /\ cover' = cover \ runner
       /\ gone' = gone \cup orders \cup runner
       /\ stale' = stale \cup runner
       /\ sl' = IF sl.runner \in runner THEN [sl EXCEPT !.runner = NONE] ELSE sl
  /\ worker' = [worker EXCEPT !.pc = "place"]
  /\ UNCHANGED <<held, reduced, placed, foreign, tp_order_id, state, alarm, sync>>

\* reduce_only_order_identity_unknown is raised at the first order that is not
\* the trader's, after those listed before it have been cancelled.
FindUnmanaged ==
  /\ worker.pc = "cancel" /\ (held \/ worker.fallback)
  /\ Unmanaged # {}
  /\ \E listed \in SUBSET (tps \cap tp_order_id) :
       tps' = tps \ listed /\ gone' = gone \cup listed
  /\ Fail(TRUE)
  /\ UNCHANGED <<held, reduced, stops, cover, placed, stale, foreign,
                 tp_order_id, sl, state, sync>>

\* Bug: the new ids are added to the old ones.
ManagedAfter_added(orders) == tp_order_id \cup orders

\* trader.tp_order_id after a replacement that placed these orders.
ManagedAfter(orders) == orders

\* One leg is placed; after the last one the trader takes their ids over.
PlaceLeg ==
  /\ worker.pc = "place" /\ CanPlace
  /\ placed' = NewOrder
  /\ tps' = tps \cup {NewOrder}
  /\ LET w == [worker EXCEPT !.done = @ \cup {NewOrder}, !.legs = @ - 1]
     IN \/ /\ w.legs > 0
           /\ worker' = w
           /\ UNCHANGED <<tp_order_id, state>>
        \/ /\ w.legs = 0 /\ w.runner
           /\ tp_order_id' = ManagedAfter(w.done)
           /\ worker' = [w EXCEPT !.pc = "runner_stop",
                !.old = IF w.intent_id # NONE THEN w.intent_id ELSE sl.runner]
           /\ UNCHANGED state
        \/ /\ w.legs = 0 /\ ~w.runner
           /\ tp_order_id' = ManagedAfter(w.done)
           /\ Succeed(w)
  /\ UNCHANGED <<held, reduced, stops, cover, gone, stale, foreign, sl, alarm, sync>>

\* The placement raises, with or without the order.  A plan of several legs
\* falls back once to a single one, and cancels the existing orders again
\* before it; the trader's ids are still those of the plan before, so a leg of
\* the new one that was placed is found to be unmanaged.
LegFails ==
  /\ "tp" \in Faults
  /\ worker.pc = "place" /\ CanPlace
  /\ \/ UNCHANGED <<placed, tps>>
     \/ placed' = NewOrder /\ tps' = tps \cup {NewOrder}
  /\ \/ /\ worker.of = 1
        /\ Fail(TRUE)
     \/ /\ worker.of > 1
        /\ worker' = [worker EXCEPT !.pc = "cancel", !.fallback = TRUE,
                                    !.legs = 1, !.of = 1, !.done = {}]
        /\ UNCHANGED alarm
  /\ UNCHANGED <<held, reduced, stops, cover, gone, stale, foreign, tp_order_id,
                 sl, state, sync>>

RunnerStopPlaced ==
  /\ worker.pc = "runner_stop"
  /\ PlaceStop
  /\ sl' = [sl EXCEPT !.runner = NewOrder]
  /\ LET w == [worker EXCEPT !.new = NewOrder]
     IN IF w.old = NONE
          THEN Succeed(w)
          ELSE worker' = [w EXCEPT !.pc = "cancel_old"] /\ UNCHANGED state
  /\ UNCHANGED <<held, reduced, tps, gone, stale, foreign, tp_order_id, alarm, sync>>

-----------------------------------------------------------------------------
(* _execute_update_trend_sl: the new stop first, then the old one.         *)

\* Bug: the old stop is cancelled before the new one is placed.
UpdateTrendStop_cancels_first ==
  /\ worker.pc = "idle" /\ ~alarm
  /\ state.tracked /\ state.regime = "trend"
  /\ worker' = [IdleWorker EXCEPT !.pc = "trend_stop", !.command = "UPDATE_TREND_SL"]
  /\ CancelStops({state.entry})
  /\ UNCHANGED <<held, reduced, tps, placed, stale, foreign, tp_order_id, sl,
                 state, alarm, sync>>

\* The stop to replace is the one the trader holds, which no entry sets.
UpdateTrendStop ==
  /\ worker.pc = "idle" /\ ~alarm
  /\ state.tracked /\ state.regime = "trend"
  /\ worker' = [IdleWorker EXCEPT !.pc = "trend_stop", !.command = "UPDATE_TREND_SL",
                                  !.old = sl.entry]
  /\ UNCHANGED <<exchange, tp_order_id, sl, state, alarm, sync>>

TrendStopPlaced ==
  /\ worker.pc = "trend_stop"
  /\ PlaceStop
  /\ LET w == [worker EXCEPT !.new = NewOrder]
     IN IF w.old = NONE
          THEN Succeed(w) /\ sl' = [sl EXCEPT !.entry = NewOrder]
          ELSE worker' = [w EXCEPT !.pc = "cancel_old"] /\ UNCHANGED <<state, sl>>
  /\ UNCHANGED <<held, reduced, tps, gone, stale, foreign, tp_order_id, alarm, sync>>

\* Either replacement ends by cancelling the stop it replaced.
CancelOldStop ==
  /\ worker.pc = "cancel_old"
  /\ CancelStops({worker.old})
  /\ sl' = IF worker.command = "UPDATE_TREND_SL"
              THEN [sl EXCEPT !.entry = worker.new] ELSE sl
  /\ Succeed(worker)
  /\ UNCHANGED <<held, reduced, tps, placed, stale, foreign, tp_order_id, alarm,
                 sync>>

-----------------------------------------------------------------------------
(* The account sync worker.                                                *)

\* A take profit was filled: the strategy knows its runner as active before the
\* stop of it is placed.
RunnerActivates ==
  /\ sync = "idle"
  /\ held /\ reduced
  /\ state.tracked /\ state.regime = "mean" /\ ~state.active
  /\ state' = [state EXCEPT !.active = TRUE]
  /\ sync' = "stop"
  /\ UNCHANGED <<exchange, tp_order_id, sl, alarm, worker>>

SyncStopPlaced ==
  /\ sync = "stop"
  /\ PlaceStop
  /\ sl' = [sl EXCEPT !.runner = NewOrder]
  /\ state' = [state EXCEPT !.runner = NewOrder]
  /\ sync' = "idle"
  /\ UNCHANGED <<held, reduced, tps, gone, stale, foreign, tp_order_id, alarm,
                 worker>>

SyncStopFails ==
  /\ "stop" \in Faults
  /\ sync = "stop"
  /\ sync' = "idle"
  /\ alarm' = TRUE
  /\ UNCHANGED <<exchange, tp_order_id, sl, state, worker>>

\* The position is seen flat: the stops the strategy knows are cancelled, then
\* the trader and the strategy forget everything; some halts are left for the
\* owner to lift.  The halt set when the flat is seen keeps the other worker out.
SettleFlat ==
  /\ worker.pc = "idle" /\ sync = "idle"
  /\ state.tracked /\ ~held
  /\ CancelStops({state.entry, state.runner})
  /\ tp_order_id' = {}
  /\ sl' = [entry |-> NONE, runner |-> NONE]
  /\ state' = Untracked
  /\ alarm' \in {FALSE, alarm}
  /\ reduced' = FALSE
  /\ UNCHANGED <<held, tps, placed, stale, foreign, worker, sync>>

\* The market exit, of an armed exit whose time has come or of a runner, and
\* _cleanup_after_market_exit: every reduce-only order goes, the owner's too,
\* and the stops the trader knows.  The countdown outlasts any command; a
\* runner's exit may overtake the placing of its stop.
MarketExit ==
  /\ worker.pc = "idle" /\ state.tracked
  /\ state.active \/ (alarm /\ sync = "idle")
  /\ held' = FALSE
  /\ \E fails \in SUBSET tps, kept \in SUBSET ({sl.entry, sl.runner} \cap stops) :
       /\ fails # {} => "cancel_tp" \in Faults
       /\ kept # {} => "cancel_stop" \in Faults
       /\ tps' = fails
       /\ stops' = (stops \ {sl.entry, sl.runner}) \cup kept
       /\ cover' = cover \cap stops'
       /\ gone' = gone \cup (tps \ fails) \cup (stops \ stops')
       /\ sl' = [entry |-> NONE,
                 runner |-> IF sl.runner \in kept THEN sl.runner ELSE NONE]
  /\ alarm' = TRUE
  /\ UNCHANGED <<reduced, placed, stale, foreign, tp_order_id, state, worker, sync>>

-----------------------------------------------------------------------------
(* The exchange and the owner of the account.                              *)

TakeProfitFills ==
  /\ held
  /\ \E o \in tps :
       \/ /\ tps' = tps \ {o}
          /\ reduced' = TRUE
          /\ UNCHANGED held
       \/ /\ held' = FALSE
          /\ tps' \in {{}, tps \ {o}}
          /\ UNCHANGED reduced
  /\ UNCHANGED <<stops, cover, placed, gone, stale, foreign, tp_order_id, sl,
                 state, alarm, worker, sync>>

\* A stop for the whole position closes it, another one may leave a part.
StopTriggers ==
  /\ \E o \in stops :
       /\ stops' = stops \ {o}
       /\ cover' = cover \ {o}
       /\ \/ held /\ Closed
          \/ (held => o \notin cover) /\ UNCHANGED <<held, tps>>
  /\ UNCHANGED <<reduced, placed, gone, stale, foreign, tp_order_id, sl, state,
                 alarm, worker, sync>>

OwnerPlacesTakeProfit ==
  /\ "foreign" \in Faults
  /\ held /\ foreign = {} /\ CanPlace
  /\ placed' = NewOrder
  /\ tps' = tps \cup {NewOrder}
  /\ foreign' = {NewOrder}
  /\ UNCHANGED <<held, reduced, stops, cover, gone, stale, tp_order_id, sl,
                 state, alarm, worker, sync>>

Next ==
  \/ \E regime \in Regimes : Enter(regime)
  \/ EntryStopPlaced \/ StopUnverified \/ StopFails
  \/ UpdateTakeProfit \/ NothingToProtect
  \/ CancelOwnTakeProfits \/ FindUnmanaged \/ PlaceLeg \/ LegFails
  \/ RunnerStopPlaced
  \/ UpdateTrendStop \/ TrendStopPlaced \/ CancelOldStop
  \/ RunnerActivates \/ SyncStopPlaced \/ SyncStopFails
  \/ SettleFlat \/ MarketExit
  \/ TakeProfitFills \/ StopTriggers \/ OwnerPlacesTakeProfit

Spec == Init /\ [][Next]_vars

-----------------------------------------------------------------------------
(* Properties.                                                             *)

TypeOK ==
  /\ held \in BOOLEAN /\ reduced \in BOOLEAN
  /\ tps \subseteq Order /\ stops \subseteq Order /\ cover \subseteq stops
  /\ placed \in 0 .. MaxOrders
  /\ gone \subseteq Order /\ stale \subseteq gone /\ foreign \subseteq Order
  /\ tp_order_id \subseteq Order
  /\ sl \in [entry : MaybeOrder, runner : MaybeOrder]
  /\ state \in StrategyState
  /\ alarm \in BOOLEAN
  /\ worker \in WorkerState
  /\ sync \in {"idle", "stop"}

Quiet == worker.pc = "idle" /\ sync = "idle"

\* An open position is covered by a stop for the whole of it, or the alarm is
\* raised, whenever no command is at work on it.
ProtectedOrAlarmed == (held /\ worker.pc = "idle") => (cover # {} \/ alarm)

\* A position of the mean-reversion regime has its take profits: those the
\* trader believes in are open or were filled, never cancelled by the program.
TakeProfitsStand ==
  (held /\ worker.pc = "idle" /\ ~alarm /\ state.regime = "mean") =>
    tp_order_id # {} /\ tp_order_id \cap gone = {}

\* The stops the strategy has on record were not cancelled by the program: what
\* one worker replaces is never what the other one has just placed.  A degraded
\* plan that meets the activation of its runner is the exception: it may cancel
\* the new stop as stale.
RecordedStopsStand ==
  (held /\ Quiet /\ ~alarm) =>
    {state.entry, state.runner} \cap (gone \ stale) = {}

\* An order placed by hand is not cancelled while the position is open.
ForeignOrdersKept == [][held' => gone' \cap foreign = gone \cap foreign]_vars

\* Replacing a stop never takes the last cover from an open position.
CoverNeverCancelled ==
  [][(held /\ held' /\ cover # {} /\ cover' = {}) => gone' = gone]_vars

\* "places the NEW protective SL FIRST, verifies it, and ONLY THEN cancels the
\* old one": after a successful update only the new stop is left.
OldTrendStopCancelled ==
  (worker.pc = "idle" /\ worker.command = "UPDATE_TREND_SL" /\ worker.ok) =>
    stops \subseteq {worker.new}

=============================================================================
