---------------------------- MODULE TrendRegime ----------------------------
(***************************************************************************)
(* The trend regime: how a move out of a compressed band becomes a trend   *)
(* that is traded, and the stop of a position from stage to stage: the     *)
(* part left after a first sale, the runner left after a second, a runner  *)
(* upgraded to a trend, an add-on (src/strategies/trend_breakout.py,       *)
(* trend_breakout_metrics.py, regime/, trend_upgrade_addon.py,             *)
(* trend_runner.py, tp_update_coordinator.py and their callers).           *)
(*                                                                         *)
(* Four records advance on different ticks: the breakout and the detector  *)
(* when a tick is assessed, the metrics on every tick, the closed candle   *)
(* only when the assessment is given candles, the position when an order   *)
(* is done.  None of the first three is in strategy.state, so no rollback, *)
(* flat or adoption reaches them.                                          *)
(*                                                                         *)
(* Volumes, the order flow and the clock are kept as the outcomes of the   *)
(* comparisons made of them.  The model is of TREND_BREAKOUT_ENABLED with  *)
(* TREND_CONFIRM_REQUIRE_CANDLE_CLOSE and candles that are closed (in live *)
(* mode the detector sees no candle and so confirms no trend).             *)
(***************************************************************************)
EXTENDS Naturals, FiniteSetsExt

CONSTANTS
  NIL,       \* no breakout, no metrics, no position
  StopLevels  \* bound: distinct stop prices, a higher one being the tighter

ASSUME TrendAssumption == StopLevels \in Nat \ {0}

VARIABLES
  breakout,  \* _latest_breakout: which side, and its age to confirm_min and confirm_max
  detector,  \* TrendDetector.state, its direction being that of the breakout
  candle,    \* the latest closed candle, and what the detector made of it
  metrics,   \* TrendBreakoutMetricsTracker
  position,  \* the position of strategy.state
  order      \* the commands that the last tick sent and that are not done

trend_vars == <<breakout, detector, candle, metrics, position, order>>

Directions == {"UP", "DOWN"}
SideOf(direction) == IF direction = "UP" THEN "LONG" ELSE "SHORT"

\* A stop is 0 while there is none.
Stops == 0..StopLevels

\* Its age to confirm_min_seconds and confirm_max_seconds.
Ages == {"young", "ripe", "old"}
Breakout == [direction : Directions, age : Ages]
Metrics == [direction : Directions,
            outside : BOOLEAN,   \* _price_outside; price_reclaimed_inside is its negation
            too_long : BOOLEAN]  \* inside_reclaim_seconds > max_inside_reclaim_seconds
Candle == [out : Directions \cup {"inside"},   \* where it closed
           seen : Directions \cup {NIL},      \* the breakout it was tracked for
           closed_outside : BOOLEAN]           \* _has_candle_close_outside
TrendStates == {"NO_TREND", "POST_COMPRESSION_EXPANDING", "TREND_CANDIDATE",
                "TREND_CONFIRMED", "TREND_FAILED"}
Active == {"TREND_CANDIDATE", "TREND_CONFIRMED"}
TrendRegimes == {"TREND_BREAKOUT", "TREND_UPGRADE", "TREND_UPGRADE_ADDON"}

\* What is left of the take profit: one order or a middle runner nothing of which is
\* sold, a three-stage runner likewise, what a first sale left of either, and the
\* runner after the second.
Stages == {"plain", "three", "middle", "waiting", "runner"}
Position == [side : {"LONG", "SHORT"},
             regime : TrendRegimes \cup {"MEAN_REVERSION", NIL},
             stage : Stages,
             protective : Stops,  \* the protective stop of the stage
             stop : Stops]        \* trend_trailing_sl_price

\* What is not there is no value either.
ASSUME NilAssumption ==
  NIL \notin Directions \cup Breakout \cup Metrics \cup TrendRegimes \cup Position

Trending(p) == p.regime \in TrendRegimes

\* The commands still to be done: an entry, a revised protective stop, a new stop of
\* the trend, an add-on, by the stop each carries, or a market exit; and the position
\* before the tick that sent them.
Orders == [opens : BOOLEAN, protective : Stops, stop : Stops, addon : Stops,
           exit : BOOLEAN, before : Position \cup {NIL}]
NoOrder == [opens |-> FALSE, protective |-> 0, stop |-> 0, addon |-> 0,
            exit |-> FALSE, before |-> NIL]

TrendInit ==
  /\ breakout = NIL
  /\ detector = "NO_TREND"
  /\ candle \in [out : Directions \cup {"inside"}, seen : {NIL}, closed_outside : {FALSE}]
  /\ metrics = NIL
  /\ position = NIL
  /\ order = NoOrder

-----------------------------------------------------------------------------
(* Metrics and breakout.                                                    *)

Anchor(direction) == [direction |-> direction, outside |-> TRUE, too_long |-> FALSE]

\* The metrics after a tick out in a direction, or inside the band (NIL).  Leaving the
\* band again does not reset the seconds spent inside, and the tick that comes back in
\* does not count them anew.
MetricsAfter(direction) ==
  IF direction = NIL THEN
    IF metrics = NIL THEN {NIL}
    ELSE IF metrics.outside THEN {[metrics EXCEPT !.outside = FALSE]}
    ELSE {[metrics EXCEPT !.too_long = long] : long \in BOOLEAN}
  ELSE IF metrics # NIL /\ metrics.direction = direction
    THEN {[metrics EXCEPT !.outside = TRUE]}
  ELSE {Anchor(direction)}

\* A break of the other band is a new breakout; a break of the same one never is.
BreakoutAfter(direction) ==
  IF direction = NIL \/ (breakout # NIL /\ breakout.direction = direction)
    THEN breakout ELSE [direction |-> direction, age |-> "young"]

-----------------------------------------------------------------------------
(* TrendDetector.assess.                                                    *)

\* Bug: a candle that closes inside does not take back an earlier close outside.
Track_only_sets(c, direction) ==
  IF c.seen # NIL THEN c
  ELSE [c EXCEPT !.seen = direction,
                 !.closed_outside = @ \/ c.out = direction]

\* _track_candle_close: a candle is looked at once.
Track(c, direction) ==
  IF c.seen # NIL THEN c
  ELSE [c EXCEPT !.seen = direction, !.closed_outside = (c.out = direction)]

ResetCandleClose(c) == [c EXCEPT !.seen = NIL, !.closed_outside = FALSE]

\* The order flow since the break, against its direction.
Flow == [delta_with : BOOLEAN, ratio_enough : BOOLEAN, pulled_back : BOOLEAN,
         slope_against : BOOLEAN]

\* is_cvd_confirming_trend, is_cvd_diverging_from_price.
Confirming(f) == f.delta_with /\ f.ratio_enough /\ ~f.pulled_back /\ ~f.slope_against
Diverging(f) == ~f.delta_with \/ f.pulled_back

\* The scores of the pressure that built up inside the band, 1 being the least that
\* counts: the higher one wins, and against the breakout it is a conflict.
Pressure == [with : 0..2, against : 0..2]
InConflict(p) == p.against >= 1 /\ p.against > p.with

Signals == [flow : Flow, pressure : Pressure,
            occupied : BOOLEAN,   \* outside_occupancy_passed
            extremes : BOOLEAN,   \* new_extreme_count is high enough
            volume : BOOLEAN]     \* sustained_volume_passed

\* A breakout past the compression, with range and volume expanded.
Judged(age, closed_outside, inside_too_long, s) ==
  IF \/ age = "old"
     \/ inside_too_long
     \/ age = "ripe" /\ ~s.occupied
     \/ s.extremes /\ Diverging(s.flow)
     \/ age = "ripe" /\ closed_outside /\ InConflict(s.pressure) /\ ~Confirming(s.flow)
    THEN "TREND_FAILED"
  ELSE IF age = "ripe" /\ closed_outside /\ s.extremes /\ s.volume /\ Confirming(s.flow)
    THEN "TREND_CONFIRMED"
  ELSE "TREND_CANDIDATE"

\* What it can come to, by what the model keeps of it.
Verdicts ==
  [age \in Ages |-> [closed_outside \in BOOLEAN |-> [too_long \in BOOLEAN |->
     {Judged(age, closed_outside, too_long, s) : s \in Signals}]]]

Assessment(s, c) == [detector |-> s, candle |-> c]

\* What assess may return: no trend without a compression that is still valid, nothing
\* yet before range and volume have expanded; without candles the flag stays as it was.
Assess(b, inside_too_long, with_candles) ==
  LET c == IF with_candles THEN Track(candle, b.direction) ELSE candle
  IN {Assessment("NO_TREND", ResetCandleClose(candle)),
      Assessment("POST_COMPRESSION_EXPANDING", candle)} \cup
     {Assessment(v, c) : v \in Verdicts[b.age][c.closed_outside][inside_too_long]}

\* TrendBreakoutAssessor.assess: inside the band only a trend that is under way is
\* assessed, and the answer is no breakout whatever comes of it.
AssessTick(direction, m, with_candles) ==
  IF direction # NIL THEN Assess(BreakoutAfter(direction), FALSE, with_candles)
  ELSE IF detector \in Active THEN Assess(breakout, m.too_long, with_candles)
  ELSE {Assessment(detector, candle)}

-----------------------------------------------------------------------------
(* Ticks.                                                                   *)

Opened(side, regime, stage, stop) ==
  [side |-> side, regime |-> regime, stage |-> stage, protective |-> 0, stop |-> stop]

\* A confirmed trend is entered with its stop behind the middle band; a candidate
\* blocks entries of the mean reversion, but only while the price is outside.
Entries(direction, state) ==
  IF direction # NIL /\ state = "TREND_CONFIRMED"
    THEN {Opened(SideOf(direction), "TREND_BREAKOUT", "plain", stop) : stop \in 1..StopLevels}
  ELSE IF direction # NIL /\ state = "TREND_CANDIDATE" THEN {}
  ELSE {Opened(side, "MEAN_REVERSION", stage, 0) :
          side \in {"LONG", "SHORT"}, stage \in {"plain", "three"}}

\* _route_regime without a position, and what it lets through.
FlatTick(direction) ==
  /\ position = NIL
  /\ \E m \in MetricsAfter(direction) :
       \E a \in AssessTick(direction, m, TRUE) :
         /\ metrics' = m
         /\ breakout' = BreakoutAfter(direction)
         /\ detector' = a.detector
         /\ candle' = a.candle
         /\ \/ UNCHANGED <<position, order>>
            \/ /\ position' \in Entries(direction, a.detector)
               /\ order' = [NoOrder EXCEPT !.opens = TRUE]

\* is_trend_sl_tightened, tighten_trend_sl.
Tightens(old, new) == new > old

\* Bug: the stop of the middle band is taken as it comes.
NewStops_follows_band(p, middle) == IF Trending(p) THEN {0, middle} ELSE {0}

\* _maybe_update_trend_trailing_sl: 0 is no new stop, which the interval between two
\* updates, the price or the distance from the entry may be the reason for.
NewStops(p, middle) ==
  IF Trending(p) /\ Tightens(p.stop, middle) THEN {0, middle} ELSE {0}

\* Bug: the runner's stop is taken as it comes.
RunnerStop_follows_band(old, candidate) == candidate

\* calculate_trend_runner_dynamic_orders: the runner's stop only tightens.
RunnerStop(old, candidate) == Max({old, candidate})

\* The stop of what a first sale left follows the band and the cost, so it may relax;
\* one that cannot be placed (0) leaves the old one.
PartStop(old, calculated) == IF calculated = 0 THEN old ELSE calculated

\* maybe_update_tp, once per candle and not for a trend position.  A three-stage plan of
\* which nothing is sold may be given up for a simpler one.
Revisions(p, candidate) ==
  {p} \cup
  (IF Trending(p) THEN {}
   ELSE IF p.stage = "runner"
     THEN {[p EXCEPT !.protective = RunnerStop(@, c)] : c \in {candidate} \ {0}}
   ELSE IF p.stage \in {"middle", "waiting"}
     THEN {[p EXCEPT !.protective = PartStop(@, candidate)]}
   ELSE {[p EXCEPT !.stage = "plain"]})

\* assess_trend_upgrade, but for the budget, the confidence and the price, any of which
\* may refuse: a confirmed trend on the side of a runner both of whose parts are sold.
UpgradeAllowed(p, direction, state) ==
  /\ direction # NIL /\ state = "TREND_CONFIRMED"
  /\ SideOf(direction) = p.side
  /\ p.stage = "runner"
  /\ p.regime # "TREND_UPGRADE_ADDON"

\* The stop an add-on carries, or 0 if profit or risk leave nothing to add.
AddonStops(middle) == {0, middle}

\* _maybe_trend_upgrade_addon: the runner becomes a trend position at once, its stop that
\* of the middle band, for which no command is sent.
Upgrades(p, direction, state, middle) ==
  {[position |-> p, addon |-> 0]} \cup
  (IF UpgradeAllowed(p, direction, state)
   THEN LET upgraded == IF p.regime = "TREND_UPGRADE" THEN p
                        ELSE [p EXCEPT !.regime = "TREND_UPGRADE", !.stop = middle]
        IN {[position |-> upgraded, addon |-> stop] : stop \in AddonStops(middle)}
   ELSE {})

\* With a position the trend is assessed only for a three-stage plan, on the breakout as
\* it was left, and without candles.
IsAssessed(p) == p.stage \in {"three", "waiting", "runner"}
HeldAssessments(p, direction, m) ==
  IF IsAssessed(p) THEN AssessTick(direction, m, FALSE)
  ELSE {Assessment(detector, candle)}

\* The commands of a tick that left the position revised.
OrderOf(revised, stop, addon) ==
  IF revised = position /\ stop = 0 /\ addon = 0 THEN NoOrder
  ELSE [NoOrder EXCEPT !.protective = IF revised = position THEN 0 ELSE revised.protective,
                       !.stop = stop, !.addon = addon, !.before = position]

\* on_tick with a position.  When the queue has no room for the second command, the
\* position is put back, the detector and the metrics are not.
ManagedTick(direction) ==
  /\ position # NIL
  /\ order = NoOrder
  /\ \E m \in MetricsAfter(direction), middle \in 1..StopLevels, candidate \in Stops :
       \E r \in Revisions(position, candidate), stop \in NewStops(position, middle) :
         \E a \in HeldAssessments(r, direction, m) :
           /\ metrics' = m
           /\ breakout' = IF IsAssessed(r) THEN BreakoutAfter(direction) ELSE breakout
           /\ detector' = a.detector
           /\ candle' = a.candle
           /\ \E u \in Upgrades(r, direction, a.detector, middle) :
                \/ position' = u.position /\ order' = OrderOf(r, stop, u.addon)
                \/ /\ u.addon # 0
                   /\ UNCHANGED position
                   /\ order' = OrderOf(r, stop, 0)

\* trend_runner_market_exit_reason and the reverse burst: its target or its stop crossed,
\* the middle band lost, its time over, the flow reversed.  A tick that sends the exit
\* does nothing else.
ExitTick ==
  /\ position # NIL
  /\ position.stage = "runner"
  /\ order = NoOrder
  /\ order' = [NoOrder EXCEPT !.exit = TRUE, !.before = position]
  /\ UNCHANGED <<breakout, detector, candle, metrics, position>>

CandleClosed(out) ==
  /\ candle' = [candle EXCEPT !.out = out, !.seen = NIL]
  /\ UNCHANGED <<breakout, detector, metrics, position, order>>

\* The breakout reaches confirm_min_seconds, then confirm_max_seconds.
BreakoutAges ==
  /\ breakout # NIL
  /\ \/ breakout.age = "young" /\ breakout' = [breakout EXCEPT !.age = "ripe"]
     \/ breakout.age = "ripe" /\ breakout' = [breakout EXCEPT !.age = "old"]
  /\ UNCHANGED <<detector, candle, metrics, position, order>>

-----------------------------------------------------------------------------
(* Orders.                                                                  *)

\* The first command of the order is done or has failed.
Rest == IF order.addon = 0 \/ (order.protective = 0 /\ order.stop = 0) THEN NoOrder
        ELSE [order EXCEPT !.protective = 0, !.stop = 0]

\* _apply_update_tp_result writes the stop of the stage it was sent for.
WithProtective(p) ==
  IF p.stage = order.before.stage THEN [p EXCEPT !.protective = order.protective] ELSE p

\* _apply_entry_result, _apply_update_tp_result, _apply_update_trend_sl_result,
\* apply_trend_upgrade_addon_state.  An exit halts trading until the position is gone.
CommandDone ==
  /\ order # NoOrder
  /\ ~order.exit
  /\ position' =
       IF order.protective # 0 THEN WithProtective(position)
       ELSE IF order.stop # 0 THEN [position EXCEPT !.stop = order.stop]
       ELSE IF order.addon # 0
         THEN [position EXCEPT !.regime = "TREND_UPGRADE_ADDON", !.stop = order.addon]
       ELSE position
  /\ order' = Rest
  /\ UNCHANGED <<breakout, detector, candle, metrics>>

\* A command that failed leaves the state as it is if there is a position (and halts
\* trading), and puts back the one from before its tick if there is none.
CommandFailed ==
  /\ order # NoOrder
  /\ ~order.exit
  /\ position' \in {position, order.before}
  /\ order' = IF position' = NIL THEN NoOrder ELSE Rest
  /\ UNCHANGED <<breakout, detector, candle, metrics>>

\* The account sync finds a first sale, whether or not a command is under way, and
\* then the second, whose runner has no stop of its own yet.
FirstPartSold ==
  /\ position # NIL
  /\ ~Trending(position)
  /\ ~order.opens
  /\ position.stage \in {"plain", "three"}
  /\ \E stop \in Stops :
       position' = [position EXCEPT !.stage = IF @ = "plain" THEN "middle" ELSE "waiting",
                                    !.protective = stop]
  /\ UNCHANGED <<breakout, detector, candle, metrics, order>>

SecondPartSold ==
  /\ position # NIL
  /\ ~order.opens
  /\ position.stage \in {"three", "waiting"}
  /\ position' = [position EXCEPT !.stage = "runner", !.protective = 0]
  /\ UNCHANGED <<breakout, detector, candle, metrics, order>>

\* settle_flat_phase.
PositionGone ==
  /\ position # NIL
  /\ order = NoOrder \/ order.exit
  /\ position' = NIL
  /\ order' = NoOrder
  /\ UNCHANGED <<breakout, detector, candle, metrics>>

\* restore_strategy_from_saved_state brings the stage and its stop back as they were last
\* saved, but neither the regime nor the stop of a trend, which are saved all the same.
TrendRestart ==
  /\ breakout' = NIL
  /\ detector' = "NO_TREND"
  /\ candle' = ResetCandleClose(candle)
  /\ metrics' = NIL
  /\ \/ position' = NIL
     \/ \E saved \in {position, order.before} \ {NIL} :
          position' = [saved EXCEPT !.regime = NIL, !.stop = 0]
  /\ order' = NoOrder

TrendNext ==
  \/ \E direction \in Directions \cup {NIL} : FlatTick(direction) \/ ManagedTick(direction)
  \/ \E out \in Directions \cup {"inside"} : CandleClosed(out)
  \/ BreakoutAges
  \/ ExitTick
  \/ CommandDone \/ CommandFailed
  \/ FirstPartSold \/ SecondPartSold \/ PositionGone \/ TrendRestart

TrendSpec == TrendInit /\ [][TrendNext]_trend_vars

-----------------------------------------------------------------------------
(* Properties.                                                              *)

\* The values the variables may have.
TrendTypeOK ==
  /\ breakout \in Breakout \cup {NIL}
  /\ detector \in TrendStates
  /\ candle \in Candle
  /\ metrics \in Metrics \cup {NIL}
  /\ position \in Position \cup {NIL}
  /\ order \in Orders

\* A trend is entered only on a closed candle that closed beyond the band on its side.
\* The one exception: the candle was looked at for a breakout of the other side, and
\* the price broke the opposite band before the next candle closed.
TrendEntryHasItsClose ==
  [][position = NIL /\ position' # NIL /\ position'.regime = "TREND_BREAKOUT" =>
       \E direction \in Directions :
         /\ SideOf(direction) = position'.side
         /\ candle'.out = direction \/ candle.seen \notin {NIL, direction}]_trend_vars

\* The stop that only tightens: the trend's, or that of a runner which is none.
TightStop(p) == IF Trending(p) THEN p.stop ELSE p.protective

\* While a runner or a trend position stands, its stop never loosens, though it is
\* computed on one tick and applied when its order is done.  It may only where an
\* add-on brings the stop of its own tick, or where the state from before a tick is
\* put back, by a roll back that takes a position that is gone or by a restart.  A runner
\* that becomes a trend, or a trend a runner, is held by another stop than before.
TrendStopTightens ==
  [][\/ position = NIL \/ position' = NIL
     \/ Trending(position) # Trending(position')
     \/ ~Trending(position) /\ ~(position.stage = "runner" /\ position'.stage = "runner")
     \/ TightStop(position') >= TightStop(position)
     \/ order.addon # 0 /\ order'.addon = 0
     \/ order.before # NIL /\ TightStop(position') = TightStop(order.before)]_trend_vars
=============================================================================
