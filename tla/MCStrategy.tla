----------------------------- MODULE MCStrategy -----------------------------
(***************************************************************************)
(* One instance of the parts a tick passes: the monitor that puts it next  *)
(* to a band, the order flow it is counted in, and the two regimes that    *)
(* on_tick can enter by.  The regimes take any band and any order flow,    *)
(* and the reclaim side any answer of the trend regime (TrendAnswers), so  *)
(* the parts are checked next to each other and not multiplied: a          *)
(* behaviour is one of either.                                             *)
(***************************************************************************)
EXTENDS ReclaimEntries, TrendRegime, CvdTracker, BandMonitor

VARIABLE regime  \* which of them this behaviour is of

others_than_reclaim == <<regime, trend_vars, cvd_vars, monitor_vars>>
others_than_trend == <<regime, reclaim_vars, cvd_vars, monitor_vars>>
others_than_flow == <<regime, reclaim_vars, trend_vars, monitor_vars>>
others_than_monitor == <<regime, reclaim_vars, trend_vars, cvd_vars>>

StrategyNext ==
  \/ regime = "reclaim" /\ Next /\ UNCHANGED others_than_reclaim
  \/ regime = "trend" /\ TrendNext /\ UNCHANGED others_than_trend
  \/ regime = "flow" /\ CvdNext /\ UNCHANGED others_than_flow
  \/ regime = "monitor" /\ MonitorNext /\ UNCHANGED others_than_monitor

StrategyInit ==
  /\ regime \in {"reclaim", "trend", "flow", "monitor"}
  /\ Init /\ (regime # "reclaim" => ~v2)
  /\ TrendInit /\ (regime # "trend" => candle.out = "inside")
  /\ CvdInit
  /\ MonitorInit

StrategySpec ==
  StrategyInit /\ [][StrategyNext]_<<regime, reclaim_vars, trend_vars, cvd_vars, monitor_vars>>

\* The bands of the monitor: one narrow, two wide.
SomeBands == {[lower |-> 1, upper |-> 1], [lower |-> 0, upper |-> 1], [lower |-> 1, upper |-> 2]}

\* The values the variables of both regimes may have.
StrategyTypeOK == TypeOK /\ TrendTypeOK
=============================================================================
