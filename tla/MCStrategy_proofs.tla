-------------------------- MODULE MCStrategy_proofs --------------------------
(***************************************************************************)
(* The parts side by side: a behaviour of the instance that TLC checks is  *)
(* a behaviour of each of its parts, so what is proved of a part holds of  *)
(* the whole.                                                              *)
(***************************************************************************)
EXTENDS MCStrategy, ReclaimEntries_proofs, TrendRegime_proofs, MarketData_proofs

\* The parts that are not of a behaviour's regime stutter in it.
LEMMA PartsOfTheWhole ==
  /\ StrategySpec => Spec
  /\ StrategySpec => TrendSpec
  /\ StrategySpec => CvdSpec
  /\ StrategySpec => MonitorSpec
<1>1. StrategyInit => Init /\ TrendInit /\ CvdInit /\ MonitorInit
  BY DEF StrategyInit
<1>2. [StrategyNext]_<<regime, reclaim_vars, trend_vars, cvd_vars, monitor_vars>> =>
        [Next]_reclaim_vars
  BY DEF StrategyNext, others_than_trend, others_than_flow, others_than_monitor
<1>3. [StrategyNext]_<<regime, reclaim_vars, trend_vars, cvd_vars, monitor_vars>> =>
        [TrendNext]_trend_vars
  BY DEF StrategyNext, others_than_reclaim, others_than_flow, others_than_monitor
<1>4. [StrategyNext]_<<regime, reclaim_vars, trend_vars, cvd_vars, monitor_vars>> =>
        [MonitorNext]_monitor_vars
  BY DEF StrategyNext, others_than_reclaim, others_than_trend, others_than_flow
<1>5. [StrategyNext]_<<regime, reclaim_vars, trend_vars, cvd_vars, monitor_vars>> =>
        [CvdNext]_cvd_vars
  BY DEF StrategyNext, others_than_reclaim, others_than_trend, others_than_monitor
<1> QED
  BY <1>1, <1>2, <1>3, <1>4, <1>5, PTL DEF StrategySpec, Spec, TrendSpec, CvdSpec, MonitorSpec

\* StrategyTypeOK: both regimes keep to the values of their variables.
THEOREM StrategyTypeCorrect == StrategySpec => []StrategyTypeOK
<1>1. TypeOK /\ TrendTypeOK <=> StrategyTypeOK
  BY DEF StrategyTypeOK
<1> QED BY <1>1, PartsOfTheWhole, ReclaimTypeCorrect, TrendTypeCorrect, PTL

\* The setups, the trend positions, the order flow and the band signals of the whole keep
\* what the parts promise: one setup at a time and torn only by a replaced state, entries
\* on a fresh break or a closed candle, stops that tighten, sums and extremes that are
\* those of their window, signals that cross the band.
THEOREM StrategyCorrect ==
  StrategySpec =>
    /\ []OneSide /\ []TornOnlyByReplacement /\ []WindowsMatchTrades /\ EntryNeedsFreshBreak
    /\ TrendEntryHasItsClose /\ TrendStopTightens
    /\ BandGoesBackOnlyByRest /\ SignalCrossedBand
  BY PartsOfTheWhole, OneSideCorrect, TornOnlyByReplacementCorrect,
     EntryNeedsFreshBreakCorrect, TrendEntryCorrect, TrendStopCorrect, BandCorrect,
     SignalCorrect, WindowsCorrect, PTL
=============================================================================
