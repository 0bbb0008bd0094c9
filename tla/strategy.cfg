CONSTANTS
  NONE = NONE
  NIL = NIL
  PriceLevels = 3
  MaxCycles = 1
  StopLevels = 2
  FastWindow = 3
  StallWindow = 1
  BurstWindow = 2
  BaselineWindow = 4
  TradePrices = {1, 2}
  MaxTrades = 4
  MaxGap = 2
  NO_BAND = NO_BAND
  BollWindow = 1
  CandleLimit = 2
  TickPrices = {0, 1, 2}
  Bands <- SomeBands
  TickQueueMaxSize = 1
  LastCandle = 2
SPECIFICATION StrategySpec
INVARIANTS StrategyTypeOK OneSide TornOnlyByReplacement WindowsMatchTrades
PROPERTIES EntryNeedsFreshBreak TrendEntryHasItsClose TrendStopTightens BandGoesBackOnlyByRest SignalCrossedBand
CHECK_DEADLOCK FALSE
