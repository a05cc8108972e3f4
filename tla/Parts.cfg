SPECIFICATION PartsSpec
CONSTANTS
  Markets <- MCMarkets
  Span <- MCSpan
  Deep = 4
  Recent = 2
  PageLimit = 2
  Kept = 4
  FirstTick = 5
  LastTick = 7
  WindowDays = 5
  MinHistory = 6
  MaxRows = 6
  MaxOverrides = 2
  MaxIgnored = 1
  Consumers = {c1, c2}
  Pairs = {"BTC/USD", "ETH/USD"}
  MaxIdeas = 2
  MaxCrashes = 1
  FastPeriod = 2
  SlowPeriod = 3
  RsiPeriod = 2
  VolumePeriod = 2
  Lookback = 2
  MinCandles = 4
  Fetched = 5
  Market <- MCMarket
  VolSpan = 2
  Kappa = 1
  PtMult = 1
  SlMult = 1
  MaxHp = 2
  MinRet = 0
  VolUnit = 4
  Vols = {2, 8}
  Moves <- MCMoves
  BaseLevel = 8
  MaxBars = 7
  DecayQuarters <- MCDecay
  MaxDraws = 2
  Whole = 360
  MaxAtoms = 4
  MaxBatches = 3
  MaxThreads = 3
  Symbols <- MCSymbols
  Thresholds = {10000, 10005}
  LabelRecipes = {"l1", "l2"}
  WeightRecipes = {"w1"}
  MaxStores = 3
INVARIANTS
  PartsTypeOK
  NoGap
  OnlyTheTipIsStale
  FlagNeedsSixDays
  UsesBounded
  SignalFollowsPrice
  CusumIsDrawup
  BinAgreesWithBarrier
  UniquenessPathsAgree
  RepeatsLoseWeight
  DecayByRegime
  KeepsWhatWasStored
PROPERTIES
  SeedingEnds
  FlagNeedsEarlierCancel
  LabelsAreFinal
  EngineIsAMap
CHECK_DEADLOCK FALSE
