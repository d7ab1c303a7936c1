SPECIFICATION Spec
CONSTANTS
  StopDist = 5
  RewardRatio = 3
  Activate = 3
  Partial = 2
  Hysteresis = 1
  Lots = 3
  Slip = 1
  MaxJump = 3
  MaxFailures = 2
  SimTrades = {s1, s2}
  Tickers = {k1, k2}
  SimPrices <- MCSimPrices
  SimStop = 2
  SimReward = 3
  SimTrail = 1
  MaxTicks = 3
  RowLimit = 2
  MaxSimFaults = 1
  Bars = 5
  BtPrices <- MCBtPrices
  BtStop = 1
  BtReward = 2
INVARIANTS
  TypeOK
  StopDistanceKept
  GainIsKept
  HalvedOnce
  ClosesOnce
  OpenIsTracked
  BacktestRight
PROPERTIES
  StopNeverLoosens
  NoFalseAlarm
  ProfitGetsProtected
\* The position ends, the ticks and the bars run out.
CHECK_DEADLOCK FALSE
