SPECIFICATION FairSpec
CONSTANTS
  first = first
  second = second
  byHand = byHand
  None = None
  Trades <- MCTrades
  Manual <- MCManual
  Dir <- MCDir
  MaxEvents = 1
  QueueCap = 1
  RowLimit = 2
INVARIANT ReportedOnce
CHECK_DEADLOCK FALSE
