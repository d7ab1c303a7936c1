SPECIFICATION Spec
CONSTANTS
  first = first
  second = second
  byHand = byHand
  None = None
  Trades <- MCTrades
  Manual <- MCManual
  Dir <- MCDir
  MaxEvents = 2
  QueueCap = 1
  RowLimit = 2
INVARIANTS TypeOK OneSided CountedOnce Reconciled StillTracked
PROPERTY KeepsContract
CHECK_DEADLOCK FALSE
