SPECIFICATION FairSpec
CONSTANTS
  ext = ext
  poll = poll
  xau = xau
  eur = eur
  long = long
  None = None
  Sources = {ext, poll}
  Listener = ext
  Symbols = {xau, eur}
  Directions = {long}
  MaxConsec = 2
  DailyBudget = 2
  MaxDailyLoss = 1
  Risks = {1}
  Pnls <- MCLosses
  PnlCap = 1
PROPERTY InFlightReleased
PROPERTY LimitHalts
CHECK_DEADLOCK TRUE
