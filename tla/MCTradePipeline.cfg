SPECIFICATION Spec
CONSTANTS
  ext = ext
  poll = poll
  burst = burst
  xau = xau
  eur = eur
  long = long
  short = short
  None = None
  Sources = {ext, poll, burst}
  Listener = ext
  Symbols = {xau, eur}
  Directions = {long, short}
  MaxConsec = 2
  DailyBudget = 2
  MaxDailyLoss = 1
  Risks = {1, 2}
  Pnls <- MCPnls
  PnlCap = 1
SYMMETRY Symmetry
INVARIANT TypeOK
INVARIANT NoStacking
INVARIANT NoMissedTrip
INVARIANT BudgetOvershoot
PROPERTY OneLateApproval
CHECK_DEADLOCK TRUE
