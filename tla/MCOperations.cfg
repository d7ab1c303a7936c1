SPECIFICATION Spec
CONSTANTS
  k1 = k1
  k2 = k2
  r1 = r1
  r2 = r2
  c1 = c1
  none = none
  WebUsers = {u1, u2}
  RiskInputs <- MCRiskInputs
  EnvRisk = 100
  MaxChanges = 3
  MaxBoots = 2
  Officers = {o1, o2}
  IntervalInputs <- MCIntervals
  MaxRecords = 4
  SignalSymbols <- MCSymbols
  MaxSignals = 4
  Watched <- MCSymbols
  Mids <- MCMids
  Window = 3
  Cooldown = 2
  MaxRounds = 5
  Items = {i1, i2}
  Handlers = {h1, h2}
  MaxPosts = 2
  MaxOrders = 3
  Requests = {r1, r2}
  Admins = {a1, a2}
  Customers = {c1}
  NoId = none
  IdOf <- MCIdOf
  Days <- MCDays
  DaysInputs <- MCDaysInputs
  MaxDay = 3
  MaxAway = 1
INVARIANTS
  TypeOK
  RiskInBand
  KernelFollows
  CostsAccounted
  HandledOnce
  BurstsSpaced
  WorkerPostsOnce
  PaidFor
  ManualRowsTrue
PROPERTIES
  BoardKeepsMeeting
  ExpiryHappens
\* The bounded parts run out of changes, signals, rounds and posts.
CHECK_DEADLOCK FALSE
