SPECIFICATION FairSpec
CONSTANTS
  MaxConsec = 1
  DailyBudget = 1
  MaxDailyLoss = 2
  WinStreakMin = 3
  RecoveryLosses = 3
  RecoveryWinsExit = 3
  Pnls <- MCPnls
  PnlCap = 2
  CountCap = 4
  QueueCap = 2
INVARIANT CBTypeOK
INVARIANT NoStaleOverride
INVARIANT DrawdownHandled
PROPERTY RecoveryNeedsWins
PROPERTY HaltEnds
CHECK_DEADLOCK TRUE
