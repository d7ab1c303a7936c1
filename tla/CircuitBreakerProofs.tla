------------------------ MODULE CircuitBreakerProofs ------------------------
(***************************************************************************)
(* TLAPS proofs about CircuitBreaker, for every value of its thresholds.   *)
(***************************************************************************)
EXTENDS CircuitBreaker, TradingHaltProofs, SequenceTheorems

USE HaltAssumption, BreakerAssumption DEF HaltAssumption, BreakerAssumption

----------------------------------------------------------------------------
(* Type correctness.                                                        *)

\* Every step of the governor moves the halting half in one of its ways.
LEMMA NextMovesHalt == Next => HaltMove
<1> SUFFICES ASSUME Next PROVE HaltMove
  OBVIOUS
<1> USE DEF HaltMove
<1>1. ASSUME NEW pnl \in Pnls,
             CloseWin(pnl) \/ CloseLastRecoveryWin(pnl)
               \/ CloseLoss(pnl) \/ CloseStreakLoss(pnl)
      PROVE  HaltMove
  <2>1. CountPnl(pnl) /\ pnl \in Int
    BY <1>1 DEF CloseWin, CloseLastRecoveryWin, CloseLoss, CloseStreakLoss, Counted
  <2> QED
    BY <2>1
<1>2. CASE StreakAfterRecovery \/ BreakStreak \/ StepDown \/ CheckLoss
  BY <1>2 DEF StreakAfterRecovery, BreakStreak, StepDown, CheckLoss
<1>3. CASE RefreshDay \/ NewDay \/ MidnightReset
  BY <1>3 DEF RefreshDay, NewDay, MidnightReset
<1>4. CASE ResetButton \/ TelegramResume \/ Restart
  BY <1>4 DEF ResetButton, TelegramResume, Restart
<1>5. CASE PublishBase \/ ApplyOverride \/ LoseOverrides \/ DashboardRisk
             \/ DirectRisk \/ ScaleExpires
  BY <1>5 DEF PublishBase, ApplyOverride, LoseOverrides, DashboardRisk, DirectRisk,
       ScaleExpires
<1> QED
  BY <1>1, <1>2, <1>3, <1>4, <1>5 DEF Next, OnClosed

\* What CBTypeOK says of the flags, of the counters and of the two channels.
Flags == {warned, recovery, baseDue, lost} \subseteq BOOLEAN

CountersTyped ==
  /\ handler   \in Awaits
  /\ winStreak \in 0 .. CountCap
  /\ lossRun   \in 0 .. CountCap
  /\ recWins   \in 0 .. RecoveryWinsExit - 1
  /\ scale     \in {"unset", "half", "one"}
  /\ winsInRow \in 0 .. RecoveryWinsExit

ChannelTyped ==
  /\ riskQ \in Seq(RiskLevels) /\ Len(riskQ) <= QueueCap
  /\ maxRisk \in RiskLevels

\* The type invariant, taken apart.
LEMMA TypeParts == CBTypeOK <=> HaltTypeOK /\ Flags /\ CountersTyped /\ ChannelTyped
BY DEF CBTypeOK, Flags, CountersTyped, ChannelTyped

\* Flags stay Boolean on every path of the handlers.
LEMMA FlagsStep ==
  ASSUME HaltTypeOK, Flags, Next
  PROVE  Flags'
<1> USE DEF Flags, Publish, channel
<1>0. /\ warned \in BOOLEAN /\ recovery \in BOOLEAN /\ baseDue \in BOOLEAN
      /\ lost \in BOOLEAN /\ newDay \in BOOLEAN
  BY DEF HaltTypeOK
<1>1. (warned /\ ~newDay) \in BOOLEAN /\ \A limit : (recovery \/ limit) \in BOOLEAN
  BY <1>0, FlagsTyped, Zenon
<1>2. ASSUME NEW pnl \in Pnls, CloseWin(pnl) \/ CloseLastRecoveryWin(pnl) PROVE Flags'
  <2>1. warned' = (warned /\ ~newDay) /\ baseDue' = baseDue /\ lost' = lost
    BY <1>2 DEF CloseWin, CloseLastRecoveryWin, Counted, Lengthen
  <2>2. recovery' \in {recovery, FALSE}
    BY <1>2 DEF CloseWin, CloseLastRecoveryWin
  <2> QED
    BY <1>0, <1>1, <2>1, <2>2
<1>3. ASSUME NEW pnl \in Pnls, CloseLoss(pnl) \/ CloseStreakLoss(pnl) PROVE Flags'
  <2>1. warned' = (warned /\ ~newDay) /\ baseDue' = baseDue /\ lost' = lost
    BY <1>3 DEF CloseLoss, CloseStreakLoss, Counted
  <2>2. recovery' = recovery \/ \E limit : recovery' = (recovery \/ limit)
    BY <1>3, Zenon DEF CloseLoss, CloseStreakLoss, TakeLoss
  <2> QED
    BY <1>0, <1>1, <2>1, <2>2
<1>4. CASE BreakStreak
  <2>1. UNCHANGED <<warned, baseDue, lost>>
    BY <1>4 DEF BreakStreak
  <2>2. recovery' \in BOOLEAN
    BY <1>1, <1>4, Zenon DEF BreakStreak, TakeLoss
  <2> QED
    BY <1>0, <2>1, <2>2
<1>5. CASE StreakAfterRecovery \/ StepDown \/ CheckLoss
  BY <1>0, <1>5 DEF StreakAfterRecovery, Lengthen, StepDown, CheckLoss, counters
<1>6. CASE RefreshDay \/ NewDay \/ MidnightReset \/ ResetButton \/ TelegramResume
  BY <1>0, <1>6 DEF RefreshDay, NewDay, MidnightReset, ResetButton, TelegramResume,
       ResetCounters, cbVars, counters
<1>7. CASE PublishBase \/ ApplyOverride \/ LoseOverrides \/ DashboardRisk
             \/ DirectRisk \/ ScaleExpires \/ Restart
  BY <1>0, <1>7 DEF PublishBase, ApplyOverride, LoseOverrides, DashboardRisk, DirectRisk,
       ScaleExpires, Restart, counters
<1> QED
  BY <1>2, <1>3, <1>4, <1>5, <1>6, <1>7 DEF Next, OnClosed

\* The streaks stay within their bounds, and a recovery's wins below the number
\* that ends it.
LEMMA CountersStep ==
  ASSUME CountersTyped, Next
  PROVE  CountersTyped'
<1> USE DEF CountersTyped, Awaits
<1>1. /\ \A n \in 0 .. CountCap : Today(n) \in 0 .. CountCap
      /\ Today(recWins) \in 0 .. RecoveryWinsExit - 1
      /\ 0 \in 0 .. CountCap /\ 0 \in 0 .. RecoveryWinsExit - 1
      /\ 0 \in 0 .. RecoveryWinsExit
  BY DEF Today
<1>2. Won => lossRun' \in 0 .. CountCap /\ winsInRow' \in 0 .. RecoveryWinsExit
  BY <1>1 DEF Won
<1>3. \A n \in 0 .. CountCap :
        Lengthen(n) => winStreak' \in 0 .. CountCap /\ handler' = "saving"
  BY DEF Lengthen, Await
<1>4. \A l \in 0 .. CountCap :
        TakeLoss(l) => /\ winStreak' = 0 /\ recWins' = 0 /\ lossRun' \in 0 .. CountCap
                       /\ scale' \in {"unset", "half", "one"} /\ handler' = "saving"
  BY DEF TakeLoss, SetScale, Await
<1>5. ASSUME NEW pnl \in Pnls, CloseWin(pnl) PROVE CountersTyped'
  <2>1. recWins' \in 0 .. RecoveryWinsExit - 1
    BY <1>1, <1>5 DEF CloseWin
  <2> QED
    BY <1>1, <1>2, <1>3, <1>5, <2>1 DEF CloseWin
<1>6. ASSUME NEW pnl \in Pnls, CloseLastRecoveryWin(pnl) PROVE CountersTyped'
  BY <1>1, <1>2, <1>6 DEF CloseLastRecoveryWin, SetScale, Await
<1>7. ASSUME NEW pnl \in Pnls, CloseLoss(pnl) PROVE CountersTyped'
  BY <1>1, <1>4, <1>7 DEF CloseLoss
<1>8. ASSUME NEW pnl \in Pnls, CloseStreakLoss(pnl) PROVE CountersTyped'
  BY <1>1, <1>8 DEF CloseStreakLoss, Await
<1>9. CASE StreakAfterRecovery
  BY <1>3, <1>9 DEF StreakAfterRecovery
<1>10. CASE BreakStreak
  BY <1>1, <1>4, <1>10 DEF BreakStreak
<1>11. CASE StepDown \/ CheckLoss
  BY <1>11 DEF StepDown, CheckLoss, Await, counters
<1>12. CASE RefreshDay \/ MidnightReset \/ ResetButton \/ TelegramResume
  BY <1>1, <1>12 DEF RefreshDay, MidnightReset, ResetButton, TelegramResume, ResetCounters
<1>13. CASE NewDay \/ PublishBase \/ ApplyOverride \/ LoseOverrides \/ DashboardRisk
              \/ DirectRisk
  BY <1>13 DEF NewDay, PublishBase, ApplyOverride, LoseOverrides, DashboardRisk, DirectRisk,
       cbVars, counters
<1>14. CASE ScaleExpires \/ Restart
  BY <1>1, <1>14 DEF ScaleExpires, Restart, counters
<1> QED
  BY <1>5, <1>6, <1>7, <1>8, <1>9, <1>10, <1>11, <1>12, <1>13, <1>14 DEF Next, OnClosed

\* What a step does to the queue of overrides and to the risk in force.
ChannelMove ==
  \/ UNCHANGED channel
  \/ \E level \in RiskLevels : Publish(level)
  \/ ApplyOverride \/ LoseOverrides \/ DirectRisk
  \/ riskQ' = <<>> /\ maxRisk' = "base"

\* Every step moves the queue of overrides in one of these ways.
LEMMA NextMovesChannel == Next => ChannelMove
<1> SUFFICES ASSUME Next PROVE ChannelMove
  OBVIOUS
<1> USE DEF ChannelMove, RiskLevels
<1>1. \A n : Lengthen(n) => ChannelMove
  BY DEF Lengthen
<1>2. ASSUME NEW pnl \in Pnls,
             CloseWin(pnl) \/ CloseLastRecoveryWin(pnl)
               \/ CloseLoss(pnl) \/ CloseStreakLoss(pnl)
      PROVE  ChannelMove
  BY <1>1, <1>2 DEF CloseWin, CloseLastRecoveryWin, CloseLoss, CloseStreakLoss
<1>3. CASE StreakAfterRecovery \/ BreakStreak \/ StepDown \/ CheckLoss
  BY <1>1, <1>3 DEF StreakAfterRecovery, BreakStreak, StepDown, CheckLoss
<1>4. CASE RefreshDay \/ NewDay \/ MidnightReset \/ ResetButton \/ TelegramResume
  BY <1>4 DEF RefreshDay, NewDay, MidnightReset, ResetButton, TelegramResume,
       ResetCounters, cbVars
<1>5. CASE PublishBase \/ ApplyOverride \/ LoseOverrides \/ DashboardRisk
             \/ DirectRisk \/ ScaleExpires \/ Restart
  BY <1>5 DEF PublishBase, DashboardRisk, ScaleExpires, Restart
<1> QED
  BY <1>2, <1>3, <1>4, <1>5 DEF Next, OnClosed

\* A queue that lost its connection is empty, and typed.
LEMMA EmptyQueue == <<>> \in Seq(RiskLevels) /\ Len(<<>>) <= QueueCap
OBVIOUS

\* The queue and the risk in force hold nothing but levels of risk.
LEMMA ChannelStep ==
  ASSUME ChannelTyped, Next
  PROVE  ChannelTyped'
<1> USE DEF ChannelTyped
<1>1. CASE UNCHANGED channel
  BY <1>1 DEF channel
<1>2. ASSUME NEW level \in RiskLevels, Publish(level) PROVE ChannelTyped'
  BY <1>2 DEF Publish
<1>3. CASE ApplyOverride
  BY <1>3 DEF ApplyOverride
<1>4. CASE LoseOverrides \/ DirectRisk \/ (riskQ' = <<>> /\ maxRisk' = "base")
  <2>1. riskQ' \in {riskQ, <<>>} /\ maxRisk' \in RiskLevels
    BY <1>4 DEF LoseOverrides, DirectRisk, RiskLevels
  <2> QED
    BY <2>1, EmptyQueue
<1> QED
  BY <1>1, <1>2, <1>3, <1>4, NextMovesChannel DEF ChannelMove

\* Every variable keeps its type: the queue holds levels of risk, the wins of
\* a recovery stay below the number that ends it.
THEOREM GovernorTyped == Spec => []CBTypeOK
<1>1. Init => CBTypeOK
  <2> SUFFICES ASSUME Init PROVE CBTypeOK
    OBVIOUS
  <2>0. 0 \in Nat /\ 0 \in Int
    OBVIOUS
  <2>1. HaltTypeOK
    BY <2>0, Zenon DEF Init, HaltInit, HaltTypeOK
  <2>2. Flags
    BY DEF Init, Flags
  <2>3. CountersTyped
    BY DEF Init, CountersTyped, Awaits
  <2>4. ChannelTyped
    BY EmptyQueue DEF Init, ChannelTyped, RiskLevels
  <2> QED
    BY <2>1, <2>2, <2>3, <2>4, TypeParts
<1>2. CBTypeOK /\ [Next]_vars => CBTypeOK'
  <2> SUFFICES ASSUME CBTypeOK, [Next]_vars PROVE CBTypeOK'
    OBVIOUS
  <2>1. HaltTypeOK /\ Flags /\ CountersTyped /\ ChannelTyped
    BY TypeParts
  <2>2. CASE Next
    <3>1. HaltTypeOK' /\ Flags' /\ CountersTyped' /\ ChannelTyped'
      BY <2>1, <2>2, HaltTyped, NextMovesHalt, FlagsStep, CountersStep, ChannelStep
    <3> QED
      BY <3>1 DEF CBTypeOK, Flags, CountersTyped, ChannelTyped
  <2>3. CASE UNCHANGED vars
    BY <2>3 DEF vars, haltVars, cbVars, counters, channel, CBTypeOK, HaltTypeOK
  <2> QED
    BY <2>2, <2>3
<1> QED
  BY <1>1, <1>2, PTL DEF Spec

----------------------------------------------------------------------------
(* The drawdown.                                                            *)

\* Inductive: the step-down is decided at the same point of every run of
\* _on_closed, and after it only the loss limit is left to check.
DrawdownInv ==
  /\ handler \in {"idle", "stepped"} /\ HalfLost => warned
  /\ handler = "idle" /\ LossLimitHit => triggered
  /\ triggered => warned

\* A day without losses is at neither mark.
LEMMA NoLoss == dayPnl = 0 => ~HalfLost /\ ~LossLimitHit
BY DEF HalfLost, LossLimitHit

\* And so it is after a step that leaves no loss.
LEMMA NoLossNext == dayPnl' = 0 => ~HalfLost' /\ ~LossLimitHit'
BY DEF HalfLost, LossLimitHit

\* No interleaving of _on_closed with a reset or a midnight skips a mark.
LEMMA DrawdownStep ==
  ASSUME CBTypeOK, DrawdownInv, Next
  PROVE  DrawdownInv'
<1>0. dayPnl \in Int /\ triggered \in BOOLEAN /\ warned \in BOOLEAN /\ newDay \in BOOLEAN
  BY DEF CBTypeOK, HaltTypeOK
<1>1. ASSUME NEW pnl \in Pnls,
             CloseWin(pnl) \/ CloseLastRecoveryWin(pnl)
               \/ CloseLoss(pnl) \/ CloseStreakLoss(pnl)
      PROVE  DrawdownInv'
  <2>1. Counted(pnl)
    BY <1>1 DEF CloseWin, CloseLastRecoveryWin, CloseLoss, CloseStreakLoss
  <2>2. handler' \in {"saving", "scaled", "broken"}
    BY <1>1 DEF CloseWin, CloseLastRecoveryWin, CloseLoss, CloseStreakLoss, Lengthen,
         TakeLoss, Await
  <2>3. triggered' = (triggered /\ ~newDay) /\ warned' = (warned /\ ~newDay)
    BY <2>1 DEF Counted, CountPnl, Refreshed
  <2>4. triggered' => warned'
    BY <2>3, Zenon DEF DrawdownInv
  <2> QED
    BY <2>2, <2>4 DEF DrawdownInv
<1>2. CASE StreakAfterRecovery \/ BreakStreak
  <2>1. handler' = "saving" /\ UNCHANGED <<triggered, warned>>
    BY <1>2 DEF StreakAfterRecovery, BreakStreak, Lengthen, TakeLoss, Await, haltVars
  <2> QED
    BY <2>1 DEF DrawdownInv
<1>3. CASE StepDown
  BY <1>3 DEF StepDown, Await, DrawdownInv
<1>4. CASE CheckLoss
  <2>1. HalfLost => warned
    BY <1>4 DEF CheckLoss, DrawdownInv
  <2>2. LossLimitHit => HalfLost
    BY <1>0 DEF LossLimitHit, HalfLost
  <2>3. /\ handler' = "idle" /\ triggered' = (triggered \/ LossLimitHit)
        /\ UNCHANGED <<dayPnl, warned>>
    BY <1>4 DEF CheckLoss, Trip, Await, counters
  <2>4. HalfLost' = HalfLost /\ LossLimitHit' = LossLimitHit
    BY <2>3 DEF HalfLost, LossLimitHit
  <2> QED
    BY <2>1, <2>2, <2>3, <2>4, Zenon DEF DrawdownInv
<1>5. CASE RefreshDay
  <2>1. dayPnl' = 0 /\ ~triggered'
    BY <1>5 DEF RefreshDay, ForgetRejects, Refreshed, Today
  <2> QED
    BY <2>1, NoLossNext DEF DrawdownInv
<1>6. CASE MidnightReset \/ ResetButton \/ TelegramResume \/ Restart
  <2>1. dayPnl' = 0 /\ ~triggered'
    BY <1>6 DEF MidnightReset, MidnightClears, ResetButton, ResetRequest, TelegramResume,
         Reset, Restart, HaltRestart, Cleared
  <2> QED
    BY <2>1, NoLossNext DEF DrawdownInv
<1>7. CASE NewDay \/ PublishBase \/ ApplyOverride \/ LoseOverrides \/ DashboardRisk
             \/ DirectRisk \/ ScaleExpires
  <2>1. UNCHANGED <<handler, dayPnl, triggered, warned>>
    BY <1>7 DEF NewDay, DayEnds, PublishBase, ApplyOverride, LoseOverrides, DashboardRisk,
         DirectRisk, ScaleExpires, haltVars, cbVars, counters
  <2> QED
    BY <2>1 DEF DrawdownInv, HalfLost, LossLimitHit
<1> QED
  BY <1>1, <1>2, <1>3, <1>4, <1>5, <1>6, <1>7 DEF Next, OnClosed

\* Whenever _on_closed is not running, a day that lost half of its limit was
\* stepped down, one that lost it all is halted, and none is halted without the
\* step-down: resets and midnights that run between its awaits change nothing.
THEOREM DrawdownIsHandled == Spec => []DrawdownHandled
<1>1. Init => DrawdownInv
  BY NoLoss DEF Init, HaltInit, DrawdownInv
<1>2. CBTypeOK /\ DrawdownInv /\ [Next]_vars => DrawdownInv'
  <2> SUFFICES ASSUME CBTypeOK, DrawdownInv, [Next]_vars PROVE DrawdownInv'
    OBVIOUS
  <2>1. CASE Next
    BY <2>1, DrawdownStep
  <2>2. CASE UNCHANGED vars
    BY <2>2 DEF vars, haltVars, cbVars, counters, DrawdownInv, HalfLost, LossLimitHit
  <2> QED
    BY <2>1, <2>2
<1>3. DrawdownInv => DrawdownHandled
  BY DEF DrawdownInv, DrawdownHandled
<1> QED
  BY <1>1, <1>2, <1>3, GovernorTyped, PTL DEF Spec

----------------------------------------------------------------------------
(* Recovery mode.                                                           *)

\* Inductive: the wins that recovery counted were won in a row, but for the
\* moment in which a loss is being taken.
RecoveryInv == handler # "broken" => recWins <= winsInRow

\* A step keeps recovery's count below the wins in a row, and ends recovery only
\* with enough of them.
LEMMA RecoveryStep ==
  ASSUME CBTypeOK, RecoveryInv, Next
  PROVE  /\ RecoveryInv'
         /\ recovery /\ ~recovery' => winsInRow' >= RecoveryWinsExit \/ Restart
<1> USE DEF RecoveryInv
<1> DEFINE Goal == /\ RecoveryInv'
                   /\ recovery /\ ~recovery' => winsInRow' >= RecoveryWinsExit \/ Restart
<1>0. /\ recWins \in Nat /\ winsInRow \in Nat /\ RecoveryWinsExit \in Nat \ {0}
      /\ Today(recWins) \in 0 .. recWins
  BY DEF CBTypeOK, Today
<1>1. ASSUME NEW pnl \in Pnls, CloseWin(pnl) PROVE Goal
  <2>1. /\ recWins <= winsInRow
        /\ recWins' <= Today(recWins) + 1 /\ recWins' < RecoveryWinsExit
        /\ winsInRow' = IF winsInRow < RecoveryWinsExit THEN winsInRow + 1 ELSE winsInRow
    BY <1>0, <1>1 DEF CloseWin, Counted, Won
  <2>2. recWins' \in Int
    BY <1>0, <1>1 DEF CloseWin
  <2>3. recWins' <= winsInRow'
    BY <1>0, <2>1, <2>2
  <2> QED
    BY <1>1, <2>3 DEF CloseWin
<1>2. ASSUME NEW pnl \in Pnls, CloseLastRecoveryWin(pnl) PROVE Goal
  <2>1. /\ recWins <= winsInRow /\ recWins' = 0
        /\ Today(recWins) + 1 >= RecoveryWinsExit
        /\ winsInRow' = IF winsInRow < RecoveryWinsExit THEN winsInRow + 1 ELSE winsInRow
    BY <1>2 DEF CloseLastRecoveryWin, Counted, Won
  <2> QED
    BY <1>0, <2>1
<1>3. \A l : TakeLoss(l) => recWins' = 0 /\ (recovery => recovery')
  BY DEF TakeLoss
<1>4. ASSUME NEW pnl \in Pnls, CloseLoss(pnl) PROVE Goal
  BY <1>3, <1>4 DEF CloseLoss
<1>5. ASSUME NEW pnl \in Pnls, CloseStreakLoss(pnl) PROVE Goal
  BY <1>5 DEF CloseStreakLoss, Await
<1>6. CASE BreakStreak
  BY <1>0, <1>3, <1>6 DEF BreakStreak
<1>7. CASE StreakAfterRecovery \/ StepDown \/ CheckLoss
  BY <1>7 DEF StreakAfterRecovery, StepDown, CheckLoss, counters
<1>8. CASE RefreshDay
  BY <1>0, <1>8 DEF RefreshDay
<1>9. CASE NewDay \/ MidnightReset \/ ResetButton \/ TelegramResume
  BY <1>9 DEF NewDay, MidnightReset, ResetButton, TelegramResume, ResetCounters, cbVars,
       counters
<1>10. CASE PublishBase \/ ApplyOverride \/ LoseOverrides \/ DashboardRisk \/ DirectRisk
              \/ ScaleExpires
  BY <1>10 DEF PublishBase, ApplyOverride, LoseOverrides, DashboardRisk, DirectRisk,
       ScaleExpires, counters
<1>11. CASE Restart
  BY <1>0, <1>11 DEF Restart
<1> QED
  BY <1>1, <1>2, <1>4, <1>5, <1>6, <1>7, <1>8, <1>9, <1>10, <1>11 DEF Next, OnClosed

\* Recovery mode ends with the number of wins in a row that the code asks for or
\* with the process, whatever resets and days come in between.
THEOREM RecoveryTakesWins == Spec => RecoveryNeedsWins
<1>1. Init => RecoveryInv
  BY DEF Init, RecoveryInv
<1>2. CBTypeOK /\ RecoveryInv /\ [Next]_vars =>
        /\ RecoveryInv'
        /\ [recovery /\ ~recovery' => winsInRow' >= RecoveryWinsExit \/ Restart]_vars
  <2> SUFFICES ASSUME CBTypeOK, RecoveryInv, [Next]_vars
               PROVE  /\ RecoveryInv'
                      /\ \/ recovery /\ ~recovery' => winsInRow' >= RecoveryWinsExit \/ Restart
                         \/ UNCHANGED vars
    OBVIOUS
  <2>1. CASE Next
    BY <2>1, RecoveryStep
  <2>2. CASE UNCHANGED vars
    BY <2>2 DEF vars, cbVars, counters, RecoveryInv
  <2> QED
    BY <2>1, <2>2
<1> QED
  BY <1>1, <1>2, GovernorTyped, PTL DEF Spec, RecoveryNeedsWins

----------------------------------------------------------------------------
(* The overrides.                                                           *)

\* The risk that will be in force once the overrides under way have arrived.
Newest == IF riskQ # <<>> THEN riskQ[Len(riskQ)] ELSE IF lost THEN "manual" ELSE maxRisk

\* Base risk is about to be restored, by a reset that happened or a midnight that
\* is due.
Restored == baseDue \/ midnightDue

\* Inductive: the newest override follows from the counters, or base risk is
\* about to replace it; and midnight's reset is done before the first event of
\* its day clears the counters that the override follows from.
BoostInv ==
  /\ Newest = "boost" => winStreak >= WinStreakMin \/ Restored
  /\ handler = "broken" => Newest # "boost"

HalfInv == Newest = "half" => warned \/ Restored

NewDayInv ==
  newDay /\ ~midnightDue =>
    /\ ~warned /\ dayPnl = 0 /\ winStreak < WinStreakMin
    /\ handler = "scaled" => winStreak = 0

OverrideInv == BoostInv /\ HalfInv /\ NewDayInv

\* What each way of moving the queue does to the newest override.
LEMMA NewestMoves ==
  ASSUME CBTypeOK
  PROVE  /\ UNCHANGED channel => Newest' = Newest
         /\ \A level \in RiskLevels : Publish(level) => Newest' = level
         /\ ApplyOverride => Newest' = Newest
         /\ LoseOverrides \/ DirectRisk => Newest' \in {Newest, "manual"}
<1>0. riskQ \in Seq(RiskLevels)
  BY DEF CBTypeOK
<1>1. UNCHANGED channel => Newest' = Newest
  BY DEF channel, Newest
<1>2. ASSUME NEW level \in RiskLevels, Publish(level) PROVE Newest' = level
  BY <1>0, <1>2 DEF Publish, Newest
<1>3. ASSUME ApplyOverride PROVE Newest' = Newest
  <2>1. riskQ # <<>> /\ riskQ' = Tail(riskQ) /\ maxRisk' = Head(riskQ) /\ ~lost'
    BY <1>3 DEF ApplyOverride
  <2>2. /\ Len(riskQ) \in Nat \ {0}
        /\ riskQ' \in Seq(RiskLevels) /\ Len(riskQ') = Len(riskQ) - 1
        /\ \A i \in 1 .. Len(riskQ') : riskQ'[i] = riskQ[i + 1]
    BY <1>0, <2>1, HeadTailProperties, EmptySeq
  <2>3. CASE riskQ' = <<>>
    <3>1. Len(riskQ) = 1
      BY <2>2, <2>3, EmptySeq
    <3>2. Newest = riskQ[1] /\ Newest' = Head(riskQ)
      BY <2>1, <2>3, <3>1 DEF Newest
    <3> QED
      BY <1>0, <2>1, <3>2
  <2>4. CASE riskQ' # <<>>
    <3>1. Len(riskQ') \in Nat \ {0}
      BY <2>2, <2>4, EmptySeq
    <3>2. Len(riskQ') \in 1 .. Len(riskQ') /\ Len(riskQ') + 1 = Len(riskQ)
      BY <2>2, <3>1
    <3>3. riskQ'[Len(riskQ')] = riskQ[Len(riskQ)]
      BY <2>2, <3>2
    <3> QED
      BY <2>1, <2>4, <3>3 DEF Newest
  <2> QED
    BY <2>3, <2>4
<1>4. LoseOverrides \/ DirectRisk => Newest' \in {Newest, "manual"}
  BY DEF LoseOverrides, DirectRisk, Newest
<1> QED
  BY <1>1, <1>2, <1>3, <1>4

\* Of a day that has changed without its midnight being due, no event has been
\* counted yet.
LEMMA NewDayStep ==
  ASSUME CBTypeOK, NewDayInv, Next
  PROVE  NewDayInv'
<1> USE DEF NewDayInv
<1>0. winStreak \in Nat /\ 0 < WinStreakMin /\ 1 < WinStreakMin
  BY DEF CBTypeOK
<1>1. ASSUME NEW pnl \in Pnls,
             CloseWin(pnl) \/ CloseLastRecoveryWin(pnl)
               \/ CloseLoss(pnl) \/ CloseStreakLoss(pnl)
      PROVE  NewDayInv'
  BY <1>1 DEF CloseWin, CloseLastRecoveryWin, CloseLoss, CloseStreakLoss, Counted, CountPnl,
       Refreshed
<1>2. CASE StreakAfterRecovery
  <2>1. /\ handler = "scaled" /\ handler' = "saving" /\ winStreak' = winStreak + 1
        /\ UNCHANGED <<newDay, midnightDue, warned, dayPnl>>
    BY <1>2 DEF StreakAfterRecovery, Lengthen, Await, haltVars
  <2> QED
    BY <1>0, <2>1
<1>3. CASE BreakStreak
  <2>1. /\ winStreak' = 0 /\ handler' = "saving"
        /\ UNCHANGED <<newDay, midnightDue, warned, dayPnl>>
    BY <1>3 DEF BreakStreak, TakeLoss, Await, haltVars
  <2> QED
    BY <1>0, <2>1
<1>4. CASE StepDown
  <2>1. HalfLost /\ UNCHANGED <<newDay, midnightDue>>
    BY <1>4 DEF StepDown, haltVars
  <2> QED
    BY <2>1, NoLoss
<1>5. CASE CheckLoss
  BY <1>5 DEF CheckLoss, Trip, Await, counters
<1>6. CASE RefreshDay \/ NewDay \/ Restart
  BY <1>6 DEF RefreshDay, ForgetRejects, Refreshed, NewDay, DayEnds, Restart, HaltRestart
<1>7. CASE MidnightReset \/ ResetButton \/ TelegramResume
  <2>1. dayPnl' = 0 /\ winStreak' = 0 /\ ~warned'
    BY <1>7 DEF MidnightReset, MidnightClears, ResetButton, ResetRequest, TelegramResume,
         Reset, Cleared, ResetCounters
  <2> QED
    BY <1>0, <2>1
<1>8. CASE PublishBase \/ ApplyOverride \/ LoseOverrides \/ DashboardRisk \/ DirectRisk
             \/ ScaleExpires
  BY <1>8 DEF PublishBase, ApplyOverride, LoseOverrides, DashboardRisk, DirectRisk,
       ScaleExpires, haltVars, counters
<1> QED
  BY <1>1, <1>2, <1>3, <1>4, <1>5, <1>6, <1>7, <1>8 DEF Next, OnClosed

\* No step leaves a boost without its streak or a half without its step-down.
LEMMA OverrideStep ==
  ASSUME CBTypeOK, OverrideInv, Next
  PROVE  BoostInv' /\ HalfInv'
<1> USE DEF BoostInv, HalfInv, Restored, RiskLevels
<1>0. winStreak \in Nat /\ 0 < WinStreakMin /\ BoostInv /\ HalfInv /\ NewDayInv
  BY DEF CBTypeOK, OverrideInv
<1>1. Newest = "boost" => Today(winStreak) >= WinStreakMin \/ Restored
  BY <1>0 DEF Today, NewDayInv
<1>2. Newest = "half" => (warned /\ ~newDay) \/ Restored
  BY <1>0 DEF NewDayInv
<1>3. ASSUME NEW n \in Nat, Lengthen(n), Restored' <=> Restored,
             Newest = "boost" => n >= WinStreakMin \/ Restored,
             Newest = "half" => warned' \/ Restored
      PROVE  BoostInv' /\ HalfInv'
  <2>1. winStreak' = n + 1 /\ handler' = "saving"
    BY <1>3 DEF Lengthen, Await
  <2>2. CASE n + 1 = WinStreakMin
    <3>1. Newest' = "boost"
      BY <1>3, <2>2, NewestMoves DEF Lengthen
    <3> QED
      BY <2>1, <2>2, <3>1
  <2>3. CASE n + 1 # WinStreakMin
    <3>1. Newest' = Newest
      BY <1>3, <2>3, NewestMoves DEF Lengthen
    <3> QED
      BY <1>3, <2>1, <3>1
  <2> QED
    BY <2>2, <2>3
<1>4. ASSUME NEW pnl \in Pnls, Counted(pnl)
      PROVE  /\ (warned' <=> warned /\ ~newDay)
             /\ (Restored' <=> Restored)
  <2>1. /\ warned' = (warned /\ ~newDay)
        /\ baseDue' = baseDue /\ midnightDue' = midnightDue
    BY <1>4 DEF Counted, CountPnl, Refreshed
  <2>2. warned' <=> warned /\ ~newDay
    BY <2>1, Zenon
  <2>3. Restored' <=> Restored
    BY <2>1
  <2> QED
    BY <2>2, <2>3
<1>5. ASSUME NEW pnl \in Pnls, CloseWin(pnl) PROVE BoostInv' /\ HalfInv'
  <2>1. Today(winStreak) \in Nat /\ Lengthen(Today(winStreak)) /\ Counted(pnl)
    BY <1>0, <1>5 DEF CloseWin, Today
  <2> QED
    BY <1>1, <1>2, <1>3, <1>4, <2>1
<1>6. ASSUME NEW pnl \in Pnls, CloseLastRecoveryWin(pnl) PROVE BoostInv' /\ HalfInv'
  <2>1. /\ Counted(pnl) /\ winStreak' = Today(winStreak) /\ handler' = "scaled"
        /\ Newest' = Newest
    BY <1>6, NewestMoves DEF CloseLastRecoveryWin, Await
  <2> QED
    BY <1>1, <1>2, <1>4, <2>1
<1>7. ASSUME NEW pnl \in Pnls, CloseLoss(pnl) PROVE BoostInv' /\ HalfInv'
  <2>1. /\ Counted(pnl) /\ Today(winStreak) < WinStreakMin
        /\ handler' = "saving" /\ Newest' = Newest
    BY <1>7, NewestMoves DEF CloseLoss, TakeLoss, Await
  <2>2. Today(winStreak) \in Nat
    BY <1>0 DEF Today
  <2> QED
    BY <1>1, <1>2, <1>4, <2>1, <2>2
<1>8. ASSUME NEW pnl \in Pnls, CloseStreakLoss(pnl) PROVE BoostInv' /\ HalfInv'
  <2>1. Newest' = "base"
    BY <1>8, NewestMoves DEF CloseStreakLoss
  <2> QED
    BY <2>1
<1>9. CASE StreakAfterRecovery
  <2>1. Lengthen(winStreak) /\ UNCHANGED <<warned, baseDue, midnightDue>>
    BY <1>9 DEF StreakAfterRecovery, haltVars
  <2> QED
    BY <1>0, <1>3, <2>1
<1>10. CASE BreakStreak
  <2>1. /\ handler = "broken" /\ handler' = "saving" /\ Newest' = Newest
        /\ UNCHANGED <<warned, baseDue, midnightDue>>
    BY <1>10, NewestMoves DEF BreakStreak, TakeLoss, Await, haltVars
  <2> QED
    BY <1>0, <2>1
<1>11. CASE StepDown
  <2>1. Newest' = "half" /\ warned'
    BY <1>11, NewestMoves DEF StepDown
  <2> QED
    BY <2>1
<1>12. CASE CheckLoss
  <2>1. /\ Newest' = Newest /\ handler' = "idle"
        /\ UNCHANGED <<winStreak, warned, baseDue, midnightDue>>
    BY <1>12, NewestMoves DEF CheckLoss, Trip, Await, counters
  <2> QED
    BY <1>0, <2>1
<1>13. CASE RefreshDay
  <2>1. newDay /\ Newest' = Newest /\ UNCHANGED <<handler, baseDue, midnightDue>>
    BY <1>13, NewestMoves DEF RefreshDay, ForgetRejects, Refreshed
  <2> QED
    BY <1>0, <2>1 DEF NewDayInv
<1>14. CASE NewDay
  <2>1. Newest' = Newest /\ midnightDue' /\ handler' = handler
    BY <1>14, NewestMoves DEF NewDay, DayEnds, cbVars
  <2> QED
    BY <1>0, <2>1
<1>15. CASE MidnightReset \/ ResetButton \/ TelegramResume
  <2>1. Newest' = Newest /\ baseDue' /\ handler' = handler
    BY <1>15, NewestMoves DEF MidnightReset, ResetButton, TelegramResume, ResetCounters
  <2> QED
    BY <1>0, <2>1
<1>16. CASE PublishBase \/ Restart
  <2>1. Newest' = "base"
    BY <1>16, NewestMoves DEF PublishBase, Restart, Newest
  <2> QED
    BY <2>1
<1>17. CASE DashboardRisk \/ LoseOverrides \/ DirectRisk
  <2>1. /\ Newest' \in {Newest, "manual"}
        /\ UNCHANGED <<handler, winStreak, warned, baseDue, midnightDue>>
    BY <1>17, NewestMoves DEF DashboardRisk, LoseOverrides, DirectRisk, haltVars, counters
  <2> QED
    BY <1>0, <2>1
<1>18. CASE ApplyOverride \/ ScaleExpires
  <2>1. /\ Newest' = Newest
        /\ UNCHANGED <<handler, winStreak, warned, baseDue, midnightDue>>
    BY <1>18, NewestMoves DEF ApplyOverride, ScaleExpires, haltVars, counters
  <2> QED
    BY <1>0, <2>1
<1> QED
  BY <1>5, <1>6, <1>7, <1>8, <1>9, <1>10, <1>11, <1>12, <1>13, <1>14, <1>15, <1>16, <1>17,
     <1>18 DEF Next, OnClosed

\* Once everything under way has settled, the risk in force follows from the
\* counters: boosted only on a winning streak, halved only on a day that was
\* stepped down, in whichever order messages, resets and midnights came.
THEOREM OverridesFollow == Spec => []NoStaleOverride
<1>1. Init => OverrideInv
  BY DEF Init, HaltInit, OverrideInv, BoostInv, HalfInv, NewDayInv, Newest
<1>2. CBTypeOK /\ OverrideInv /\ [Next]_vars => OverrideInv'
  <2> SUFFICES ASSUME CBTypeOK, OverrideInv, [Next]_vars PROVE OverrideInv'
    OBVIOUS
  <2>1. CASE Next
    BY <2>1, OverrideStep, NewDayStep DEF OverrideInv
  <2>2. CASE UNCHANGED vars
    BY <2>2 DEF vars, haltVars, cbVars, counters, channel, OverrideInv, BoostInv, HalfInv,
         NewDayInv, Newest, Restored
  <2> QED
    BY <2>1, <2>2
<1>3. OverrideInv => NoStaleOverride
  BY DEF OverrideInv, BoostInv, HalfInv, Newest, Restored, NoStaleOverride, Quiet
<1> QED
  BY <1>1, <1>2, <1>3, GovernorTyped, PTL DEF Spec

=============================================================================
