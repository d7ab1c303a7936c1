--------------------------- MODULE CircuitBreaker ---------------------------
(***************************************************************************)
(* The kernel's CircuitBreaker as a governor of risk: win streaks, the     *)
(* drawdown step-down, recovery mode and the daily loss limit, and the two *)
(* channels through which they reach the sizing of an order: RISK_OVERRIDE *)
(* messages that the control listener applies to policy.max_risk, and the  *)
(* Redis key polis:recovery_scale.                                         *)
(*                                                                         *)
(* Trades are executed by MT5 (TRADE_EXECUTION=mt5, the default), so one   *)
(* coroutine, the Redis listener, delivers every TRADE_CLOSED and _on_closed *)
(* never runs twice at a time; what runs between its awaits are resets, the *)
(* day's change and the control listener.  Commands of the breaker's Redis *)
(* client take effect in the order they were issued.  Rejects and the daily *)
(* budget, the breaker's other limits, are in TradePipeline.               *)
(***************************************************************************)
EXTENDS TradingHalt, Sequences

CONSTANTS
  WinStreakMin,      \* _WIN_STREAK_MIN
  RecoveryLosses,    \* _RECOVERY_LOSSES
  RecoveryWinsExit,  \* _RECOVERY_WINS_EXIT
  Pnls,              \* what a closed trade may bring
  PnlCap,            \* bound: the day's P&L the model goes on counting
  CountCap,          \* bound: the streaks the model goes on counting
  QueueCap           \* bound: overrides under way at a time

ASSUME BreakerAssumption ==
  /\ WinStreakMin \in Nat \ {0, 1}
  /\ {RecoveryLosses, RecoveryWinsExit} \subseteq Nat \ {0}
  /\ Pnls \subseteq Int
  /\ {PnlCap, CountCap, QueueCap} \subseteq Nat

VARIABLES
  handler,     \* where _on_closed awaits
  winStreak,   \* _win_streak
  warned,      \* _warned_50 (_stepped_down is always equal to it)
  recovery,    \* _recovery_mode
  lossRun,     \* _consec_losses
  recWins,     \* _recovery_wins
  baseDue,     \* reset() has spawned the override that restores base risk
  scale,       \* polis:recovery_scale in Redis
  riskQ,       \* RISK_OVERRIDE messages on their way to the control listener
  maxRisk,     \* policy.max_risk
  lost,        \* history: the newest override never arrived
  winsInRow    \* history: trades won since the last loss, up to the exit

counters == <<winStreak, warned, recovery, lossRun, recWins>>
channel  == <<riskQ, maxRisk, lost>>
cbVars == <<handler, counters, baseDue, scale, channel, winsInRow>>
vars == <<haltVars, cbVars>>

(***************************************************************************)
(*  scaled   recovery ended: SET polis:recovery_scale, the streak is next   *)
(*  broken   a loss ended a streak: base risk is being published            *)
(*  saving   _save_state, the drawdown checks are next                      *)
(*  stepped  the step-down is being published, the loss limit is next       *)
(***************************************************************************)
Awaits == {"idle", "scaled", "broken", "saving", "stepped"}

\* manual: any value a person or the board chose.
RiskLevels == {"base", "half", "boost", "manual"}

CBTypeOK ==
  /\ HaltTypeOK
  /\ handler   \in Awaits
  /\ winStreak \in 0 .. CountCap
  /\ lossRun   \in 0 .. CountCap
  /\ recWins   \in 0 .. RecoveryWinsExit - 1
  /\ {warned, recovery, baseDue, lost} \subseteq BOOLEAN
  /\ scale     \in {"unset", "half", "one"}
  /\ riskQ     \in Seq(RiskLevels) /\ Len(riskQ) <= QueueCap
  /\ maxRisk   \in RiskLevels
  /\ winsInRow \in 0 .. RecoveryWinsExit

Init ==
  /\ HaltInit
  /\ handler = "idle"
  /\ winStreak = 0 /\ lossRun = 0 /\ recWins = 0 /\ winsInRow = 0
  /\ warned = FALSE /\ recovery = FALSE /\ baseDue = FALSE /\ lost = FALSE
  /\ scale = "unset"
  /\ riskQ = <<>>
  /\ maxRisk = "base"

----------------------------------------------------------------------------
(* Building blocks of _on_closed.                                           *)

Publish(level) ==
  /\ Len(riskQ) < QueueCap
  /\ riskQ' = Append(riskQ, level)
  /\ UNCHANGED <<maxRisk, lost>>

Await(where) == handler' = where

\* SET with a day to live; an exception is logged and forgotten.
SetScale(to) == scale' \in {to, scale}

\* One win more on a streak that stood at n.
Lengthen(n) ==
  /\ n < CountCap
  /\ winStreak' = n + 1
  /\ IF n + 1 = WinStreakMin THEN Publish("boost") ELSE UNCHANGED channel
  /\ Await("saving")

\* Mutant: a loss does not interrupt the wins that end recovery.
TakeLossKeepingWins(l) ==
  /\ l < CountCap
  /\ winStreak' = 0
  /\ lossRun' = l + 1
  /\ recovery' = (recovery \/ l + 1 >= RecoveryLosses)
  /\ IF recovery' /\ ~recovery THEN SetScale("half") ELSE UNCHANGED scale
  /\ Await("saving")
  /\ UNCHANGED recWins

\* A loss after l losses in a row.
TakeLoss(l) ==
  /\ l < CountCap
  /\ winStreak' = 0
  /\ recWins' = 0
  /\ lossRun' = l + 1
  /\ recovery' = (recovery \/ l + 1 >= RecoveryLosses)
  /\ IF recovery' /\ ~recovery THEN SetScale("half") ELSE UNCHANGED scale
  /\ Await("saving")

Counted(pnl) ==
  /\ handler = "idle"
  /\ Today(dayPnl) + pnl \in -PnlCap .. PnlCap
  /\ CountPnl(pnl)
  /\ warned' = (warned /\ ~newDay)
  /\ UNCHANGED baseDue

Won ==
  /\ lossRun' = 0
  /\ winsInRow' = IF winsInRow < RecoveryWinsExit THEN winsInRow + 1 ELSE winsInRow

----------------------------------------------------------------------------
(* TRADE_CLOSED.                                                            *)

\* Mutant: the last win of a recovery is counted like any other.
CloseWinEndless(pnl) ==
  /\ Counted(pnl)
  /\ Won
  /\ recWins' = IF recovery THEN Today(recWins) + 1 ELSE Today(recWins)
  /\ Lengthen(Today(winStreak))
  /\ UNCHANGED <<recovery, scale>>

\* A win that leaves recovery mode as it is, and the one that ends it.
CloseWin(pnl) ==
  /\ Counted(pnl)
  /\ Won
  /\ recWins' = IF recovery THEN Today(recWins) + 1 ELSE Today(recWins)
  /\ recWins' < RecoveryWinsExit
  /\ Lengthen(Today(winStreak))
  /\ UNCHANGED <<recovery, scale>>

CloseLastRecoveryWin(pnl) ==
  /\ recovery
  /\ Today(recWins) + 1 >= RecoveryWinsExit
  /\ Counted(pnl)
  /\ Won
  /\ recovery' = FALSE
  /\ recWins' = 0
  /\ winStreak' = Today(winStreak)
  /\ SetScale("one")
  /\ Await("scaled")
  /\ UNCHANGED channel

StreakAfterRecovery ==
  /\ handler = "scaled"
  /\ Lengthen(winStreak)
  /\ UNCHANGED <<haltVars, warned, recovery, lossRun, recWins, baseDue, scale, winsInRow>>

\* A loss; one that ends a streak first restores base risk.
CloseLoss(pnl) ==
  /\ Today(winStreak) < WinStreakMin
  /\ Counted(pnl)
  /\ TakeLoss(Today(lossRun))
  /\ winsInRow' = 0
  /\ UNCHANGED channel

CloseStreakLoss(pnl) ==
  /\ Today(winStreak) >= WinStreakMin
  /\ Counted(pnl)
  /\ Publish("base")
  /\ Await("broken")
  /\ winsInRow' = 0
  /\ UNCHANGED <<winStreak, recovery, lossRun, recWins, scale>>

BreakStreak ==
  /\ handler = "broken"
  /\ TakeLoss(lossRun)
  /\ UNCHANGED <<haltVars, warned, baseDue, channel, winsInRow>>

\* At half of the limit, once a day: halve the risk.
HalfLost == 2 * dayPnl <= -MaxDailyLoss

StepDown ==
  /\ handler = "saving"
  /\ HalfLost /\ ~warned
  /\ warned' = TRUE
  /\ Publish("half")
  /\ Await("stepped")
  /\ UNCHANGED <<haltVars, winStreak, recovery, lossRun, recWins, baseDue, scale, winsInRow>>

\* Mutant: the limit must be exceeded.
CheckLossLate ==
  /\ \/ handler = "saving" /\ ~(HalfLost /\ ~warned)
     \/ handler = "stepped"
  /\ Trip(dayPnl < -MaxDailyLoss)
  /\ Await("idle")
  /\ UNCHANGED <<counters, baseDue, scale, channel, winsInRow>>

\* At the limit: halt.
CheckLoss ==
  /\ \/ handler = "saving" /\ ~(HalfLost /\ ~warned)
     \/ handler = "stepped"
  /\ Trip(LossLimitHit)
  /\ Await("idle")
  /\ UNCHANGED <<counters, baseDue, scale, channel, winsInRow>>

----------------------------------------------------------------------------
(* The day's change and the resets.                                         *)

\* Any other handler of the breaker, on its first event of a new day.
RefreshDay ==
  /\ newDay
  /\ ForgetRejects
  /\ winStreak' = 0
  /\ warned' = FALSE
  /\ lossRun' = 0
  /\ recWins' = 0
  /\ UNCHANGED <<handler, recovery, baseDue, scale, channel, winsInRow>>

\* Mutant: a reset that leaves the risk in force as it is.
ResetCountersOnly ==
  /\ winStreak' = 0
  /\ warned' = FALSE
  /\ UNCHANGED <<handler, recovery, lossRun, recWins, baseDue, scale, channel, winsInRow>>

\* reset(): streak and drawdown restart, recovery mode does not.
ResetCounters ==
  /\ winStreak' = 0
  /\ warned' = FALSE
  /\ baseDue' = TRUE
  /\ UNCHANGED <<handler, recovery, lossRun, recWins, scale, channel, winsInRow>>

ResetButton == triggered /\ ResetRequest /\ ResetCounters

TelegramResume == Reset /\ ResetCounters

\* Mutant: midnight restarts the streak but leaves a halt alone.
MidnightKeepsHalt ==
  /\ midnightDue
  /\ midnightDue' = FALSE
  /\ UNCHANGED <<triggered, consec, dayNotional, dayPnl, newDay>>
  /\ ResetCounters

MidnightReset == MidnightClears /\ ResetCounters

NewDay == ~midnightDue /\ DayEnds /\ UNCHANGED cbVars

PublishBase ==
  /\ baseDue
  /\ baseDue' = FALSE
  /\ Publish("base")
  /\ UNCHANGED <<haltVars, handler, counters, scale, winsInRow>>

----------------------------------------------------------------------------
(* The control listener, the other authors of max_risk, Redis and crashes.  *)

ApplyOverride ==
  /\ riskQ # <<>>
  /\ maxRisk' = Head(riskQ)
  /\ riskQ' = Tail(riskQ)
  /\ lost' = FALSE
  /\ UNCHANGED <<haltVars, handler, counters, baseDue, scale, winsInRow>>

\* The listener lost its connection: pub/sub keeps nothing for it.
LoseOverrides ==
  /\ riskQ # <<>>
  /\ riskQ' = <<>>
  /\ lost' = TRUE
  /\ UNCHANGED <<haltVars, handler, counters, baseDue, scale, maxRisk, winsInRow>>

DashboardRisk ==
  /\ Publish("manual")
  /\ UNCHANGED <<haltVars, handler, counters, baseDue, scale, winsInRow>>

\* The board's resolution and Telegram's /risk write the policy directly.
DirectRisk ==
  /\ maxRisk' = "manual"
  /\ UNCHANGED <<haltVars, handler, counters, baseDue, scale, riskQ, lost, winsInRow>>

ScaleExpires ==
  /\ scale # "unset"
  /\ scale' = "unset"
  /\ UNCHANGED <<haltVars, handler, counters, baseDue, channel, winsInRow>>

\* Only Redis remembers.
Restart ==
  /\ HaltRestart
  /\ handler' = "idle"
  /\ winStreak' = 0 /\ lossRun' = 0 /\ recWins' = 0
  /\ warned' = FALSE /\ recovery' = FALSE /\ baseDue' = FALSE /\ lost' = FALSE
  /\ riskQ' = <<>>
  /\ maxRisk' = "base"
  /\ UNCHANGED <<scale, winsInRow>>

----------------------------------------------------------------------------
OnClosed ==
  \/ \E pnl \in Pnls :
       \/ pnl >= 0 /\ (CloseWin(pnl) \/ CloseLastRecoveryWin(pnl))
       \/ pnl <= 0 /\ (CloseLoss(pnl) \/ CloseStreakLoss(pnl))
  \/ StreakAfterRecovery \/ BreakStreak \/ StepDown \/ CheckLoss

Next ==
  \/ OnClosed
  \/ RefreshDay \/ NewDay \/ MidnightReset
  \/ ResetButton \/ TelegramResume
  \/ PublishBase \/ ApplyOverride \/ LoseOverrides
  \/ DashboardRisk \/ DirectRisk
  \/ ScaleExpires
  \/ Restart

Spec == Init /\ [][Next]_vars

\* Days pass, and run() wakes at each midnight.
Fairness == WF_vars(NewDay) /\ WF_vars(MidnightReset)

FairSpec == Spec /\ Fairness

----------------------------------------------------------------------------
(* Properties.                                                              *)

\* No step of the breaker or of a channel it uses is outstanding.
Quiet ==
  /\ handler = "idle"
  /\ ~baseDue /\ riskQ = <<>> /\ ~lost
  /\ ~midnightDue

\* Risk stays boosted only on a streak, and halved only on a day that lost half
\* of its limit: overrides are messages, and the counters they follow are reset
\* in four places, some of which send none.
NoStaleOverride ==
  Quiet =>
    /\ maxRisk = "boost" => winStreak >= WinStreakMin
    /\ maxRisk = "half"  => warned

\* Whatever ran between the awaits of _on_closed, a day that has lost half of
\* its limit was stepped down and one that has lost it all is halted; and
\* nothing halts for a loss without the step-down.
DrawdownHandled ==
  /\ handler = "idle" /\ HalfLost => warned
  /\ handler = "idle" /\ LossLimitHit => triggered
  /\ triggered => warned

\* Recovery mode ends by as many wins in a row as the code says, never by a
\* reset or a new day.
RecoveryNeedsWins ==
  [][recovery /\ ~recovery' => winsInRow' >= RecoveryWinsExit \/ Restart]_vars

\* A halt does not outlast the day.
HaltEnds == triggered ~> ~triggered

\* Lots stay halved until recovery mode ends.
HalfUntilRecovered ==
  [][recovery /\ recovery' /\ scale = "half" => scale' = "half"]_vars

\* A breaker that tripped stays tripped until midnight or until a person resets
\* it.
HaltLasts ==
  [][triggered /\ ~triggered'
       => newDay \/ midnightDue \/ TelegramResume \/ ResetButton]_vars

=============================================================================
