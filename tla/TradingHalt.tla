---------------------------- MODULE TradingHalt ----------------------------
(***************************************************************************)
(* The halting half of the kernel's CircuitBreaker: the counters that can  *)
(* stop trading, the flag that stops it and the ways the flag is cleared.  *)
(* This module holds the fragments of the handlers; TradePipeline and      *)
(* CircuitBreaker interleave them with what calls them.                    *)
(*                                                                         *)
(* A handler counts first and compares after `await _save_state()`, so the *)
(* count (CountX) and the comparison (Trip) are fragments of two steps.    *)
(***************************************************************************)
EXTENDS Integers

CONSTANTS
  MaxConsec,     \* CB_MAX_CONSECUTIVE_REJECTS
  DailyBudget,   \* DAILY_BUDGET_USD
  MaxDailyLoss   \* MAX_DAILY_LOSS_USD

ASSUME HaltAssumption ==
  /\ MaxConsec    \in Nat \ {0}
  /\ DailyBudget  \in Nat \ {0}
  /\ MaxDailyLoss \in Nat \ {0}

VARIABLES
  triggered,     \* _triggered: no signal may enter the pipeline
  consec,        \* _consec: signals rejected in a row
  dayNotional,   \* _day_notional: risk of the orders approved today
  dayPnl,        \* _day_pnl: result of the trades closed today
  newDay,        \* the UTC date is no longer _day_key
  midnightDue    \* run() has not yet done this midnight's reset

haltVars == <<triggered, consec, dayNotional, dayPnl, newDay, midnightDue>>

HaltTypeOK ==
  /\ triggered   \in BOOLEAN
  /\ consec      \in Nat
  /\ dayNotional \in Nat
  /\ dayPnl      \in Int
  /\ newDay      \in BOOLEAN
  /\ midnightDue \in BOOLEAN

\* A breaker starts armed and empty: nothing is read back from Redis.
HaltInit ==
  /\ triggered = FALSE
  /\ consec = 0
  /\ dayNotional = 0
  /\ dayPnl = 0
  /\ newDay = FALSE
  /\ midnightDue = FALSE

----------------------------------------------------------------------------
(* Every handler first calls _refresh_day: on the first event of a new day  *)
(* the counters restart from zero and the flag is cleared.                  *)

Today(counter) == IF newDay THEN 0 ELSE counter

Refreshed(c, n, p) ==
  /\ consec' = c
  /\ dayNotional' = n
  /\ dayPnl' = p
  /\ triggered' = (triggered /\ ~newDay)
  /\ newDay' = FALSE
  /\ UNCHANGED midnightDue

\* _on_reject, up to its await.
CountReject == Refreshed(Today(consec) + 1, Today(dayNotional), Today(dayPnl))

\* _on_policy_blocked: a rule said no, which ends the run of rejects.
ForgetRejects == Refreshed(0, Today(dayNotional), Today(dayPnl))

\* Mutant: an approved order gives its risk back.
CountRefund(usd) == Refreshed(0, Today(dayNotional) - usd, Today(dayPnl))

\* _on_approved, up to its await.
CountApproved(usd) == Refreshed(0, Today(dayNotional) + usd, Today(dayPnl))

\* _on_closed, as far as it counts money.
CountPnl(pnl) == Refreshed(Today(consec), Today(dayNotional), Today(dayPnl) + pnl)

\* The three limits, and _trigger, which a breaker that is open ignores.
TooManyRejects == consec >= MaxConsec
BudgetSpent    == dayNotional >= DailyBudget
LossLimitHit   == dayPnl <= -MaxDailyLoss

Trip(limit) ==
  /\ triggered' = (triggered \/ limit)
  /\ UNCHANGED <<consec, dayNotional, dayPnl, newDay, midnightDue>>

----------------------------------------------------------------------------
(* Ways out.  reset() leaves _day_key alone.                                *)

Cleared ==
  /\ triggered' = FALSE
  /\ consec' = 0
  /\ dayNotional' = 0
  /\ dayPnl' = 0

Reset == Cleared /\ UNCHANGED <<newDay, midnightDue>>

\* _on_reset_request: the dashboard's button, and every TRADING_RESUMED.
ResetRequest ==
  \/ triggered /\ Reset
  \/ /\ ~triggered
     /\ consec' = 0
     /\ UNCHANGED <<triggered, dayNotional, dayPnl, newDay, midnightDue>>

\* The UTC date changes; run() is about to wake.
DayEnds ==
  /\ newDay' = TRUE
  /\ midnightDue' = TRUE
  /\ UNCHANGED <<triggered, consec, dayNotional, dayPnl>>

MidnightClears ==
  /\ midnightDue
  /\ Cleared
  /\ midnightDue' = FALSE
  /\ UNCHANGED newDay

\* A kernel that starts again builds a new CircuitBreaker with today's date.
HaltRestart == Cleared /\ newDay' = FALSE /\ midnightDue' = FALSE

=============================================================================
