----------------------------- MODULE Protection -----------------------------
(***************************************************************************)
(* The three places where the repository moves or plays a stop: the bridge  *)
(* at MT5, the tracker without a broker, and the backtest.  They share no   *)
(* state, so a behaviour follows one of them while the others stay at their *)
(* initial states.                                                          *)
(***************************************************************************)
EXTENDS BridgeStops, SimulatedTrades, Backtest

VARIABLE focus   \* the part the behaviour follows

vars == <<focus, stopsVars, simVars, btVars>>

\* The state of the part the behaviour follows; the others have not moved.
TypeOK ==
  \/ focus = "bridge"    /\ StopsTypeOK
  \/ focus = "simulated" /\ SimTypeOK
  \/ focus = "backtest"  /\ BtTypeOK

\* The backtest starts from every series; the other parts do not see it.
Init ==
  /\ StopsInit /\ SimInit
  /\ \/ focus = "backtest" /\ BtInit
     \/ /\ focus \in {"bridge", "simulated"}
        /\ BtBlank

Bridge    == focus = "bridge"    /\ StopsNext /\ UNCHANGED <<focus, simVars, btVars>>
Simulated == focus = "simulated" /\ SimNext   /\ UNCHANGED <<focus, stopsVars, btVars>>
Backtests == focus = "backtest"  /\ BtNext    /\ UNCHANGED <<focus, stopsVars, simVars>>

Next == Bridge \/ Simulated \/ Backtests

\* The bridge polls every three seconds, with or without Redis.
Fairness == /\ WF_stopsVars(focus = "bridge" /\ Poll)
            /\ WF_stopsVars(focus = "bridge" /\ Watch)

Spec == Init /\ [][Next]_vars /\ Fairness

----------------------------------------------------------------------------
\* However many ticks decide to close a simulated trade, one of them publishes
\* it; and its row is a win exactly when it made no loss, a trailing stop that
\* slipped below the entry included.
ClosesOnce == PublishedOnce /\ ResultHonest

\* The backtest's results are what the closes after each signal say, and its
\* drawdown is the deepest fall from an earlier point of the equity.
BacktestRight == PlayedAsDefined /\ DrawdownIsDeepest

=============================================================================
