----------------------------- MODULE Backtest -----------------------------
(***************************************************************************)
(* tools/backtest.py: crossovers become signals, each signal is played      *)
(* against the closes that follow it, and the report walks the trades for   *)
(* the drawdown.  The averages are abstracted to which one is above.        *)
(***************************************************************************)
EXTENDS Integers, Sequences, FiniteSetsExt

CONSTANTS
  Bars,      \* bound: how many closes there are
  BtPrices,  \* what a close may be
  BtStop,    \* the stop's distance
  BtReward   \* rr

ASSUME BacktestAssumption ==
  /\ Bars \in Nat \ {0, 1} /\ BtPrices \subseteq Int /\ BtPrices # {}
  /\ BtStop \in Nat \ {0} /\ BtReward \in Nat \ {0}

VARIABLES
  closes,   \* the closes of the bars
  signals,  \* bars and directions generate_signals found
  bar,      \* the bar the running trade has come to
  trades,   \* results: the signal, how it ended and the profit
  equity, peak, maxDD,
  counted,  \* trades the report has walked
  curve     \* history: what the equity has been

btVars == <<closes, signals, bar, trades, equity, peak, maxDD, counted, curve>>

\* Where the fast average lies against the slow one: below, on it, or above.
Crossings(side) ==
  {[bar |-> i, long |-> side[i] > 0] :
     i \in {j \in 2 .. Bars : \/ side[j - 1] <= 0 /\ side[j] > 0
                              \/ side[j - 1] >= 0 /\ side[j] < 0}}

SignalFound == [bar : 2 .. Bars, long : BOOLEAN]

BtTypeOK ==
  /\ closes \in [1 .. Bars -> BtPrices]
  /\ signals \in Seq(SignalFound)
  /\ bar \in 1 .. Bars
  /\ trades \in Seq([signal : SignalFound, result : {"WIN", "LOSS", "OPEN"}, pnl : Int])
  /\ equity \in Int /\ peak \in Int /\ maxDD \in Int
  /\ counted \in 0 .. Len(trades)
  /\ curve \in Seq(Int)

BtStart ==
  /\ bar = 1 /\ trades = <<>>
  /\ equity = 0 /\ peak = 0 /\ maxDD = 0 /\ counted = 0 /\ curve = <<0>>

\* The filters on stop, confidence and spread keep some of the crossings, in
\* the order of the bars.
BtInit ==
  /\ closes \in [1 .. Bars -> BtPrices]
  /\ \E side \in [1 .. Bars -> -1 .. 1] : \E n \in 0 .. Bars - 1 :
       signals \in {s \in [1 .. n -> Crossings(side)] :
                      \A i, j \in 1 .. n : i < j => s[i].bar < s[j].bar}
  /\ BtStart

\* A series with no crossing.
BtBlank ==
  /\ closes = [i \in 1 .. Bars |-> CHOOSE p \in BtPrices : TRUE] /\ signals = <<>>
  /\ BtStart

Signal == signals[Len(trades) + 1]
Simulates == Len(trades) < Len(signals)

\* What a close is worth to a signal.
Gain(signal, close) ==
  IF signal.long THEN close - closes[signal.bar] ELSE closes[signal.bar] - close

Ends(result, pnl) ==
  /\ trades' = Append(trades, [signal |-> Signal, result |-> result, pnl |-> pnl])
  /\ bar' = 1

\* Mutants: a bar is skipped; the drawdown from the start.
EnterLate == Signal.bar + 1

DrawdownFromStart(e, p) == 0 - e

\* Before its first bar a trade stands on the bar of its signal.
Enter == Signal.bar

Drawdown(e, p) == p - e

\* One iteration of the inner loop of simulate; the stop is asked first.
PlayBar ==
  /\ Simulates
  /\ LET at == IF bar < Signal.bar THEN Enter ELSE bar
         gain == Gain(Signal, closes[at + 1])
     IN IF at >= Bars THEN Ends("OPEN", Gain(Signal, closes[Bars]))
        ELSE IF gain <= -BtStop THEN Ends("LOSS", -BtStop)
        ELSE IF gain >= BtReward * BtStop THEN Ends("WIN", BtReward * BtStop)
        ELSE bar' = at + 1 /\ UNCHANGED trades
  /\ UNCHANGED <<closes, signals, equity, peak, maxDD, counted, curve>>

\* One iteration of the loop of report.
WalkTrade ==
  /\ ~Simulates /\ counted < Len(trades)
  /\ counted' = counted + 1
  /\ equity' = equity + trades[counted'].pnl
  /\ curve' = Append(curve, equity')
  /\ peak' = IF equity' > peak THEN equity' ELSE peak
  /\ maxDD' = LET dd == Drawdown(equity', peak') IN IF dd > maxDD THEN dd ELSE maxDD
  /\ UNCHANGED <<closes, signals, bar, trades>>

BtNext == PlayBar \/ WalkTrade

----------------------------------------------------------------------------
(* Properties.                                                              *)

First(S) == IF S = {} THEN Bars + 1 ELSE Min(S)

\* A trade wins exactly if the closes after its signal reach the target before
\* the stop, and stays open exactly if they reach neither.
PlayedAsDefined ==
  \A i \in DOMAIN trades :
    LET s == trades[i].signal
        stopped == First({j \in s.bar + 1 .. Bars : Gain(s, closes[j]) <= -BtStop})
        target  == First({j \in s.bar + 1 .. Bars : Gain(s, closes[j]) >= BtReward * BtStop})
    IN /\ trades[i].result = "WIN"  <=> target < stopped
       /\ trades[i].result = "LOSS" <=> stopped < target

\* The reported drawdown is the deepest fall of the equity from any earlier
\* point of it.
DrawdownIsDeepest ==
  /\ \A j \in DOMAIN curve : \A i \in 1 .. j : curve[i] - curve[j] <= maxDD
  /\ \E j \in DOMAIN curve : \E i \in 1 .. j : curve[i] - curve[j] = maxDD

=============================================================================
