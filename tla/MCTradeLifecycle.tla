-------------------------- MODULE MCTradeLifecycle --------------------------
EXTENDS TradeLifecycle

CONSTANTS first, second, byHand

MCTrades == {first, second, byHand}
MCManual == {byHand}
MCDir == [t \in MCTrades |-> IF t = second THEN "short" ELSE "long"]

=============================================================================
