-------------------------- MODULE MCTradePipeline --------------------------
(* Values for the constants of TradePipeline.                               *)
EXTENDS TradePipeline, TLC

MCPnls == {-1, 1}

\* For liveness a loss is enough.
MCLosses == {-1}

\* The listener is told apart from the other sources; symbols and directions
\* are interchangeable.
Symmetry ==
  Permutations(Symbols) \cup Permutations(Directions)
    \cup Permutations(Sources \ {Listener})

=============================================================================
