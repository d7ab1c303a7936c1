---------------------------- MODULE MCProtection ----------------------------
(* Protection on a small instance.                                         *)
EXTENDS Protection

\* A loss, two gains below the trailing level and above it, and the target.
MCSimPrices == {-2, -1, 2, 3, 6}
MCBtPrices == {0, 1, 3}

=============================================================================
