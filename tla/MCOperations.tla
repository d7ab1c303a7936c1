---------------------------- MODULE MCOperations ----------------------------
(* Operations on a small instance.                                         *)
EXTENDS Operations, TLC

CONSTANTS k1, k2, r1, r2, c1, none

MCSymbols == <<k1, k2>>

\* Below the band: the page clamps it.
MCRiskInputs == {10}

\* Below the shortest interval, the default, and over the longest.
MCIntervals == {10, 300, 9000}

MCMids == {0, 1}

\* A customer, and a request without a Telegram id.
MCIdOf == (r1 :> c1) @@ (r2 :> none)
MCDays == (r1 :> 1) @@ (r2 :> 2)

\* Already over, and longer than the plans.
MCDaysInputs == {-1, 3}

=============================================================================
