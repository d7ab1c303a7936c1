------------------------- MODULE TradingHaltProofs -------------------------
(***************************************************************************)
(* What the fragments of TradingHalt do to its state, for the proofs about *)
(* the modules that interleave them.                                       *)
(***************************************************************************)
EXTENDS TradingHalt, TLAPS

USE HaltAssumption DEF HaltAssumption

\* Each way the breaker's state can change, for the proofs to split on.
HaltMove ==
  \/ UNCHANGED haltVars
  \/ CountReject \/ ForgetRejects
  \/ \E usd \in Nat : CountApproved(usd)
  \/ \E pnl \in Int : CountPnl(pnl)
  \/ Trip(TooManyRejects) \/ Trip(BudgetSpent) \/ Trip(LossLimitHit)
  \/ Reset \/ ResetRequest \/ DayEnds \/ MidnightClears \/ HaltRestart

\* The flags stay Boolean.
LEMMA FlagsTyped ==
  ASSUME NEW tripped \in BOOLEAN, NEW changed \in BOOLEAN
  PROVE  (tripped /\ ~changed) \in BOOLEAN /\ \A limit : (tripped \/ limit) \in BOOLEAN
OBVIOUS

\* A refresh leaves counters of the right type if it is given such.
LEMMA RefreshTyped ==
  ASSUME HaltTypeOK, NEW c \in Nat, NEW n \in Nat, NEW p \in Int, Refreshed(c, n, p)
  PROVE  HaltTypeOK'
<1>1. triggered' \in BOOLEAN /\ newDay' \in BOOLEAN /\ midnightDue' \in BOOLEAN
  BY FlagsTyped, Zenon DEF HaltTypeOK, Refreshed
<1> QED
  BY <1>1 DEF HaltTypeOK, Refreshed

\* The breaker's state keeps its type however it moves.
LEMMA HaltTyped == HaltTypeOK /\ HaltMove => HaltTypeOK'
<1> SUFFICES ASSUME HaltTypeOK, HaltMove PROVE HaltTypeOK'
  OBVIOUS
<1>1. CASE UNCHANGED haltVars
  BY <1>1 DEF haltVars, HaltTypeOK
<1>2. /\ \A c \in Nat : Today(c) \in Nat
      /\ Today(dayPnl) \in Int
      /\ Today(consec) \in Nat /\ Today(consec) + 1 \in Nat
      /\ Today(dayNotional) \in Nat
  BY DEF Today, HaltTypeOK
<1>3. CASE CountReject \/ ForgetRejects
  BY <1>2, <1>3, RefreshTyped DEF CountReject, ForgetRejects
<1>4. ASSUME NEW usd \in Nat, CountApproved(usd) PROVE HaltTypeOK'
  <2>1. Today(dayNotional) + usd \in Nat
    BY <1>2
  <2> QED
    BY <1>2, <1>4, <2>1, RefreshTyped DEF CountApproved
<1>5. ASSUME NEW pnl \in Int, CountPnl(pnl) PROVE HaltTypeOK'
  <2>1. Today(dayPnl) + pnl \in Int
    BY <1>2
  <2> QED
    BY <1>2, <1>5, <2>1, RefreshTyped DEF CountPnl
<1>6. ASSUME NEW limit, Trip(limit) PROVE HaltTypeOK'
  BY <1>6, FlagsTyped, Zenon DEF Trip, HaltTypeOK
<1>7. CASE Reset \/ ResetRequest \/ DayEnds \/ MidnightClears \/ HaltRestart
  <2>0. 0 \in Nat /\ 0 \in Int
    OBVIOUS
  <2>1. CASE Reset
    BY <2>0, <2>1, Zenon DEF Reset, Cleared, HaltTypeOK
  <2>2. CASE ResetRequest
    BY <2>0, <2>1, <2>2, Zenon DEF ResetRequest, HaltTypeOK
  <2>3. CASE DayEnds
    BY <2>3 DEF DayEnds, HaltTypeOK
  <2>4. CASE MidnightClears \/ HaltRestart
    BY <2>0, <2>4, Zenon DEF MidnightClears, HaltRestart, Cleared, HaltTypeOK
  <2> QED
    BY <1>7, <2>1, <2>2, <2>3, <2>4
<1> QED
  BY <1>1, <1>3, <1>4, <1>5, <1>6, <1>7, Zenon DEF HaltMove

=============================================================================
