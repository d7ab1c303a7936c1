--------------------------- MODULE TradeLifecycle ---------------------------
(***************************************************************************)
(* The life of a trade from the decision to the settlement: the bridge, the *)
(* account, the kernel, the table and the web page, with their failures.    *)
(***************************************************************************)
EXTENDS Bridge, TradeLedger

vars == <<bridgeVars, ledgerVars, wires, history>>

TypeOK == MessagesTypeOK /\ BridgeTypeOK /\ LedgerTypeOK

Init == MessagesInit /\ BridgeInit /\ LedgerInit

\* The page asks for what the bridge last said was open.
AskToCloseOpen(t) == position[t] = "open" /\ AskToClose(t)

Next ==
  \/ (BridgeStep \/ AccountStep \/ ReportedExpires \/ BridgeRestart) /\ UNCHANGED ledgerVars
  \/ (KernelStep \/ PageStep \/ \E t \in Trades : AskToCloseOpen(t)) /\ UNCHANGED bridgeVars

\* The bridge polls, the listener listens and Postgres answers; nobody has to
\* trade, to press a button or to crash.
Fairness ==
  /\ WF_vars(BridgeStep /\ UNCHANGED <<ledgerVars, events>>)
  /\ WF_vars((TakeResult \/ TakeClose) /\ UNCHANGED bridgeVars)
  /\ WF_vars(WriteBack /\ UNCHANGED <<bridgeVars, events>>)

Spec == Init /\ [][Next]_vars
FairSpec == Spec /\ Fairness

----------------------------------------------------------------------------
(* Safety.                                                                  *)

\* The positions of a symbol all point the same way, and the automatic path
\* never holds two: whatever the kernel's book has forgotten (a restart, the
\* close of another position, an order on top of an opposite one), the bridge
\* closes what is opposite and refuses what would stack.
OneSided ==
  \A t, o \in Open : Dir[t] = Dir[o] /\ (t # o => {t, o} \cap Manual # {})

\* A close enters the day's profit and loss twice only when somebody had
\* reason to repeat it: the bridge could not ask or note what it had reported,
\* or the row was closed by hand.
CountedOnce ==
  \A t \in Trades : counted[t].broker + counted[t].hand > 1 => t \in retold

Quiet ==
  /\ task = Idle /\ wires = <<<<>>, <<>>>>
  /\ Unreported = {} /\ Open \subseteq tickets
  /\ handling = NotHandling /\ writing = NoMessage
  /\ \A t \in AutoTrades : closing[t] = "no"

\* Once nothing is under way, the row and the account agree on every trade
\* that no message, deal or write was lost about (and that the listener did not
\* hear of before the kernel had booked it): a position that is open is
\* linked, and tracked unless its row was closed by hand or a restart found
\* too many open rows; one that closed is linked, settled and not tracked; what
\* was never opened is no open row.
Reconciled ==
  Quiet =>
    \A t \in AutoTrades \ (lostAbout \cup early) :
      /\ position[t] = "open"   => /\ t \in linked
                                   /\ outcome[t] = "APPROVED"
                                   /\ t \notin leftOut => (t \in tracked <=> money[t] = "none")
      /\ position[t] = "closed" => t \in linked \ tracked /\ money[t] # "none"
      /\ position[t] = "none"   => t \notin OpenRows

\* A restart of the kernel, in the middle of whatever, loses track of no
\* position that the bridge opened and whose row nobody closed, once the
\* approval has been booked, unless it finds more open rows than it asks for.
StillTracked ==
  \A t \in OpenRows \ (lostAbout \cup leftOut) :
    position[t] = "open" /\ handling.step = "idle" => t \in tracked

\* The contract, with the columns of the row read together.
LedgerOf(t) ==
  CASE money[t] = "broker" -> "settled"
    [] money[t] = "hand"   -> "writtenOff"
    [] money[t] = "none" /\ outcome[t] = "APPROVED"     -> "approved"
    [] money[t] = "none" /\ outcome[t] = "NOT_EXECUTED" -> "refused"
    [] money[t] = "none" /\ outcome[t] = "none"         -> "none"

Contract ==
  INSTANCE TradeContract WITH
    Trades  <- AutoTrades,
    ledger  <- [t \in AutoTrades |-> LedgerOf(t)],
    account <- [t \in AutoTrades |-> position[t]]

\* The detailed system does nothing with a decision but what the contract
\* says: it opens no position without an approved row, never writes "not
\* executed" over one that has a position, and settles only what closed.
KeepsContract == Contract!Spec

----------------------------------------------------------------------------
(* Liveness.                                                                *)

\* A position that closes at its stop or target is settled in the table in
\* the end, unless a message, a deal or a write about it is lost.
ClosesAreSettled ==
  \A t \in AutoTrades : position[t] = "closed" ~> (money[t] # "none" \/ t \in lostAbout)

----------------------------------------------------------------------------
(* What the comments promise and the code does not keep.                    *)

\* "a Redis set keeps us from reporting the same close twice"
ReportedOnce == \A t \in Trades : counted[t].broker <= 1

\* "its number is the money that actually moved, so let it win"
BrokerWins == [][\A t \in AutoTrades : money[t] = "broker" => money'[t] = "broker"]_vars

=============================================================================
