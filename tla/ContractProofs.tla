--------------------------- MODULE ContractProofs ---------------------------
(***************************************************************************)
(* TLAPS proof that the detailed system implements TradeContract: every     *)
(* step does to a decision what the contract allows, or nothing that the    *)
(* contract speaks of.                                                      *)
(*                                                                         *)
(* The steps that matter are the approval, the refusal, the settlement and  *)
(* the write-off of a row, and the opening and the closing of a position.   *)
(* That each finds the contract's precondition is what the stages of an     *)
(* order (Orderly) and the rows' invariant (Booked) of                      *)
(* TradeLifecycleProofs say.                                                *)
(***************************************************************************)
EXTENDS TradeLifecycleProofs

----------------------------------------------------------------------------
(* The refinement mapping.                                                  *)

Ledger  == [t \in AutoTrades |-> LedgerOf(t)]
Account == [t \in AutoTrades |-> position[t]]

\* What the columns of a row mean.
LEMMA LedgerMeaning ==
  ASSUME LedgerTypeOK, NEW t \in AutoTrades
  PROVE  /\ money[t] = "broker" => LedgerOf(t) = "settled"
         /\ money[t] = "hand" => LedgerOf(t) = "writtenOff"
         /\ money[t] = "none" /\ outcome[t] = "APPROVED" => LedgerOf(t) = "approved"
         /\ money[t] = "none" /\ outcome[t] = "NOT_EXECUTED" => LedgerOf(t) = "refused"
         /\ money[t] = "none" /\ outcome[t] = "none" => LedgerOf(t) = "none"
<1>1. /\ money[t] = "broker" => money[t] # "hand" /\ money[t] # "none"
      /\ money[t] = "hand" => money[t] # "broker" /\ money[t] # "none"
      /\ money[t] = "none" => money[t] # "broker" /\ money[t] # "hand"
  OBVIOUS
<1>2. /\ outcome[t] = "APPROVED" => outcome[t] # "NOT_EXECUTED" /\ outcome[t] # "none"
      /\ outcome[t] = "NOT_EXECUTED" => outcome[t] # "APPROVED" /\ outcome[t] # "none"
      /\ outcome[t] = "none" => outcome[t] # "APPROVED" /\ outcome[t] # "NOT_EXECUTED"
  OBVIOUS
<1>3. money[t] = "broker" => LedgerOf(t) = "settled"
  BY <1>1, Zenon DEF LedgerOf
<1>4. money[t] = "hand" => LedgerOf(t) = "writtenOff"
  BY <1>1, Zenon DEF LedgerOf
<1>5. money[t] = "none" /\ outcome[t] = "APPROVED" => LedgerOf(t) = "approved"
  BY <1>1, <1>2, Zenon DEF LedgerOf
<1>6. money[t] = "none" /\ outcome[t] = "NOT_EXECUTED" => LedgerOf(t) = "refused"
  BY <1>1, <1>2, Zenon DEF LedgerOf
<1>7. money[t] = "none" /\ outcome[t] = "none" => LedgerOf(t) = "none"
  BY <1>1, <1>2, Zenon DEF LedgerOf
<1> QED
  BY <1>3, <1>4, <1>5, <1>6, <1>7

RowsMean ==
  \A t \in AutoTrades :
    /\ money[t] = "broker" => LedgerOf(t) = "settled"
    /\ money[t] = "hand" => LedgerOf(t) = "writtenOff"
    /\ money[t] = "none" /\ outcome[t] = "APPROVED" => LedgerOf(t) = "approved"
    /\ money[t] = "none" /\ outcome[t] = "NOT_EXECUTED" => LedgerOf(t) = "refused"

\* The same, of all rows at once, so that it can be primed.
LEMMA RowMeans == LedgerTypeOK => RowsMean
BY LedgerMeaning DEF RowsMean

\* The same, after a step.
LEMMA RowMeansNext ==
  LedgerTypeOK' =>
    \A t \in AutoTrades :
      /\ money'[t] = "broker" => LedgerOf(t)' = "settled"
      /\ money'[t] = "hand" => LedgerOf(t)' = "writtenOff"
      /\ money'[t] = "none" /\ outcome'[t] = "APPROVED" => LedgerOf(t)' = "approved"
      /\ money'[t] = "none" /\ outcome'[t] = "NOT_EXECUTED" => LedgerOf(t)' = "refused"
<1>1. LedgerTypeOK' => RowsMean'
  BY RowMeans, PTL
<1> QED
  BY <1>1 DEF RowsMean

\* A step of one decision's row.
LEMMA RowStep ==
  ASSUME TypeOK, TypeOK', NEW t \in AutoTrades,
         \A u \in AutoTrades : u # t => outcome'[u] = outcome[u] /\ money'[u] = money[u]
  PROVE  Ledger' = [Ledger EXCEPT ![t] = LedgerOf(t)']
<1>1. ASSUME NEW u \in AutoTrades, u # t PROVE LedgerOf(u)' = LedgerOf(u)
  BY <1>1 DEF LedgerOf
<1> QED
  BY <1>1 DEF Ledger

\* A decision at a time, the mapping is the row's meaning and the position.
LEMMA MappedValues ==
  \A t \in AutoTrades : Ledger[t] = LedgerOf(t) /\ Account[t] = position[t]
BY DEF Ledger, Account

\* The contract's actions, from the mapped state.
LEMMA ContractActions ==
  ASSUME NEW t \in AutoTrades
  PROVE  /\ Ledger[t] = "none" /\ Ledger' = [Ledger EXCEPT ![t] = "approved"]
              /\ Account' = Account => Contract!Approve(t)
         /\ Account[t] = "none" /\ Ledger[t] = "approved"
              /\ Ledger' = [Ledger EXCEPT ![t] = "refused"] /\ Account' = Account => Contract!Refuse(t)
         /\ Account[t] = "closed" /\ Ledger[t] \in {"approved", "writtenOff"}
              /\ Ledger' = [Ledger EXCEPT ![t] = "settled"] /\ Account' = Account => Contract!Settle(t)
         /\ Ledger[t] \in {"approved", "refused", "settled"}
              /\ Ledger' = [Ledger EXCEPT ![t] = "writtenOff"] /\ Account' = Account => Contract!WriteOff(t)
         /\ Account[t] = "none" /\ Ledger[t] \in {"approved", "writtenOff"}
              /\ Account' = [Account EXCEPT ![t] = "open"] /\ Ledger' = Ledger => Contract!Opens(t)
         /\ Account[t] = "open"
              /\ Account' = [Account EXCEPT ![t] = "closed"] /\ Ledger' = Ledger => Contract!Closes(t)
<1>1. Ledger[t] = "none" /\ Ledger' = [Ledger EXCEPT ![t] = "approved"]
        /\ Account' = Account => Contract!Approve(t)
  BY DEF Contract!Approve, Contract!Records, Ledger, Account
<1>2. Account[t] = "none" /\ Ledger[t] = "approved"
        /\ Ledger' = [Ledger EXCEPT ![t] = "refused"] /\ Account' = Account => Contract!Refuse(t)
  BY DEF Contract!Refuse, Contract!Records, Ledger, Account
<1>3. Account[t] = "closed" /\ Ledger[t] \in {"approved", "writtenOff"}
        /\ Ledger' = [Ledger EXCEPT ![t] = "settled"] /\ Account' = Account => Contract!Settle(t)
  BY DEF Contract!Settle, Contract!Records, Ledger, Account
<1>4. Ledger[t] \in {"approved", "refused", "settled"}
        /\ Ledger' = [Ledger EXCEPT ![t] = "writtenOff"] /\ Account' = Account => Contract!WriteOff(t)
  BY DEF Contract!WriteOff, Contract!Records, Ledger, Account
<1>5. Account[t] = "none" /\ Ledger[t] \in {"approved", "writtenOff"}
        /\ Account' = [Account EXCEPT ![t] = "open"] /\ Ledger' = Ledger => Contract!Opens(t)
  BY DEF Contract!Opens, Ledger, Account
<1>6. Account[t] = "open"
        /\ Account' = [Account EXCEPT ![t] = "closed"] /\ Ledger' = Ledger => Contract!Closes(t)
  BY DEF Contract!Closes, Ledger, Account
<1> QED
  BY <1>1, <1>2, <1>3, <1>4, <1>5, <1>6

\* What the contract does to one decision, or to none, is a step of it.
LEMMA ContractSteps ==
  /\ Ledger' = Ledger /\ Account' = Account => [Contract!Next]_(Contract!vars)
  /\ \A t \in AutoTrades :
       \/ Contract!Approve(t) \/ Contract!Refuse(t) \/ Contract!Settle(t)
       \/ Contract!WriteOff(t) \/ Contract!Opens(t) \/ Contract!Closes(t)
       => [Contract!Next]_(Contract!vars)
<1>1. Ledger' = Ledger /\ Account' = Account => [Contract!Next]_(Contract!vars)
  BY DEF Contract!vars, Ledger, Account
<1>2. ASSUME NEW t \in AutoTrades,
             \/ Contract!Approve(t) \/ Contract!Refuse(t) \/ Contract!Settle(t)
             \/ Contract!WriteOff(t) \/ Contract!Opens(t) \/ Contract!Closes(t)
      PROVE  Contract!Next
  BY <1>2 DEF Contract!Next
<1> QED
  BY <1>1, <1>2

----------------------------------------------------------------------------
(* The steps of the detailed system.                                        *)

\* The bridge and the account open and close positions, and write no row.
LEMMA BridgeImplements ==
  ASSUME TypeOK, Orderly, [Next]_vars, UNCHANGED ledgerVars, \A t \in AutoTrades : Booked(t)
  PROVE  [Contract!Next]_(Contract!vars)
<1>0. LedgerTypeOK /\ BridgeTypeOK
  BY DEF TypeOK
<1>1. Ledger' = Ledger
  BY DEF Ledger, LedgerOf, ledgerVars, rowVars
<1>2. CASE position' = position
  BY <1>1, <1>2, ContractSteps DEF Account
<1>3. ASSUME NEW o \in Trades, NEW v, position' = [position EXCEPT ![o] = v]
      PROVE  \/ o \in AutoTrades /\ Account' = [Account EXCEPT ![o] = v]
             \/ o \notin AutoTrades /\ Account' = Account
  BY <1>0, <1>3 DEF Account, BridgeTypeOK, AutoTrades
<1>4. ASSUME NEW o \in Trades, position[o] = "open", position' = [position EXCEPT ![o] = "closed"]
      PROVE  [Contract!Next]_(Contract!vars)
  <2>1. o \in AutoTrades => Account[o] = "open"
    BY <1>4, MappedValues
  <2>2. CASE o \in AutoTrades /\ Account' = [Account EXCEPT ![o] = "closed"]
    BY <1>1, <2>1, <2>2, ContractActions, ContractSteps
  <2>3. CASE Account' = Account
    BY <1>1, <2>3, ContractSteps
  <2> QED
    BY <1>3, <1>4, <2>2, <2>3
<1>5. ASSUME NEW t \in Trades, Place(t), position[t] = "none"
      PROVE  [Contract!Next]_(Contract!vars)
  <2>1. position' = [position EXCEPT ![t] = "open"] /\ Placing(t)
    BY <1>5 DEF Place
  <2>2. CASE t \in AutoTrades /\ Account' = [Account EXCEPT ![t] = "open"]
    <3>1. outcome[t] = "APPROVED" /\ money[t] # "broker"
      BY <1>5, <2>1, <2>2 DEF Booked, Coming
    <3>2. LedgerOf(t) \in {"approved", "writtenOff"}
      BY <1>0, <2>2, <3>1, LedgerMeaning DEF LedgerTypeOK
    <3>3. Account[t] = "none" /\ Ledger[t] \in {"approved", "writtenOff"}
      BY <1>5, <2>2, <3>2, MappedValues
    <3> QED
      BY <1>1, <2>2, <3>3, ContractActions, ContractSteps
  <2>3. CASE Account' = Account
    BY <1>1, <2>3, ContractSteps
  <2> QED
    BY <1>3, <2>1, <2>2, <2>3
<1> QED
  BY <1>2, <1>4, <1>5, AccountMoves

\* The kernel and the page write rows.
LEMMA KernelImplements ==
  ASSUME TypeOK, TypeOK', Orderly, UNCHANGED bridgeVars, \A t \in AutoTrades : Booked(t),
         KernelStep \/ PageStep \/ \E t \in Trades : AskToCloseOpen(t)
  PROVE  [Contract!Next]_(Contract!vars)
<1>0. LedgerTypeOK /\ LedgerTypeOK'
  BY DEF TypeOK
<1>1. Account' = Account
  BY DEF Account, bridgeVars, account
<1>2. ASSUME UNCHANGED <<outcome, money>> PROVE [Contract!Next]_(Contract!vars)
  <2>1. Ledger' = Ledger
    BY <1>2 DEF Ledger, LedgerOf
  <2> QED
    BY <1>1, <2>1, ContractSteps
<1>3. ASSUME NEW t \in AutoTrades, SaveDecision(t) PROVE [Contract!Next]_(Contract!vars)
  <2>1. outcome[t] = "none" /\ money' = money /\ outcome' = [outcome EXCEPT ![t] = "APPROVED"]
    BY <1>3 DEF SaveDecision
  <2>2. money[t] = "none"
    BY <2>1 DEF Booked
  <2>3. LedgerOf(t) = "none"
    BY <1>0, <2>1, <2>2, LedgerMeaning
  <2>4. outcome'[t] = "APPROVED" /\ money'[t] = "none"
    BY <1>0, <2>1, <2>2 DEF LedgerTypeOK
  <2>5. LedgerOf(t)' = "approved"
    BY <1>0, <2>4, RowMeansNext
  <2>6. Ledger' = [Ledger EXCEPT ![t] = "approved"]
    BY <1>0, <2>1, <2>5, RowStep DEF LedgerTypeOK
  <2> QED
    BY <1>1, <2>3, <2>6, MappedValues, ContractActions, ContractSteps
<1>4. ASSUME NEW t \in AutoTrades, CloseRow(t) PROVE [Contract!Next]_(Contract!vars)
  <2>1. closing[t] = "read" /\ outcome' = outcome /\ money' = [money EXCEPT ![t] = "hand"]
    BY <1>4 DEF CloseRow
  <2>2. outcome[t] # "none"
    BY <2>1 DEF Booked
  <2>3. LedgerOf(t) \in {"approved", "refused", "settled", "writtenOff"}
    BY <1>0, <2>2, LedgerMeaning DEF LedgerTypeOK
  <2>4. money'[t] = "hand"
    BY <1>0, <2>1 DEF LedgerTypeOK
  <2>5. LedgerOf(t)' = "writtenOff"
    BY <1>0, <2>4, RowMeansNext
  <2>6. Ledger' = [Ledger EXCEPT ![t] = "writtenOff"]
    BY <1>0, <2>1, <2>5, RowStep DEF LedgerTypeOK
  <2>7. CASE LedgerOf(t) = "writtenOff"
    <3>1. Ledger' = Ledger
      BY <2>6, <2>7 DEF Ledger
    <3> QED
      BY <1>1, <3>1, ContractSteps
  <2>8. CASE LedgerOf(t) \in {"approved", "refused", "settled"}
    BY <1>1, <2>6, <2>8, MappedValues, ContractActions, ContractSteps
  <2> QED
    BY <2>3, <2>7, <2>8
<1>5. CASE WriteBack
  <2>1. writing \in Reports /\ writing \in InFlight
    BY <1>0, <1>5 DEF WriteBack, LedgerTypeOK, InFlight
  <2>2. CASE writing.topic = "TRADE_CLOSED" /\ money' = [money EXCEPT ![writing.id] = "broker"]
             /\ outcome' = outcome /\ writing.id \in AutoTrades
    <3>0. PICK t \in AutoTrades : t = writing.id
      BY <2>2
    <3>1. position[t] = "closed"
      BY <2>1, <2>2, <3>0 DEF Orderly, Closes, ClosesBy
    <3>2. outcome[t] = "APPROVED"
      BY <2>2, <3>0, <3>1 DEF Booked
    <3>3. LedgerOf(t) \in {"approved", "settled", "writtenOff"}
      BY <1>0, <3>2, LedgerMeaning DEF LedgerTypeOK
    <3>4. money'[t] = "broker"
      BY <1>0, <2>2, <3>0 DEF LedgerTypeOK
    <3>5. \A u \in AutoTrades : u # t => money'[u] = money[u]
      BY <1>0, <2>2, <3>0 DEF LedgerTypeOK
    <3>6. LedgerOf(t)' = "settled"
      BY <1>0, <3>4, RowMeansNext
    <3>7. Ledger' = [Ledger EXCEPT ![t] = "settled"]
      BY <2>2, <3>5, <3>6, RowStep
    <3>8. CASE LedgerOf(t) = "settled"
      <4>1. Ledger' = Ledger
        BY <3>5, <3>7, <3>8 DEF Ledger
      <4> QED
        BY <1>1, <4>1, ContractSteps
    <3>9. CASE LedgerOf(t) \in {"approved", "writtenOff"}
      <4>1. Ledger[t] \in {"approved", "writtenOff"} /\ Account[t] = "closed"
        BY <3>1, <3>5, <3>9, MappedValues
      <4> QED
        BY <1>1, <3>5, <3>7, <4>1, ContractActions, ContractSteps
    <3> QED
      BY <3>3, <3>8, <3>9
  <2>3. CASE /\ writing.topic = "MT5_ORDER_RESULT" /\ ~writing.ok /\ money' = money
             /\ writing.of \in OpenRows
             /\ outcome' = [outcome EXCEPT ![writing.of] = "NOT_EXECUTED"]
    <3>1. PICK t \in AutoTrades : t = writing.of /\ outcome[t] = "APPROVED" /\ money[t] = "none"
      BY <2>3 DEF OpenRows
    <3>2. writing = ResultOf(t, FALSE)
      BY <2>1, <2>3, <3>1, ReportKinds
    <3>3. position[t] = "none"
      BY <2>1, <3>2 DEF Orderly, Stages, AutoTrades
    <3>4. LedgerOf(t) = "approved"
      BY <1>0, <3>1, LedgerMeaning
    <3>5. /\ outcome'[t] = "NOT_EXECUTED" /\ money'[t] = "none"
          /\ \A u \in AutoTrades : u # t => outcome'[u] = outcome[u]
      BY <1>0, <2>3, <3>1 DEF LedgerTypeOK
    <3>6. LedgerOf(t)' = "refused"
      BY <1>0, <3>5, RowMeansNext
    <3>7. Ledger' = [Ledger EXCEPT ![t] = "refused"]
      BY <2>3, <3>5, <3>6, RowStep
    <3>8. Ledger[t] = "approved" /\ Account[t] = "none"
      BY <3>3, <3>4, MappedValues
    <3> QED
      BY <1>1, <3>7, <3>8, ContractActions, ContractSteps
  <2>4. CASE Written(writing)
    <3>1. CASE writing.topic = "TRADE_CLOSED"
      <4>1. money' = [money EXCEPT ![writing.id] = "broker"] /\ outcome' = outcome
        BY <2>4, <3>1 DEF Written
      <4>2. writing.id \in AutoTrades
        <5>1. writing.of \in Trades /\ writing.id \in AutoTrades \cup {None}
          BY <2>1, <3>1, ReportKinds
        <5>2. writing.id = writing.of
          BY <3>1 DEF Orderly, Closes
        <5> QED
          BY <5>1, <5>2, BridgeAssumption
      <4> QED
        BY <2>2, <3>1, <4>1, <4>2
    <3>2. CASE writing.topic = "MT5_ORDER_RESULT" /\ writing.ok
      <4>1. UNCHANGED <<outcome, money>>
        BY <2>4, <3>2 DEF Written
      <4> QED
        BY <1>2, <4>1
    <3>3. CASE writing.topic = "MT5_ORDER_RESULT" /\ ~writing.ok
      <4>1. /\ outcome' = [outcome EXCEPT ![writing.of] = IF writing.of \in OpenRows
                                                          THEN "NOT_EXECUTED" ELSE @]
            /\ money' = money
        BY <2>4, <3>3 DEF Written
      <4>2. CASE writing.of \in OpenRows
        BY <2>3, <3>3, <4>1, <4>2
      <4>3. CASE writing.of \notin OpenRows
        <5>1. outcome' = outcome
          BY <1>0, <4>1, <4>3 DEF LedgerTypeOK
        <5> QED
          BY <1>2, <4>1, <5>1
      <4> QED
        BY <4>2, <4>3
    <3> QED
      BY <2>1, <3>1, <3>2, <3>3, ReportKinds
  <2> QED
    BY <1>2, <1>5, <2>4 DEF WriteBack, rowVars
<1>6. \A t : SendOrder(t) \/ BookApproval(t) \/ ReadOpenRow(t) \/ PublishRowClosed(t)
               => UNCHANGED <<outcome, money>>
  BY DEF SendOrder, BookApproval, ReadOpenRow, PublishRowClosed, rowVars
<1>7. TakeResult \/ TakeClose \/ ListenerDrops \/ KernelRestart => UNCHANGED <<outcome, money>>
  BY DEF TakeResult, TakeClose, ListenerDrops, KernelRestart, ledgerVars, rowVars
<1>8. \A t : ManualOrder(t) \/ AskToCloseOpen(t) => UNCHANGED <<outcome, money>>
  BY DEF ManualOrder, AskToCloseOpen, AskToClose, rowVars
<1> QED
  BY <1>2, <1>3, <1>4, <1>5, <1>6, <1>7, <1>8 DEF KernelStep, PageStep

\* The initial states map to the contract's.
LEMMA ContractInit == Init => Contract!Init
<1> SUFFICES ASSUME Init PROVE Contract!Init
  OBVIOUS
<1>1. LedgerTypeOK
  BY TypeInit DEF TypeOK
<1>2. \A t \in AutoTrades : position[t] = "none" /\ outcome[t] = "none" /\ money[t] = "none"
  BY DEF Init, BridgeInit, LedgerInit, AutoTrades
<1>3. \A t \in AutoTrades : LedgerOf(t) = "none"
  BY <1>1, <1>2, LedgerMeaning
<1> QED
  BY <1>2, <1>3 DEF Contract!Init

\* The whole system does nothing with a decision but what the contract says:
\* it opens no position without an approved row, never writes "not executed"
\* over one that has a position, and settles only what closed.
THEOREM LifecycleKeepsContract == Spec => KeepsContract
<1> DEFINE Books == \A t \in AutoTrades : Booked(t) /\ Watched(t)
<1>1. Init => Contract!Init
  BY ContractInit
<1>2. TypeOK /\ TypeOK' /\ Orderly /\ Books /\ [Next]_vars => [Contract!Next]_(Contract!vars)
  <2> SUFFICES ASSUME TypeOK, TypeOK', Orderly, Books, [Next]_vars
               PROVE  [Contract!Next]_(Contract!vars)
    OBVIOUS
  <2>1. CASE UNCHANGED vars
    BY <2>1, BridgeImplements DEF vars
  <2> QED
    BY <2>1, BridgeImplements, KernelImplements DEF Next
<1>3. Spec => []Books
  BY LifecycleBooked
<1> HIDE DEF Books
<1> QED
  BY <1>1, <1>2, <1>3, LifecycleTyped, LifecycleOrderly, PTL DEF Spec, KeepsContract, Contract!Spec

=============================================================================
