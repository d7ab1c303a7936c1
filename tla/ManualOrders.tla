---------------------------- MODULE ManualOrders ----------------------------
(***************************************************************************)
(* Orders placed by hand on the web page, all of one symbol and direction:  *)
(* the order goes to the bridge before its row is written, and the bridge's *)
(* answer is settled on the newest row that is still PENDING.              *)
(***************************************************************************)
EXTENDS Naturals, Sequences, FiniteSets, FiniteSetsExt

CONSTANTS MaxOrders   \* bound: orders; an order's number is its ticket

ASSUME ManualAssumption == MaxOrders \in Nat \ {0}

VARIABLES
  sent,      \* orders published
  cooling,   \* within _MANUAL_ORDER_COOLDOWN_SEC of the last order
  unwritten, \* published orders whose row is still to be inserted
  rows,      \* trade_decisions, in the order of the ids
  atBridge,  \* orders the bridge has not answered
  opened,    \* orders MT5 opened a position for
  answers,   \* answers the gateway's listener has not heard
  settling   \* settle tasks: the answer, and the rows its subselect found

manualVars == <<sent, cooling, unwritten, rows, atBridge, opened, answers, settling>>

Orders == 1 .. MaxOrders
Answer == [of : Orders, ok : BOOLEAN]

ManualTypeOK ==
  /\ sent \in 0 .. MaxOrders /\ cooling \in BOOLEAN
  /\ unwritten \subseteq Orders /\ opened \subseteq Orders
  /\ rows \in Seq([outcome : {"PENDING", "APPROVED", "REJECTED"}, ticket : 0 .. MaxOrders])
  /\ atBridge \in Seq(Orders) /\ answers \in Seq(Answer)
  /\ \A s \in settling : s.answer \in Answer /\ s.picked \subseteq DOMAIN rows

ManualInit ==
  /\ sent = 0 /\ cooling = FALSE /\ unwritten = {} /\ rows = <<>>
  /\ atBridge = <<>> /\ opened = {} /\ answers = <<>> /\ settling = {}

\* mt5_manual_trade up to its publish; the bridge may be away.
Order ==
  /\ sent < MaxOrders /\ ~cooling
  /\ sent' = sent + 1 /\ cooling' = TRUE
  /\ unwritten' = unwritten \cup {sent'}
  /\ atBridge' \in {atBridge, Append(atBridge, sent')}
  /\ UNCHANGED <<rows, opened, answers, settling>>

CoolsDown ==
  /\ cooling /\ cooling' = FALSE
  /\ UNCHANGED <<sent, unwritten, rows, atBridge, opened, answers, settling>>

\* _record_manual_trade; a failed insert is only logged.
WriteOrder(o) ==
  /\ o \in unwritten
  /\ unwritten' = unwritten \ {o}
  /\ rows' \in {rows, Append(rows, [outcome |-> "PENDING", ticket |-> 0])}
  /\ UNCHANGED <<sent, cooling, atBridge, opened, answers, settling>>

\* execute_order answers with a ticket or a refusal; the listener may be
\* reconnecting and miss the answer.
BridgeAnswers(ok) ==
  /\ atBridge # <<>>
  /\ atBridge' = Tail(atBridge)
  /\ opened' = IF ok THEN opened \cup {atBridge[1]} ELSE opened
  /\ answers' \in {answers, Append(answers, [of |-> atBridge[1], ok |-> ok])}
  /\ UNCHANGED <<sent, cooling, unwritten, rows, settling>>

PendingRows == {i \in DOMAIN rows : rows[i].outcome = "PENDING"}

\* Mutant: the update without its subselect.
PicksAll == PendingRows

\* ORDER BY id DESC LIMIT 1
Picks == IF PendingRows = {} THEN {} ELSE {Max(PendingRows)}

\* The listener spawns a task per answer; its update first finds the row and
\* then locks it, so two tasks may have found the same one.
Hear ==
  /\ answers # <<>>
  /\ answers' = Tail(answers)
  /\ settling' = settling \cup {[answer |-> answers[1], picked |-> Picks]}
  /\ UNCHANGED <<sent, cooling, unwritten, rows, atBridge, opened>>

Settle(s) ==
  /\ s \in settling
  /\ settling' = settling \ {s}
  /\ rows' = [i \in DOMAIN rows |->
                IF i \in s.picked
                THEN [outcome |-> IF s.answer.ok THEN "APPROVED" ELSE "REJECTED",
                      ticket  |-> IF s.answer.ok THEN s.answer.of ELSE 0]
                ELSE rows[i]]
  /\ UNCHANGED <<sent, cooling, unwritten, atBridge, opened, answers>>

ManualNext ==
  \/ Order \/ CoolsDown \/ Hear
  \/ \E o \in Orders : WriteOrder(o)
  \/ \E ok \in BOOLEAN : BridgeAnswers(ok)
  \/ \E s \in settling : Settle(s)

----------------------------------------------------------------------------
\* A row the table shows as a position carries the ticket of one that MT5
\* opened, and no position is shown twice, however late, lost or mixed up the
\* answers are (the row it is shown on may be another order's).
ManualRowsTrue ==
  \A i, j \in DOMAIN rows :
    rows[i].outcome = "APPROVED" =>
      /\ rows[i].ticket \in opened
      /\ rows[j].ticket = rows[i].ticket => i = j

=============================================================================
