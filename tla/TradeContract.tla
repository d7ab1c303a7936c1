--------------------------- MODULE TradeContract ---------------------------
(***************************************************************************)
(* What the ledger promises about the account, one decision at a time: no   *)
(* position without an approval, no trade written off as never executed     *)
(* that has a position, no settlement at the broker's price before the      *)
(* broker closed it.  A row written off by hand promises nothing: the web   *)
(* page closes the row and not the position.                               *)
(***************************************************************************)
CONSTANT Trades

VARIABLES
  ledger,   \* what the row says of the trade
  account   \* what the broker did

vars == <<ledger, account>>

Init ==
  /\ ledger = [t \in Trades |-> "none"]
  /\ account = [t \in Trades |-> "none"]

Records(t, from, to) ==
  /\ ledger[t] \in from
  /\ ledger' = [ledger EXCEPT ![t] = to]
  /\ UNCHANGED account

Approve(t)  == Records(t, {"none"}, "approved")
Refuse(t)   == account[t] = "none" /\ Records(t, {"approved"}, "refused")
Settle(t)   == account[t] = "closed" /\ Records(t, {"approved", "writtenOff"}, "settled")
WriteOff(t) == Records(t, {"approved", "refused", "settled"}, "writtenOff")

Opens(t) ==
  /\ account[t] = "none" /\ ledger[t] \in {"approved", "writtenOff"}
  /\ account' = [account EXCEPT ![t] = "open"]
  /\ UNCHANGED ledger

Closes(t) ==
  /\ account[t] = "open"
  /\ account' = [account EXCEPT ![t] = "closed"]
  /\ UNCHANGED ledger

Next == \E t \in Trades :
          Approve(t) \/ Refuse(t) \/ Settle(t) \/ WriteOff(t) \/ Opens(t) \/ Closes(t)

Spec == Init /\ [][Next]_vars

=============================================================================
