------------------------------- MODULE Bridge -------------------------------
(***************************************************************************)
(* The MT5 bridge and the account it trades on, for one symbol: orders     *)
(* from Redis, the closing of opposite positions, the report of every close *)
(* from the deal history, and the bridge's restarts.                       *)
(*                                                                         *)
(* The bridge is one thread: between two of its steps only the account     *)
(* moves (a stop or a target is hit, somebody closes by hand) or the       *)
(* process dies.  A ticket is named by the decision that it executes; an   *)
(* order's comment, polis#<id>, carries that name through a restart.       *)
(***************************************************************************)
EXTENDS TradeMessages

VARIABLES
  position,    \* the account: has the order been opened, closed?
  tickets,     \* open_tickets: positions that the bridge manages
  ins, outs,   \* deals in the history from _BRIDGE_START - 5 minutes on
  reported,    \* polis:mt5_reported_closes in Redis
  task         \* what the loop is in the middle of

account    == <<position, ins, outs>>
bridgeVars == <<account, tickets, reported, task>>

Idle == [step |-> "idle"]

Tasks ==
  [step : {"placing"}, of : Trades, todo : SUBSET Trades]
    \cup [step : {"placed", "marking"}, of : Trades]
    \cup {Idle}

BridgeTypeOK ==
  /\ position \in [Trades -> {"none", "open", "closed"}]
  /\ tickets \subseteq Trades /\ ins \subseteq Trades
  /\ outs \subseteq Trades /\ reported \subseteq Trades
  /\ task \in Tasks

BridgeInit ==
  /\ position = [t \in Trades |-> "none"]
  /\ tickets = {} /\ ins = {} /\ outs = {} /\ reported = {}
  /\ task = Idle

Open == {t \in Trades : position[t] = "open"}

----------------------------------------------------------------------------
(* Building blocks.                                                         *)

\* _publish: best effort, an exception is forgotten with the message.
Report(msg) ==
  \/ Tell(msg) /\ UNCHANGED history
  \/ Fault /\ Loses({msg.of}) /\ UNCHANGED <<toKernel, retold>>

\* order_result; nobody but the web page waits for the result of a manual order.
OrderResult(t, ok) ==
  IF t \in AutoTrades
    THEN Report([topic |-> "MT5_ORDER_RESULT", of |-> t, ok |-> ok])
    ELSE UNCHANGED <<toKernel, history>>

\* close_position, when MT5 does it.
ClosedByBridge(t) ==
  /\ position' = [position EXCEPT ![t] = "closed"]
  /\ outs' = outs \cup {t}
  /\ tickets' = tickets \ {t}
  /\ UNCHANGED ins

----------------------------------------------------------------------------
(* execute_order.                                                           *)

TakeOrder ==
  /\ task = Idle /\ toBridge # <<>>
  /\ Head(toBridge).topic = "TRADE_APPROVED"
  /\ toBridge' = Tail(toBridge)
  /\ task' = [step |-> "placing", of |-> Head(toBridge).of, todo |-> Open]
  /\ UNCHANGED <<account, tickets, reported, toKernel, history>>

Placing(t) == task.step = "placing" /\ task.of = t

Refuse(t) ==
  /\ OrderResult(t, FALSE)
  /\ task' = Idle
  /\ UNCHANGED <<account, tickets, reported, toBridge>>

\* Mutant: an opposite position that would not close is passed over.
MeetOppositeCarelessly(t, o) ==
  /\ Placing(t) /\ o \in task.todo
  /\ Dir[o] # Dir[t]
  /\ task' = [task EXCEPT !.todo = @ \ {o}]
  /\ \/ position[o] = "open" /\ ClosedByBridge(o)
     \/ UNCHANGED <<account, tickets>>
  /\ UNCHANGED <<reported, toBridge, toKernel, history>>

\* One round of the loop over the positions there were: a manual order may be
\* added to its direction, an automatic one may not; an opposite position is
\* closed first, and when that fails nothing is opened.
MeetSame(t, o) ==
  /\ Placing(t) /\ o \in task.todo
  /\ Dir[o] = Dir[t]
  /\ \/ /\ t \in Manual
        /\ task' = [task EXCEPT !.todo = @ \ {o}]
        /\ UNCHANGED <<account, tickets, reported, toBridge, toKernel, history>>
     \/ t \in AutoTrades /\ Refuse(t)

MeetOpposite(t, o) ==
  /\ Placing(t) /\ o \in task.todo
  /\ Dir[o] # Dir[t]
  /\ \/ /\ position[o] = "open"
        /\ ClosedByBridge(o)
        /\ task' = [task EXCEPT !.todo = @ \ {o}]
        /\ UNCHANGED <<reported, toBridge, toKernel, history>>
     \/ Refuse(t)

\* No price, or MT5 refuses the order.
PlaceFails(t) ==
  /\ Placing(t) /\ task.todo = {}
  /\ Refuse(t)

Place(t) ==
  /\ Placing(t) /\ task.todo = {}
  /\ position' = [position EXCEPT ![t] = "open"]
  /\ ins' = ins \cup {t}
  /\ task' = [step |-> "placed", of |-> t]
  /\ UNCHANGED <<outs, tickets, reported, toBridge, toKernel, history>>

\* The order is open: its result, and open_tickets.
Placed(t) ==
  /\ task.step = "placed" /\ task.of = t
  /\ OrderResult(t, TRUE)
  /\ tickets' = tickets \cup {t}
  /\ task' = Idle
  /\ UNCHANGED <<account, reported, toBridge>>

\* MT5_CLOSE_REQUEST, from the web page.
CloseRequest ==
  /\ task = Idle /\ toBridge # <<>>
  /\ Head(toBridge).topic = "MT5_CLOSE_REQUEST"
  /\ toBridge' = Tail(toBridge)
  /\ LET t == Head(toBridge).of IN
       \/ position[t] = "open" /\ ClosedByBridge(t)
       \/ UNCHANGED <<account, tickets>>
  /\ UNCHANGED <<reported, task, toKernel, history>>

----------------------------------------------------------------------------
(* The poll: rehydrate_open_tickets, check_closed_positions.                *)

Rehydrated == tickets \cup Open

Rehydrate ==
  /\ task = Idle
  /\ tickets' = Rehydrated
  /\ UNCHANGED <<account, reported, task, toBridge, toKernel, history>>

\* What check_closed_positions still has to report.
Unreported == {t \in outs : position[t] = "closed"} \ reported

\* Mutants: every close carries an id; a close only has the id if the bridge
\* remembers the ticket.
IdOfAny(t) == t

IdInMemory(t) == IF t \in AutoTrades \cap Rehydrated THEN t ELSE None

\* The id is in the ticket's record or in the comment of its opening deal.
IdOf(t) == IF t \in AutoTrades /\ t \in Rehydrated \cup ins THEN t ELSE None

PublishClose(t) ==
  /\ Tell([topic |-> "TRADE_CLOSED", of |-> t, id |-> IdOf(t), by |-> "broker"])
  /\ task' = [step |-> "marking", of |-> t]
  /\ tickets' = Rehydrated
  /\ UNCHANGED <<account, reported, toBridge>>

\* Mutant: what was reported is not asked for.
ReportAnyClose ==
  /\ task = Idle
  /\ \E t \in outs : PublishClose(t)
  /\ UNCHANGED history

\* A publish that raises ends the poll and is repeated by the next.
ReportClose ==
  /\ task = Idle
  /\ \E t \in Unreported : PublishClose(t)
  /\ UNCHANGED history

\* Redis did not answer whether the close was reported.
ReportBlindly ==
  /\ task = Idle
  /\ Fault
  /\ \E t \in outs \cap reported :
       /\ PublishClose(t)
       /\ retold' = retold \cup {t}
  /\ UNCHANGED lostAbout

MarkReported ==
  /\ task.step = "marking"
  /\ \/ reported' = reported \cup {task.of} /\ UNCHANGED history
     \/ /\ Fault
        /\ retold' = retold \cup {task.of}
        /\ UNCHANGED <<reported, lostAbout>>
  /\ tickets' = tickets \ {task.of}
  /\ task' = Idle
  /\ UNCHANGED <<account, toBridge, toKernel>>

\* The set's seven days run from the last report, the history from the start.
ReportedExpires ==
  /\ reported # {}
  /\ Fault
  /\ reported' = {}
  /\ retold' = retold \cup outs
  /\ UNCHANGED <<account, tickets, task, toBridge, toKernel, lostAbout>>

----------------------------------------------------------------------------
(* The account, and the end of the process.                                 *)

StopOrTarget(t) ==
  /\ position[t] = "open"
  /\ position' = [position EXCEPT ![t] = "closed"]
  /\ outs' = outs \cup {t}
  /\ UNCHANGED <<ins, tickets, reported, task, toBridge, toKernel, history>>

\* Closed in the terminal: the deal does not carry the bridge's MAGIC.
ClosedInTerminal(t) ==
  /\ position[t] = "open"
  /\ Fault
  /\ position' = [position EXCEPT ![t] = "closed"]
  /\ Loses({t})
  /\ UNCHANGED <<ins, outs, tickets, reported, task, toBridge, toKernel, retold>>

\* A new process: Redis kept nothing for it, and the history it reads begins
\* five minutes before, so that older deals are gone, openings before closes.
BridgeRestart ==
  /\ Fault
  /\ tickets' = {}
  /\ task' = Idle
  /\ toBridge' = <<>>
  /\ \E kept \in {{}, outs} :
       /\ outs' = kept
       /\ \E opened \in {{}, ins} : ins' = IF kept = outs THEN opened ELSE {}
       /\ Loses((outs \ (kept \cup reported)) \cup About(toBridge) \cup (ins \ ins')
                 \cup (IF task.step \in {"placing", "placed"} THEN {task.of} ELSE {}))
  /\ retold' = IF task.step = "marking" THEN retold \cup {task.of} ELSE retold
  /\ UNCHANGED <<position, reported, toKernel>>

----------------------------------------------------------------------------
BridgeStep ==
  \/ TakeOrder \/ CloseRequest
  \/ \E t \in Trades : \/ \E o \in Trades : MeetSame(t, o) \/ MeetOpposite(t, o)
                       \/ PlaceFails(t) \/ Place(t) \/ Placed(t)
  \/ Rehydrate \/ ReportClose \/ ReportBlindly \/ MarkReported

AccountStep == \E t \in Trades : StopOrTarget(t) \/ ClosedInTerminal(t)

=============================================================================
