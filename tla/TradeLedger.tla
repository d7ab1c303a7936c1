---------------------------- MODULE TradeLedger ----------------------------
(***************************************************************************)
(* Who keeps account of the decisions of one symbol: the kernel (the order's *)
(* approval, the filter's book, the tracker, the breaker's count of closes), *)
(* the table trade_decisions, and the web page's buttons to order and to    *)
(* close.                                                                  *)
(*                                                                         *)
(* The kernel's listener takes one message at a time: every handler does    *)
(* its work in memory in one turn, and the tracker's write to the database  *)
(* follows, or fails.                                                      *)
(***************************************************************************)
EXTENDS TradeMessages, OpenTrades

VARIABLES
  outcome,   \* of the row: "none" when there is no row
  money,     \* whose pnl_usd the row holds
  linked,    \* rows with the broker's ticket
  tracked,   \* TradeTracker._open
  book,      \* SignalFilter._open[symbol]
  handling,  \* what TradeHandler.handle is in the middle of
  writing,   \* the message whose write is under way
  closing,   \* the web page's request to close a row by hand
  counted,   \* history: how often the breaker counted the close of a trade
  asked,     \* history: manual orders placed
  early,     \* history: trades the listener heard of before they were booked
  leftOut    \* history: open rows that the last restart had no room for

kernelVars == <<tracked, book, handling, writing>>
rowVars    == <<outcome, money, linked>>
ledgerVars == <<rowVars, kernelVars, closing, counted, asked, early, leftOut>>

NotHandling == [step |-> "idle"]
NoMessage   == [topic |-> "none"]

LedgerTypeOK ==
  /\ outcome \in [AutoTrades -> {"none", "APPROVED", "NOT_EXECUTED"}]
  /\ money \in [AutoTrades -> {"none", "broker", "hand"}]
  /\ linked \subseteq AutoTrades /\ tracked \subseteq AutoTrades
  /\ book \in {"long", "short", None}
  /\ handling \in [step : {"saved", "published"}, of : AutoTrades] \cup {NotHandling}
  /\ writing \in Reports \cup {NoMessage}
  /\ closing \in [AutoTrades -> {"no", "read", "written"}]
  /\ counted \in [Trades -> [{"broker", "hand"} -> Nat]]
  /\ asked \subseteq Manual /\ early \subseteq AutoTrades /\ leftOut \subseteq AutoTrades

LedgerInit ==
  /\ outcome = [t \in AutoTrades |-> "none"]
  /\ money = [t \in AutoTrades |-> "none"]
  /\ linked = {} /\ tracked = {} /\ book = None
  /\ handling = NotHandling /\ writing = NoMessage
  /\ closing = [t \in AutoTrades |-> "no"]
  /\ counted = [t \in Trades |-> [by \in {"broker", "hand"} |-> 0]]
  /\ asked = {} /\ early = {} /\ leftOut = {}

\* The WHERE of get_open_trades and of mark_not_executed.
OpenRows == {t \in AutoTrades : outcome[t] = "APPROVED" /\ money[t] = "none"}

----------------------------------------------------------------------------
(* TradeHandler.handle: the row, then the order to the bridge, then the     *)
(* kernel's own books.                                                      *)

\* Mutant: the order goes out before the row is written.
OrderUnsaved(t) ==
  /\ handling = NotHandling
  /\ outcome[t] = "none" /\ book # Dir[t]
  /\ Order([topic |-> "TRADE_APPROVED", of |-> t])
  /\ UNCHANGED <<ledgerVars, toKernel, history>>

SaveDecision(t) ==
  /\ handling = NotHandling
  /\ outcome[t] = "none"
  /\ book # Dir[t]
  /\ outcome' = [outcome EXCEPT ![t] = "APPROVED"]
  /\ handling' = [step |-> "saved", of |-> t]
  /\ UNCHANGED <<money, linked, tracked, book, writing, closing, counted, asked, early,
                 leftOut, wires, history>>

\* Redis takes the order, or publish raises before any handler heard of it.
SendOrder(t) ==
  /\ handling.step = "saved" /\ handling.of = t
  /\ \/ /\ Order([topic |-> "TRADE_APPROVED", of |-> t])
        /\ handling' = [handling EXCEPT !.step = "published"]
        /\ UNCHANGED history
     \/ /\ Fault /\ Loses({t})
        /\ handling' = NotHandling
        /\ UNCHANGED <<toBridge, retold>>
  /\ UNCHANGED <<rowVars, tracked, book, writing, closing, counted, asked, early,
                 leftOut, toKernel>>

\* The filter's and the tracker's _on_approved.
BookApproval(t) ==
  /\ handling.step = "published" /\ handling.of = t
  /\ tracked' = tracked \cup {t}
  /\ book' = Dir[t]
  /\ handling' = NotHandling
  /\ UNCHANGED <<rowVars, writing, closing, counted, asked, early, leftOut, wires, history>>

----------------------------------------------------------------------------
(* The listener: order results and closes.                                  *)

Untrack(t) == tracked' = tracked \ {t}

NoteEarly(msg) ==
  early' = IF handling # NotHandling /\ handling.of = msg.of THEN early \cup {msg.of} ELSE early

TakeResult ==
  /\ writing = NoMessage /\ toKernel # <<>>
  /\ LET msg == Head(toKernel) IN
       /\ msg.topic = "MT5_ORDER_RESULT"
       /\ IF msg.ok THEN UNCHANGED tracked ELSE Untrack(msg.of)
       /\ writing' = msg
  /\ NoteEarly(Head(toKernel))
  /\ toKernel' = Tail(toKernel)
  /\ UNCHANGED <<rowVars, book, handling, closing, counted, asked, leftOut, toBridge,
                 history>>

\* The filter forgets the symbol and the breaker counts the money of every
\* close; the tracker wants an id, and writes only what the broker says.
TakeClose ==
  /\ writing = NoMessage /\ toKernel # <<>>
  /\ LET msg == Head(toKernel) IN
       /\ msg.topic = "TRADE_CLOSED"
       /\ counted' = [counted EXCEPT ![msg.of][msg.by] = @ + 1]
       /\ Untrack(msg.id)
       /\ writing' = IF msg.id # None /\ msg.by = "broker" THEN msg ELSE NoMessage
  /\ book' = None
  /\ NoteEarly(Head(toKernel))
  /\ toKernel' = Tail(toKernel)
  /\ UNCHANGED <<rowVars, handling, closing, asked, leftOut, toBridge, history>>

\* record_execution, mark_not_executed, close_trade
Written(msg) ==
  CASE msg.topic = "TRADE_CLOSED" ->
         /\ money' = [money EXCEPT ![msg.id] = "broker"]
         /\ UNCHANGED <<outcome, linked>>
    [] msg.topic = "MT5_ORDER_RESULT" /\ msg.ok ->
         /\ linked' = linked \cup {msg.of}
         /\ UNCHANGED <<outcome, money>>
    [] OTHER ->
         /\ outcome' = [outcome EXCEPT ![msg.of] = IF msg.of \in OpenRows
                                                   THEN "NOT_EXECUTED" ELSE @]
         /\ UNCHANGED <<money, linked>>

\* Mutant: a refusal is logged and not written.
WriteBackUnlessRefused ==
  /\ writing # NoMessage
  /\ IF writing.topic = "MT5_ORDER_RESULT" /\ ~writing.ok
       THEN UNCHANGED rowVars ELSE Written(writing)
  /\ writing' = NoMessage
  /\ UNCHANGED <<tracked, book, handling, closing, counted, asked, early, leftOut, wires,
                 history>>

WriteBack ==
  /\ writing # NoMessage
  /\ \/ Written(writing) /\ UNCHANGED history
     \/ Fault /\ Loses({writing.of}) /\ UNCHANGED <<rowVars, retold>>
  /\ writing' = NoMessage
  /\ UNCHANGED <<tracked, book, handling, closing, counted, asked, early, leftOut, wires>>

\* The listener's connection is gone for five seconds, and what it would have
\* brought is too.
ListenerDrops ==
  /\ toKernel # <<>>
  /\ Fault /\ Loses(About(toKernel))
  /\ toKernel' = <<>>
  /\ UNCHANGED <<ledgerVars, toBridge, retold>>

\* Mutant: the tracker starts empty.
KernelRestartEmpty ==
  /\ Fault
  /\ Loses(About(toKernel) \cup (IF writing = NoMessage THEN {} ELSE {writing.of})
             \cup (IF handling.step = "saved" THEN {handling.of} ELSE {}))
  /\ tracked' = {} /\ book' = None
  /\ \E room \in Rooms : leftOut' = LeftOutOf(OpenRows, tracked', room)
  /\ handling' = NotHandling /\ writing' = NoMessage /\ toKernel' = <<>>
  /\ UNCHANGED <<rowVars, closing, counted, asked, early, toBridge, retold>>

\* TradeTracker.init reads the newest open rows; the filter starts with an empty
\* book.
KernelRestart ==
  /\ Fault
  /\ Loses(About(toKernel) \cup (IF writing = NoMessage THEN {} ELSE {writing.of})
             \cup (IF handling.step = "saved" THEN {handling.of} ELSE {}))
  /\ \E room \in Rooms : /\ tracked' \in Fetched(OpenRows, room)
                          /\ leftOut' = LeftOutOf(OpenRows, tracked', room)
  /\ book' = None
  /\ handling' = NotHandling /\ writing' = NoMessage /\ toKernel' = <<>>
  /\ UNCHANGED <<rowVars, closing, counted, asked, early, toBridge, retold>>

----------------------------------------------------------------------------
(* The web page: /trades/<id>/close writes the row, reading it first;       *)
(* /mt5/manual and /mt5/close speak to the bridge alone.                    *)

Press == Event /\ UNCHANGED <<lostAbout, retold>>

ReadOpenRow(t) ==
  /\ Press
  /\ closing[t] = "no" /\ t \in OpenRows
  /\ closing' = [closing EXCEPT ![t] = "read"]
  /\ UNCHANGED <<rowVars, kernelVars, counted, asked, early, leftOut, wires>>

\* Whatever happened since.
CloseRow(t) ==
  /\ closing[t] = "read"
  /\ money' = [money EXCEPT ![t] = "hand"]
  /\ closing' = [closing EXCEPT ![t] = "written"]
  /\ retold' = retold \cup {t}
  /\ UNCHANGED <<outcome, linked, kernelVars, counted, asked, early, leftOut, wires,
                 events, lostAbout>>

PublishRowClosed(t) ==
  /\ closing[t] = "written"
  /\ closing' = [closing EXCEPT ![t] = "no"]
  /\ \/ /\ Tell([topic |-> "TRADE_CLOSED", of |-> t, id |-> t, by |-> "hand"])
        /\ UNCHANGED history
     \/ Fault /\ Loses({t}) /\ UNCHANGED <<toKernel, retold>>
  /\ UNCHANGED <<rowVars, kernelVars, counted, asked, early, leftOut, toBridge>>

ManualOrder(t) ==
  /\ Press
  /\ t \in Manual \ asked
  /\ Order([topic |-> "TRADE_APPROVED", of |-> t])
  /\ asked' = asked \cup {t}
  /\ UNCHANGED <<rowVars, kernelVars, closing, counted, early, leftOut, toKernel>>

AskToClose(t) ==
  /\ Press
  /\ Order([topic |-> "MT5_CLOSE_REQUEST", of |-> t])
  /\ UNCHANGED <<rowVars, kernelVars, closing, counted, asked, early, leftOut, toKernel>>

----------------------------------------------------------------------------
KernelStep ==
  \/ \E t \in AutoTrades : SaveDecision(t) \/ SendOrder(t) \/ BookApproval(t)
  \/ TakeResult \/ TakeClose \/ WriteBack \/ ListenerDrops \/ KernelRestart

PageStep ==
  \/ \E t \in AutoTrades : ReadOpenRow(t) \/ CloseRow(t) \/ PublishRowClosed(t)
  \/ \E t \in Manual : ManualOrder(t)

=============================================================================
