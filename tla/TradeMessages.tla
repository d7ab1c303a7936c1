--------------------------- MODULE TradeMessages ---------------------------
(***************************************************************************)
(* What the kernel, the gateway and the MT5 bridge share: the decisions of  *)
(* one symbol, the messages between them, and the failures.  Redis pub/sub *)
(* delivers a message to whoever listens at that moment, in order, or not at *)
(* all.                                                                    *)
(***************************************************************************)
EXTENDS Naturals, Sequences, FiniteSets

CONSTANTS
  Trades,      \* decisions that may become orders
  Manual,      \* the ones placed by hand on the web page: they have no id
  Dir,         \* direction of each
  None,
  MaxEvents,   \* bound: crashes, failures, and buttons pressed on the page
  QueueCap     \* bound: messages under way to one receiver

ASSUME BridgeAssumption ==
  /\ IsFiniteSet(Trades)
  /\ Manual \subseteq Trades
  /\ Dir \in [Trades -> {"long", "short"}]
  /\ None \notin Trades
  /\ MaxEvents \in Nat /\ QueueCap \in Nat \ {0}

AutoTrades == Trades \ Manual

VARIABLES
  toBridge,    \* orders and close requests that Redis holds for the bridge
  toKernel,    \* results and closes on their way to the kernel's listener
  events,      \* history: crashes, failures and presses so far
  lostAbout,   \* history: trades of which some message, deal or write was lost
  retold       \* history: trades whose close somebody had reason to repeat

wires   == <<toBridge, toKernel>>
history == <<events, lostAbout, retold>>

Orders == [topic : {"TRADE_APPROVED", "MT5_CLOSE_REQUEST"}, of : Trades]

Reports ==
  [topic : {"MT5_ORDER_RESULT"}, of : AutoTrades, ok : BOOLEAN]
    \cup [topic : {"TRADE_CLOSED"}, of : Trades, id : AutoTrades \cup {None},
          by : {"broker", "hand"}]

MessagesTypeOK ==
  /\ toBridge \in Seq(Orders) /\ Len(toBridge) <= QueueCap
  /\ toKernel \in Seq(Reports) /\ Len(toKernel) <= QueueCap
  /\ events \in 0 .. MaxEvents
  /\ lostAbout \subseteq Trades /\ retold \subseteq Trades

MessagesInit ==
  /\ toBridge = <<>> /\ toKernel = <<>>
  /\ events = 0 /\ lostAbout = {} /\ retold = {}

Event ==
  /\ events < MaxEvents
  /\ events' = events + 1

Fault == Event

About(queue) == {queue[i].of : i \in DOMAIN queue}

Loses(trades) == lostAbout' = lostAbout \cup trades

\* A message for the kernel, when nothing goes wrong.
Tell(msg) ==
  /\ Len(toKernel) < QueueCap
  /\ toKernel' = Append(toKernel, msg)

\* An order or a close request; a bridge that is down never gets it.
Order(msg) ==
  /\ Len(toBridge) < QueueCap
  /\ toBridge' = Append(toBridge, msg)

=============================================================================
