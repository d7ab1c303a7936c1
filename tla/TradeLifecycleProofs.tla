------------------------ MODULE TradeLifecycleProofs ------------------------
(***************************************************************************)
(* TLAPS proofs about TradeLifecycle, for every number of decisions, manual *)
(* orders and failures: the symbol's positions point one way, a close is    *)
(* counted once, no open position is lost track of, and once nothing is     *)
(* under way the table and the account agree.                               *)
(*                                                                         *)
(* The invariant is built in layers: what stage an order is in (Orderly),   *)
(* what the rows say of it (Booked), and on these the four properties.      *)
(***************************************************************************)
EXTENDS TradeLifecycle, TLAPS, SequenceTheorems

----------------------------------------------------------------------------
(* What is under way.                                                       *)

\* Orders in Redis, and messages on their way to the listener.
Ordered == {t \in Trades : \E i \in DOMAIN toBridge :
                             toBridge[i] = [topic |-> "TRADE_APPROVED", of |-> t]}
Said == {m \in Reports : \E i \in DOMAIN toKernel : toKernel[i] = m}

\* Said, or taken by the listener and being written.
InFlight == Said \cup ({writing} \cap Reports)

ResultOf(t, ok) == [topic |-> "MT5_ORDER_RESULT", of |-> t, ok |-> ok]

NoResult(t) == \A ok \in BOOLEAN : ResultOf(t, ok) \notin InFlight

ClosesBy(by) == {m \in InFlight : m.topic = "TRADE_CLOSED" /\ m.by = by}

\* A decision without an order so far.
Fresh(t) == IF t \in Manual THEN t \notin asked
            ELSE outcome[t] = "none" \/ handling = [step |-> "saved", of |-> t]

PlacedAlready(t) == task.step = "placed" /\ task.of = t
Marking(t) == task.step = "marking" /\ task.of = t

----------------------------------------------------------------------------
(* The stages of an order: it is placed once, answered once, and closed     *)
(* for good.                                                                *)

Stages(t) ==
  /\ Fresh(t) => /\ position[t] = "none" /\ t \notin Ordered
                 /\ ~Placing(t) /\ ~PlacedAlready(t) /\ NoResult(t)
  /\ t \in Ordered => /\ position[t] = "none" /\ NoResult(t)
                      /\ ~Placing(t) /\ ~PlacedAlready(t)
  /\ Placing(t) => position[t] = "none" /\ NoResult(t)
  /\ PlacedAlready(t) => position[t] # "none" /\ NoResult(t)
  /\ ResultOf(t, FALSE) \in InFlight => position[t] = "none"
  /\ ResultOf(t, TRUE) \in InFlight => position[t] # "none"
  /\ Marking(t) \/ t \in outs \cup reported => position[t] = "closed"

OrdersOnce ==
  \A i, j \in DOMAIN toBridge :
    /\ toBridge[i].topic = "TRADE_APPROVED" /\ toBridge[j].topic = "TRADE_APPROVED"
    /\ toBridge[i].of = toBridge[j].of
    => i = j

Closes ==
  /\ \A m \in ClosesBy("broker") : position[m.of] = "closed" /\ m.id \in {m.of, None}
  /\ \A m \in ClosesBy("hand") : m.id = m.of
  /\ writing.topic = "TRADE_CLOSED" => writing.by = "broker" /\ writing.id = writing.of

Begun == handling # NotHandling => outcome[handling.of] # "none"

Orderly == OrdersOnce /\ Closes /\ Begun /\ \A t \in Trades : Stages(t)

----------------------------------------------------------------------------
(* The rows.                                                                *)

\* The bridge is going to do it, or doing it.
Coming(t) == t \in Ordered \/ Placing(t)

Booked(t) ==
  /\ position[t] # "none" \/ Coming(t) => outcome[t] = "APPROVED"
  /\ handling = [step |-> "saved", of |-> t] => outcome[t] = "APPROVED"
  /\ outcome[t] = "none" => money[t] = "none" /\ closing[t] = "no"
  /\ money[t] = "broker" => position[t] = "closed"
  /\ closing[t] = "written" => money[t] # "none"
  /\ \A m \in ClosesBy("hand") : m.of = t => money[t] # "none"

----------------------------------------------------------------------------
(* What is still to be met was there when the order was taken.              *)

Facing ==
  task.step = "placing" =>
    \A o \in Open \ task.todo : Dir[o] = Dir[task.of] /\ task.of \in Manual

----------------------------------------------------------------------------
(* The count of closes.                                                     *)

Counts(t) ==
  t \notin retold =>
    /\ counted[t].hand = 0 /\ counted[t].broker <= 1
    /\ \A m \in Said : m.topic = "TRADE_CLOSED" /\ m.of = t =>
         m.by = "broker" /\ counted[t].broker = 0
    /\ t \in AutoTrades => closing[t] # "written"
    /\ \A i, j \in DOMAIN toKernel :
         /\ toKernel[i].topic = "TRADE_CLOSED" /\ toKernel[j].topic = "TRADE_CLOSED"
         /\ toKernel[i].of = t /\ toKernel[j].of = t
         => i = j
    /\ counted[t].broker = 1 \/ (\E m \in Said : m.topic = "TRADE_CLOSED" /\ m.of = t)
         => /\ position[t] = "closed"
            /\ t \notin outs \/ t \in reported \/ Marking(t)

----------------------------------------------------------------------------
(* Tracking.                                                                *)

Handled(t) == handling # NotHandling /\ handling.of = t

Watched(t) ==
  t \in OpenRows \ lostAbout /\ (position[t] = "open" \/ Coming(t)) =>
    t \in tracked \/ Handled(t) \/ t \in leftOut

----------------------------------------------------------------------------
(* The chain of custody.                                                    *)

CloseSaid(t) == \E m \in Said : m.topic = "TRADE_CLOSED" /\ m.id = t
CloseUnderWay(t) == CloseSaid(t) \/ (writing.topic = "TRADE_CLOSED" /\ writing.id = t)

Custody(t) ==
  t \notin lostAbout \cup early =>
    /\ t \in OpenRows /\ position[t] = "none" =>
         \/ handling = [step |-> "saved", of |-> t] \/ t \in Ordered \/ Placing(t)
         \/ ResultOf(t, FALSE) \in InFlight
    /\ position[t] # "none" =>
         /\ t \in ins
         /\ t \in linked \/ PlacedAlready(t) \/ ResultOf(t, TRUE) \in InFlight
    /\ position[t] = "closed" => money[t] # "none" \/ CloseUnderWay(t) \/ t \in outs
    /\ t \in reported \/ Marking(t) => money[t] # "none" \/ CloseUnderWay(t)
    /\ money[t] # "none" /\ (t \in tracked \/ Handled(t)) =>
         closing[t] = "written" \/ CloseSaid(t)
    /\ writing.topic = "TRADE_CLOSED" /\ writing.id = t => t \notin tracked /\ ~Handled(t)

----------------------------------------------------------------------------
(* Facts about messages and queues.                                         *)

\* The kinds of reports to the kernel,
LEMMA ReportKinds ==
  ASSUME NEW m \in Reports
  PROVE  \/ /\ m.topic = "MT5_ORDER_RESULT" /\ m.of \in AutoTrades /\ m.ok \in BOOLEAN
            /\ m = ResultOf(m.of, m.ok)
         \/ /\ m.topic = "TRADE_CLOSED" /\ m.of \in Trades /\ m.id \in AutoTrades \cup {None}
            /\ m.by \in {"broker", "hand"}
            /\ m = [topic |-> "TRADE_CLOSED", of |-> m.of, id |-> m.id, by |-> m.by]
BY DEF Reports, ResultOf

\* and how answers to orders are told apart.
LEMMA ResultFacts ==
  /\ \A t \in AutoTrades, ok \in BOOLEAN : ResultOf(t, ok) \in Reports
  /\ \A t, ok : /\ ResultOf(t, ok).topic = "MT5_ORDER_RESULT"
                /\ ResultOf(t, ok).of = t /\ ResultOf(t, ok).ok = ok
  /\ \A t, u, ok, yes : ResultOf(t, ok) = ResultOf(u, yes) => t = u /\ ok = yes
  /\ NoMessage \notin Reports /\ NoMessage.topic = "none"
BY DEF Reports, ResultOf, NoMessage

\* Where the bridge's loop is.
LEMMA TaskKinds ==
  ASSUME BridgeTypeOK
  PROVE  \/ task = Idle /\ task.step = "idle"
         \/ task.step = "placing" /\ task.of \in Trades /\ task.todo \subseteq Trades
         \/ task.step \in {"placed", "marking"} /\ task.of \in Trades
BY DEF BridgeTypeOK, Tasks, Idle

\* Where the trade handler is.
LEMMA HandlingKinds ==
  ASSUME LedgerTypeOK
  PROVE  \/ handling = NotHandling /\ handling.step = "idle"
         \/ /\ handling.step \in {"saved", "published"} /\ handling.of \in AutoTrades
            /\ handling # NotHandling
            /\ handling = [step |-> handling.step, of |-> handling.of]
BY DEF LedgerTypeOK, NotHandling

\* A message to the listener.
LEMMA TellEffect ==
  ASSUME MessagesTypeOK, NEW m \in Reports, Tell(m)
  PROVE  /\ toKernel' \in Seq(Reports) /\ Len(toKernel') <= QueueCap
         /\ Said' = Said \cup {m}
         /\ \A i \in DOMAIN toKernel' : \/ i \in DOMAIN toKernel /\ toKernel'[i] = toKernel[i]
                                        \/ i = Len(toKernel) + 1 /\ toKernel'[i] = m
<1>1. toKernel \in Seq(Reports) /\ Len(toKernel) \in Nat /\ DOMAIN toKernel = 1 .. Len(toKernel)
  BY LenProperties DEF MessagesTypeOK
<1>2. /\ toKernel' \in Seq(Reports) /\ Len(toKernel') = Len(toKernel) + 1
      /\ DOMAIN toKernel' = 1 .. Len(toKernel) + 1
      /\ \A i \in 1 .. Len(toKernel) : toKernel'[i] = toKernel[i]
      /\ toKernel'[Len(toKernel) + 1] = m
  BY <1>1, AppendProperties, LenProperties DEF Tell
<1>3. Len(toKernel') <= QueueCap
  BY <1>1, <1>2, BridgeAssumption DEF Tell, BridgeAssumption
<1>4. Said' = Said \cup {m}
  <2>1. Said' \subseteq Said \cup {m}
    BY <1>1, <1>2 DEF Said
  <2>2. Said \subseteq Said'
    BY <1>1, <1>2 DEF Said
  <2>3. m \in Said'
    <3>1. Len(toKernel) + 1 \in DOMAIN toKernel'
      BY <1>1, <1>2
    <3> QED
      BY <1>2, <3>1 DEF Said
  <2> QED
    BY <2>1, <2>2, <2>3
<1> QED
  BY <1>1, <1>2, <1>3, <1>4

\* The listener takes the oldest message.
LEMMA TakeEffect ==
  ASSUME MessagesTypeOK, toKernel # <<>>, toKernel' = Tail(toKernel)
  PROVE  /\ toKernel' \in Seq(Reports) /\ Len(toKernel') <= QueueCap
         /\ Head(toKernel) \in Reports /\ Head(toKernel) \in Said
         /\ 1 \in DOMAIN toKernel /\ Head(toKernel) = toKernel[1]
         /\ Said' \subseteq Said /\ Said \subseteq Said' \cup {Head(toKernel)}
         /\ \A i \in DOMAIN toKernel' : /\ i \in Nat /\ i + 1 # 1 /\ i + 1 \in DOMAIN toKernel
                                        /\ toKernel'[i] = toKernel[i + 1]
<1>1. /\ toKernel \in Seq(Reports) /\ Len(toKernel) \in Nat \ {0}
      /\ DOMAIN toKernel = 1 .. Len(toKernel)
  BY EmptySeq, LenProperties DEF MessagesTypeOK
<1>2. /\ toKernel' \in Seq(Reports) /\ Len(toKernel') = Len(toKernel) - 1
      /\ DOMAIN toKernel' = 1 .. Len(toKernel) - 1
      /\ \A i \in 1 .. Len(toKernel) - 1 : toKernel'[i] = toKernel[i + 1]
  BY <1>1, HeadTailProperties, LenProperties
<1>3. Len(toKernel') <= QueueCap
  BY <1>1, <1>2, BridgeAssumption DEF MessagesTypeOK, BridgeAssumption
<1>4. Head(toKernel) \in Reports /\ Head(toKernel) = toKernel[1] /\ 1 \in DOMAIN toKernel
  BY <1>1, ElementOfSeq
<1>5. Head(toKernel) \in Said
  BY <1>4 DEF Said
<1>6. Said' \subseteq Said
  BY <1>1, <1>2 DEF Said
<1>7. Said \subseteq Said' \cup {toKernel[1]}
  <2> SUFFICES ASSUME NEW i \in DOMAIN toKernel, toKernel[i] \in Reports, i # 1
               PROVE  toKernel[i] \in Said'
    BY DEF Said
  <2>1. i - 1 \in DOMAIN toKernel' /\ toKernel'[i - 1] = toKernel[i]
    BY <1>1, <1>2
  <2> QED
    BY <2>1 DEF Said
<1> QED
  BY <1>1, <1>2, <1>3, <1>4, <1>5, <1>6, <1>7

\* A kernel that is not there hears nothing.
LEMMA SilenceEffect ==
  ASSUME toKernel' = <<>>
  PROVE  /\ toKernel' \in Seq(Reports) /\ Len(toKernel') <= QueueCap /\ Said' = {}
         /\ DOMAIN toKernel' = {}
BY EmptySeq, BridgeAssumption DEF BridgeAssumption, Said

\* An order or a close request to the bridge.
LEMMA OrderEffect ==
  ASSUME MessagesTypeOK, NEW m \in Orders, Order(m)
  PROVE  /\ toBridge' \in Seq(Orders) /\ Len(toBridge') <= QueueCap
         /\ m.topic = "TRADE_APPROVED" => Ordered' = Ordered \cup {m.of}
         /\ m.topic # "TRADE_APPROVED" => Ordered' = Ordered
         /\ OrdersOnce /\ (m.topic = "TRADE_APPROVED" => m.of \notin Ordered) => OrdersOnce'
<1> DEFINE n == Len(toBridge) + 1
<1>1. toBridge \in Seq(Orders) /\ Len(toBridge) \in Nat /\ DOMAIN toBridge = 1 .. Len(toBridge)
  BY LenProperties DEF MessagesTypeOK
<1>2. /\ toBridge' \in Seq(Orders) /\ Len(toBridge') = n
      /\ DOMAIN toBridge' = 1 .. n
      /\ \A i \in 1 .. Len(toBridge) : toBridge'[i] = toBridge[i]
      /\ toBridge'[n] = m
  BY <1>1, AppendProperties, LenProperties DEF Order
<1>3. Len(toBridge') <= QueueCap
  BY <1>1, <1>2, BridgeAssumption DEF Order, BridgeAssumption
<1>4. /\ n \in DOMAIN toBridge' /\ n \notin DOMAIN toBridge
      /\ \A i \in DOMAIN toBridge' : i = n \/ i \in DOMAIN toBridge
      /\ \A i \in DOMAIN toBridge : i \in DOMAIN toBridge' /\ toBridge'[i] = toBridge[i]
  BY <1>1, <1>2
<1>5. \A i \in DOMAIN toBridge : toBridge[i] \in Orders
  BY <1>1, ElementOfSeq
<1> HIDE DEF n
<1>6. m.topic = "TRADE_APPROVED" => Ordered' = Ordered \cup {m.of}
  BY <1>2, <1>4 DEF Ordered, Orders
<1>7. m.topic # "TRADE_APPROVED" => Ordered' = Ordered
  BY <1>2, <1>4 DEF Ordered, Orders
<1>8. ASSUME OrdersOnce, m.topic = "TRADE_APPROVED" => m.of \notin Ordered
      PROVE  OrdersOnce'
  <2>1. ASSUME m.topic = "TRADE_APPROVED", NEW i \in DOMAIN toBridge,
               toBridge[i].topic = "TRADE_APPROVED"
        PROVE  toBridge[i].of # m.of
    BY <1>5, <1>8, <2>1 DEF Ordered, Orders
  <2> QED
    BY <1>2, <1>4, <1>8, <2>1 DEF OrdersOnce
<1> QED
  BY <1>2, <1>3, <1>6, <1>7, <1>8

\* The bridge takes the oldest.
LEMMA BridgeTakes ==
  ASSUME MessagesTypeOK, toBridge # <<>>, toBridge' = Tail(toBridge), OrdersOnce
  PROVE  /\ toBridge' \in Seq(Orders) /\ Len(toBridge') <= QueueCap
         /\ Head(toBridge) \in Orders /\ OrdersOnce'
         /\ Head(toBridge).topic = "TRADE_APPROVED" =>
              Head(toBridge).of \in Ordered /\ Ordered' = Ordered \ {Head(toBridge).of}
         /\ Head(toBridge).topic # "TRADE_APPROVED" => Ordered' = Ordered
<1> DEFINE h == Head(toBridge)
<1>1. /\ toBridge \in Seq(Orders) /\ Len(toBridge) \in Nat \ {0}
      /\ DOMAIN toBridge = 1 .. Len(toBridge)
  BY EmptySeq, LenProperties DEF MessagesTypeOK
<1>2. /\ toBridge' \in Seq(Orders) /\ Len(toBridge') = Len(toBridge) - 1
      /\ DOMAIN toBridge' = 1 .. Len(toBridge) - 1
      /\ \A i \in 1 .. Len(toBridge) - 1 : toBridge'[i] = toBridge[i + 1]
  BY <1>1, HeadTailProperties, LenProperties
<1>3. Len(toBridge') <= QueueCap
  BY <1>1, <1>2, BridgeAssumption DEF MessagesTypeOK, BridgeAssumption
<1>4. h \in Orders /\ h = toBridge[1] /\ 1 \in DOMAIN toBridge
  BY <1>1, ElementOfSeq
<1>5. \A i \in DOMAIN toBridge' : /\ i \in Nat /\ i + 1 \in DOMAIN toBridge
                                  /\ toBridge'[i] = toBridge[i + 1] /\ i + 1 # 1
  BY <1>1, <1>2
<1>6. \A i \in DOMAIN toBridge : i # 1 => i - 1 \in DOMAIN toBridge' /\ toBridge'[i - 1] = toBridge[i]
  BY <1>1, <1>2
<1> HIDE DEF h
<1>7. OrdersOnce'
  <2> SUFFICES ASSUME NEW i \in DOMAIN toBridge', NEW j \in DOMAIN toBridge',
                      toBridge'[i].topic = "TRADE_APPROVED",
                      toBridge'[j].topic = "TRADE_APPROVED",
                      toBridge'[i].of = toBridge'[j].of
               PROVE  i = j
    BY DEF OrdersOnce
  <2>1. i + 1 = j + 1
    BY <1>5 DEF OrdersOnce
  <2> QED
    BY <1>5, <2>1
<1>8. \A t \in Ordered : (h.topic = "TRADE_APPROVED" /\ h.of = t) \/ t \in Ordered'
  <2> SUFFICES ASSUME NEW t \in Ordered PROVE (h.topic = "TRADE_APPROVED" /\ h.of = t) \/ t \in Ordered'
    OBVIOUS
  <2>1. PICK i \in DOMAIN toBridge : toBridge[i] = [topic |-> "TRADE_APPROVED", of |-> t]
    BY DEF Ordered
  <2>2. CASE i = 1
    BY <1>4, <2>1, <2>2
  <2>3. CASE i # 1
    BY <1>6, <2>1, <2>3 DEF Ordered
  <2> QED
    BY <2>2, <2>3
<1>9. Ordered' \subseteq Ordered
  BY <1>5 DEF Ordered
<1>10. ASSUME h.topic = "TRADE_APPROVED" PROVE h.of \in Ordered /\ h.of \notin Ordered'
  <2>1. h = [topic |-> "TRADE_APPROVED", of |-> h.of] /\ h.of \in Trades
    BY <1>4, <1>10 DEF Orders
  <2>2. h.of \in Ordered
    BY <1>4, <2>1 DEF Ordered
  <2>3. ASSUME NEW i \in DOMAIN toBridge', toBridge'[i] = [topic |-> "TRADE_APPROVED", of |-> h.of]
        PROVE  FALSE
    <3>1. i + 1 = 1
      BY <1>4, <1>5, <1>10, <2>3 DEF OrdersOnce
    <3> QED
      BY <1>5, <3>1
  <2> QED
    BY <2>2, <2>3 DEF Ordered
<1> QED
  BY <1>2, <1>3, <1>4, <1>7, <1>8, <1>9, <1>10 DEF h

----------------------------------------------------------------------------
(* Types.                                                                   *)

\* Counting a failure stays within the bound.
LEMMA EventType ==
  ASSUME MessagesTypeOK, Event
  PROVE  events' \in 0 .. MaxEvents
BY BridgeAssumption DEF Event, MessagesTypeOK, BridgeAssumption

\* What messages are about are trades.
LEMMA AboutTrades ==
  ASSUME MessagesTypeOK
  PROVE  About(toKernel) \subseteq Trades /\ About(toBridge) \subseteq Trades
<1>1. \A i \in DOMAIN toKernel : toKernel[i] \in Reports
  BY LenProperties, ElementOfSeq DEF MessagesTypeOK
<1>2. \A i \in DOMAIN toBridge : toBridge[i] \in Orders
  BY LenProperties, ElementOfSeq DEF MessagesTypeOK
<1>3. \A m \in Reports : m.of \in Trades
  BY DEF Reports, AutoTrades
<1>4. \A m \in Orders : m.of \in Trades
  BY DEF Orders
<1> QED
  BY <1>1, <1>2, <1>3, <1>4 DEF About

\* A report, delivered or lost.
LEMMA ReportType ==
  ASSUME MessagesTypeOK, NEW m \in Reports, Report(m), toBridge' = toBridge
  PROVE  MessagesTypeOK'
<1>0. m.of \in Trades
  BY DEF Reports, AutoTrades
<1>1. CASE Tell(m) /\ UNCHANGED history
  BY <1>1, TellEffect DEF MessagesTypeOK, history
<1>2. CASE Fault /\ Loses({m.of}) /\ UNCHANGED <<toKernel, retold>>
  BY <1>0, <1>2, EventType DEF MessagesTypeOK, Loses, Fault
<1> QED
  BY <1>1, <1>2 DEF Report

\* The types, an action at a time.  The bridge answers an order,
LEMMA OrderResultType ==
  ASSUME MessagesTypeOK, NEW t \in Trades, NEW ok \in BOOLEAN, OrderResult(t, ok),
         toBridge' = toBridge
  PROVE  MessagesTypeOK'
<1>1. CASE t \in AutoTrades
  <2>1. Report(ResultOf(t, ok)) /\ ResultOf(t, ok) \in Reports
    BY <1>1, ResultFacts DEF OrderResult, ResultOf
  <2> QED
    BY <2>1, ReportType
<1>2. CASE t \notin AutoTrades
  BY <1>2 DEF OrderResult, MessagesTypeOK, history
<1> QED
  BY <1>1, <1>2

\* refuses one,
LEMMA RefuseType ==
  ASSUME MessagesTypeOK, BridgeTypeOK, NEW t \in Trades, Refuse(t)
  PROVE  MessagesTypeOK' /\ BridgeTypeOK'
<1>1. MessagesTypeOK'
  BY OrderResultType DEF Refuse
<1>2. BridgeTypeOK'
  BY DEF Refuse, BridgeTypeOK, Tasks, account
<1> QED
  BY <1>1, <1>2

\* (its tasks)
LEMMA TaskTypes ==
  /\ Idle \in Tasks
  /\ \A t \in Trades, todo \in SUBSET Trades :
       [step |-> "placing", of |-> t, todo |-> todo] \in Tasks
  /\ \A t \in Trades, s \in {"placed", "marking"} : [step |-> s, of |-> t] \in Tasks
BY DEF Tasks

\* The step of meeting one position of the account.
LEMMA MeetType ==
  ASSUME BridgeTypeOK, NEW o, task.step = "placing"
  PROVE  [task EXCEPT !.todo = @ \ {o}] \in Tasks
BY DEF BridgeTypeOK, Tasks, Idle

\* closes a position,
LEMMA ClosedByBridgeType ==
  ASSUME BridgeTypeOK, NEW o \in Trades, ClosedByBridge(o), task' \in Tasks, reported' = reported
  PROVE  BridgeTypeOK'
BY DEF ClosedByBridge, BridgeTypeOK

\* The name that a close carries: the order's comment, if the bridge wrote one.
LEMMA IdOfType ==
  ASSUME NEW t \in Trades
  PROVE  IdOf(t) \in AutoTrades \cup {None} /\ IdOf(t) \in {t, None}
BY DEF IdOf

\* The bridge publishes a close,
LEMMA PublishCloseType ==
  ASSUME MessagesTypeOK, BridgeTypeOK, NEW t \in Trades, PublishClose(t),
         events' \in 0 .. MaxEvents, lostAbout' = lostAbout, retold' \subseteq Trades
  PROVE  MessagesTypeOK' /\ BridgeTypeOK'
<1>1. [topic |-> "TRADE_CLOSED", of |-> t, id |-> IdOf(t), by |-> "broker"] \in Reports
  BY IdOfType DEF Reports
<1>2. MessagesTypeOK'
  BY <1>1, TellEffect DEF PublishClose, MessagesTypeOK
<1>3. BridgeTypeOK'
  BY TaskTypes DEF PublishClose, BridgeTypeOK, account, Rehydrated, Open
<1> QED
  BY <1>2, <1>3

\* and its steps all together.
LEMMA BridgeStepType ==
  ASSUME MessagesTypeOK, BridgeTypeOK, BridgeStep
  PROVE  MessagesTypeOK' /\ BridgeTypeOK'
<1>1. ASSUME toBridge # <<>>, toBridge' = Tail(toBridge), UNCHANGED <<toKernel, history>>
      PROVE  MessagesTypeOK' /\ Head(toBridge) \in Orders /\ Head(toBridge).of \in Trades
  <2>1. toBridge' \in Seq(Orders) /\ Len(toBridge') <= QueueCap /\ Head(toBridge) \in Orders
    <3>1. toBridge \in Seq(Orders) /\ Len(toBridge) \in Nat /\ Len(toBridge) <= QueueCap
      BY LenProperties DEF MessagesTypeOK
    <3>2. toBridge' \in Seq(Orders) /\ Len(toBridge') = Len(toBridge) - 1 /\ Head(toBridge) \in Orders
      BY <1>1, <3>1, HeadTailProperties
    <3> QED
      BY <3>1, <3>2, BridgeAssumption DEF BridgeAssumption
  <2>2. Head(toBridge).of \in Trades
    BY <2>1 DEF Orders
  <2> QED
    BY <1>1, <2>1, <2>2 DEF MessagesTypeOK, history
<1>2. CASE TakeOrder
  BY <1>1, <1>2, TaskTypes DEF TakeOrder, BridgeTypeOK, account, Open
<1>3. CASE CloseRequest
  <2>1. MessagesTypeOK' /\ Head(toBridge).of \in Trades
    BY <1>1, <1>3 DEF CloseRequest
  <2>2. BridgeTypeOK'
    BY <1>3, <2>1, ClosedByBridgeType DEF CloseRequest, BridgeTypeOK, account
  <2> QED
    BY <2>1, <2>2
<1>4. ASSUME NEW t \in Trades, NEW o \in Trades, MeetSame(t, o)
      PROVE  MessagesTypeOK' /\ BridgeTypeOK'
  <2>1. CASE task' = [task EXCEPT !.todo = @ \ {o}]
             /\ UNCHANGED <<account, tickets, reported, toBridge, toKernel, history>>
    <3>1. task' \in Tasks
      BY <1>4, <2>1, MeetType DEF MeetSame, Placing
    <3>2. MessagesTypeOK'
      BY <2>1 DEF MessagesTypeOK, history
    <3> QED
      BY <2>1, <3>1, <3>2 DEF BridgeTypeOK, account
  <2> QED
    BY <1>4, <2>1, RefuseType DEF MeetSame
<1>5. ASSUME NEW t \in Trades, NEW o \in Trades, MeetOpposite(t, o)
      PROVE  MessagesTypeOK' /\ BridgeTypeOK'
  <2>1. CASE ClosedByBridge(o) /\ task' = [task EXCEPT !.todo = @ \ {o}]
             /\ UNCHANGED <<reported, toBridge, toKernel, history>>
    <3>1. task' \in Tasks
      BY <1>5, <2>1, MeetType DEF MeetOpposite, Placing
    <3>2. MessagesTypeOK'
      BY <2>1 DEF MessagesTypeOK, history
    <3> QED
      BY <2>1, <3>1, <3>2, ClosedByBridgeType
  <2> QED
    BY <1>5, <2>1, RefuseType DEF MeetOpposite
<1>6. ASSUME NEW t \in Trades, PlaceFails(t) PROVE MessagesTypeOK' /\ BridgeTypeOK'
  BY <1>6, RefuseType DEF PlaceFails
<1>7. ASSUME NEW t \in Trades, Place(t) PROVE MessagesTypeOK' /\ BridgeTypeOK'
  BY <1>7, TaskTypes DEF Place, MessagesTypeOK, BridgeTypeOK, history
<1>8. ASSUME NEW t \in Trades, Placed(t) PROVE MessagesTypeOK' /\ BridgeTypeOK'
  BY <1>8, OrderResultType, TaskTypes DEF Placed, BridgeTypeOK, account
<1>9. CASE Rehydrate
  BY <1>9 DEF Rehydrate, MessagesTypeOK, BridgeTypeOK, history, account, Rehydrated, Open
<1>10. CASE ReportClose
  <2>1. PICK t \in Unreported : PublishClose(t)
    BY <1>10 DEF ReportClose
  <2>2. t \in Trades
    BY DEF Unreported, BridgeTypeOK
  <2> QED
    BY <1>10, <2>1, <2>2, PublishCloseType DEF ReportClose, history, MessagesTypeOK
<1>11. CASE ReportBlindly
  <2>1. PICK t \in outs \cap reported : PublishClose(t) /\ retold' = retold \cup {t}
    BY <1>11 DEF ReportBlindly
  <2>2. t \in Trades /\ retold' \subseteq Trades
    BY <2>1 DEF MessagesTypeOK, BridgeTypeOK
  <2> QED
    BY <1>11, <2>1, <2>2, PublishCloseType, EventType DEF ReportBlindly, Fault
<1>12. CASE MarkReported
  <2>1. task.of \in Trades
    BY <1>12, TaskKinds DEF MarkReported, Idle
  <2> QED
    BY <1>12, <2>1, EventType, TaskTypes
    DEF MarkReported, MessagesTypeOK, BridgeTypeOK, history, account, Fault
<1> QED
  BY <1>2, <1>3, <1>4, <1>5, <1>6, <1>7, <1>8, <1>9, <1>10, <1>11, <1>12 DEF BridgeStep

\* The account closes positions by stop or target, or in the terminal.
LEMMA AccountStepType ==
  ASSUME MessagesTypeOK, BridgeTypeOK, AccountStep
  PROVE  MessagesTypeOK' /\ BridgeTypeOK'
<1>1. ASSUME NEW t \in Trades, StopOrTarget(t) PROVE MessagesTypeOK' /\ BridgeTypeOK'
  BY <1>1 DEF StopOrTarget, MessagesTypeOK, BridgeTypeOK, history
<1>2. ASSUME NEW t \in Trades, ClosedInTerminal(t) PROVE MessagesTypeOK' /\ BridgeTypeOK'
  <2>1. MessagesTypeOK'
    BY <1>2, EventType DEF ClosedInTerminal, MessagesTypeOK, Loses, Fault
  <2>2. BridgeTypeOK'
    BY <1>2 DEF ClosedInTerminal, BridgeTypeOK
  <2> QED
    BY <2>1, <2>2
<1> QED
  BY <1>1, <1>2 DEF AccountStep

\* The bridge and what it remembers in Redis fail.
LEMMA BridgeFailuresType ==
  ASSUME MessagesTypeOK, BridgeTypeOK, ReportedExpires \/ BridgeRestart
  PROVE  MessagesTypeOK' /\ BridgeTypeOK'
<1>1. CASE ReportedExpires
  <2>1. MessagesTypeOK'
    BY <1>1, EventType DEF ReportedExpires, MessagesTypeOK, BridgeTypeOK, Fault
  <2>2. BridgeTypeOK'
    BY <1>1 DEF ReportedExpires, BridgeTypeOK, account
  <2> QED
    BY <2>1, <2>2
<1>2. CASE BridgeRestart
  <2>1. PICK kept \in {{}, outs} :
          /\ outs' = kept
          /\ \E opened \in {{}, ins} : ins' = IF kept = outs THEN opened ELSE {}
          /\ Loses((outs \ (kept \cup reported)) \cup About(toBridge) \cup (ins \ ins')
                     \cup (IF task.step \in {"placing", "placed"} THEN {task.of} ELSE {}))
    BY <1>2 DEF BridgeRestart
  <2>2. outs' \subseteq Trades /\ ins' \subseteq Trades
    BY <2>1 DEF BridgeTypeOK
  <2>3. task.step \in {"placing", "placed", "marking"} => task.of \in Trades
    BY TaskKinds DEF Idle
  <2>4. lostAbout' \subseteq Trades /\ retold' \subseteq Trades
    BY <1>2, <2>1, <2>3, AboutTrades DEF BridgeRestart, Loses, MessagesTypeOK, BridgeTypeOK
  <2>5. MessagesTypeOK'
    BY <1>2, <2>4, EventType, EmptySeq, BridgeAssumption
    DEF BridgeRestart, MessagesTypeOK, BridgeAssumption, Fault
  <2>6. BridgeTypeOK'
    BY <1>2, <2>2, TaskTypes DEF BridgeRestart, BridgeTypeOK
  <2> QED
    BY <2>5, <2>6
<1> QED
  BY <1>1, <1>2

\* The trade handler's steps.
LEMMA HandlerStepType ==
  ASSUME TypeOK, NEW t \in AutoTrades, SaveDecision(t) \/ SendOrder(t) \/ BookApproval(t)
  PROVE  MessagesTypeOK' /\ LedgerTypeOK'
<1> USE DEF TypeOK
<1>0. t \in Trades
  BY DEF AutoTrades
<1>1. CASE SaveDecision(t)
  BY <1>1 DEF SaveDecision, MessagesTypeOK, LedgerTypeOK, wires, history
<1>2. CASE SendOrder(t)
  <2>1. handling' \in [step : {"saved", "published"}, of : AutoTrades] \cup {NotHandling}
    BY <1>2 DEF SendOrder, LedgerTypeOK, NotHandling
  <2>2. LedgerTypeOK'
    BY <1>2, <2>1 DEF SendOrder, LedgerTypeOK, rowVars
  <2>3. CASE Order([topic |-> "TRADE_APPROVED", of |-> t]) /\ UNCHANGED history
    <3>1. [topic |-> "TRADE_APPROVED", of |-> t] \in Orders
      BY <1>0 DEF Orders
    <3> QED
      BY <1>2, <2>2, <2>3, <3>1, OrderEffect DEF SendOrder, MessagesTypeOK, history
  <2>4. CASE Fault /\ Loses({t}) /\ UNCHANGED <<toBridge, retold>>
    BY <1>0, <1>2, <2>2, <2>4, EventType DEF SendOrder, MessagesTypeOK, Loses, Fault
  <2> QED
    BY <1>2, <2>3, <2>4 DEF SendOrder
<1>3. CASE BookApproval(t)
  <2>1. Dir[t] \in {"long", "short"}
    BY <1>0, BridgeAssumption DEF BridgeAssumption
  <2> QED
    BY <1>3, <2>1 DEF BookApproval, MessagesTypeOK, LedgerTypeOK, wires, history, rowVars
<1> QED
  BY <1>1, <1>2, <1>3

\* The listener's steps,
LEMMA ListenerStepType ==
  ASSUME TypeOK, TakeResult \/ TakeClose \/ ListenerDrops
  PROVE  MessagesTypeOK' /\ LedgerTypeOK'
<1> USE DEF TypeOK
<1>1. ASSUME toKernel # <<>>, toKernel' = Tail(toKernel), UNCHANGED <<toBridge, history>>
      PROVE  MessagesTypeOK' /\ Head(toKernel) \in Reports
  BY <1>1, TakeEffect DEF MessagesTypeOK, history
<1>2. ASSUME Head(toKernel) \in Reports, NoteEarly(Head(toKernel))
      PROVE  early' \subseteq AutoTrades
  BY <1>2, HandlingKinds DEF NoteEarly, LedgerTypeOK
<1>3. CASE TakeResult
  <2> DEFINE msg == Head(toKernel)
  <2>1. MessagesTypeOK' /\ msg \in Reports
    BY <1>1, <1>3 DEF TakeResult
  <2>2. early' \subseteq AutoTrades
    BY <1>2, <1>3, <2>1 DEF TakeResult
  <2>3. tracked' \subseteq AutoTrades
    BY <1>3 DEF TakeResult, Untrack, LedgerTypeOK
  <2> QED
    BY <1>3, <2>1, <2>2, <2>3 DEF TakeResult, LedgerTypeOK, rowVars
<1>4. CASE TakeClose
  <2> DEFINE msg == Head(toKernel)
  <2>1. MessagesTypeOK' /\ msg \in Reports
    BY <1>1, <1>4 DEF TakeClose
  <2>2. early' \subseteq AutoTrades
    BY <1>2, <1>4, <2>1 DEF TakeClose
  <2>3. tracked' \subseteq AutoTrades /\ writing' \in Reports \cup {NoMessage}
    BY <1>4, <2>1 DEF TakeClose, Untrack, LedgerTypeOK
  <2>4. msg.of \in Trades /\ msg.by \in {"broker", "hand"}
    BY <1>4, <2>1, ReportKinds DEF TakeClose
  <2>5. counted' \in [Trades -> [{"broker", "hand"} -> Nat]]
    BY <1>4, <2>4 DEF TakeClose, LedgerTypeOK
  <2> QED
    BY <1>4, <2>1, <2>2, <2>3, <2>5 DEF TakeClose, LedgerTypeOK, rowVars
<1>5. CASE ListenerDrops
  BY <1>5, EventType, SilenceEffect, AboutTrades
  DEF ListenerDrops, MessagesTypeOK, LedgerTypeOK, Loses, Fault, ledgerVars, rowVars, kernelVars
<1> QED
  BY <1>3, <1>4, <1>5

\* What a write does to the rows.
LEMMA WrittenType ==
  ASSUME TypeOK, writing # NoMessage, Written(writing)
  PROVE  /\ outcome' \in [AutoTrades -> {"none", "APPROVED", "NOT_EXECUTED"}]
         /\ money' \in [AutoTrades -> {"none", "broker", "hand"}]
         /\ linked' \subseteq AutoTrades
<1> USE DEF TypeOK
<1>0. writing \in Reports
  BY DEF LedgerTypeOK
<1>1. CASE writing.topic = "TRADE_CLOSED"
  BY <1>1 DEF Written, LedgerTypeOK
<1>2. CASE writing.topic = "MT5_ORDER_RESULT"
  <2>1. writing.of \in AutoTrades /\ writing.ok \in BOOLEAN
    BY <1>0, <1>2, ReportKinds
  <2>2. CASE writing.ok
    BY <1>2, <2>1, <2>2 DEF Written, LedgerTypeOK
  <2>3. CASE ~writing.ok
    <3>1. outcome' = [outcome EXCEPT ![writing.of] = IF writing.of \in OpenRows
                                                     THEN "NOT_EXECUTED" ELSE @]
          /\ UNCHANGED <<money, linked>>
      BY <1>2, <2>3 DEF Written
    <3> QED
      BY <3>1, <2>1 DEF LedgerTypeOK
  <2> QED
    BY <2>2, <2>3
<1> QED
  BY <1>0, <1>1, <1>2, ReportKinds

\* and the write of what it took.
LEMMA WriteBackType ==
  ASSUME TypeOK, WriteBack
  PROVE  MessagesTypeOK' /\ LedgerTypeOK'
<1> USE DEF TypeOK
<1>0. writing \in Reports /\ writing.of \in Trades
  BY ReportKinds DEF WriteBack, LedgerTypeOK, AutoTrades
<1>1. CASE Written(writing) /\ UNCHANGED history
  BY <1>1, WrittenType DEF WriteBack, MessagesTypeOK, LedgerTypeOK, wires, history
<1>2. CASE Fault /\ Loses({writing.of}) /\ UNCHANGED <<rowVars, retold>>
  <2>1. MessagesTypeOK'
    BY <1>0, <1>2, EventType DEF WriteBack, MessagesTypeOK, wires, Loses, Fault
  <2>2. LedgerTypeOK'
    BY <1>2 DEF WriteBack, LedgerTypeOK, rowVars
  <2> QED
    BY <2>1, <2>2
<1> QED
  BY <1>1, <1>2 DEF WriteBack

\* What the query for the open rows returns and what its limit left out are all
\* of them.
LEMMA FetchedOrLeftOut ==
  ASSUME NEW open, NEW room, NEW S \in Fetched(open, room)
  PROVE  /\ S \subseteq open /\ LeftOutOf(open, S, room) \subseteq open
         /\ open \subseteq S \cup LeftOutOf(open, S, room)
BY DEF Fetched, LeftOutOf

\* So a restart of the kernel either tracks an open row or has left it out.
LEMMA RestartReads ==
  ASSUME KernelRestart
  PROVE  /\ tracked' \subseteq OpenRows /\ leftOut' \subseteq OpenRows
         /\ OpenRows \subseteq tracked' \cup leftOut'
<1>1. PICK room \in Rooms : /\ tracked' \in Fetched(OpenRows, room)
                           /\ leftOut' = LeftOutOf(OpenRows, tracked', room)
  BY DEF KernelRestart
<1> QED
  BY <1>1, FetchedOrLeftOut

\* A restart of the kernel.
LEMMA KernelRestartType ==
  ASSUME TypeOK, KernelRestart
  PROVE  MessagesTypeOK' /\ LedgerTypeOK'
<1> USE DEF TypeOK
<1>1. writing = NoMessage \/ writing.of \in Trades
  BY ReportKinds DEF LedgerTypeOK, AutoTrades
<1>2. handling.step = "saved" => handling.of \in Trades
  BY HandlingKinds DEF AutoTrades
<1>3. lostAbout' \subseteq Trades
  BY <1>1, <1>2, AboutTrades DEF KernelRestart, Loses, MessagesTypeOK
<1>4. MessagesTypeOK'
  BY <1>3, SilenceEffect, EventType DEF KernelRestart, MessagesTypeOK, Fault
<1>5. LedgerTypeOK'
  BY RestartReads DEF KernelRestart, LedgerTypeOK, OpenRows, rowVars
<1> QED
  BY <1>4, <1>5

\* The page's steps,
LEMMA PageStepType ==
  ASSUME TypeOK, PageStep
  PROVE  MessagesTypeOK' /\ LedgerTypeOK'
<1> USE DEF TypeOK
<1>1. ASSUME NEW t \in AutoTrades, ReadOpenRow(t) PROVE MessagesTypeOK' /\ LedgerTypeOK'
  <2>1. MessagesTypeOK'
    BY <1>1, EventType DEF ReadOpenRow, Press, MessagesTypeOK, wires
  <2>2. LedgerTypeOK'
    BY <1>1 DEF ReadOpenRow, LedgerTypeOK, rowVars, kernelVars
  <2> QED
    BY <2>1, <2>2
<1>2. ASSUME NEW t \in AutoTrades, CloseRow(t) PROVE MessagesTypeOK' /\ LedgerTypeOK'
  <2>1. MessagesTypeOK'
    BY <1>2 DEF CloseRow, MessagesTypeOK, wires, AutoTrades
  <2>2. LedgerTypeOK'
    BY <1>2 DEF CloseRow, LedgerTypeOK, kernelVars
  <2> QED
    BY <2>1, <2>2
<1>3. ASSUME NEW t \in AutoTrades, PublishRowClosed(t) PROVE MessagesTypeOK' /\ LedgerTypeOK'
  <2> DEFINE m == [topic |-> "TRADE_CLOSED", of |-> t, id |-> t, by |-> "hand"]
  <2>1. m \in Reports /\ m.of = t
    BY <1>3 DEF Reports, AutoTrades
  <2>2. Report(m) /\ toBridge' = toBridge
    BY <1>3 DEF PublishRowClosed, Report
  <2>3. MessagesTypeOK'
    BY <2>1, <2>2, ReportType
  <2>4. LedgerTypeOK'
    BY <1>3 DEF PublishRowClosed, LedgerTypeOK, rowVars, kernelVars
  <2> QED
    BY <2>3, <2>4
<1>4. ASSUME NEW t \in Manual, ManualOrder(t) PROVE MessagesTypeOK' /\ LedgerTypeOK'
  <2> DEFINE m == [topic |-> "TRADE_APPROVED", of |-> t]
  <2>1. m \in Orders
    BY <1>4, BridgeAssumption DEF Orders, BridgeAssumption
  <2>2. Order(m)
    BY <1>4 DEF ManualOrder
  <2> HIDE DEF m
  <2>3. toBridge' \in Seq(Orders) /\ Len(toBridge') <= QueueCap
    BY <2>1, <2>2, OrderEffect
  <2>4. MessagesTypeOK'
    BY <1>4, <2>3, EventType DEF ManualOrder, Press, MessagesTypeOK
  <2>5. LedgerTypeOK'
    BY <1>4 DEF ManualOrder, LedgerTypeOK, rowVars, kernelVars
  <2> QED
    BY <2>4, <2>5
<1> QED
  BY <1>1, <1>2, <1>3, <1>4 DEF PageStep

\* and its request to close a position.
LEMMA AskToCloseType ==
  ASSUME TypeOK, NEW t \in Trades, AskToClose(t)
  PROVE  MessagesTypeOK' /\ LedgerTypeOK'
<1> USE DEF TypeOK
<1> DEFINE m == [topic |-> "MT5_CLOSE_REQUEST", of |-> t]
<1>1. m \in Orders
  BY DEF Orders
<1>2. Order(m)
  BY DEF AskToClose
<1> HIDE DEF m
<1>3. toBridge' \in Seq(Orders) /\ Len(toBridge') <= QueueCap
  BY <1>1, <1>2, OrderEffect
<1>4. MessagesTypeOK'
  BY <1>3, EventType DEF AskToClose, Press, MessagesTypeOK
<1>5. LedgerTypeOK'
  BY DEF AskToClose, LedgerTypeOK, rowVars, kernelVars
<1> QED
  BY <1>4, <1>5

\* The types hold at first,
LEMMA TypeInit == Init => TypeOK
BY EmptySeq, BridgeAssumption
DEF Init, MessagesInit, BridgeInit, LedgerInit, TypeOK, MessagesTypeOK, BridgeTypeOK,
    LedgerTypeOK, BridgeAssumption, Tasks

\* and after every step.
LEMMA TypeStep == TypeOK /\ [Next]_vars => TypeOK'
<1> SUFFICES ASSUME TypeOK, [Next]_vars PROVE TypeOK'
  OBVIOUS
<1> USE DEF TypeOK
<1>1. CASE (BridgeStep \/ AccountStep \/ ReportedExpires \/ BridgeRestart) /\ UNCHANGED ledgerVars
  <2>1. LedgerTypeOK'
    BY <1>1 DEF ledgerVars, rowVars, kernelVars, LedgerTypeOK
  <2> QED
    BY <1>1, <2>1, BridgeStepType, AccountStepType, BridgeFailuresType
<1>2. CASE (KernelStep \/ PageStep \/ \E t \in Trades : AskToCloseOpen(t)) /\ UNCHANGED bridgeVars
  <2>1. BridgeTypeOK'
    BY <1>2 DEF bridgeVars, account, BridgeTypeOK
  <2>2. MessagesTypeOK' /\ LedgerTypeOK'
    BY <1>2, HandlerStepType, ListenerStepType, WriteBackType, KernelRestartType, PageStepType,
       AskToCloseType DEF KernelStep, AskToCloseOpen
  <2> QED
    BY <2>1, <2>2
<1>3. CASE UNCHANGED vars
  BY <1>3 DEF vars, bridgeVars, account, ledgerVars, rowVars, kernelVars, wires, history,
              MessagesTypeOK, BridgeTypeOK, LedgerTypeOK
<1> QED
  BY <1>1, <1>2, <1>3 DEF Next

\* Every variable keeps its type, through every failure.
THEOREM LifecycleTyped == Spec => []TypeOK
<1>1. Init => TypeOK
  BY TypeInit
<1>2. TypeOK /\ [Next]_vars => TypeOK'
  BY TypeStep
<1> QED
  BY <1>1, <1>2, PTL DEF Spec

----------------------------------------------------------------------------
(* The symbol's positions point one way.                                    *)

\* Whatever leaves the task and the account's open positions alone, or only
\* closes some, keeps both.
LEMMA FewerOpen ==
  ASSUME Facing, OneSided, Open' \subseteq Open, task' = task \/ task'.step # "placing"
  PROVE  Facing' /\ OneSided'
<1>1. Facing'
  BY DEF Facing
<1>2. OneSided'
  BY DEF OneSided
<1> QED
  BY <1>1, <1>2

\* A close takes from the open positions and adds none.
LEMMA ClosingShrinks ==
  ASSUME BridgeTypeOK, NEW o \in Trades, position' = [position EXCEPT ![o] = "closed"]
  PROVE  Open' \subseteq Open \ {o}
BY DEF BridgeTypeOK, Open

\* An order taken finds all that is opposite in its list, each close shortens
\* the list with the position, and only the bridge opens another one.
LEMMA FacingStep == TypeOK /\ Facing /\ OneSided /\ [Next]_vars => Facing' /\ OneSided'
<1> SUFFICES ASSUME TypeOK, Facing, OneSided, [Next]_vars PROVE Facing' /\ OneSided'
  OBVIOUS
<1>0. BridgeTypeOK
  BY DEF TypeOK
<1>1. Idle.step # "placing"
  BY DEF Idle
<1>2. ASSUME position' = position PROVE Open' = Open
  BY <1>2 DEF Open
<1>3. ASSUME NEW t, Refuse(t) PROVE Facing' /\ OneSided'
  BY <1>1, <1>2, <1>3, FewerOpen DEF Refuse, account
<1>4. CASE TakeOrder
  <2>1. Open' = Open /\ task'.step = "placing" /\ task'.todo = Open
    BY <1>2, <1>4 DEF TakeOrder, account
  <2> QED
    BY <2>1 DEF Facing, OneSided
<1>5. CASE CloseRequest
  <2>1. task' = task /\ (position' = position \/ ClosedByBridge(Head(toBridge).of))
    BY <1>5 DEF CloseRequest, account
  <2>2. Open' \subseteq Open
    BY <1>0, <1>2, <2>1 DEF ClosedByBridge, BridgeTypeOK, Open
  <2> QED
    BY <2>1, <2>2, FewerOpen
<1>6. ASSUME NEW t \in Trades, NEW o \in Trades, MeetSame(t, o) PROVE Facing' /\ OneSided'
  <2>1. CASE t \in Manual /\ task' = [task EXCEPT !.todo = @ \ {o}] /\ UNCHANGED account
    <3>1. /\ Open' = Open /\ task.step = "placing" /\ task.of = t
          /\ Dir[o] = Dir[t] /\ o \in task.todo
      BY <1>2, <1>6, <2>1 DEF MeetSame, Placing, account
    <3>2. /\ task'.step = "placing" /\ task'.of = t
          /\ task'.todo = task.todo \ {o}
      BY <1>0, <2>1, <3>1, TaskKinds DEF BridgeTypeOK, Tasks, Idle
    <3> QED
      BY <2>1, <3>1, <3>2 DEF Facing, OneSided
  <2> QED
    BY <1>3, <1>6, <2>1 DEF MeetSame
<1>7. ASSUME NEW t \in Trades, NEW o \in Trades, MeetOpposite(t, o) PROVE Facing' /\ OneSided'
  <2>1. CASE ClosedByBridge(o) /\ task' = [task EXCEPT !.todo = @ \ {o}]
    <3>1. /\ Open' \subseteq Open \ {o} /\ task.step = "placing" /\ task.of = t
      BY <1>0, <1>7, <2>1, ClosingShrinks DEF MeetOpposite, Placing, ClosedByBridge
    <3>2. /\ task'.step = "placing" /\ task'.of = t
          /\ task'.todo = task.todo \ {o}
      BY <1>0, <2>1, <3>1, TaskKinds DEF BridgeTypeOK, Tasks, Idle
    <3> QED
      BY <3>1, <3>2 DEF Facing, OneSided
  <2> QED
    BY <1>3, <1>7, <2>1 DEF MeetOpposite
<1>8. ASSUME NEW t \in Trades, PlaceFails(t) PROVE Facing' /\ OneSided'
  BY <1>3, <1>8 DEF PlaceFails
<1>9. ASSUME NEW t \in Trades, Place(t) PROVE Facing' /\ OneSided'
  <2>1. \A o \in Open : Dir[o] = Dir[t] /\ t \in Manual
    BY <1>9 DEF Place, Placing, Facing
  <2>2. Open' = Open \cup {t} /\ task'.step # "placing"
    BY <1>0, <1>9 DEF Place, Open, BridgeTypeOK
  <2> QED
    BY <2>1, <2>2 DEF Facing, OneSided
<1>10. ASSUME NEW t \in Trades, Placed(t) PROVE Facing' /\ OneSided'
  BY <1>1, <1>2, <1>10, FewerOpen DEF Placed, account
<1>11. CASE Rehydrate
  BY <1>2, <1>11, FewerOpen DEF Rehydrate, account
<1>12. CASE ReportClose \/ ReportBlindly
  <2>1. PICK t : PublishClose(t)
    BY <1>12 DEF ReportClose, ReportBlindly
  <2>2. position' = position /\ task'.step # "placing"
    BY <2>1 DEF PublishClose, account
  <2> QED
    BY <1>2, <2>2, FewerOpen
<1>13. CASE MarkReported
  BY <1>1, <1>2, <1>13, FewerOpen DEF MarkReported, account
<1>14. CASE AccountStep
  BY <1>0, <1>14, ClosingShrinks, FewerOpen DEF AccountStep, StopOrTarget, ClosedInTerminal
<1>15. CASE ReportedExpires
  BY <1>2, <1>15, FewerOpen DEF ReportedExpires, account
<1>16. CASE BridgeRestart
  BY <1>1, <1>2, <1>16, FewerOpen DEF BridgeRestart
<1>17. CASE UNCHANGED bridgeVars
  BY <1>2, <1>17, FewerOpen DEF bridgeVars, account
<1> QED
  BY <1>4, <1>5, <1>6, <1>7, <1>8, <1>9, <1>10, <1>11, <1>12, <1>13, <1>14, <1>15, <1>16, <1>17
  DEF Next, BridgeStep, vars

\* The positions of the symbol all point the same way and an automatic order
\* never adds to one: execute_order closes what is opposite, or opens nothing.
THEOREM PositionsPointOneWay == Spec => []OneSided
<1>1. Init => Facing /\ OneSided
  BY DEF Init, BridgeInit, Facing, OneSided, Open, Idle
<1>2. TypeOK /\ Facing /\ OneSided /\ [Next]_vars => Facing' /\ OneSided'
  BY FacingStep
<1> QED
  BY <1>1, <1>2, LifecycleTyped, PTL DEF Spec

----------------------------------------------------------------------------
(* The stages of an order.                                                  *)

BrokerClose(t) == [topic |-> "TRADE_CLOSED", of |-> t, id |-> IdOf(t), by |-> "broker"]
HandClose(t)   == [topic |-> "TRADE_CLOSED", of |-> t, id |-> t, by |-> "hand"]

\* How closes are told apart from each other and from answers.
LEMMA CloseFacts ==
  /\ \A t \in Trades : BrokerClose(t) \in Reports
  /\ \A t \in AutoTrades : HandClose(t) \in Reports
  /\ \A t : /\ BrokerClose(t).topic = "TRADE_CLOSED" /\ BrokerClose(t).of = t
            /\ BrokerClose(t).id = IdOf(t) /\ BrokerClose(t).by = "broker"
            /\ HandClose(t).topic = "TRADE_CLOSED" /\ HandClose(t).of = t
            /\ HandClose(t).id = t /\ HandClose(t).by = "hand"
  /\ \A t, u, ok : ResultOf(u, ok) # BrokerClose(t) /\ ResultOf(u, ok) # HandClose(t)
<1>1. \A t \in Trades : IdOf(t) \in AutoTrades \cup {None}
  BY IdOfType
<1> QED
  BY <1>1 DEF BrokerClose, HandClose, Reports, AutoTrades, ResultOf

\* A step that says nothing to the listener.
LEMMA NothingSaid ==
  ASSUME toKernel' = toKernel
  PROVE  Said' = Said /\ (writing' = writing => InFlight' = InFlight)
BY DEF Said, InFlight

\* The result of an order, said or lost.
LEMMA ResultEffect ==
  ASSUME MessagesTypeOK, NEW t \in Trades, NEW ok \in BOOLEAN, OrderResult(t, ok)
  PROVE  \/ Said' = Said \cup {ResultOf(t, ok)} /\ t \in AutoTrades /\ UNCHANGED history
         \/ Said' = Said /\ UNCHANGED <<toKernel, history>> /\ t \in Manual
         \/ Said' = Said /\ toKernel' = toKernel /\ lostAbout' = lostAbout \cup {t}
            /\ retold' = retold
<1>1. CASE t \notin AutoTrades
  BY <1>1, NothingSaid DEF OrderResult, AutoTrades
<1>2. CASE t \in AutoTrades
  <2>1. Report(ResultOf(t, ok)) /\ ResultOf(t, ok) \in Reports /\ ResultOf(t, ok).of = t
    BY <1>2, ResultFacts DEF OrderResult, ResultOf
  <2>2. CASE Tell(ResultOf(t, ok)) /\ UNCHANGED history
    BY <1>2, <2>1, <2>2, TellEffect
  <2>3. CASE Fault /\ Loses({t}) /\ UNCHANGED <<toKernel, retold>>
    BY <2>3, NothingSaid DEF Loses
  <2> QED
    BY <2>1, <2>2, <2>3 DEF Report
<1> QED
  BY <1>1, <1>2

\* The report of a close.
LEMMA PublishCloseEffect ==
  ASSUME MessagesTypeOK, NEW t \in Trades, PublishClose(t)
  PROVE  Said' = Said \cup {BrokerClose(t)} /\ (writing' = writing => InFlight' = InFlight \cup {BrokerClose(t)})
<1>1. Tell(BrokerClose(t)) /\ BrokerClose(t) \in Reports
  BY CloseFacts DEF PublishClose, BrokerClose
<1>2. Said' = Said \cup {BrokerClose(t)}
  BY <1>1, TellEffect
<1> QED
  BY <1>2 DEF InFlight

\* What the kernel does with its messages never makes one more of them.
LEMMA KernelHears ==
  ASSUME TypeOK, TakeResult \/ TakeClose \/ WriteBack \/ ListenerDrops \/ KernelRestart
  PROVE  InFlight' \subseteq InFlight /\ Said' \subseteq Said
<1>1. CASE TakeResult \/ TakeClose
  <2>1. Head(toKernel) \in Said /\ Said' \subseteq Said /\ Head(toKernel) \in Reports
    BY <1>1, TakeEffect DEF TakeResult, TakeClose, TypeOK
  <2>2. writing' \in {Head(toKernel), NoMessage}
    BY <1>1 DEF TakeResult, TakeClose
  <2> QED
    BY <2>1, <2>2, ResultFacts DEF InFlight
<1>2. CASE WriteBack
  <2>1. writing' = NoMessage /\ toKernel' = toKernel
    BY <1>2 DEF WriteBack, wires
  <2> QED
    BY <2>1, NothingSaid, ResultFacts DEF InFlight
<1>3. CASE ListenerDrops
  BY <1>3, SilenceEffect DEF ListenerDrops, InFlight, ledgerVars, kernelVars
<1>4. CASE KernelRestart
  BY <1>4, SilenceEffect, ResultFacts DEF KernelRestart, InFlight
<1> QED
  BY <1>1, <1>2, <1>3, <1>4

\* The page's word of a close.
LEMMA PublishRowEffect ==
  ASSUME TypeOK, NEW t \in AutoTrades, PublishRowClosed(t)
  PROVE  \/ /\ Said' = Said \cup {HandClose(t)} /\ InFlight' = InFlight \cup {HandClose(t)}
            /\ UNCHANGED history
         \/ /\ Said' = Said /\ InFlight' = InFlight /\ lostAbout' = lostAbout \cup {t}
            /\ toKernel' = toKernel /\ retold' = retold
<1>1. writing' = writing
  BY DEF PublishRowClosed, kernelVars
<1>2. CASE Tell(HandClose(t)) /\ UNCHANGED history
  <2>1. Said' = Said \cup {HandClose(t)}
    BY <1>2, CloseFacts, TellEffect DEF TypeOK
  <2> QED
    BY <1>1, <1>2, <2>1 DEF InFlight
<1>3. CASE Fault /\ Loses({t}) /\ UNCHANGED <<toKernel, retold>>
  BY <1>1, <1>3, NothingSaid DEF Loses
<1> QED
  BY <1>2, <1>3 DEF PublishRowClosed, HandClose

\* A stage is kept by whatever starts nothing for the order.
LEMMA StagesKept ==
  ASSUME NEW u \in Trades, Stages(u),
         Fresh(u)' => Fresh(u), u \in Ordered' => u \in Ordered,
         Placing(u)' => Placing(u), PlacedAlready(u)' => PlacedAlready(u),
         \A ok \in BOOLEAN : ResultOf(u, ok) \in InFlight' => ResultOf(u, ok) \in InFlight,
         \/ position'[u] = position[u]
         \/ position[u] = "open" /\ position'[u] = "closed",
         Marking(u)' \/ u \in outs' \cup reported' => position'[u] = "closed"
  PROVE  Stages(u)'
BY DEF Stages, NoResult

\* An order is sent by the handler or the page, once.
LEMMA OrdersOnceStep ==
  ASSUME TypeOK, Orderly, [Next]_vars
  PROVE  OrdersOnce'
<1>0. MessagesTypeOK /\ OrdersOnce
  BY DEF TypeOK, Orderly
<1>1. ASSUME toBridge' = toBridge PROVE OrdersOnce'
  BY <1>0, <1>1 DEF OrdersOnce
<1>2. CASE TakeOrder \/ CloseRequest
  BY <1>0, <1>2, BridgeTakes DEF TakeOrder, CloseRequest
<1>3. CASE BridgeRestart
  BY <1>3, EmptySeq DEF BridgeRestart, OrdersOnce
<1>4. ASSUME NEW t \in AutoTrades, SendOrder(t) PROVE OrdersOnce'
  <2>1. CASE toBridge' = toBridge
    BY <1>1, <2>1
  <2>2. CASE Order([topic |-> "TRADE_APPROVED", of |-> t])
    <3> DEFINE m == [topic |-> "TRADE_APPROVED", of |-> t]
    <3>1. m \in Orders /\ m.of = t
      BY DEF Orders, AutoTrades
    <3>2. handling = [step |-> "saved", of |-> t]
      BY <1>4, HandlingKinds DEF SendOrder, TypeOK
    <3>3. t \notin Ordered
      BY <3>2 DEF Orderly, Stages, Fresh, AutoTrades
    <3> QED
      BY <1>0, <2>2, <3>1, <3>3, OrderEffect
  <2> QED
    BY <1>4, <2>1, <2>2 DEF SendOrder
<1>5. ASSUME NEW t \in Manual, ManualOrder(t) PROVE OrdersOnce'
  <2> DEFINE m == [topic |-> "TRADE_APPROVED", of |-> t]
  <2>1. m \in Orders /\ m.of = t /\ t \in Trades /\ Order(m)
    BY <1>5, BridgeAssumption DEF Orders, BridgeAssumption, ManualOrder
  <2>2. t \notin Ordered
    BY <1>5, <2>1 DEF ManualOrder, Orderly, Stages, Fresh
  <2> QED
    BY <1>0, <2>1, <2>2, OrderEffect
<1>6. ASSUME NEW t \in Trades, AskToClose(t) PROVE OrdersOnce'
  <2> DEFINE m == [topic |-> "MT5_CLOSE_REQUEST", of |-> t]
  <2>1. m \in Orders /\ m.topic # "TRADE_APPROVED" /\ Order(m)
    BY <1>6 DEF Orders, AskToClose
  <2> QED
    BY <1>0, <2>1, OrderEffect
<1>7. CASE BridgeStep
  <2>1. CASE toBridge' = toBridge
    BY <1>1, <2>1
  <2>2. \A t, o : MeetSame(t, o) \/ MeetOpposite(t, o) \/ PlaceFails(t) => toBridge' = toBridge
    BY DEF MeetSame, MeetOpposite, PlaceFails, Refuse
  <2>3. \A t : Place(t) \/ Placed(t) \/ PublishClose(t) => toBridge' = toBridge
    BY DEF Place, Placed, PublishClose
  <2>4. Rehydrate \/ ReportClose \/ ReportBlindly \/ MarkReported => toBridge' = toBridge
    BY <2>3 DEF Rehydrate, ReportClose, ReportBlindly, MarkReported
  <2> QED
    BY <1>1, <1>2, <1>7, <2>2, <2>3, <2>4 DEF BridgeStep
<1>8. CASE AccountStep \/ ReportedExpires
  BY <1>1, <1>8 DEF AccountStep, StopOrTarget, ClosedInTerminal, ReportedExpires
<1>9. ASSUME NEW t \in AutoTrades, SaveDecision(t) \/ BookApproval(t) PROVE OrdersOnce'
  BY <1>1, <1>9 DEF SaveDecision, BookApproval, wires
<1>10. CASE TakeResult \/ TakeClose \/ WriteBack \/ ListenerDrops \/ KernelRestart
  BY <1>1, <1>10 DEF TakeResult, TakeClose, WriteBack, ListenerDrops, KernelRestart, wires
<1>11. ASSUME NEW t \in AutoTrades, ReadOpenRow(t) \/ CloseRow(t) \/ PublishRowClosed(t)
       PROVE  OrdersOnce'
  BY <1>1, <1>11 DEF ReadOpenRow, CloseRow, PublishRowClosed, wires
<1>12. CASE UNCHANGED vars
  BY <1>1, <1>12 DEF vars, wires
<1> QED
  BY <1>3, <1>4, <1>5, <1>6, <1>7, <1>8, <1>9, <1>10, <1>11, <1>12
  DEF Next, KernelStep, PageStep, AskToCloseOpen

\* The bridge, the account and their failures move an order on.
LEMMA BridgeStages ==
  ASSUME TypeOK, Orderly, UNCHANGED ledgerVars, NEW u \in Trades,
         BridgeStep \/ AccountStep \/ ReportedExpires \/ BridgeRestart
  PROVE  Stages(u)'
<1>0. MessagesTypeOK /\ BridgeTypeOK /\ OrdersOnce /\ Stages(u)
  BY DEF TypeOK, Orderly
<1>1. writing' = writing /\ Fresh(u)' = Fresh(u)
  BY DEF Fresh, ledgerVars, rowVars, kernelVars
<1>2. ASSUME toBridge' = toBridge PROVE Ordered' = Ordered
  BY <1>2 DEF Ordered
<1>3. \A t : Idle # [step |-> "placing", of |-> t]
  BY DEF Idle
<1>4. ASSUME task' = Idle PROVE ~Placing(u)' /\ ~PlacedAlready(u)' /\ ~Marking(u)'
  BY <1>4 DEF Idle, Placing, PlacedAlready, Marking
<1>5. ASSUME task' = task
      PROVE  Placing(u)' = Placing(u) /\ PlacedAlready(u)' = PlacedAlready(u) /\ Marking(u)' = Marking(u)
  BY <1>5 DEF Placing, PlacedAlready, Marking
<1>6. ASSUME NEW t \in Trades, Placing(t), Refuse(t) PROVE Stages(u)'
  <2>1. Ordered' = Ordered /\ UNCHANGED account /\ reported' = reported
    BY <1>2, <1>6 DEF Refuse
  <2>2. InFlight' \subseteq InFlight \cup {ResultOf(t, FALSE)}
    BY <1>0, <1>1, <1>6, ResultEffect DEF Refuse, InFlight
  <2>3. ~Placing(u)' /\ ~PlacedAlready(u)' /\ ~Marking(u)'
    BY <1>4, <1>6 DEF Refuse
  <2>4. CASE u = t
    BY <1>0, <1>1, <1>6, <2>1, <2>2, <2>3, <2>4, ResultFacts DEF Stages, NoResult, account
  <2>5. CASE u # t
    <3>1. \A ok \in BOOLEAN : ResultOf(u, ok) # ResultOf(t, FALSE)
      BY <2>5 DEF ResultOf
    <3>2. \A ok \in BOOLEAN : ResultOf(u, ok) \in InFlight' => ResultOf(u, ok) \in InFlight
      BY <2>2, <3>1
    <3> QED
      BY <1>0, <1>1, <2>1, <2>3, <3>2, StagesKept DEF Stages, account
  <2> QED
    BY <2>4, <2>5
<1>7. CASE TakeOrder
  <2> DEFINE t == Head(toBridge).of
  <2>1. t \in Ordered /\ Ordered' = Ordered \ {t}
    BY <1>0, <1>7, BridgeTakes DEF TakeOrder
  <2>2. InFlight' = InFlight /\ UNCHANGED account /\ reported' = reported
    BY <1>1, <1>7, NothingSaid DEF TakeOrder
  <2>3. ~PlacedAlready(u)' /\ ~Marking(u)' /\ (Placing(u)' => u = t)
    BY <1>7 DEF TakeOrder, PlacedAlready, Marking, Placing
  <2> HIDE DEF t
  <2>4. CASE u = t
    BY <1>0, <1>1, <2>1, <2>2, <2>3, <2>4 DEF Stages, NoResult, account
  <2>5. CASE u # t
    BY <1>0, <1>1, <2>1, <2>2, <2>3, <2>5, StagesKept DEF Stages, account
  <2> QED
    BY <2>4, <2>5
<1>8. ASSUME NEW o \in Trades, position[o] = "open", ClosedByBridge(o), UNCHANGED <<reported, toKernel>>,
             u \in Ordered' => u \in Ordered,
             Placing(u)' => Placing(u), PlacedAlready(u)' => PlacedAlready(u), Marking(u)' => Marking(u)
      PROVE  Stages(u)'
  <2>1. InFlight' = InFlight
    BY <1>1, <1>8, NothingSaid
  <2>2. position'[u] = position[u] \/ (position[u] = "open" /\ position'[u] = "closed")
    BY <1>0, <1>8 DEF ClosedByBridge, BridgeTypeOK
  <2>3. Marking(u)' \/ u \in outs' \cup reported' => position'[u] = "closed"
    BY <1>0, <1>8 DEF ClosedByBridge, BridgeTypeOK, Stages
  <2> QED
    BY <1>0, <1>1, <1>8, <2>1, <2>2, <2>3, StagesKept
<1>9. CASE CloseRequest
  <2>1. Ordered' = Ordered /\ Head(toBridge).of \in Trades
    BY <1>0, <1>9, BridgeTakes DEF CloseRequest, Orders
  <2>2. InFlight' = InFlight /\ task' = task /\ UNCHANGED <<reported, toKernel>>
    BY <1>1, <1>9, NothingSaid DEF CloseRequest
  <2>3. CASE UNCHANGED account
    BY <1>0, <1>1, <1>5, <2>1, <2>2, <2>3, StagesKept DEF Stages, account
  <2> QED
    BY <1>5, <1>8, <1>9, <2>1, <2>2, <2>3 DEF CloseRequest
<1>10. ASSUME NEW t \in Trades, NEW o \in Trades, task.step = "placing",
              task' = [task EXCEPT !.todo = @ \ {o}]
       PROVE  Placing(u)' = Placing(u) /\ ~PlacedAlready(u)' /\ ~Marking(u)'
  BY <1>0, <1>10 DEF BridgeTypeOK, Tasks, Idle, Placing, PlacedAlready, Marking
<1>11. ASSUME NEW t \in Trades, NEW o \in Trades, MeetSame(t, o) PROVE Stages(u)'
  <2>1. CASE task' = [task EXCEPT !.todo = @ \ {o}]
             /\ UNCHANGED <<account, tickets, reported, toBridge, toKernel, history>>
    <3>1. InFlight' = InFlight /\ Ordered' = Ordered
      BY <1>1, <1>2, <2>1, NothingSaid
    <3>2. Placing(u)' = Placing(u) /\ ~PlacedAlready(u)' /\ ~Marking(u)'
      BY <1>10, <1>11, <2>1 DEF MeetSame, Placing
    <3> QED
      BY <1>0, <1>1, <2>1, <3>1, <3>2, StagesKept DEF Stages, account
  <2> QED
    BY <1>6, <1>11, <2>1 DEF MeetSame
<1>12. ASSUME NEW t \in Trades, NEW o \in Trades, MeetOpposite(t, o) PROVE Stages(u)'
  <2>1. CASE position[o] = "open" /\ ClosedByBridge(o) /\ task' = [task EXCEPT !.todo = @ \ {o}]
             /\ UNCHANGED <<reported, toBridge, toKernel, history>>
    BY <1>2, <1>8, <1>10, <1>12, <2>1 DEF MeetOpposite, Placing
  <2> QED
    BY <1>6, <1>12, <2>1 DEF MeetOpposite
<1>13. ASSUME NEW t \in Trades, PlaceFails(t) PROVE Stages(u)'
  BY <1>6, <1>13 DEF PlaceFails
<1>14. ASSUME NEW t \in Trades, Place(t) PROVE Stages(u)'
  <2>1. InFlight' = InFlight /\ Ordered' = Ordered /\ UNCHANGED <<outs, reported>> /\ Placing(t)
    BY <1>1, <1>2, <1>14, NothingSaid DEF Place
  <2>2. ~Placing(u)' /\ ~Marking(u)' /\ (PlacedAlready(u)' => u = t)
    BY <1>14 DEF Place, PlacedAlready, Marking, Placing
  <2>3. CASE u = t
    <3>1. position'[u] = "open"
      BY <1>0, <1>14, <2>3 DEF Place, BridgeTypeOK
    <3> QED
      BY <1>0, <1>1, <2>1, <2>2, <2>3, <3>1 DEF Stages, NoResult
  <2>4. CASE u # t
    <3>1. position'[u] = position[u]
      BY <1>0, <1>14, <2>4 DEF Place, BridgeTypeOK
    <3> QED
      BY <1>0, <1>1, <2>1, <2>2, <2>4, <3>1, StagesKept DEF Stages
  <2> QED
    BY <2>3, <2>4
<1>15. ASSUME NEW t \in Trades, Placed(t) PROVE Stages(u)'
  <2>1. Ordered' = Ordered /\ UNCHANGED account /\ reported' = reported /\ PlacedAlready(t)
    BY <1>2, <1>15 DEF Placed, PlacedAlready
  <2>2. InFlight' \subseteq InFlight \cup {ResultOf(t, TRUE)}
    BY <1>0, <1>1, <1>15, ResultEffect DEF Placed, InFlight
  <2>3. ~Placing(u)' /\ ~PlacedAlready(u)' /\ ~Marking(u)'
    BY <1>4, <1>15 DEF Placed
  <2>4. CASE u = t
    BY <1>0, <1>1, <2>1, <2>2, <2>3, <2>4, ResultFacts DEF Stages, NoResult, account
  <2>5. CASE u # t
    <3>1. \A ok \in BOOLEAN : ResultOf(u, ok) # ResultOf(t, TRUE)
      BY <2>5 DEF ResultOf
    <3>2. \A ok \in BOOLEAN : ResultOf(u, ok) \in InFlight' => ResultOf(u, ok) \in InFlight
      BY <2>2, <3>1
    <3> QED
      BY <1>0, <1>1, <2>1, <2>3, <3>2, StagesKept DEF Stages, account
  <2> QED
    BY <2>4, <2>5
<1>16. CASE Rehydrate
  <2>1. InFlight' = InFlight /\ Ordered' = Ordered /\ UNCHANGED account /\ reported' = reported
    BY <1>1, <1>2, <1>16, NothingSaid DEF Rehydrate
  <2> QED
    BY <1>0, <1>1, <1>5, <1>16, <2>1, StagesKept DEF Stages, account, Rehydrate
<1>17. ASSUME NEW t \in Trades, position[t] = "closed", PublishClose(t) PROVE Stages(u)'
  <2>1. InFlight' = InFlight \cup {BrokerClose(t)} /\ Ordered' = Ordered
        /\ UNCHANGED account /\ reported' = reported
    BY <1>0, <1>1, <1>2, <1>17, PublishCloseEffect DEF PublishClose
  <2>2. ~Placing(u)' /\ ~PlacedAlready(u)' /\ (Marking(u)' => u = t)
    BY <1>17 DEF PublishClose, PlacedAlready, Marking, Placing
  <2>3. \A ok \in BOOLEAN : ResultOf(u, ok) # BrokerClose(t)
    BY CloseFacts
  <2> QED
    BY <1>0, <1>1, <1>17, <2>1, <2>2, <2>3, StagesKept DEF Stages, account
<1>18. CASE ReportClose
  <2>1. PICK t \in Unreported : PublishClose(t)
    BY <1>18 DEF ReportClose
  <2> QED
    BY <1>0, <1>17, <2>1 DEF Unreported, BridgeTypeOK
<1>19. CASE ReportBlindly
  <2>1. PICK t \in outs \cap reported : PublishClose(t)
    BY <1>19 DEF ReportBlindly
  <2>2. t \in Trades /\ position[t] = "closed"
    BY <1>0 DEF BridgeTypeOK, Orderly, Stages
  <2> QED
    BY <1>17, <2>1, <2>2
<1>20. CASE MarkReported
  <2>1. InFlight' = InFlight /\ Ordered' = Ordered /\ UNCHANGED account
    BY <1>1, <1>2, <1>20, NothingSaid DEF MarkReported
  <2>2. ~Placing(u)' /\ ~PlacedAlready(u)' /\ ~Marking(u)'
    BY <1>4, <1>20 DEF MarkReported
  <2>3. u \in reported' => u \in reported \/ Marking(u)
    BY <1>20 DEF MarkReported, Marking
  <2> QED
    BY <1>0, <1>1, <2>1, <2>2, <2>3, StagesKept DEF Stages, account
<1>21. CASE AccountStep
  <2>1. PICK t \in Trades : StopOrTarget(t) \/ ClosedInTerminal(t)
    BY <1>21 DEF AccountStep
  <2>2. InFlight' = InFlight /\ Ordered' = Ordered /\ task' = task /\ reported' = reported
    BY <1>1, <1>2, <2>1, NothingSaid DEF StopOrTarget, ClosedInTerminal
  <2>3. position'[u] = position[u] \/ (position[u] = "open" /\ position'[u] = "closed")
    BY <1>0, <2>1 DEF StopOrTarget, ClosedInTerminal, BridgeTypeOK
  <2>4. Marking(u)' \/ u \in outs' \cup reported' => position'[u] = "closed"
    BY <1>0, <1>5, <2>1, <2>2 DEF StopOrTarget, ClosedInTerminal, BridgeTypeOK, Stages
  <2> QED
    BY <1>0, <1>1, <1>5, <2>2, <2>3, <2>4, StagesKept
<1>22. CASE ReportedExpires
  <2>1. InFlight' = InFlight /\ Ordered' = Ordered /\ UNCHANGED account /\ task' = task /\ reported' = {}
    BY <1>1, <1>2, <1>22, NothingSaid DEF ReportedExpires
  <2> QED
    BY <1>0, <1>1, <1>5, <2>1, StagesKept DEF Stages, account
<1>23. CASE BridgeRestart
  <2>1. Ordered' = {}
    BY <1>23, EmptySeq DEF BridgeRestart, Ordered
  <2>2. InFlight' = InFlight /\ position' = position /\ outs' \subseteq outs /\ reported' = reported
    BY <1>1, <1>23, NothingSaid DEF BridgeRestart
  <2>3. ~Placing(u)' /\ ~PlacedAlready(u)' /\ ~Marking(u)'
    BY <1>4, <1>23 DEF BridgeRestart
  <2> QED
    BY <1>0, <1>1, <2>1, <2>2, <2>3, StagesKept DEF Stages
<1> QED
  BY <1>7, <1>9, <1>11, <1>12, <1>13, <1>14, <1>15, <1>16, <1>18, <1>19, <1>20, <1>21, <1>22, <1>23
  DEF BridgeStep

\* The handler works on a decision that has a row.
LEMMA BegunStep ==
  ASSUME TypeOK, Begun, [Next]_vars
  PROVE  Begun'
<1>0. LedgerTypeOK
  BY DEF TypeOK
<1>1. ASSUME handling' = handling \/ handling' = NotHandling \/ (handling'.of = handling.of /\ handling # NotHandling),
             \A t \in AutoTrades : outcome[t] # "none" => outcome'[t] # "none"
      PROVE  Begun'
  BY <1>0, <1>1, HandlingKinds DEF Begun
<1>2. ASSUME NEW t \in AutoTrades, SaveDecision(t) PROVE Begun'
  <2>1. handling'.of = t /\ outcome'[t] = "APPROVED"
    BY <1>0, <1>2 DEF SaveDecision, LedgerTypeOK
  <2> QED
    BY <2>1 DEF Begun
<1>3. ASSUME NEW t \in AutoTrades, SendOrder(t) PROVE Begun'
  <2>1. handling = [step |-> "saved", of |-> t] /\ handling # NotHandling /\ outcome' = outcome
    BY <1>0, <1>3, HandlingKinds DEF SendOrder, rowVars
  <2>2. handling' = NotHandling \/ handling'.of = handling.of
    BY <1>3, <2>1 DEF SendOrder
  <2> QED
    BY <1>1, <2>1, <2>2
<1>4. ASSUME NEW t \in AutoTrades, BookApproval(t) PROVE Begun'
  BY <1>1, <1>4 DEF BookApproval, rowVars
<1>5. CASE TakeResult \/ TakeClose \/ ListenerDrops
  BY <1>1, <1>5 DEF TakeResult, TakeClose, ListenerDrops, rowVars, ledgerVars, kernelVars
<1>6. CASE WriteBack
  <2>1. \A t \in AutoTrades : outcome[t] # "none" => outcome'[t] # "none"
    <3>1. CASE outcome' = outcome
      BY <3>1
    <3>2. CASE outcome' = [outcome EXCEPT ![writing.of] = IF writing.of \in OpenRows
                                                          THEN "NOT_EXECUTED" ELSE @]
      BY <1>0, <3>2 DEF LedgerTypeOK
    <3> QED
      BY <1>6, <3>1, <3>2 DEF WriteBack, Written, rowVars
  <2> QED
    BY <1>1, <1>6, <2>1 DEF WriteBack
<1>7. CASE KernelRestart
  BY <1>1, <1>7 DEF KernelRestart, rowVars
<1>8. CASE PageStep
  BY <1>1, <1>8 DEF PageStep, ReadOpenRow, CloseRow, PublishRowClosed, ManualOrder, rowVars, kernelVars
<1>9. CASE \E t \in Trades : AskToCloseOpen(t)
  BY <1>1, <1>9 DEF AskToCloseOpen, AskToClose, rowVars, kernelVars
<1>10. CASE UNCHANGED ledgerVars
  BY <1>1, <1>10 DEF ledgerVars, rowVars, kernelVars
<1> QED
  BY <1>2, <1>3, <1>4, <1>5, <1>6, <1>7, <1>8, <1>9, <1>10 DEF Next, KernelStep, vars

\* What leaves the queue to the bridge alone.
LEMMA NothingOrdered ==
  ASSUME toBridge' = toBridge
  PROVE  Ordered' = Ordered
BY DEF Ordered

\* The kernel and the page move an order on: they send it, or write its answer.
LEMMA KernelStages ==
  ASSUME TypeOK, Orderly, UNCHANGED bridgeVars, NEW u \in Trades,
         KernelStep \/ PageStep \/ \E t \in Trades : AskToCloseOpen(t)
  PROVE  Stages(u)'
<1>0. MessagesTypeOK /\ LedgerTypeOK /\ OrdersOnce /\ Begun /\ Stages(u)
  BY DEF TypeOK, Orderly
<1>1. /\ UNCHANGED <<position, outs, reported, task>>
      /\ Placing(u)' = Placing(u) /\ PlacedAlready(u)' = PlacedAlready(u) /\ Marking(u)' = Marking(u)
  BY DEF bridgeVars, account, Placing, PlacedAlready, Marking
<1>2. ASSUME Fresh(u)' => Fresh(u), u \in Ordered' => u \in Ordered,
             \A ok \in BOOLEAN : ResultOf(u, ok) \in InFlight' => ResultOf(u, ok) \in InFlight
      PROVE  Stages(u)'
  BY <1>0, <1>1, <1>2, StagesKept DEF Stages
<1>3. ASSUME Fresh(u), u \in Ordered', ~Fresh(u)', InFlight' = InFlight PROVE Stages(u)'
  BY <1>0, <1>1, <1>3 DEF Stages, NoResult
<1>4. ASSUME UNCHANGED <<outcome, handling, asked>> PROVE Fresh(u)' = Fresh(u)
  BY <1>4 DEF Fresh
<1>5. ASSUME toKernel' = toKernel, writing' = writing PROVE InFlight' = InFlight
  BY <1>5, NothingSaid
<1>6. ASSUME toBridge' = toBridge PROVE Ordered' = Ordered
  BY <1>6, NothingOrdered
<1>7. ASSUME NEW t \in AutoTrades, SaveDecision(t) PROVE Stages(u)'
  <2>1. Fresh(u)' => Fresh(u)
    BY <1>0, <1>7 DEF SaveDecision, Fresh, LedgerTypeOK, AutoTrades
  <2>2. InFlight' = InFlight /\ Ordered' = Ordered
    BY <1>5, <1>6, <1>7 DEF SaveDecision, wires
  <2> QED
    BY <1>2, <2>1, <2>2
<1>8. ASSUME NEW t \in AutoTrades, SendOrder(t) PROVE Stages(u)'
  <2>1. handling = [step |-> "saved", of |-> t] /\ handling # NotHandling
    BY <1>0, <1>8, HandlingKinds DEF SendOrder
  <2>2. handling' = NotHandling \/ handling'.step = "published"
    BY <1>8, <2>1 DEF SendOrder
  <2>3. InFlight' = InFlight /\ UNCHANGED <<outcome, asked>>
    BY <1>5, <1>8 DEF SendOrder, rowVars
  <2>4. Fresh(u)' => Fresh(u)
    BY <2>2, <2>3 DEF Fresh, NotHandling
  <2>5. Ordered' = Ordered \/ Ordered' = Ordered \cup {t}
    <3> DEFINE m == [topic |-> "TRADE_APPROVED", of |-> t]
    <3>1. m \in Orders /\ m.of = t /\ m.topic = "TRADE_APPROVED"
      BY DEF Orders, AutoTrades
    <3>2. Order(m) \/ toBridge' = toBridge
      BY <1>8 DEF SendOrder
    <3> HIDE DEF m
    <3> QED
      BY <1>0, <1>6, <3>1, <3>2, OrderEffect
  <2>6. CASE u = t
    <3>1. outcome[t] # "none" /\ Fresh(u) /\ ~Fresh(u)'
      BY <1>0, <2>1, <2>2, <2>3, <2>6 DEF Begun, Fresh, AutoTrades, NotHandling
    <3> QED
      BY <1>2, <1>3, <2>3, <3>1
  <2>7. CASE u # t
    BY <1>2, <2>3, <2>4, <2>5, <2>7
  <2> QED
    BY <2>6, <2>7
<1>9. ASSUME NEW t \in AutoTrades, BookApproval(t) PROVE Stages(u)'
  <2>1. Fresh(u)' => Fresh(u)
    BY <1>9 DEF BookApproval, Fresh, rowVars, NotHandling
  <2> QED
    BY <1>2, <1>5, <1>6, <1>9, <2>1 DEF BookApproval, wires
<1>10. CASE TakeResult \/ TakeClose \/ ListenerDrops
  <2>1. Fresh(u)' = Fresh(u) /\ Ordered' = Ordered
    BY <1>4, <1>6, <1>10 DEF TakeResult, TakeClose, ListenerDrops, ledgerVars, rowVars, kernelVars
  <2> QED
    BY <1>2, <1>10, <2>1, KernelHears
<1>11. CASE WriteBack
  <2>1. ASSUME u \in AutoTrades, outcome'[u] = "none" PROVE outcome[u] = "none"
    <3>1. CASE outcome' = [outcome EXCEPT ![writing.of] = IF writing.of \in OpenRows
                                                          THEN "NOT_EXECUTED" ELSE @]
      BY <1>0, <2>1, <3>1 DEF LedgerTypeOK
    <3> QED
      BY <1>11, <2>1, <3>1 DEF WriteBack, Written, rowVars
  <2>2. Fresh(u)' => Fresh(u)
    BY <1>11, <2>1 DEF WriteBack, Fresh, AutoTrades
  <2> QED
    BY <1>2, <1>6, <1>11, <2>2, KernelHears DEF WriteBack, wires
<1>12. CASE KernelRestart
  <2>1. Fresh(u)' => Fresh(u)
    BY <1>12 DEF KernelRestart, Fresh, rowVars, NotHandling
  <2> QED
    BY <1>2, <1>6, <1>12, <2>1, KernelHears DEF KernelRestart
<1>13. ASSUME NEW t \in AutoTrades, ReadOpenRow(t) \/ CloseRow(t) PROVE Stages(u)'
  <2>1. Fresh(u)' = Fresh(u)
    BY <1>4, <1>13 DEF ReadOpenRow, CloseRow, rowVars, kernelVars
  <2> QED
    BY <1>2, <1>5, <1>6, <1>13, <2>1 DEF ReadOpenRow, CloseRow, wires, kernelVars
<1>14. ASSUME NEW t \in AutoTrades, PublishRowClosed(t) PROVE Stages(u)'
  <2>1. Fresh(u)' = Fresh(u) /\ Ordered' = Ordered
    BY <1>4, <1>6, <1>14 DEF PublishRowClosed, rowVars, kernelVars
  <2>2. \A ok \in BOOLEAN : ResultOf(u, ok) # HandClose(t)
    BY CloseFacts
  <2>3. InFlight' \subseteq InFlight \cup {HandClose(t)}
    BY <1>14, PublishRowEffect
  <2> QED
    BY <1>2, <2>1, <2>2, <2>3
<1>15. ASSUME NEW t \in Manual, ManualOrder(t) PROVE Stages(u)'
  <2> DEFINE m == [topic |-> "TRADE_APPROVED", of |-> t]
  <2>1. m \in Orders /\ m.of = t /\ m.topic = "TRADE_APPROVED" /\ Order(m)
    BY <1>15, BridgeAssumption DEF Orders, ManualOrder, BridgeAssumption
  <2> HIDE DEF m
  <2>2. Ordered' = Ordered \cup {t}
    BY <1>0, <2>1, OrderEffect
  <2>3. InFlight' = InFlight /\ UNCHANGED <<outcome, handling>> /\ asked' = asked \cup {t} /\ t \notin asked
    BY <1>5, <1>15 DEF ManualOrder, rowVars, kernelVars
  <2>4. CASE u = t
    BY <1>3, <1>15, <2>2, <2>3, <2>4 DEF Fresh
  <2>5. CASE u # t
    <3>1. Fresh(u)' => Fresh(u)
      BY <2>3, <2>5 DEF Fresh
    <3> QED
      BY <1>2, <2>2, <2>3, <2>5, <3>1
  <2> QED
    BY <2>4, <2>5
<1>16. ASSUME NEW t \in Trades, AskToCloseOpen(t) PROVE Stages(u)'
  <2> DEFINE m == [topic |-> "MT5_CLOSE_REQUEST", of |-> t]
  <2>1. m \in Orders /\ m.topic # "TRADE_APPROVED" /\ Order(m)
    BY <1>16 DEF Orders, AskToCloseOpen, AskToClose
  <2> HIDE DEF m
  <2>2. Ordered' = Ordered
    BY <1>0, <2>1, OrderEffect
  <2>3. InFlight' = InFlight /\ Fresh(u)' = Fresh(u)
    BY <1>4, <1>5, <1>16 DEF AskToCloseOpen, AskToClose, rowVars, kernelVars
  <2> QED
    BY <1>2, <2>2, <2>3
<1> QED
  BY <1>7, <1>8, <1>9, <1>10, <1>11, <1>12, <1>13, <1>14, <1>15, <1>16 DEF KernelStep, PageStep

\* The account moves one position at a time: Place opens one, and whoever
\* closes one finds it open.
LEMMA AccountMoves ==
  ASSUME TypeOK, Orderly, [Next]_vars
  PROVE  \/ position' = position
         \/ \E o \in Trades : position[o] = "open" /\ position' = [position EXCEPT ![o] = "closed"]
         \/ \E t \in Trades : Place(t) /\ position[t] = "none" /\ UNCHANGED ledgerVars
<1> DEFINE Same == position' = position
           ClosesOne == \E o \in Trades : position[o] = "open" /\ position' = [position EXCEPT ![o] = "closed"]
<1>1. CASE CloseRequest
  <2>1. Head(toBridge).of \in Trades
    BY <1>1, BridgeTakes DEF CloseRequest, TypeOK, Orderly, Orders
  <2> QED
    BY <1>1, <2>1 DEF CloseRequest, ClosedByBridge, account
<1>2. ASSUME NEW t \in Trades, NEW o \in Trades, MeetSame(t, o) \/ MeetOpposite(t, o)
      PROVE  Same \/ ClosesOne
  BY <1>2 DEF MeetSame, MeetOpposite, Refuse, ClosedByBridge, account
<1>3. ASSUME NEW t \in Trades, Place(t) PROVE position[t] = "none"
  BY <1>3 DEF Place, Orderly, Stages
<1>4. ASSUME NEW t \in Trades, StopOrTarget(t) \/ ClosedInTerminal(t) PROVE ClosesOne
  BY <1>4 DEF StopOrTarget, ClosedInTerminal
<1>5. \A t : PlaceFails(t) \/ Placed(t) \/ PublishClose(t) => Same
  BY DEF PlaceFails, Refuse, Placed, PublishClose, account
<1>6. TakeOrder \/ Rehydrate \/ ReportClose \/ ReportBlindly \/ MarkReported => Same
  BY <1>5 DEF TakeOrder, Rehydrate, ReportClose, ReportBlindly, MarkReported, account
<1>7. ReportedExpires \/ BridgeRestart => Same
  BY DEF ReportedExpires, BridgeRestart, account
<1>8. UNCHANGED bridgeVars => Same
  BY DEF bridgeVars, account
<1> QED
  BY <1>1, <1>2, <1>3, <1>4, <1>5, <1>6, <1>7, <1>8 DEF Next, BridgeStep, AccountStep, vars

\* A position opens by the bridge's placing its order, and closes for good.
LEMMA PositionMoves ==
  ASSUME TypeOK, Orderly, [Next]_vars, NEW u \in Trades
  PROVE  \/ position'[u] = position[u]
         \/ position[u] = "open" /\ position'[u] = "closed"
         \/ position[u] = "none" /\ position'[u] = "open" /\ Place(u)
<1>1. CASE \E o \in Trades : position[o] = "open" /\ position' = [position EXCEPT ![o] = "closed"]
  BY <1>1 DEF TypeOK, BridgeTypeOK
<1>2. CASE \E t \in Trades : Place(t) /\ position[t] = "none"
  BY <1>2 DEF Place, TypeOK, BridgeTypeOK
<1> QED
  BY <1>1, <1>2, AccountMoves

\* Two sources of closes: the bridge's deal history and the page's button.
LEMMA NewCloses ==
  ASSUME TypeOK, Orderly, [Next]_vars, NEW m \in InFlight', m.topic = "TRADE_CLOSED"
  PROVE  \/ m \in InFlight
         \/ \E t \in Trades : position[t] = "closed" /\ PublishClose(t) /\ m = BrokerClose(t)
         \/ \E t \in AutoTrades : PublishRowClosed(t) /\ m = HandClose(t)
<1>0. MessagesTypeOK /\ BridgeTypeOK
  BY DEF TypeOK
<1>1. CASE toKernel' = toKernel /\ writing' = writing
  BY <1>1, NothingSaid
<1>2. ASSUME NEW t \in Trades, NEW ok \in BOOLEAN, OrderResult(t, ok), writing' = writing
      PROVE  m \in InFlight
  <2>1. m # ResultOf(t, ok)
    BY ResultFacts
  <2> QED
    BY <1>0, <1>2, <2>1, ResultEffect DEF InFlight
<1>3. CASE (BridgeStep \/ AccountStep \/ ReportedExpires \/ BridgeRestart) /\ UNCHANGED ledgerVars
  <2>0. writing' = writing
    BY <1>3 DEF ledgerVars, kernelVars
  <2>1. ASSUME NEW t \in Trades, NEW o \in Trades, MeetSame(t, o) \/ MeetOpposite(t, o)
        PROVE  m \in InFlight
    <3>1. Refuse(t) \/ toKernel' = toKernel
      BY <2>1 DEF MeetSame, MeetOpposite
    <3> QED
      BY <1>1, <1>2, <2>0, <3>1, NothingSaid DEF Refuse
  <2>2. ASSUME NEW t \in Trades, PlaceFails(t) \/ Placed(t) PROVE m \in InFlight
    BY <1>2, <2>0, <2>2 DEF PlaceFails, Refuse, Placed
  <2>3. ASSUME NEW t \in Trades, position[t] = "closed", PublishClose(t)
        PROVE  m \in InFlight \/ (position[t] = "closed" /\ PublishClose(t) /\ m = BrokerClose(t))
    BY <1>0, <2>0, <2>3, PublishCloseEffect
  <2>4. CASE ReportClose
    <3>1. PICK t \in Unreported : PublishClose(t)
      BY <2>4 DEF ReportClose
    <3>2. t \in Trades /\ position[t] = "closed"
      BY <1>0 DEF Unreported, BridgeTypeOK
    <3> QED
      BY <2>3, <3>1, <3>2
  <2>5. CASE ReportBlindly
    <3>1. PICK t \in outs \cap reported : PublishClose(t)
      BY <2>5 DEF ReportBlindly
    <3>2. t \in Trades /\ position[t] = "closed"
      BY <1>0 DEF BridgeTypeOK, Orderly, Stages
    <3> QED
      BY <2>3, <3>1, <3>2
  <2>6. TakeOrder \/ CloseRequest \/ Rehydrate \/ MarkReported => toKernel' = toKernel
    BY DEF TakeOrder, CloseRequest, Rehydrate, MarkReported
  <2>7. \A t : Place(t) \/ StopOrTarget(t) \/ ClosedInTerminal(t) => toKernel' = toKernel
    BY DEF Place, StopOrTarget, ClosedInTerminal
  <2>8. ReportedExpires \/ BridgeRestart => toKernel' = toKernel
    BY DEF ReportedExpires, BridgeRestart
  <2> QED
    BY <1>1, <1>3, <2>0, <2>1, <2>2, <2>4, <2>5, <2>6, <2>7, <2>8 DEF BridgeStep, AccountStep
<1>4. CASE TakeResult \/ TakeClose \/ WriteBack \/ ListenerDrops \/ KernelRestart
  BY <1>4, KernelHears
<1>5. \A t : SaveDecision(t) \/ SendOrder(t) \/ BookApproval(t) => toKernel' = toKernel /\ writing' = writing
  BY DEF SaveDecision, SendOrder, BookApproval, wires
<1>6. \A t : ReadOpenRow(t) \/ CloseRow(t) \/ ManualOrder(t) \/ AskToCloseOpen(t)
               => toKernel' = toKernel /\ writing' = writing
  BY DEF ReadOpenRow, CloseRow, ManualOrder, AskToCloseOpen, AskToClose, wires, kernelVars
<1>7. ASSUME NEW t \in AutoTrades, PublishRowClosed(t)
      PROVE  m \in InFlight \/ (PublishRowClosed(t) /\ m = HandClose(t))
  BY <1>7, PublishRowEffect
<1>8. CASE UNCHANGED vars
  BY <1>1, <1>8 DEF vars, wires, ledgerVars, kernelVars
<1> QED
  BY <1>1, <1>3, <1>4, <1>5, <1>6, <1>7, <1>8 DEF Next, KernelStep, PageStep

\* A new close is the bridge's, of a position that closed, or the page's.
LEMMA ClosesStep ==
  ASSUME TypeOK, Orderly, [Next]_vars
  PROVE  Closes'
<1>0. Closes /\ MessagesTypeOK /\ LedgerTypeOK
  BY DEF Orderly, TypeOK
<1>1. \A m \in InFlight : m \in Reports
  BY DEF InFlight, Said
<1>2. \A m \in InFlight : m.topic = "TRADE_CLOSED" => m.of \in Trades
  BY <1>1, ReportKinds
<1>3. \A u \in Trades : position[u] = "closed" => position'[u] = "closed"
  BY PositionMoves
<1>4. \A t \in Trades : IdOf(t) \in {t, None}
  BY IdOfType
<1>5. ASSUME NEW m \in InFlight', m.topic = "TRADE_CLOSED", m.by = "broker"
      PROVE  position'[m.of] = "closed" /\ m.id \in {m.of, None}
  <2>1. CASE m \in InFlight
    BY <1>0, <1>2, <1>3, <1>5, <2>1 DEF Closes, ClosesBy
  <2>2. CASE \E t \in Trades : position[t] = "closed" /\ PublishClose(t) /\ m = BrokerClose(t)
    BY <1>3, <1>4, <2>2, CloseFacts
  <2>3. CASE \E t \in AutoTrades : PublishRowClosed(t) /\ m = HandClose(t)
    BY <1>5, <2>3, CloseFacts
  <2> QED
    BY <1>5, <2>1, <2>2, <2>3, NewCloses
<1>6. ASSUME NEW m \in InFlight', m.topic = "TRADE_CLOSED", m.by = "hand"
      PROVE  m.id = m.of
  <2>1. CASE m \in InFlight
    BY <1>0, <1>6, <2>1 DEF Closes, ClosesBy
  <2>2. CASE \E t \in Trades : position[t] = "closed" /\ PublishClose(t) /\ m = BrokerClose(t)
    BY <1>6, <2>2, CloseFacts
  <2>3. CASE \E t \in AutoTrades : PublishRowClosed(t) /\ m = HandClose(t)
    BY <2>3, CloseFacts
  <2> QED
    BY <1>6, <2>1, <2>2, <2>3, NewCloses
<1>7. writing'.topic = "TRADE_CLOSED" => writing'.by = "broker" /\ writing'.id = writing'.of
  <2>1. CASE writing' = writing \/ writing' = NoMessage
    BY <1>0, <2>1, ResultFacts DEF Closes
  <2>2. CASE TakeResult
    BY <2>2 DEF TakeResult
  <2>3. CASE TakeClose
    <3>1. Head(toKernel) \in InFlight /\ Head(toKernel).topic = "TRADE_CLOSED"
      BY <1>0, <2>3, TakeEffect DEF TakeClose, InFlight
    <3>2. writing' = NoMessage \/ (writing' = Head(toKernel) /\ writing'.id # None /\ writing'.by = "broker")
      BY <2>3 DEF TakeClose
    <3> QED
      BY <1>0, <3>1, <3>2, ResultFacts DEF Closes, ClosesBy
  <2>4. CASE KernelStep
    BY <2>1, <2>2, <2>3, <2>4
    DEF KernelStep, SaveDecision, SendOrder, BookApproval, WriteBack, ListenerDrops, KernelRestart,
        ledgerVars, kernelVars
  <2>5. CASE PageStep \/ \E t \in Trades : AskToCloseOpen(t)
    BY <2>1, <2>5
    DEF PageStep, ReadOpenRow, CloseRow, PublishRowClosed, ManualOrder, AskToCloseOpen, AskToClose, kernelVars
  <2> QED
    BY <2>1, <2>4, <2>5 DEF Next, vars, ledgerVars, kernelVars
<1> QED
  BY <1>5, <1>6, <1>7 DEF Closes, ClosesBy

\* The layer of the stages is inductive,
LEMMA OrderlyStep == TypeOK /\ Orderly /\ [Next]_vars => Orderly'
<1> SUFFICES ASSUME TypeOK, Orderly, [Next]_vars PROVE Orderly'
  OBVIOUS
<1>1. OrdersOnce'
  BY OrdersOnceStep
<1>2. Closes'
  BY ClosesStep
<1>3. Begun'
  BY BegunStep DEF Orderly
<1>4. ASSUME NEW u \in Trades PROVE Stages(u)'
  <2>1. CASE UNCHANGED vars
    <3>1. Ordered' = Ordered /\ InFlight' = InFlight
      BY <2>1, NothingOrdered, NothingSaid DEF vars, wires, ledgerVars, kernelVars
    <3>2. UNCHANGED <<position, outs, reported, task, outcome, handling, asked>>
      BY <2>1 DEF vars, bridgeVars, account, ledgerVars, rowVars, kernelVars
    <3>3. Stages(u)
      BY DEF Orderly
    <3> QED
      BY <3>1, <3>2, <3>3 DEF Stages, Fresh, NoResult, Placing, PlacedAlready, Marking
  <2> QED
    BY <2>1, BridgeStages, KernelStages DEF Next
<1> QED
  BY <1>1, <1>2, <1>3, <1>4 DEF Orderly

\* holds at first,
LEMMA OrderlyInit == Init => Orderly
<1> SUFFICES ASSUME Init PROVE Orderly
  OBVIOUS
<1>1. toBridge = <<>> /\ toKernel = <<>> /\ writing = NoMessage /\ task = Idle
  BY DEF Init, MessagesInit, LedgerInit, BridgeInit
<1>2. Ordered = {} /\ Said = {} /\ OrdersOnce
  BY <1>1, EmptySeq DEF Ordered, Said, OrdersOnce
<1>3. InFlight = {}
  BY <1>1, <1>2, ResultFacts DEF InFlight
<1>4. Closes
  BY <1>1, <1>3, ResultFacts DEF Closes, ClosesBy
<1>5. Begun
  BY DEF Begun, Init, LedgerInit
<1>6. ASSUME NEW t \in Trades PROVE Stages(t)
  BY <1>1, <1>2, <1>3
  DEF Stages, NoResult, Placing, PlacedAlready, Marking, Idle, Init, BridgeInit
<1> QED
  BY <1>2, <1>4, <1>5, <1>6 DEF Orderly

\* and always.
LEMMA LifecycleOrderly == Spec => []Orderly
<1>1. Init => Orderly
  BY OrderlyInit
<1>2. TypeOK /\ Orderly /\ [Next]_vars => Orderly'
  BY OrderlyStep
<1> QED
  BY <1>1, <1>2, LifecycleTyped, PTL DEF Spec

----------------------------------------------------------------------------
(* A close is counted once.                                                 *)

\* What was reported is in Redis' set, or about to be.
Noted(t) == t \notin outs \/ t \in reported \/ Marking(t)

\* Steps that bring no new word of a trade's close keep its count.
LEMMA CountsKept ==
  ASSUME NEW u \in Trades, Counts(u), u \in retold => u \in retold', counted'[u] = counted[u],
         \A i \in DOMAIN toKernel' :
           toKernel'[i].topic = "TRADE_CLOSED" /\ toKernel'[i].of = u
             => i \in DOMAIN toKernel /\ toKernel'[i] = toKernel[i],
         u \in AutoTrades /\ closing'[u] = "written" => closing[u] = "written" \/ u \in retold',
         position[u] = "closed" => position'[u] = "closed",
         position[u] = "closed" /\ Noted(u) => Noted(u)' \/ u \in retold'
  PROVE  Counts(u)'
<1> SUFFICES ASSUME u \notin retold' PROVE Counts(u)'
  BY DEF Counts
<1>1. \A m \in Said' : m.topic = "TRADE_CLOSED" /\ m.of = u => m \in Said
  BY DEF Said
<1>2. u \notin retold
  OBVIOUS
<1>3. counted[u].broker = 1 \/ (\E m \in Said : m.topic = "TRADE_CLOSED" /\ m.of = u)
        => position[u] = "closed" /\ Noted(u)
  BY <1>2 DEF Counts, Noted
<1>4. counted'[u].broker = 1 \/ (\E m \in Said' : m.topic = "TRADE_CLOSED" /\ m.of = u)
        => position'[u] = "closed" /\ Noted(u)'
  BY <1>1, <1>3
<1> QED
  BY <1>1, <1>2, <1>4 DEF Counts, Noted

\* A message that is not a close of the trade leaves its count alone.
LEMMA CountsTold ==
  ASSUME TypeOK, NEW u \in Trades, NEW m \in Reports, Tell(m), m.topic = "TRADE_CLOSED" => m.of # u,
         Counts(u), u \in retold => u \in retold', counted'[u] = counted[u],
         u \in AutoTrades /\ closing'[u] = "written" => closing[u] = "written" \/ u \in retold',
         position[u] = "closed" => position'[u] = "closed",
         position[u] = "closed" /\ Noted(u) => Noted(u)' \/ u \in retold'
  PROVE  Counts(u)'
<1>1. \A i \in DOMAIN toKernel' :
           toKernel'[i].topic = "TRADE_CLOSED" /\ toKernel'[i].of = u
             => i \in DOMAIN toKernel /\ toKernel'[i] = toKernel[i]
  BY TellEffect DEF TypeOK
<1> QED
  BY <1>1, CountsKept

\* The bridge publishes a close it has not reported; when it has, it notes so
\* or the trade is one whose close was retold.
LEMMA BridgeCounts ==
  ASSUME TypeOK, Orderly, NEW u \in Trades, Counts(u), UNCHANGED ledgerVars, [Next]_vars,
         BridgeStep \/ AccountStep \/ ReportedExpires \/ BridgeRestart
  PROVE  Counts(u)'
<1>0. counted' = counted /\ closing' = closing
  BY DEF ledgerVars
<1>1. position[u] = "closed" => position'[u] = "closed"
  BY PositionMoves
<1>2. ASSUME NEW t \in Trades, NEW ok \in BOOLEAN, OrderResult(t, ok),
             position[u] = "closed" /\ Noted(u) => Noted(u)'
      PROVE  Counts(u)'
  <2>1. CASE t \in AutoTrades /\ Tell(ResultOf(t, ok)) /\ UNCHANGED history
    BY <1>0, <1>1, <1>2, <2>1, CountsTold, ResultFacts DEF history
  <2>2. CASE toKernel' = toKernel /\ retold' = retold
    BY <1>0, <1>1, <1>2, <2>2, CountsKept
  <2> QED
    BY <1>2, <2>1, <2>2 DEF OrderResult, Report, ResultOf, history
<1>3. ASSUME UNCHANGED <<toKernel, retold>>, position[u] = "closed" /\ Noted(u) => Noted(u)'
      PROVE  Counts(u)'
  BY <1>0, <1>1, <1>3, CountsKept
<1>4. ASSUME UNCHANGED <<outs, reported>>, ~Marking(u) PROVE Noted(u) => Noted(u)'
  BY <1>4 DEF Noted
<1>5. ASSUME NEW t \in Trades, Refuse(t), task.step = "placing" PROVE Counts(u)'
  BY <1>2, <1>4, <1>5 DEF Refuse, account, Marking
<1>6. CASE TakeOrder \/ Rehydrate
  BY <1>3, <1>4, <1>6 DEF TakeOrder, Rehydrate, account, Marking, Idle, history
<1>7. ASSUME NEW o, position[o] = "open", ClosedByBridge(o), reported' = reported
      PROVE  position[u] = "closed" => (Noted(u) /\ ~Marking(u) => Noted(u)')
  BY <1>7 DEF ClosedByBridge, Noted
<1>8. CASE CloseRequest
  <2>1. UNCHANGED <<reported, toKernel, retold>> /\ ~Marking(u)
    BY <1>8 DEF CloseRequest, history, Marking, Idle
  <2> QED
    BY <1>3, <1>4, <1>7, <1>8, <2>1 DEF CloseRequest, account
<1>9. ASSUME NEW t \in Trades, NEW o \in Trades, MeetSame(t, o) PROVE Counts(u)'
  <2>1. task.step = "placing" /\ ~Marking(u)
    BY <1>9 DEF MeetSame, Placing, Marking
  <2> QED
    BY <1>3, <1>4, <1>5, <1>9, <2>1 DEF MeetSame, account, history
<1>10. ASSUME NEW t \in Trades, NEW o \in Trades, MeetOpposite(t, o) PROVE Counts(u)'
  <2>1. task.step = "placing" /\ ~Marking(u)
    BY <1>10 DEF MeetOpposite, Placing, Marking
  <2> QED
    BY <1>3, <1>5, <1>7, <1>10, <2>1 DEF MeetOpposite, history
<1>11. ASSUME NEW t \in Trades, PlaceFails(t) PROVE Counts(u)'
  BY <1>5, <1>11 DEF PlaceFails, Placing
<1>12. ASSUME NEW t \in Trades, Place(t) PROVE Counts(u)'
  BY <1>3, <1>4, <1>12 DEF Place, Placing, Marking, history
<1>13. ASSUME NEW t \in Trades, Placed(t) PROVE Counts(u)'
  BY <1>2, <1>4, <1>13 DEF Placed, Marking, account
<1>14. ASSUME NEW t \in Trades, PublishClose(t), task = Idle, retold \subseteq retold', t # u
       PROVE  Counts(u)'
  <2>1. Tell(BrokerClose(t)) /\ BrokerClose(t) \in Reports /\ BrokerClose(t).of = t
    BY <1>14, CloseFacts DEF PublishClose, BrokerClose
  <2>2. UNCHANGED <<outs, reported>> /\ ~Marking(u)
    BY <1>14 DEF PublishClose, account, Marking, Idle
  <2> QED
    BY <1>0, <1>1, <1>4, <1>14, <2>1, <2>2, CountsTold
<1>15. CASE ReportClose
  <2>1. PICK t \in Unreported : PublishClose(t)
    BY <1>15 DEF ReportClose
  <2>2. t \in Trades /\ task = Idle /\ retold' = retold /\ position[t] = "closed"
    BY <1>15 DEF ReportClose, Unreported, TypeOK, BridgeTypeOK, history
  <2>3. CASE t # u
    BY <1>14, <2>1, <2>2, <2>3
  <2>4. CASE t = u /\ u \notin retold
    <3>1. ~Marking(u) /\ u \in outs /\ u \notin reported
      BY <2>2, <2>4 DEF Marking, Idle, Unreported
    <3>2. /\ counted[u].hand = 0 /\ counted[u].broker <= 1 /\ counted[u].broker # 1
          /\ \A m \in Said : ~(m.topic = "TRADE_CLOSED" /\ m.of = u)
          /\ u \in AutoTrades => closing[u] # "written"
      BY <2>4, <3>1 DEF Counts
    <3>3. counted[u].broker \in Nat
      BY DEF TypeOK, LedgerTypeOK
    <3>4. counted[u].broker = 0
      BY <3>2, <3>3
    <3>5. \A i \in DOMAIN toKernel : ~(toKernel[i].topic = "TRADE_CLOSED" /\ toKernel[i].of = u)
      <4>1. \A i \in DOMAIN toKernel : toKernel[i] \in Reports
        BY LenProperties, ElementOfSeq DEF TypeOK, MessagesTypeOK
      <4> QED
        BY <3>2, <4>1 DEF Said
    <3>6. Said' = Said \cup {BrokerClose(u)}
      BY <2>1, <2>2, <2>4, PublishCloseEffect DEF TypeOK
    <3>7. \A i \in DOMAIN toKernel' : toKernel'[i].topic = "TRADE_CLOSED" /\ toKernel'[i].of = u
                                        => i = Len(toKernel) + 1
      <4>1. Tell(BrokerClose(u)) /\ BrokerClose(u) \in Reports
        BY <2>1, <2>4, CloseFacts DEF PublishClose, BrokerClose
      <4> QED
        BY <3>5, <4>1, TellEffect DEF TypeOK
    <3>8. position'[u] = "closed" /\ Marking(u)' /\ retold' = retold
      BY <1>1, <2>1, <2>2, <2>4 DEF PublishClose, Marking
    <3> QED
      BY <1>0, <3>2, <3>4, <3>6, <3>7, <3>8, CloseFacts DEF Counts
  <2>5. CASE u \in retold
    BY <2>2, <2>5 DEF Counts
  <2> QED
    BY <2>3, <2>4, <2>5
<1>16. CASE ReportBlindly
  <2>1. PICK t \in outs \cap reported : PublishClose(t) /\ retold' = retold \cup {t}
    BY <1>16 DEF ReportBlindly
  <2>2. CASE t # u
    BY <1>14, <1>16, <2>1, <2>2 DEF ReportBlindly, TypeOK, BridgeTypeOK
  <2>3. CASE t = u
    BY <2>1, <2>3 DEF Counts
  <2> QED
    BY <2>2, <2>3
<1>17. CASE MarkReported
  <2>1. Noted(u) => Noted(u)' \/ u \in retold'
    BY <1>17 DEF MarkReported, Noted, Marking, account
  <2>2. toKernel' = toKernel /\ retold \subseteq retold'
    BY <1>17 DEF MarkReported, history
  <2> QED
    BY <1>0, <1>1, <2>1, <2>2, CountsKept
<1>18. CASE AccountStep
  <2>1. PICK t \in Trades : StopOrTarget(t) \/ ClosedInTerminal(t)
    BY <1>18 DEF AccountStep
  <2>2. UNCHANGED <<toKernel, retold, task, reported>> /\ position[t] = "open" /\ outs' \subseteq outs \cup {t}
    BY <2>1 DEF StopOrTarget, ClosedInTerminal, history
  <2>3. position[u] = "closed" /\ Noted(u) => Noted(u)'
    BY <2>2 DEF Noted, Marking
  <2> QED
    BY <1>3, <2>2, <2>3
<1>19. CASE ReportedExpires
  <2>1. toKernel' = toKernel /\ retold' = retold \cup outs /\ outs' = outs
    BY <1>19 DEF ReportedExpires, account
  <2>2. Noted(u)' \/ u \in retold'
    BY <2>1 DEF Noted
  <2> QED
    BY <1>0, <1>1, <2>1, <2>2, CountsKept
<1>20. CASE BridgeRestart
  <2>1. toKernel' = toKernel /\ retold \subseteq retold' /\ outs' \subseteq outs /\ reported' = reported
    BY <1>20 DEF BridgeRestart
  <2>2. Marking(u) => u \in retold'
    BY <1>20 DEF BridgeRestart, Marking
  <2>3. Noted(u) => Noted(u)' \/ u \in retold'
    BY <2>1, <2>2 DEF Noted
  <2> QED
    BY <1>0, <1>1, <2>1, <2>3, CountsKept
<1> QED
  BY <1>6, <1>8, <1>9, <1>10, <1>11, <1>12, <1>13, <1>15, <1>16, <1>17, <1>18, <1>19, <1>20
  DEF BridgeStep

\* Of what is left in the queue, a close stands there once as before.
LEMMA OneLeft ==
  ASSUME TypeOK, toKernel # <<>>, toKernel' = Tail(toKernel), NEW u,
         \A i, j \in DOMAIN toKernel :
           /\ toKernel[i].topic = "TRADE_CLOSED" /\ toKernel[j].topic = "TRADE_CLOSED"
           /\ toKernel[i].of = u /\ toKernel[j].of = u
           => i = j
  PROVE  /\ \A i, j \in DOMAIN toKernel' :
              /\ toKernel'[i].topic = "TRADE_CLOSED" /\ toKernel'[j].topic = "TRADE_CLOSED"
              /\ toKernel'[i].of = u /\ toKernel'[j].of = u
              => i = j
         /\ Head(toKernel).topic = "TRADE_CLOSED" /\ Head(toKernel).of = u =>
              \A m \in Said' : ~(m.topic = "TRADE_CLOSED" /\ m.of = u)
<1>1. /\ 1 \in DOMAIN toKernel /\ Head(toKernel) = toKernel[1]
      /\ \A i \in DOMAIN toKernel' : /\ i \in Nat /\ i + 1 # 1 /\ i + 1 \in DOMAIN toKernel
                                     /\ toKernel'[i] = toKernel[i + 1]
  BY TakeEffect DEF TypeOK
<1>2. ASSUME NEW i \in DOMAIN toKernel', NEW j \in DOMAIN toKernel',
             toKernel'[i].topic = "TRADE_CLOSED", toKernel'[j].topic = "TRADE_CLOSED",
             toKernel'[i].of = u, toKernel'[j].of = u
      PROVE  i = j
  <2>1. i + 1 = j + 1
    BY <1>1, <1>2
  <2> QED
    BY <1>1, <2>1
<1>3. ASSUME Head(toKernel).topic = "TRADE_CLOSED", Head(toKernel).of = u, NEW m \in Said',
             m.topic = "TRADE_CLOSED", m.of = u
      PROVE  FALSE
  <2>1. PICK i \in DOMAIN toKernel' : toKernel'[i] = m
    BY DEF Said
  <2>2. i + 1 = 1
    BY <1>1, <1>3, <2>1
  <2> QED
    BY <1>1, <2>2
<1> QED
  BY <1>2, <1>3

\* The kernel takes a close and counts it; the page's own is a retelling.
LEMMA KernelCounts ==
  ASSUME TypeOK, Orderly, NEW u \in Trades, \A t \in Trades : Counts(t), UNCHANGED bridgeVars,
         KernelStep \/ PageStep \/ \E t \in Trades : AskToCloseOpen(t)
  PROVE  Counts(u)'
<1>0. Counts(u)
  OBVIOUS
<1>1. UNCHANGED <<position, outs, reported, task>> /\ Noted(u)' = Noted(u)
  BY DEF bridgeVars, account, Noted, Marking
<1>2. ASSUME UNCHANGED <<toKernel, counted, retold>>,
             u \in AutoTrades /\ closing'[u] = "written" => closing[u] = "written"
      PROVE  Counts(u)'
  BY <1>0, <1>1, <1>2, CountsKept
<1>3. ASSUME NEW t \in AutoTrades, SaveDecision(t) \/ SendOrder(t) \/ BookApproval(t)
      PROVE  Counts(u)'
  BY <1>2, <1>3 DEF SaveDecision, SendOrder, BookApproval, wires, history
<1>4. CASE WriteBack
  BY <1>2, <1>4 DEF WriteBack, wires, history
<1>5. ASSUME NEW t \in AutoTrades, ReadOpenRow(t) PROVE Counts(u)'
  <2>1. u \in AutoTrades /\ closing'[u] = "written" => closing[u] = "written"
    BY <1>5 DEF ReadOpenRow, TypeOK, LedgerTypeOK
  <2> QED
    BY <1>2, <1>5, <2>1 DEF ReadOpenRow, Press, wires
<1>6. ASSUME NEW t \in AutoTrades, CloseRow(t) PROVE Counts(u)'
  <2>1. u \in AutoTrades /\ closing'[u] = "written" => closing[u] = "written" \/ u \in retold'
    BY <1>6 DEF CloseRow, TypeOK, LedgerTypeOK
  <2>2. UNCHANGED <<toKernel, counted>> /\ retold \subseteq retold'
    BY <1>6 DEF CloseRow, wires
  <2> QED
    BY <1>0, <1>1, <2>1, <2>2, CountsKept
<1>7. ASSUME NEW t \in AutoTrades, PublishRowClosed(t) PROVE Counts(u)'
  <2>1. t \in Trades /\ counted' = counted /\ retold' = retold
    BY <1>7 DEF PublishRowClosed, AutoTrades, history
  <2>2. u \in AutoTrades /\ closing'[u] = "written" => closing[u] = "written"
    BY <1>7 DEF PublishRowClosed, TypeOK, LedgerTypeOK
  <2>3. CASE u = t
    <3>1. t \in retold
      BY <1>7, <2>1 DEF PublishRowClosed, Counts
    <3> QED
      BY <2>1, <2>3, <3>1 DEF Counts
  <2>4. CASE u # t /\ Tell(HandClose(t))
    BY <1>0, <1>1, <2>1, <2>2, <2>4, CountsTold, CloseFacts
  <2>5. CASE toKernel' = toKernel
    BY <1>2, <2>1, <2>2, <2>5
  <2> QED
    BY <1>7, <2>3, <2>4, <2>5 DEF PublishRowClosed, HandClose
<1>8. ASSUME NEW t \in Manual, ManualOrder(t) PROVE Counts(u)'
  BY <1>2, <1>8 DEF ManualOrder, Press
<1>9. ASSUME NEW t \in Trades, AskToCloseOpen(t) PROVE Counts(u)'
  BY <1>2, <1>9 DEF AskToCloseOpen, AskToClose, Press
<1>10. CASE ListenerDrops \/ KernelRestart
  <2>1. UNCHANGED <<counted, retold, closing>> /\ DOMAIN toKernel' = {}
    BY <1>10, SilenceEffect DEF ListenerDrops, KernelRestart, ledgerVars
  <2> QED
    BY <1>0, <1>1, <2>1, CountsKept
<1>11. CASE TakeResult \/ TakeClose
  <2> DEFINE h == Head(toKernel)
  <2>1. /\ toKernel # <<>> /\ toKernel' = Tail(toKernel)
        /\ retold' = retold /\ closing' = closing
    BY <1>11 DEF TakeResult, TakeClose, history
  <2>2. h \in Said /\ h \in Reports /\ Said' \subseteq Said
    BY <2>1, TakeEffect DEF TypeOK
  <2>3. counted' = counted \/ counted' = [counted EXCEPT ![h.of][h.by] = @ + 1]
    BY <1>11 DEF TakeResult, TakeClose
  <2>4. counted' # counted => h.topic = "TRADE_CLOSED" /\ h.of \in Trades /\ h.by \in {"broker", "hand"}
    BY <1>11, <2>2, ReportKinds DEF TakeResult, TakeClose
  <2> SUFFICES ASSUME u \notin retold PROVE Counts(u)'
    BY <2>1 DEF Counts
  <2>5. /\ counted[u].hand = 0 /\ counted[u].broker <= 1
        /\ \A m \in Said : m.topic = "TRADE_CLOSED" /\ m.of = u => m.by = "broker" /\ counted[u].broker = 0
        /\ u \in AutoTrades => closing[u] # "written"
        /\ counted[u].broker = 1 \/ (\E m \in Said : m.topic = "TRADE_CLOSED" /\ m.of = u)
             => position[u] = "closed" /\ Noted(u)
    BY <1>0 DEF Counts, Noted
  <2>6. \A i, j \in DOMAIN toKernel' :
          /\ toKernel'[i].topic = "TRADE_CLOSED" /\ toKernel'[j].topic = "TRADE_CLOSED"
          /\ toKernel'[i].of = u /\ toKernel'[j].of = u
          => i = j
    BY <1>0, <2>1, OneLeft DEF Counts
  <2>7. h.topic = "TRADE_CLOSED" /\ h.of = u => \A m \in Said' : ~(m.topic = "TRADE_CLOSED" /\ m.of = u)
    BY <1>0, <2>1, OneLeft DEF Counts
  <2> HIDE DEF h
  <2>8. CASE counted' # counted /\ h.of = u
    <3>1. h.topic = "TRADE_CLOSED" /\ h.by = "broker" /\ counted[u].broker = 0
      BY <2>2, <2>4, <2>5, <2>8
    <3>2. counted'[u] = [counted[u] EXCEPT !["broker"] = @ + 1]
      BY <2>3, <2>4, <2>8, <3>1 DEF TypeOK, LedgerTypeOK
    <3>3. counted'[u].broker = 1 /\ counted'[u].hand = 0
      BY <2>5, <3>1, <3>2 DEF TypeOK, LedgerTypeOK
    <3>4. position[u] = "closed" /\ Noted(u)
      BY <2>2, <2>5, <2>8, <3>1
    <3> QED
      BY <1>1, <2>1, <2>5, <2>6, <2>7, <2>8, <3>1, <3>3, <3>4 DEF Counts, Noted
  <2>9. CASE ~(counted' # counted /\ h.of = u)
    <3>1. counted'[u] = counted[u]
      BY <2>3, <2>4, <2>9 DEF TypeOK, LedgerTypeOK
    <3> QED
      BY <1>1, <2>1, <2>2, <2>5, <2>6, <3>1 DEF Counts, Noted
  <2> QED
    BY <2>8, <2>9
<1> QED
  BY <1>3, <1>4, <1>5, <1>6, <1>7, <1>8, <1>9, <1>10, <1>11 DEF KernelStep, PageStep

\* The layer of the counts.
LEMMA CountsStep == TypeOK /\ Orderly /\ (\A t \in Trades : Counts(t)) /\ [Next]_vars
                      => \A t \in Trades : Counts(t)'
<1> SUFFICES ASSUME TypeOK, Orderly, \A t \in Trades : Counts(t), [Next]_vars, NEW u \in Trades
             PROVE  Counts(u)'
  OBVIOUS
<1>1. CASE UNCHANGED vars
  <2>1. UNCHANGED <<retold, counted, toKernel, closing, position, outs, reported, task>>
    BY <1>1 DEF vars, bridgeVars, account, ledgerVars, wires, history
  <2> QED
    BY <2>1, CountsKept DEF Noted, Marking
<1> QED
  BY <1>1, BridgeCounts, KernelCounts DEF Next

\* A close enters the day's profit and loss twice only when the bridge could
\* not ask or note what it had reported, or the row was closed by hand.
THEOREM ClosesAreCountedOnce == Spec => []CountedOnce
<1> DEFINE Counting == \A t \in Trades : Counts(t)
<1>1. Init => Counting
  <2> SUFFICES ASSUME Init, NEW t \in Trades PROVE Counts(t)
    OBVIOUS
  <2>1. Said = {} /\ DOMAIN toKernel = {}
    BY EmptySeq DEF Init, MessagesInit, Said
  <2>2. counted[t].hand = 0 /\ counted[t].broker = 0 /\ (t \in AutoTrades => closing[t] # "written")
    BY DEF Init, LedgerInit
  <2> QED
    BY <2>1, <2>2 DEF Counts
<1>2. TypeOK /\ Orderly /\ Counting /\ [Next]_vars => Counting'
  BY CountsStep
<1>3. TypeOK /\ Counting => CountedOnce
  <2> SUFFICES ASSUME TypeOK, Counting, NEW t \in Trades, t \notin retold
               PROVE  ~(counted[t].broker + counted[t].hand > 1)
    BY DEF CountedOnce
  <2>1. counted[t].hand = 0 /\ counted[t].broker <= 1 /\ counted[t].broker \in Nat
    BY DEF Counts, TypeOK, LedgerTypeOK
  <2> QED
    BY <2>1
<1> HIDE DEF Counting
<1> QED
  BY <1>1, <1>2, <1>3, LifecycleTyped, LifecycleOrderly, PTL DEF Spec

----------------------------------------------------------------------------
(* The rows, and what the kernel watches.                                   *)

\* What was lost stays lost.
LEMMA LossesStay ==
  ASSUME [Next]_vars
  PROVE  lostAbout \subseteq lostAbout'
<1>1. \A t, ok : OrderResult(t, ok) => lostAbout \subseteq lostAbout'
  BY DEF OrderResult, Report, history, Loses
<1>2. \A t : Refuse(t) \/ Placed(t) \/ Place(t) => lostAbout \subseteq lostAbout'
  BY <1>1 DEF Refuse, Placed, Place, history
<1>3. \A t, o : MeetSame(t, o) \/ MeetOpposite(t, o) \/ PlaceFails(t) => lostAbout \subseteq lostAbout'
  BY <1>2 DEF MeetSame, MeetOpposite, PlaceFails, history
<1>4. TakeOrder \/ CloseRequest \/ Rehydrate \/ ReportClose \/ ReportBlindly \/ MarkReported
        => lostAbout \subseteq lostAbout'
  BY DEF TakeOrder, CloseRequest, Rehydrate, ReportClose, ReportBlindly, MarkReported, history
<1>5. AccountStep \/ ReportedExpires \/ BridgeRestart => lostAbout \subseteq lostAbout'
  BY DEF AccountStep, StopOrTarget, ClosedInTerminal, ReportedExpires, BridgeRestart, history, Loses
<1>6. KernelStep => lostAbout \subseteq lostAbout'
  BY DEF KernelStep, SaveDecision, SendOrder, BookApproval, TakeResult, TakeClose, WriteBack,
         ListenerDrops, KernelRestart, history, Loses
<1>7. PageStep \/ (\E t \in Trades : AskToCloseOpen(t)) => lostAbout \subseteq lostAbout'
  BY DEF PageStep, ReadOpenRow, CloseRow, PublishRowClosed, ManualOrder, AskToCloseOpen, AskToClose,
         Press, history, Loses
<1>8. UNCHANGED vars => lostAbout \subseteq lostAbout'
  BY DEF vars, history
<1> QED
  BY <1>2, <1>3, <1>4, <1>5, <1>6, <1>7, <1>8 DEF Next, BridgeStep

\* The bridge takes on nothing that was not ordered.
LEMMA BridgeComing ==
  ASSUME TypeOK, Orderly, NEW u \in Trades, Coming(u)',
         BridgeStep \/ AccountStep \/ ReportedExpires \/ BridgeRestart
  PROVE  Coming(u)
<1>0. MessagesTypeOK /\ BridgeTypeOK /\ OrdersOnce
  BY DEF TypeOK, Orderly
<1>1. CASE toBridge' = toBridge /\ (Placing(u)' => Placing(u))
  BY <1>1, NothingOrdered DEF Coming
<1>2. ASSUME NEW t, Refuse(t) PROVE Coming(u)
  BY <1>1, <1>2 DEF Refuse, Placing, Idle
<1>3. CASE TakeOrder
  <2>1. Head(toBridge).of \in Ordered /\ Ordered' \subseteq Ordered
    BY <1>0, <1>3, BridgeTakes DEF TakeOrder
  <2> QED
    BY <1>3, <2>1 DEF TakeOrder, Coming, Placing
<1>4. CASE CloseRequest
  <2>1. Ordered' = Ordered /\ task' = task
    BY <1>0, <1>4, BridgeTakes DEF CloseRequest
  <2> QED
    BY <2>1 DEF Coming, Placing
<1>5. ASSUME NEW t \in Trades, NEW o \in Trades, MeetSame(t, o) \/ MeetOpposite(t, o)
      PROVE  Coming(u)
  <2>1. CASE toBridge' = toBridge /\ task' = [task EXCEPT !.todo = @ \ {o}]
    <3>1. Placing(t) /\ task'.of = task.of
      BY <1>0, <1>5, <2>1 DEF MeetSame, MeetOpposite, Placing, BridgeTypeOK, Tasks, Idle
    <3> QED
      BY <1>1, <2>1, <3>1 DEF Placing
  <2> QED
    BY <1>2, <1>5, <2>1 DEF MeetSame, MeetOpposite
<1>6. ASSUME NEW t \in Trades, PlaceFails(t) \/ Place(t) \/ Placed(t) PROVE Coming(u)
  <2>1. Place(t) => toBridge' = toBridge /\ task'.step # "placing"
    BY DEF Place
  <2>2. Placed(t) => toBridge' = toBridge /\ task'.step # "placing"
    BY DEF Placed, Idle
  <2> QED
    BY <1>1, <1>2, <1>6, <2>1, <2>2 DEF PlaceFails, Placing
<1>7. \A t : PublishClose(t) => toBridge' = toBridge /\ ~Placing(u)'
  BY DEF PublishClose, Placing
<1>8. CASE Rehydrate \/ ReportClose \/ ReportBlindly \/ MarkReported
  BY <1>1, <1>7, <1>8 DEF Rehydrate, ReportClose, ReportBlindly, MarkReported, Placing, Idle
<1>9. CASE AccountStep \/ ReportedExpires
  BY <1>1, <1>9 DEF AccountStep, StopOrTarget, ClosedInTerminal, ReportedExpires, Placing
<1>10. CASE BridgeRestart
  <2>1. Ordered' = {} /\ task' = Idle
    BY <1>10, EmptySeq DEF BridgeRestart, Ordered
  <2> QED
    BY <2>1 DEF Coming, Placing, Idle
<1> QED
  BY <1>3, <1>4, <1>5, <1>6, <1>8, <1>9, <1>10 DEF BridgeStep

\* The kernel orders nothing but what it has saved.
LEMMA KernelComing ==
  ASSUME TypeOK, Orderly, NEW u \in AutoTrades, UNCHANGED bridgeVars, Coming(u)',
         KernelStep \/ PageStep \/ \E t \in Trades : AskToCloseOpen(t)
  PROVE  Coming(u) \/ (SendOrder(u) /\ handling' # NotHandling)
<1>0. MessagesTypeOK /\ LedgerTypeOK
  BY DEF TypeOK
<1>1. Placing(u)' = Placing(u)
  BY DEF bridgeVars, Placing
<1>2. CASE toBridge' = toBridge
  BY <1>1, <1>2, NothingOrdered DEF Coming
<1>3. ASSUME NEW t \in AutoTrades, SendOrder(t), toBridge' # toBridge
      PROVE  Coming(u) \/ (SendOrder(u) /\ handling' # NotHandling)
  <2> DEFINE m == [topic |-> "TRADE_APPROVED", of |-> t]
  <2>1. m \in Orders /\ m.of = t /\ m.topic = "TRADE_APPROVED" /\ Order(m)
    BY <1>3 DEF Orders, SendOrder, AutoTrades
  <2> HIDE DEF m
  <2>2. Ordered' = Ordered \cup {t}
    BY <1>0, <2>1, OrderEffect
  <2>3. handling' # NotHandling
    BY <1>0, <1>3, HandlingKinds DEF SendOrder, NotHandling
  <2> QED
    BY <1>1, <1>3, <2>2, <2>3 DEF Coming
<1>4. ASSUME NEW t \in Manual, ManualOrder(t) PROVE Coming(u)
  <2> DEFINE m == [topic |-> "TRADE_APPROVED", of |-> t]
  <2>1. m \in Orders /\ m.of = t /\ m.topic = "TRADE_APPROVED" /\ Order(m) /\ t # u
    BY <1>4, BridgeAssumption DEF Orders, ManualOrder, AutoTrades, BridgeAssumption
  <2> HIDE DEF m
  <2>2. Ordered' = Ordered \cup {t}
    BY <1>0, <2>1, OrderEffect
  <2> QED
    BY <1>1, <2>1, <2>2 DEF Coming
<1>5. ASSUME NEW t \in Trades, AskToCloseOpen(t) PROVE Coming(u)
  <2> DEFINE m == [topic |-> "MT5_CLOSE_REQUEST", of |-> t]
  <2>1. m \in Orders /\ m.topic # "TRADE_APPROVED" /\ Order(m)
    BY <1>5 DEF Orders, AskToCloseOpen, AskToClose
  <2> HIDE DEF m
  <2>2. Ordered' = Ordered
    BY <1>0, <2>1, OrderEffect
  <2> QED
    BY <1>1, <2>2 DEF Coming
<1>6. \A t : SaveDecision(t) \/ BookApproval(t) => toBridge' = toBridge
  BY DEF SaveDecision, BookApproval, wires
<1>7. TakeResult \/ TakeClose \/ WriteBack \/ ListenerDrops \/ KernelRestart => toBridge' = toBridge
  BY DEF TakeResult, TakeClose, WriteBack, ListenerDrops, KernelRestart, wires
<1>8. \A t : ReadOpenRow(t) \/ CloseRow(t) \/ PublishRowClosed(t) => toBridge' = toBridge
  BY DEF ReadOpenRow, CloseRow, PublishRowClosed, wires
<1> QED
  BY <1>2, <1>3, <1>4, <1>5, <1>6, <1>7, <1>8 DEF KernelStep, PageStep

\* What a step of the bridge or the account does to a row: nothing.
LEMMA BridgeBooks ==
  ASSUME TypeOK, Orderly, [Next]_vars, UNCHANGED ledgerVars, NEW u \in AutoTrades,
         BridgeStep \/ AccountStep \/ ReportedExpires \/ BridgeRestart
  PROVE  /\ Booked(u) => Booked(u)'
         /\ Watched(u) => Watched(u)'
<1>0. u \in Trades
  BY DEF AutoTrades
<1>1. UNCHANGED <<outcome, money, closing, handling, tracked, leftOut>>
  BY DEF ledgerVars, rowVars, kernelVars
<1>2. Coming(u)' => Coming(u)
  BY <1>0, BridgeComing
<1>3. position'[u] = "open" => position[u] = "open" \/ Coming(u)
  BY <1>0, PositionMoves DEF Place, Coming
<1>4. /\ position'[u] # "none" => position[u] # "none" \/ Coming(u)
      /\ position[u] = "closed" => position'[u] = "closed"
  BY <1>0, PositionMoves DEF Place, Coming
<1>5. \A m \in InFlight' : m.topic = "TRADE_CLOSED" /\ m.by = "hand" => m \in InFlight
  <2>1. \A t \in AutoTrades : ~PublishRowClosed(t)
    <3>1. ASSUME NEW t \in AutoTrades, PublishRowClosed(t) PROVE FALSE
      <4>1. closing[t] = "written" /\ closing'[t] = "no"
        BY <3>1 DEF PublishRowClosed, TypeOK, LedgerTypeOK
      <4> QED
        BY <1>1, <4>1
    <3> QED
      BY <3>1
  <2>2. \A t \in Trades : BrokerClose(t).by # "hand"
    BY CloseFacts
  <2> QED
    BY <2>1, <2>2, NewCloses
<1>6. ASSUME Booked(u) PROVE Booked(u)'
  <2>1. position'[u] # "none" \/ Coming(u)' => outcome'[u] = "APPROVED"
    BY <1>1, <1>2, <1>4, <1>6 DEF Booked
  <2>2. \A m \in ClosesBy("hand")' : m.of = u => money'[u] # "none"
    BY <1>1, <1>5, <1>6 DEF Booked, ClosesBy
  <2> QED
    BY <1>1, <1>4, <1>6, <2>1, <2>2 DEF Booked
<1>7. ASSUME Watched(u) PROVE Watched(u)'
  <2>1. u \notin lostAbout' => u \notin lostAbout
    BY LossesStay
  <2> QED
    BY <1>1, <1>2, <1>3, <1>7, <2>1 DEF Watched, OpenRows, Handled
<1> QED
  BY <1>6, <1>7

\* The kernel and the page write rows at the stages that the invariant names.
LEMMA KernelBooks ==
  ASSUME TypeOK, Orderly, [Next]_vars, UNCHANGED bridgeVars, NEW u \in AutoTrades, Booked(u),
         KernelStep \/ PageStep \/ \E t \in Trades : AskToCloseOpen(t)
  PROVE  /\ Booked(u)'
         /\ Watched(u) => Watched(u)'
<1>0. u \in Trades /\ LedgerTypeOK /\ MessagesTypeOK /\ Stages(u) /\ lostAbout \subseteq lostAbout'
  BY LossesStay DEF AutoTrades, TypeOK, Orderly
<1>1. position' = position
  BY DEF bridgeVars, account
<1>2. Coming(u)' => Coming(u) \/ (SendOrder(u) /\ handling' # NotHandling)
  BY KernelComing
<1>3. \A m \in InFlight' : m.topic = "TRADE_CLOSED" /\ m.by = "hand" =>
        m \in InFlight \/ \E t \in AutoTrades : PublishRowClosed(t) /\ m.of = t
  <2>1. \A t : BrokerClose(t).by # "hand" /\ HandClose(t).of = t
    BY CloseFacts
  <2> QED
    BY <2>1, NewCloses
<1>4. ASSUME UNCHANGED <<outcome, money, closing>>,
             Coming(u)' => Coming(u), handling' = handling \/ handling' = NotHandling,
             \A t \in AutoTrades : ~PublishRowClosed(t)
      PROVE  Booked(u)'
  <2>1. \A m \in ClosesBy("hand")' : m.of = u => money'[u] # "none"
    BY <1>3, <1>4 DEF Booked, ClosesBy
  <2>2. handling' = [step |-> "saved", of |-> u] => handling = [step |-> "saved", of |-> u]
    BY <1>4 DEF NotHandling
  <2> QED
    BY <1>1, <1>4, <2>1, <2>2 DEF Booked
<1>5. \A t \in AutoTrades : PublishRowClosed(t) => closing[t] = "written" /\ closing'[t] = "no"
  BY <1>0 DEF PublishRowClosed, LedgerTypeOK
<1>6. ASSUME NEW t \in AutoTrades, SaveDecision(t)
      PROVE  Booked(u)' /\ (Watched(u) => Watched(u)')
  <2>1. /\ UNCHANGED <<money, closing, tracked, leftOut>> /\ toBridge' = toBridge
        /\ handling = NotHandling /\ handling' = [step |-> "saved", of |-> t]
        /\ outcome[t] = "none" /\ outcome' = [outcome EXCEPT ![t] = "APPROVED"]
    BY <1>6 DEF SaveDecision, wires
  <2>2. Coming(u)' => Coming(u)
    BY <2>1, NothingOrdered DEF Coming, Placing, bridgeVars
  <2>3. \A m \in ClosesBy("hand")' : m.of = u => money'[u] # "none"
    BY <1>3, <1>5, <2>1 DEF Booked, ClosesBy
  <2>4. CASE u = t
    <3>1. outcome'[u] = "APPROVED"
      BY <1>0, <2>1, <2>4 DEF LedgerTypeOK
    <3>2. Booked(u)'
      BY <1>1, <2>1, <2>3, <3>1 DEF Booked
    <3>3. Handled(u)'
      BY <2>1, <2>4 DEF Handled, NotHandling
    <3> QED
      BY <3>2, <3>3 DEF Watched
  <2>5. CASE u # t
    <3>1. outcome'[u] = outcome[u]
      BY <1>0, <2>1, <2>5 DEF LedgerTypeOK
    <3>2. Booked(u)'
      BY <1>1, <2>1, <2>2, <2>3, <2>5, <3>1 DEF Booked
    <3>3. Watched(u) => Watched(u)'
      BY <1>0, <1>1, <2>1, <2>2, <3>1 DEF Watched, OpenRows, Handled
    <3> QED
      BY <3>2, <3>3
  <2> QED
    BY <2>4, <2>5
<1>7. ASSUME NEW t \in AutoTrades, SendOrder(t)
      PROVE  Booked(u)' /\ (Watched(u) => Watched(u)')
  <2>1. UNCHANGED <<outcome, money, closing, tracked, leftOut>> /\ handling = [step |-> "saved", of |-> t]
    BY <1>0, <1>7, HandlingKinds DEF SendOrder, rowVars
  <2>2. \/ handling' = [step |-> "published", of |-> t]
        \/ handling' = NotHandling /\ toBridge' = toBridge /\ t \in lostAbout'
    BY <1>7, <2>1 DEF SendOrder, Loses
  <2>3. \A m \in ClosesBy("hand")' : m.of = u => money'[u] # "none"
    BY <1>3, <1>5, <2>1 DEF Booked, ClosesBy
  <2>4. SendOrder(u) => u = t
    BY <2>1 DEF SendOrder
  <2>5. handling' # [step |-> "saved", of |-> u]
    BY <2>2 DEF NotHandling
  <2>6. Booked(u)'
    BY <1>1, <1>2, <2>1, <2>3, <2>4, <2>5 DEF Booked
  <2>7. CASE u = t
    <3>1. Handled(u)' \/ u \in lostAbout'
      BY <2>2, <2>7 DEF Handled, NotHandling
    <3> QED
      BY <2>6, <3>1 DEF Watched
  <2>8. CASE u # t
    <3>1. ~Handled(u)
      BY <2>1, <2>8 DEF Handled
    <3> QED
      BY <1>0, <1>1, <1>2, <2>1, <2>4, <2>6, <2>8, <3>1 DEF Watched, OpenRows
  <2> QED
    BY <2>7, <2>8
<1>8. ASSUME NEW t \in AutoTrades, BookApproval(t)
      PROVE  Booked(u)' /\ (Watched(u) => Watched(u)')
  <2>1. /\ UNCHANGED <<outcome, money, closing, leftOut, toBridge>> /\ handling' = NotHandling
        /\ tracked' = tracked \cup {t} /\ handling.of = t
    BY <1>8 DEF BookApproval, rowVars, wires
  <2>2. Coming(u)' => Coming(u)
    BY <2>1, NothingOrdered DEF Coming, Placing, bridgeVars
  <2>3. ASSUME NEW t2 \in AutoTrades PROVE ~PublishRowClosed(t2)
    BY <1>5, <2>1
  <2>4. Booked(u)'
    BY <1>4, <2>1, <2>2, <2>3
  <2> QED
    BY <1>0, <1>1, <2>1, <2>2, <2>4 DEF Watched, OpenRows, Handled
<1>9. CASE TakeResult \/ TakeClose \/ ListenerDrops \/ KernelRestart
  <2>1. /\ UNCHANGED <<outcome, money, closing, toBridge>>
        /\ handling' = handling \/ handling' = NotHandling
    BY <1>9 DEF TakeResult, TakeClose, ListenerDrops, KernelRestart, ledgerVars, rowVars, kernelVars
  <2>2. Coming(u)' => Coming(u)
    BY <2>1, NothingOrdered DEF Coming, Placing, bridgeVars
  <2>3. ASSUME NEW t2 \in AutoTrades PROVE ~PublishRowClosed(t2)
    BY <1>5, <2>1
  <2>4. Booked(u)'
    BY <1>4, <2>1, <2>2, <2>3
  <2>5. OpenRows' = OpenRows
    BY <2>1 DEF OpenRows
  <2>6. CASE KernelRestart
    BY <1>0, <2>4, <2>5, <2>6, RestartReads DEF Watched
  <2>7. CASE ListenerDrops
    BY <1>0, <1>1, <2>2, <2>4, <2>5, <2>7 DEF ListenerDrops, Watched, Handled, ledgerVars, kernelVars
  <2>8. ASSUME TakeResult \/ TakeClose, u \in tracked, u \notin tracked', u \in OpenRows
        PROVE  ~(position[u] = "open" \/ Coming(u))
    <3> DEFINE h == Head(toKernel)
    <3>1. h \in InFlight /\ h \in Reports
      BY <1>0, <2>8, TakeEffect DEF TakeResult, TakeClose, InFlight
    <3>2. CASE TakeResult
      <4>1. h.topic = "MT5_ORDER_RESULT" /\ ~h.ok /\ h.of = u
        BY <2>8, <3>2 DEF TakeResult, Untrack
      <4>2. h = ResultOf(u, FALSE)
        BY <3>1, <4>1, ReportKinds
      <4>3. position[u] = "none" /\ ~NoResult(u)
        BY <1>0, <3>1, <4>2 DEF Stages, NoResult
      <4> QED
        BY <1>0, <4>3 DEF Stages, Coming
    <3>3. CASE TakeClose
      <4>1. h.topic = "TRADE_CLOSED" /\ h.id = u /\ h.by \in {"broker", "hand"}
        BY <2>8, <3>1, <3>3, ReportKinds DEF TakeClose, Untrack
      <4>2. u # None
        BY <1>0, BridgeAssumption DEF BridgeAssumption
      <4>3. CASE h.by = "broker"
        <5>1. position[u] = "closed"
          BY <3>1, <4>1, <4>2, <4>3 DEF Orderly, Closes, ClosesBy
        <5> QED
          BY <1>0, <5>1 DEF Stages, Coming
      <4>4. CASE h.by = "hand"
        BY <2>8, <3>1, <4>1, <4>4 DEF Orderly, Closes, ClosesBy, Booked, OpenRows
      <4> QED
        BY <4>1, <4>3, <4>4
    <3> QED
      BY <2>8, <3>2, <3>3
  <2>9. CASE TakeResult \/ TakeClose
    <3>1. handling' = handling /\ leftOut' = leftOut
      BY <2>9 DEF TakeResult, TakeClose
    <3> QED
      BY <1>0, <1>1, <2>2, <2>4, <2>5, <2>8, <2>9, <3>1 DEF Watched, Handled
  <2> QED
    BY <1>9, <2>6, <2>7, <2>9
<1>10. CASE WriteBack
  <2>1. UNCHANGED <<tracked, leftOut, handling, closing, toBridge>> /\ writing \in Reports /\ writing \in InFlight
    BY <1>0, <1>10 DEF WriteBack, LedgerTypeOK, InFlight, wires
  <2>2. Coming(u)' => Coming(u)
    BY <2>1, NothingOrdered DEF Coming, Placing, bridgeVars
  <2>3. ASSUME NEW t2 \in AutoTrades PROVE ~PublishRowClosed(t2)
    BY <1>5, <2>1
  <2>4. \A m \in ClosesBy("hand")' : m.of = u => money[u] # "none"
    BY <1>3, <2>3 DEF Booked, ClosesBy
  <2>5. CASE UNCHANGED <<outcome, money>>
    <3>1. Booked(u)'
      BY <1>4, <2>1, <2>2, <2>3, <2>5
    <3> QED
      BY <1>0, <1>1, <2>1, <2>2, <2>5, <3>1 DEF Watched, OpenRows, Handled
  <2>6. CASE writing.topic = "TRADE_CLOSED" /\ money' = [money EXCEPT ![writing.id] = "broker"] /\ outcome' = outcome
    <3>1. writing.by = "broker" /\ writing.id = writing.of /\ position[writing.of] = "closed"
      BY <2>1, <2>6 DEF Orderly, Closes, ClosesBy
    <3>2. money'[u] = money[u] \/ (money'[u] = "broker" /\ u = writing.id)
      BY <1>0, <2>6 DEF LedgerTypeOK
    <3>3. money'[u] = "broker" => position[u] = "closed"
      BY <3>1, <3>2 DEF Booked
    <3>4. money[u] # "none" => money'[u] # "none"
      BY <3>2
    <3>5. Booked(u)'
      BY <1>1, <2>1, <2>2, <2>4, <2>6, <3>2, <3>3, <3>4 DEF Booked
    <3> QED
      BY <1>0, <1>1, <2>1, <2>2, <2>6, <3>4, <3>5 DEF Watched, OpenRows, Handled
  <2>7. CASE /\ writing.topic = "MT5_ORDER_RESULT" /\ ~writing.ok /\ money' = money
             /\ outcome' = [outcome EXCEPT ![writing.of] = IF writing.of \in OpenRows
                                                           THEN "NOT_EXECUTED" ELSE @]
    <3>1. CASE u = writing.of
      <4>1. writing = ResultOf(u, FALSE)
        BY <2>1, <2>7, <3>1, ReportKinds
      <4>2. position[u] = "none" /\ ~NoResult(u)
        BY <1>0, <2>1, <4>1 DEF Stages, NoResult
      <4>3. ~Coming(u) /\ ~Fresh(u)
        BY <1>0, <4>2 DEF Stages, Coming
      <4>4. handling # [step |-> "saved", of |-> u]
        BY <4>3 DEF Fresh, AutoTrades
      <4>5. outcome'[u] = "none" => outcome[u] = "none"
        BY <1>0, <2>7, <3>1 DEF LedgerTypeOK
      <4> QED
        BY <1>1, <2>1, <2>2, <2>4, <2>7, <4>2, <4>3, <4>4, <4>5 DEF Booked, Watched
    <3>2. CASE u # writing.of
      <4>1. outcome'[u] = outcome[u]
        BY <1>0, <2>7, <3>2 DEF LedgerTypeOK
      <4> QED
        BY <1>0, <1>1, <2>1, <2>2, <2>4, <2>7, <4>1 DEF Booked, Watched, OpenRows, Handled
    <3> QED
      BY <3>1, <3>2
  <2>8. writing.topic \in {"TRADE_CLOSED", "MT5_ORDER_RESULT"}
    BY <2>1, ReportKinds
  <2> QED
    BY <1>10, <2>5, <2>6, <2>7, <2>8 DEF WriteBack, Written, rowVars
<1>11. CASE PageStep \/ \E t \in Trades : AskToCloseOpen(t)
  <2>0. UNCHANGED <<outcome, handling, tracked, leftOut>>
    BY <1>11
    DEF PageStep, ReadOpenRow, CloseRow, PublishRowClosed, ManualOrder, AskToCloseOpen, AskToClose,
        rowVars, kernelVars
  <2>1. UNCHANGED <<outcome, handling, tracked, leftOut>> /\ ~(SendOrder(u) /\ handling' # NotHandling)
    BY <1>0, <2>0, HandlingKinds DEF SendOrder
  <2>2. Coming(u)' => Coming(u)
    BY <1>2, <2>1
  <2>3. money[u] # "none" => money'[u] # "none"
    BY <1>0, <1>11
    DEF PageStep, ReadOpenRow, CloseRow, PublishRowClosed, ManualOrder, AskToCloseOpen, AskToClose,
        rowVars, LedgerTypeOK
  <2>4. Watched(u) => Watched(u)'
    BY <1>0, <1>1, <2>1, <2>2, <2>3 DEF Watched, OpenRows, Handled
  <2>5. ASSUME NEW t \in AutoTrades, ReadOpenRow(t) PROVE Booked(u)'
    <3>1. money' = money /\ t \in OpenRows
      BY <2>5 DEF ReadOpenRow, rowVars
    <3>2. closing'[u] = closing[u] \/ (u = t /\ closing'[u] = "read")
      BY <1>0, <2>5 DEF ReadOpenRow, LedgerTypeOK
    <3>3. \A t2 \in AutoTrades : ~PublishRowClosed(t2)
      BY <2>5, <1>5 DEF ReadOpenRow, LedgerTypeOK
    <3>4. \A m \in ClosesBy("hand")' : m.of = u => money'[u] # "none"
      BY <1>3, <3>1, <3>3 DEF Booked, ClosesBy
    <3> QED
      BY <1>1, <2>1, <2>2, <3>1, <3>2, <3>4 DEF Booked, OpenRows
  <2>6. ASSUME NEW t \in AutoTrades, CloseRow(t) PROVE Booked(u)'
    <3>1. /\ closing[t] = "read"
          /\ \/ closing'[u] = closing[u] /\ money'[u] = money[u]
             \/ u = t /\ closing'[u] = "written" /\ money'[u] = "hand"
      BY <1>0, <2>6 DEF CloseRow, LedgerTypeOK
    <3>2. \A t2 \in AutoTrades : ~PublishRowClosed(t2)
      BY <2>6, <1>0, <1>5 DEF CloseRow, LedgerTypeOK
    <3>3. \A m \in ClosesBy("hand")' : m.of = u => money'[u] # "none"
      BY <1>3, <2>3, <3>2 DEF Booked, ClosesBy
    <3> QED
      BY <1>1, <2>1, <2>2, <3>1, <3>3 DEF Booked
  <2>7. ASSUME NEW t \in AutoTrades, PublishRowClosed(t) PROVE Booked(u)'
    <3>1. money' = money /\ (closing'[u] = closing[u] \/ closing'[u] = "no")
      BY <1>0, <2>7 DEF PublishRowClosed, LedgerTypeOK, rowVars
    <3>2. \A m \in ClosesBy("hand")' : m.of = u => money'[u] # "none"
      BY <1>3, <1>5, <3>1 DEF Booked, ClosesBy
    <3> QED
      BY <1>1, <2>1, <2>2, <3>1, <3>2 DEF Booked
  <2>8. CASE UNCHANGED <<money, closing>>
    <3>1. ASSUME NEW t2 \in AutoTrades PROVE ~PublishRowClosed(t2)
      BY <1>5, <2>8
    <3>2. UNCHANGED <<outcome, money, closing>> /\ handling' = handling
      BY <2>1, <2>8
    <3> QED
      BY <1>4, <2>2, <2>4, <3>1, <3>2
  <2> QED
    BY <1>11, <2>4, <2>5, <2>6, <2>7, <2>8
    DEF PageStep, ManualOrder, AskToCloseOpen, AskToClose, rowVars
<1> QED
  BY <1>6, <1>7, <1>8, <1>9, <1>10, <1>11 DEF KernelStep

\* The layer of the rows is inductive,
LEMMA BooksStep ==
  TypeOK /\ Orderly /\ (\A t \in AutoTrades : Booked(t) /\ Watched(t)) /\ [Next]_vars
    => \A t \in AutoTrades : Booked(t)' /\ Watched(t)'
<1> SUFFICES ASSUME TypeOK, Orderly, \A t \in AutoTrades : Booked(t) /\ Watched(t), [Next]_vars,
                    NEW u \in AutoTrades
             PROVE  Booked(u)' /\ Watched(u)'
  OBVIOUS
<1>1. CASE UNCHANGED vars
  <2>1. Ordered' = Ordered /\ InFlight' = InFlight
    BY <1>1, NothingOrdered, NothingSaid DEF vars, wires, ledgerVars, kernelVars
  <2>2. UNCHANGED <<position, task, outcome, money, closing, handling, tracked, leftOut, lostAbout>>
    BY <1>1 DEF vars, bridgeVars, account, ledgerVars, rowVars, kernelVars, history
  <2>3. Booked(u)'
    BY <2>1, <2>2 DEF Booked, Coming, Placing, ClosesBy
  <2>4. Watched(u)'
    BY <2>1, <2>2 DEF Watched, Coming, Placing, OpenRows, Handled
  <2> QED
    BY <2>3, <2>4
<1> QED
  BY <1>1, BridgeBooks, KernelBooks DEF Next

\* and holds always.
LEMMA LifecycleBooked == Spec => [](\A t \in AutoTrades : Booked(t) /\ Watched(t))
<1> DEFINE Books == \A t \in AutoTrades : Booked(t) /\ Watched(t)
<1>1. Init => Books
  <2> SUFFICES ASSUME Init, NEW t \in AutoTrades PROVE Booked(t) /\ Watched(t)
    OBVIOUS
  <2>1. /\ t \in Trades /\ position[t] = "none" /\ outcome[t] = "none" /\ money[t] = "none"
        /\ closing[t] = "no" /\ handling = NotHandling /\ writing = NoMessage /\ ~Placing(t)
    BY DEF Init, BridgeInit, LedgerInit, AutoTrades, Placing, Idle
  <2>2. Ordered = {} /\ Said = {}
    BY EmptySeq DEF Init, MessagesInit, Ordered, Said
  <2>3. InFlight = {}
    BY <2>1, <2>2, ResultFacts DEF InFlight
  <2> QED
    BY <2>1, <2>2, <2>3 DEF Booked, Watched, Coming, ClosesBy, OpenRows, NotHandling
<1>2. TypeOK /\ Orderly /\ Books /\ [Next]_vars => Books'
  BY BooksStep
<1> HIDE DEF Books
<1>3. Spec => []Books
  BY <1>1, <1>2, LifecycleTyped, LifecycleOrderly, PTL DEF Spec
<1> QED
  BY <1>3 DEF Books

\* A restart of the kernel loses track of no position whose row is open and
\* whose approval was booked, unless something about it was lost or the restart
\* met more open rows than its query asks for and this one was not among them.
THEOREM OpenPositionsStayTracked == Spec => []StillTracked
<1>1. TypeOK /\ (\A t \in AutoTrades : Booked(t) /\ Watched(t)) => StillTracked
  <2> SUFFICES ASSUME TypeOK, \A t \in AutoTrades : Watched(t), NEW t \in OpenRows \ (lostAbout \cup leftOut),
                      position[t] = "open", handling.step = "idle"
               PROVE  t \in tracked
    BY DEF StillTracked
  <2>1. handling = NotHandling
    BY HandlingKinds DEF TypeOK
  <2> QED
    BY <2>1 DEF Watched, Handled, OpenRows
<1> QED
  BY <1>1, LifecycleTyped, LifecycleBooked, PTL

----------------------------------------------------------------------------
(* The chain of custody.                                                    *)

\* What a step of the bridge or the account must do for a trade it does not
\* lose: hand over the order, the result, the close.
LEMMA BridgeHandsOver ==
  ASSUME NEW u \in AutoTrades, Custody(u), UNCHANGED ledgerVars, lostAbout \subseteq lostAbout',
         Said \subseteq Said',
         u \notin lostAbout' =>
           /\ Coming(u) => Coming(u)' \/ position'[u] # "none" \/ ResultOf(u, FALSE) \in InFlight'
           /\ position'[u] = "none" => position[u] = "none"
           /\ position'[u] # "none" => position[u] # "none" \/ (u \in ins' /\ PlacedAlready(u)')
           /\ position[u] # "none" /\ u \in ins => u \in ins'
           /\ PlacedAlready(u) => PlacedAlready(u)' \/ ResultOf(u, TRUE) \in InFlight'
           /\ position'[u] = "closed" => position[u] = "closed" \/ u \in outs'
           /\ u \in outs => u \in outs' \/ u \in reported
           /\ u \in reported' \/ Marking(u)' => u \in reported \/ Marking(u) \/ CloseSaid(u)'
  PROVE  Custody(u)'
<1> SUFFICES ASSUME u \notin lostAbout' \cup early' PROVE Custody(u)'
  BY DEF Custody
<1>1. UNCHANGED <<outcome, money, linked, tracked, closing, handling, writing, early>>
  BY DEF ledgerVars, rowVars, kernelVars
<1>2. u \notin lostAbout \cup early
  BY <1>1
<1>3. InFlight \subseteq InFlight'
  BY <1>1 DEF InFlight
<1>4. /\ CloseSaid(u) => CloseSaid(u)'
      /\ CloseUnderWay(u) => CloseUnderWay(u)'
      /\ CloseSaid(u)' => CloseUnderWay(u)'
  BY <1>1 DEF CloseSaid, CloseUnderWay
<1>5. OpenRows' = OpenRows /\ Handled(u)' = Handled(u)
  BY <1>1 DEF OpenRows, Handled
<1> USE <1>1, <1>2, <1>3, <1>4, <1>5
<1>6. u \in OpenRows' /\ position'[u] = "none" =>
        \/ handling' = [step |-> "saved", of |-> u] \/ u \in Ordered' \/ Placing(u)'
        \/ ResultOf(u, FALSE) \in InFlight'
  BY DEF Custody, Coming
<1>7. position'[u] # "none" =>
        /\ u \in ins'
        /\ u \in linked' \/ PlacedAlready(u)' \/ ResultOf(u, TRUE) \in InFlight'
  BY DEF Custody
<1>8. position'[u] = "closed" => money'[u] # "none" \/ CloseUnderWay(u)' \/ u \in outs'
  BY DEF Custody
<1>9. u \in reported' \/ Marking(u)' => money'[u] # "none" \/ CloseUnderWay(u)'
  BY DEF Custody
<1>10. money'[u] # "none" /\ (u \in tracked' \/ Handled(u)') => closing'[u] = "written" \/ CloseSaid(u)'
  BY DEF Custody
<1>11. writing'.topic = "TRADE_CLOSED" /\ writing'.id = u => u \notin tracked' /\ ~Handled(u)'
  BY DEF Custody
<1> QED
  BY <1>6, <1>7, <1>8, <1>9, <1>10, <1>11 DEF Custody

\* And what a step of the kernel or the page must.
LEMMA KernelHandsOver ==
  ASSUME NEW u \in AutoTrades, Custody(u), UNCHANGED bridgeVars, lostAbout \subseteq lostAbout',
         early \subseteq early', Ordered \subseteq Ordered',
         u \notin lostAbout' \cup early' =>
           /\ u \in OpenRows' => u \in OpenRows \/ handling' = [step |-> "saved", of |-> u]
           /\ handling = [step |-> "saved", of |-> u] =>
                handling' = [step |-> "saved", of |-> u] \/ u \in Ordered'
           /\ ResultOf(u, FALSE) \in InFlight => ResultOf(u, FALSE) \in InFlight' \/ u \notin OpenRows'
           /\ u \in linked => u \in linked'
           /\ ResultOf(u, TRUE) \in InFlight => ResultOf(u, TRUE) \in InFlight' \/ u \in linked'
           /\ money[u] # "none" => money'[u] # "none"
           /\ CloseUnderWay(u) => CloseUnderWay(u)' \/ money'[u] # "none"
           /\ money'[u] # "none" /\ (u \in tracked' \/ Handled(u)') =>
                closing'[u] = "written" \/ CloseSaid(u)'
           /\ writing'.topic = "TRADE_CLOSED" /\ writing'.id = u => u \notin tracked' /\ ~Handled(u)'
  PROVE  Custody(u)'
<1> SUFFICES ASSUME u \notin lostAbout' \cup early' PROVE Custody(u)'
  BY DEF Custody
<1>1. /\ UNCHANGED <<position, ins, outs, reported>>
      /\ Placing(u)' = Placing(u) /\ PlacedAlready(u)' = PlacedAlready(u) /\ Marking(u)' = Marking(u)
  BY DEF bridgeVars, account, Placing, PlacedAlready, Marking
<1>2. u \notin lostAbout \cup early
  OBVIOUS
<1> USE <1>1, <1>2
<1>3. u \in OpenRows' /\ position'[u] = "none" =>
        \/ handling' = [step |-> "saved", of |-> u] \/ u \in Ordered' \/ Placing(u)'
        \/ ResultOf(u, FALSE) \in InFlight'
  BY DEF Custody
<1>4. position'[u] # "none" =>
        /\ u \in ins'
        /\ u \in linked' \/ PlacedAlready(u)' \/ ResultOf(u, TRUE) \in InFlight'
  BY DEF Custody
<1>5. position'[u] = "closed" => money'[u] # "none" \/ CloseUnderWay(u)' \/ u \in outs'
  BY DEF Custody
<1>6. u \in reported' \/ Marking(u)' => money'[u] # "none" \/ CloseUnderWay(u)'
  BY DEF Custody
<1> QED
  BY <1>3, <1>4, <1>5, <1>6 DEF Custody

\* What the bridge and the account let go of, somebody else holds.
LEMMA BridgeCustody ==
  ASSUME TypeOK, Orderly, [Next]_vars, UNCHANGED ledgerVars, NEW u \in AutoTrades, Custody(u),
         BridgeStep \/ AccountStep \/ ReportedExpires \/ BridgeRestart
  PROVE  Custody(u)'
<1>0. /\ MessagesTypeOK /\ BridgeTypeOK /\ OrdersOnce /\ u \in Trades
      /\ lostAbout \subseteq lostAbout' /\ writing' = writing
  BY LossesStay DEF TypeOK, Orderly, AutoTrades, ledgerVars, kernelVars
<1>1. ASSUME UNCHANGED <<account, reported>>, Said \subseteq Said',
             u \notin lostAbout' =>
               /\ Coming(u) => Coming(u)' \/ ResultOf(u, FALSE) \in InFlight'
               /\ PlacedAlready(u) => PlacedAlready(u)' \/ ResultOf(u, TRUE) \in InFlight'
               /\ Marking(u)' => Marking(u) \/ CloseSaid(u)'
      PROVE  Custody(u)'
  <2>1. UNCHANGED <<position, ins, outs, reported>>
    BY <1>1 DEF account
  <2> QED
    BY <1>0, <1>1, <2>1, BridgeHandsOver
<1>2. ASSUME NEW t \in Trades, NEW ok \in BOOLEAN, OrderResult(t, ok)
      PROVE  Said \subseteq Said' /\ (u = t /\ u \notin lostAbout' => ResultOf(u, ok) \in InFlight')
  BY <1>0, <1>2, ResultEffect, ResultFacts, BridgeAssumption DEF InFlight, AutoTrades
<1>3. ASSUME toBridge' = toBridge PROVE Ordered' = Ordered
  BY <1>3, NothingOrdered
<1>4. ASSUME toKernel' = toKernel PROVE Said' = Said /\ InFlight' = InFlight
  BY <1>0, <1>4, NothingSaid
<1>5. ASSUME NEW t \in Trades, Placing(t), Refuse(t) PROVE Custody(u)'
  <2>1. UNCHANGED <<account, reported>> /\ Ordered' = Ordered /\ OrderResult(t, FALSE)
    BY <1>3, <1>5 DEF Refuse
  <2>2. Coming(u) => u \in Ordered \/ u = t
    BY <1>5 DEF Coming, Placing
  <2>3. ~PlacedAlready(u) /\ ~Marking(u)'
    BY <1>5 DEF PlacedAlready, Placing, Refuse, Marking, Idle
  <2> QED
    BY <1>1, <1>2, <2>1, <2>2, <2>3 DEF Coming
<1>6. CASE TakeOrder
  <2>1. Ordered' = Ordered \ {Head(toBridge).of}
    BY <1>0, <1>6, BridgeTakes DEF TakeOrder
  <2>2. /\ UNCHANGED <<account, reported>> /\ Said' = Said
        /\ ~Placing(u) /\ ~PlacedAlready(u) /\ ~Marking(u)'
    BY <1>4, <1>6 DEF TakeOrder, Placing, PlacedAlready, Marking, Idle
  <2>3. Head(toBridge).of = u => Placing(u)'
    BY <1>6 DEF TakeOrder, Placing
  <2> QED
    BY <1>1, <2>1, <2>2, <2>3 DEF Coming
<1>7. ASSUME NEW o \in Trades, position[o] = "open", ClosedByBridge(o), UNCHANGED <<reported, toKernel>>,
             Coming(u) => Coming(u)', ~PlacedAlready(u), ~Marking(u)'
      PROVE  Custody(u)'
  <2>1. position'[u] = position[u] \/ (position[u] = "open" /\ position'[u] = "closed" /\ u \in outs')
    BY <1>0, <1>7 DEF ClosedByBridge, BridgeTypeOK
  <2>2. ins' = ins /\ outs \subseteq outs' /\ Said' = Said
    BY <1>4, <1>7 DEF ClosedByBridge
  <2> QED
    BY <1>0, <1>7, <2>1, <2>2, BridgeHandsOver
<1>8. CASE CloseRequest
  <2>1. /\ Ordered' = Ordered /\ task' = task /\ task = Idle /\ Head(toBridge).of \in Trades
        /\ UNCHANGED <<reported, toKernel>>
    BY <1>0, <1>8, BridgeTakes DEF CloseRequest, Orders
  <2>2. Coming(u)' = Coming(u) /\ ~PlacedAlready(u) /\ ~Marking(u)'
    BY <2>1 DEF Coming, Placing, PlacedAlready, Marking, Idle
  <2>3. CASE UNCHANGED account
    BY <1>1, <1>4, <2>1, <2>2, <2>3
  <2> QED
    BY <1>7, <1>8, <2>1, <2>2, <2>3 DEF CloseRequest
<1>9. ASSUME NEW t \in Trades, NEW o \in Trades, Placing(t), toBridge' = toBridge,
             task' = [task EXCEPT !.todo = @ \ {o}]
      PROVE  Coming(u)' = Coming(u) /\ ~PlacedAlready(u) /\ ~Marking(u)'
  <2>1. task'.step = "placing" /\ task'.of = task.of
    BY <1>0, <1>9 DEF Placing, BridgeTypeOK, Tasks, Idle
  <2> QED
    BY <1>3, <1>9, <2>1 DEF Coming, Placing, PlacedAlready, Marking
<1>10. ASSUME NEW t \in Trades, NEW o \in Trades, MeetSame(t, o) PROVE Custody(u)'
  <2>1. CASE task' = [task EXCEPT !.todo = @ \ {o}]
             /\ UNCHANGED <<account, tickets, reported, toBridge, toKernel, history>>
    BY <1>1, <1>4, <1>9, <1>10, <2>1 DEF MeetSame
  <2> QED
    BY <1>5, <1>10, <2>1 DEF MeetSame
<1>11. ASSUME NEW t \in Trades, NEW o \in Trades, MeetOpposite(t, o) PROVE Custody(u)'
  <2>1. CASE position[o] = "open" /\ ClosedByBridge(o) /\ task' = [task EXCEPT !.todo = @ \ {o}]
             /\ UNCHANGED <<reported, toBridge, toKernel, history>>
    BY <1>7, <1>9, <1>11, <2>1 DEF MeetOpposite
  <2> QED
    BY <1>5, <1>11, <2>1 DEF MeetOpposite
<1>12. ASSUME NEW t \in Trades, PlaceFails(t) PROVE Custody(u)'
  BY <1>5, <1>12 DEF PlaceFails
<1>13. ASSUME NEW t \in Trades, Place(t) PROVE Custody(u)'
  <2>1. /\ Placing(t) /\ Ordered' = Ordered /\ Said' = Said /\ UNCHANGED <<outs, reported>>
        /\ ins' = ins \cup {t} /\ (u = t => PlacedAlready(u)')
        /\ ~PlacedAlready(u) /\ ~Marking(u)'
    BY <1>3, <1>4, <1>13 DEF Place, Placing, PlacedAlready, Marking
  <2>2. position'[u] = IF u = t THEN "open" ELSE position[u]
    BY <1>0, <1>13 DEF Place, BridgeTypeOK
  <2>3. Coming(u) => Coming(u)' \/ u = t
    BY <2>1 DEF Coming, Placing
  <2> QED
    BY <1>0, <2>1, <2>2, <2>3, BridgeHandsOver
<1>14. ASSUME NEW t \in Trades, Placed(t) PROVE Custody(u)'
  <2>1. UNCHANGED <<account, reported>> /\ Ordered' = Ordered /\ OrderResult(t, TRUE)
    BY <1>3, <1>14 DEF Placed
  <2>2. ~Placing(u) /\ ~Marking(u)' /\ (PlacedAlready(u) => u = t)
    BY <1>14 DEF Placed, Placing, PlacedAlready, Marking, Idle
  <2> QED
    BY <1>1, <1>2, <2>1, <2>2 DEF Coming
<1>15. CASE Rehydrate
  <2>1. UNCHANGED <<account, reported, task>> /\ Ordered' = Ordered /\ Said' = Said
    BY <1>3, <1>4, <1>15 DEF Rehydrate
  <2> QED
    BY <1>1, <2>1 DEF Coming, Placing, PlacedAlready, Marking, Rehydrate, Idle
<1>16. ASSUME NEW t \in Trades, task = Idle, position[t] = "closed", PublishClose(t)
       PROVE  Custody(u)'
  <2>1. /\ UNCHANGED <<account, reported>> /\ Ordered' = Ordered
        /\ Said' = Said \cup {BrokerClose(t)}
    BY <1>0, <1>3, <1>16, PublishCloseEffect DEF PublishClose
  <2>2. ~Placing(u) /\ ~PlacedAlready(u) /\ (Marking(u)' => u = t)
    BY <1>16 DEF PublishClose, Placing, PlacedAlready, Marking, Idle
  <2>3. ASSUME u = t, u \notin lostAbout', u \notin early PROVE CloseSaid(u)'
    <3>1. u \in ins
      BY <1>0, <1>16, <2>3 DEF Custody
    <3>2. BrokerClose(t).id = u
      BY <2>3, <3>1, CloseFacts DEF IdOf
    <3> QED
      BY <2>1, <3>2, CloseFacts DEF CloseSaid
  <2>4. early' = early
    BY DEF ledgerVars
  <2>5. CASE u \in early
    BY <2>4, <2>5 DEF Custody
  <2>6. CASE u \notin early
    BY <1>1, <2>1, <2>2, <2>3, <2>6 DEF Coming
  <2> QED
    BY <2>5, <2>6
<1>17. CASE ReportClose
  <2>1. PICK t \in Unreported : PublishClose(t)
    BY <1>17 DEF ReportClose
  <2> QED
    BY <1>0, <1>16, <1>17, <2>1 DEF Unreported, BridgeTypeOK, ReportClose
<1>18. CASE ReportBlindly
  <2>1. PICK t \in outs \cap reported : PublishClose(t)
    BY <1>18 DEF ReportBlindly
  <2>2. t \in Trades /\ position[t] = "closed" /\ task = Idle
    BY <1>0, <1>18 DEF BridgeTypeOK, Orderly, Stages, ReportBlindly
  <2> QED
    BY <1>16, <2>1, <2>2
<1>19. CASE MarkReported
  <2>1. UNCHANGED <<position, ins, outs>> /\ Ordered' = Ordered /\ Said' = Said
    BY <1>3, <1>4, <1>19 DEF MarkReported, account
  <2>2. ~Placing(u) /\ ~PlacedAlready(u) /\ ~Marking(u)'
    BY <1>19 DEF MarkReported, Placing, PlacedAlready, Marking, Idle
  <2>3. u \in reported' => u \in reported \/ Marking(u)
    BY <1>19 DEF MarkReported, Marking
  <2> QED
    BY <1>0, <2>1, <2>2, <2>3, BridgeHandsOver DEF Coming
<1>20. CASE AccountStep
  <2>1. PICK t \in Trades : StopOrTarget(t) \/ ClosedInTerminal(t)
    BY <1>20 DEF AccountStep
  <2>2. Ordered' = Ordered /\ Said' = Said /\ UNCHANGED <<task, reported, ins>> /\ outs \subseteq outs'
    BY <1>3, <1>4, <2>1 DEF StopOrTarget, ClosedInTerminal
  <2>3. \/ position'[u] = position[u]
        \/ position[u] = "open" /\ position'[u] = "closed" /\ (u \in outs' \/ u \in lostAbout')
    BY <1>0, <2>1 DEF StopOrTarget, ClosedInTerminal, BridgeTypeOK, Loses
  <2>4. Coming(u)' = Coming(u) /\ PlacedAlready(u)' = PlacedAlready(u) /\ Marking(u)' = Marking(u)
    BY <2>2 DEF Coming, Placing, PlacedAlready, Marking
  <2> QED
    BY <1>0, <2>2, <2>3, <2>4, BridgeHandsOver
<1>21. CASE ReportedExpires
  <2>1. Ordered' = Ordered /\ Said' = Said /\ UNCHANGED <<task, position, ins, outs>> /\ reported' = {}
    BY <1>3, <1>4, <1>21 DEF ReportedExpires, account
  <2>2. Coming(u)' = Coming(u) /\ PlacedAlready(u)' = PlacedAlready(u) /\ Marking(u)' = Marking(u)
    BY <2>1 DEF Coming, Placing, PlacedAlready, Marking
  <2> QED
    BY <1>0, <2>1, <2>2, BridgeHandsOver
<1>22. CASE BridgeRestart
  <2>1. PICK kept \in {{}, outs} :
          /\ outs' = kept
          /\ Loses((outs \ (kept \cup reported)) \cup About(toBridge) \cup (ins \ ins')
                     \cup (IF task.step \in {"placing", "placed"} THEN {task.of} ELSE {}))
    BY <1>22 DEF BridgeRestart
  <2>2. /\ u \in outs => u \in outs' \/ u \in reported \/ u \in lostAbout'
        /\ u \in ins => u \in ins' \/ u \in lostAbout'
        /\ Placing(u) \/ PlacedAlready(u) => u \in lostAbout'
    BY <2>1 DEF Loses, Placing, PlacedAlready
  <2>3. u \in Ordered => u \in lostAbout'
    BY <2>1 DEF Ordered, About, Loses
  <2>4. Said' = Said /\ position' = position /\ reported' = reported /\ ~Marking(u)'
    BY <1>4, <1>22 DEF BridgeRestart, Marking, Idle
  <2>5. outs' \subseteq outs
    BY <2>1
  <2> QED
    BY <1>0, <2>2, <2>3, <2>4, <2>5, BridgeHandsOver DEF Coming
<1> QED
  BY <1>6, <1>8, <1>10, <1>11, <1>12, <1>13, <1>14, <1>15, <1>17, <1>18, <1>19, <1>20, <1>21, <1>22
  DEF BridgeStep

\* Adding to the orders.
LEMMA KernelOrders ==
  ASSUME TypeOK, KernelStep \/ PageStep \/ \E t \in Trades : AskToCloseOpen(t)
  PROVE  Ordered \subseteq Ordered'
<1>0. MessagesTypeOK
  BY DEF TypeOK
<1>1. CASE toBridge' = toBridge
  BY <1>1, NothingOrdered
<1>2. ASSUME NEW m \in Orders, Order(m) PROVE Ordered \subseteq Ordered'
  BY <1>0, <1>2, OrderEffect
<1>3. ASSUME NEW t \in AutoTrades, SendOrder(t) PROVE Ordered \subseteq Ordered'
  <2>1. [topic |-> "TRADE_APPROVED", of |-> t] \in Orders
    BY DEF Orders, AutoTrades
  <2> QED
    BY <1>1, <1>2, <1>3, <2>1 DEF SendOrder
<1>4. ASSUME NEW t \in Manual, ManualOrder(t) PROVE Ordered \subseteq Ordered'
  <2>1. [topic |-> "TRADE_APPROVED", of |-> t] \in Orders
    BY BridgeAssumption DEF Orders, BridgeAssumption
  <2> QED
    BY <1>2, <1>4, <2>1 DEF ManualOrder
<1>5. ASSUME NEW t \in Trades, AskToCloseOpen(t) PROVE Ordered \subseteq Ordered'
  <2>1. [topic |-> "MT5_CLOSE_REQUEST", of |-> t] \in Orders
    BY DEF Orders
  <2> QED
    BY <1>2, <1>5, <2>1 DEF AskToCloseOpen, AskToClose
<1>6. \A t : SaveDecision(t) \/ BookApproval(t) => toBridge' = toBridge
  BY DEF SaveDecision, BookApproval, wires
<1>7. TakeResult \/ TakeClose \/ WriteBack \/ ListenerDrops \/ KernelRestart => toBridge' = toBridge
  BY DEF TakeResult, TakeClose, WriteBack, ListenerDrops, KernelRestart, wires
<1>8. \A t : ReadOpenRow(t) \/ CloseRow(t) \/ PublishRowClosed(t) => toBridge' = toBridge
  BY DEF ReadOpenRow, CloseRow, PublishRowClosed, wires
<1> QED
  BY <1>1, <1>3, <1>4, <1>5, <1>6, <1>7, <1>8 DEF KernelStep, PageStep

\* What the kernel and the page let go of is written, or held by the next.
LEMMA KernelCustody ==
  ASSUME TypeOK, Orderly, [Next]_vars, UNCHANGED bridgeVars, NEW u \in AutoTrades,
         Booked(u), Custody(u),
         KernelStep \/ PageStep \/ \E t \in Trades : AskToCloseOpen(t)
  PROVE  Custody(u)'
<1>0. /\ MessagesTypeOK /\ LedgerTypeOK /\ u \in Trades /\ Stages(u) /\ u # None
      /\ lostAbout \subseteq lostAbout' /\ Ordered \subseteq Ordered'
  BY LossesStay, KernelOrders, BridgeAssumption DEF TypeOK, Orderly, AutoTrades, BridgeAssumption
<1>1. ASSUME toKernel' = toKernel PROVE Said' = Said /\ (writing' = writing => InFlight' = InFlight)
  BY <1>1, NothingSaid
\* Steps that leave the messages to the kernel alone.
<1>2. ASSUME UNCHANGED <<linked, writing, early, toKernel>>,
             money[u] # "none" => money'[u] # "none",
             u \notin lostAbout' =>
               /\ u \in OpenRows' => u \in OpenRows \/ handling' = [step |-> "saved", of |-> u]
               /\ handling = [step |-> "saved", of |-> u] =>
                    handling' = [step |-> "saved", of |-> u] \/ u \in Ordered'
               /\ u \in tracked' \/ Handled(u)' =>
                    \/ u \in tracked \/ Handled(u)
                    \/ money'[u] = "none" /\ ~(writing.topic = "TRADE_CLOSED" /\ writing.id = u)
               /\ money'[u] # "none" => closing'[u] = "written"
                                          \/ (money[u] # "none" /\ closing[u] # "written")
      PROVE  Custody(u)'
  <2>1. Said' = Said /\ InFlight' = InFlight /\ CloseUnderWay(u)' = CloseUnderWay(u)
    BY <1>1, <1>2 DEF CloseUnderWay, CloseSaid
  <2>2. CloseSaid(u)' = CloseSaid(u)
    BY <2>1 DEF CloseSaid
  <2>3. CASE u \in lostAbout' \cup early'
    BY <2>3 DEF Custody
  <2>4. CASE u \notin lostAbout' \cup early'
    <3>1. /\ money[u] # "none" /\ (u \in tracked \/ Handled(u)) => closing[u] = "written" \/ CloseSaid(u)
          /\ writing.topic = "TRADE_CLOSED" /\ writing.id = u => u \notin tracked /\ ~Handled(u)
      BY <1>0, <1>2, <2>4 DEF Custody
    <3>2. money'[u] # "none" /\ (u \in tracked' \/ Handled(u)') => closing'[u] = "written" \/ CloseSaid(u)'
      BY <1>2, <2>2, <2>4, <3>1
    <3>3. writing'.topic = "TRADE_CLOSED" /\ writing'.id = u => u \notin tracked' /\ ~Handled(u)'
      BY <1>2, <2>4, <3>1
    <3> QED
      BY <1>0, <1>2, <2>1, <2>4, <3>2, <3>3, KernelHandsOver
  <2> QED
    BY <2>3, <2>4
<1>3. ASSUME NEW t \in AutoTrades, SaveDecision(t) PROVE Custody(u)'
  <2>1. /\ UNCHANGED <<money, linked, tracked, closing, writing, early, toKernel>>
        /\ handling = NotHandling /\ handling' = [step |-> "saved", of |-> t]
        /\ outcome[t] = "none" /\ outcome' = [outcome EXCEPT ![t] = "APPROVED"]
    BY <1>3 DEF SaveDecision, wires
  <2>2. u \in OpenRows' => u \in OpenRows \/ u = t
    BY <1>0, <2>1 DEF OpenRows, LedgerTypeOK
  <2>3. Handled(u)' => u = t
    BY <2>1 DEF Handled
  <2>4. ASSUME u = t PROVE money[u] = "none" /\ ~(writing.topic = "TRADE_CLOSED" /\ writing.id = u)
    <3>1. money[u] = "none"
      BY <2>1, <2>4 DEF Booked
    <3>2. ASSUME writing.topic = "TRADE_CLOSED", writing.id = u PROVE FALSE
      <4>1. writing \in InFlight /\ writing.by = "broker" /\ writing.of = u
        BY <1>0, <3>2, ResultFacts DEF LedgerTypeOK, InFlight, Orderly, Closes
      <4>2. position[u] = "closed"
        BY <3>2, <4>1 DEF Orderly, Closes, ClosesBy
      <4> QED
        BY <2>1, <2>4, <4>2 DEF Booked
    <3> QED
      BY <3>1, <3>2
  <2>5. handling # [step |-> "saved", of |-> u]
    BY <2>1 DEF NotHandling
  <2> QED
    BY <1>2, <2>1, <2>2, <2>3, <2>4, <2>5
<1>4. ASSUME NEW t \in AutoTrades, SendOrder(t) PROVE Custody(u)'
  <2>1. /\ UNCHANGED <<outcome, money, linked, tracked, closing, writing, early, toKernel>>
        /\ handling = [step |-> "saved", of |-> t]
    BY <1>0, <1>4, HandlingKinds DEF SendOrder, rowVars
  <2>2. OpenRows' = OpenRows /\ (Handled(u)' => Handled(u))
    BY <2>1, <1>4 DEF SendOrder, OpenRows, Handled, NotHandling
  <2>3. t \in Ordered' \/ t \in lostAbout'
    <3>1. CASE Order([topic |-> "TRADE_APPROVED", of |-> t])
      <4>1. [topic |-> "TRADE_APPROVED", of |-> t] \in Orders
        BY DEF Orders, AutoTrades
      <4> QED
        BY <1>0, <3>1, <4>1, OrderEffect
    <3>2. CASE Loses({t})
      BY <3>2 DEF Loses
    <3> QED
      BY <1>4, <3>1, <3>2 DEF SendOrder
  <2>4. handling = [step |-> "saved", of |-> u] => u = t
    BY <2>1
  <2> QED
    BY <1>2, <2>1, <2>2, <2>3, <2>4
<1>5. ASSUME NEW t \in AutoTrades, BookApproval(t) PROVE Custody(u)'
  <2>1. /\ UNCHANGED <<outcome, money, linked, closing, writing, early, toKernel>>
        /\ handling' = NotHandling /\ handling.step = "published" /\ handling.of = t
        /\ tracked' = tracked \cup {t}
    BY <1>5 DEF BookApproval, rowVars, wires
  <2>2. OpenRows' = OpenRows /\ ~Handled(u)' /\ Handled(t)
    BY <2>1 DEF OpenRows, Handled, NotHandling
  <2>3. handling # [step |-> "saved", of |-> u]
    BY <2>1
  <2> QED
    BY <1>2, <2>1, <2>2, <2>3
<1>6. ASSUME NEW t \in AutoTrades, ReadOpenRow(t) PROVE Custody(u)'
  <2>1. /\ UNCHANGED <<outcome, money, linked, tracked, handling, writing, early, toKernel>>
        /\ closing[t] = "no" /\ t \in OpenRows
        /\ closing' = [closing EXCEPT ![t] = "read"]
    BY <1>6 DEF ReadOpenRow, rowVars, kernelVars, wires
  <2>2. OpenRows' = OpenRows /\ Handled(u)' = Handled(u)
    BY <2>1 DEF OpenRows, Handled
  <2>3. closing'[u] = closing[u] \/ money[u] = "none"
    BY <1>0, <2>1 DEF LedgerTypeOK, OpenRows
  <2> QED
    BY <1>2, <2>1, <2>2, <2>3
<1>7. ASSUME NEW t \in AutoTrades, CloseRow(t) PROVE Custody(u)'
  <2>1. /\ UNCHANGED <<outcome, linked, tracked, handling, writing, early, toKernel>>
        /\ money' = [money EXCEPT ![t] = "hand"]
        /\ closing' = [closing EXCEPT ![t] = "written"]
    BY <1>7 DEF CloseRow, kernelVars, wires
  <2>2. \/ money'[u] = money[u] /\ closing'[u] = closing[u]
        \/ money'[u] # "none" /\ closing'[u] = "written"
    BY <1>0, <2>1 DEF LedgerTypeOK
  <2>3. (u \in OpenRows' => u \in OpenRows) /\ Handled(u)' = Handled(u)
    BY <2>1, <2>2 DEF OpenRows, Handled
  <2> QED
    BY <1>2, <2>1, <2>2, <2>3
<1>8. ASSUME UNCHANGED <<rowVars, kernelVars, closing, early, toKernel>> PROVE Custody(u)'
  <2>1. /\ UNCHANGED <<outcome, money, linked, tracked, handling, writing, closing, early, toKernel>>
        /\ OpenRows' = OpenRows /\ Handled(u)' = Handled(u)
    BY <1>8 DEF rowVars, kernelVars, OpenRows, Handled
  <2> QED
    BY <1>2, <2>1
<1>9. ASSUME NEW t \in AutoTrades, PublishRowClosed(t) PROVE Custody(u)'
  <2>1. /\ UNCHANGED <<outcome, money, linked, tracked, handling, writing, early>>
        /\ closing' = [closing EXCEPT ![t] = "no"]
    BY <1>9 DEF PublishRowClosed, rowVars, kernelVars
  <2>2. OpenRows' = OpenRows /\ Handled(u)' = Handled(u) /\ (u # t => closing'[u] = closing[u])
    BY <1>0, <2>1 DEF OpenRows, Handled, LedgerTypeOK
  <2>3. Said \subseteq Said' /\ InFlight \subseteq InFlight'
    BY <1>9, PublishRowEffect DEF TypeOK
  <2>4. u = t => CloseSaid(u)' \/ u \in lostAbout'
    BY <1>9, PublishRowEffect, CloseFacts DEF CloseSaid
  <2>5. (CloseSaid(u) => CloseSaid(u)') /\ (CloseUnderWay(u) => CloseUnderWay(u)')
    BY <2>1, <2>3 DEF CloseSaid, CloseUnderWay
  <2>6. CASE u \in lostAbout' \cup early'
    BY <2>6 DEF Custody
  <2>7. CASE u \notin lostAbout' \cup early'
    <3>1. /\ money[u] # "none" /\ (u \in tracked \/ Handled(u)) => closing[u] = "written" \/ CloseSaid(u)
          /\ writing.topic = "TRADE_CLOSED" /\ writing.id = u => u \notin tracked /\ ~Handled(u)
      BY <1>0, <2>1, <2>7 DEF Custody
    <3>2. money'[u] # "none" /\ (u \in tracked' \/ Handled(u)') => closing'[u] = "written" \/ CloseSaid(u)'
      BY <2>1, <2>2, <2>4, <2>5, <2>7, <3>1
    <3>3. writing'.topic = "TRADE_CLOSED" /\ writing'.id = u => u \notin tracked' /\ ~Handled(u)'
      BY <2>1, <2>2, <3>1
    <3> QED
      BY <1>0, <2>1, <2>2, <2>3, <2>5, <3>2, <3>3, KernelHandsOver
  <2> QED
    BY <2>6, <2>7
<1>10. CASE TakeResult \/ TakeClose
  <2> DEFINE h == Head(toKernel)
  <2>1. /\ writing = NoMessage /\ toKernel # <<>> /\ toKernel' = Tail(toKernel)
        /\ UNCHANGED <<outcome, money, linked, handling, closing, lostAbout>> /\ NoteEarly(h)
    BY <1>10 DEF TakeResult, TakeClose, rowVars, history
  <2>2. /\ h \in Said /\ h \in Reports /\ Said' \subseteq Said /\ Said \subseteq Said' \cup {h}
        /\ h \in InFlight /\ InFlight = Said
    BY <1>0, <2>1, TakeEffect, ResultFacts DEF InFlight
  <2>3. OpenRows' = OpenRows /\ Handled(u)' = Handled(u) /\ early \subseteq early'
    BY <2>1 DEF OpenRows, Handled, NoteEarly
  <2>4. Handled(u) /\ h.of = u => u \in early'
    BY <2>1 DEF Handled, NoteEarly
  <2>5. tracked' \subseteq tracked
    BY <1>10 DEF TakeResult, TakeClose, Untrack
  <2> HIDE DEF h
  <2>6. CASE u \in lostAbout' \cup early'
    BY <2>6 DEF Custody
  <2>7. CASE u \notin lostAbout' \cup early'
    <3>1. /\ money[u] # "none" /\ (u \in tracked \/ Handled(u)) => closing[u] = "written" \/ CloseSaid(u)
      BY <1>0, <2>3, <2>7 DEF Custody
    <3>2. ~(writing.topic = "TRADE_CLOSED" /\ writing.id = u)
      BY <2>1, ResultFacts
    <3>3. CASE TakeResult
      <4>1. h.topic = "MT5_ORDER_RESULT" /\ writing' = h
        BY <3>3 DEF TakeResult, h
      <4>2. InFlight \subseteq InFlight'
        BY <2>2, <4>1 DEF InFlight
      <4>3. CloseSaid(u) => CloseSaid(u)'
        BY <2>2, <4>1 DEF CloseSaid
      <4>4. CloseUnderWay(u) => CloseUnderWay(u)'
        BY <3>2, <4>3 DEF CloseUnderWay
      <4> QED
        BY <1>0, <2>1, <2>3, <2>5, <3>1, <4>1, <4>2, <4>3, <4>4, KernelHandsOver
    <3>4. CASE TakeClose
      <4>1. /\ h.topic = "TRADE_CLOSED" /\ tracked' = tracked \ {h.id} /\ h.by \in {"broker", "hand"}
            /\ writing' = IF h.id # None /\ h.by = "broker" THEN h ELSE NoMessage
        BY <2>2, <3>4, ReportKinds DEF TakeClose, h, Untrack
      <4>2. \A ok \in BOOLEAN : ResultOf(u, ok) \in InFlight => ResultOf(u, ok) \in InFlight'
        <5>1. \A ok \in BOOLEAN : ResultOf(u, ok) # h
          BY <4>1, ResultFacts
        <5> QED
          BY <2>2, <5>1 DEF InFlight
      <4>3. h.id # u => (CloseSaid(u) => CloseSaid(u)')
        BY <2>2 DEF CloseSaid
      <4>4. ASSUME h.id = u
            PROVE  /\ u \notin tracked' /\ ~Handled(u)
                   /\ money[u] # "none" \/ (writing'.topic = "TRADE_CLOSED" /\ writing'.id = u)
        <5>1. h.of = u
          BY <1>0, <2>2, <4>1, <4>4 DEF Orderly, Closes, ClosesBy
        <5>2. ~Handled(u)
          BY <2>4, <2>7, <5>1
        <5>3. h.by = "hand" => money[u] # "none"
          BY <2>2, <4>1, <5>1 DEF Booked, ClosesBy
        <5> QED
          BY <1>0, <4>1, <4>4, <5>2, <5>3
      <4>5. writing'.topic = "TRADE_CLOSED" /\ writing'.id = u => h.id = u
        BY <4>1, ResultFacts
      <4>6. CloseUnderWay(u) => CloseUnderWay(u)' \/ money'[u] # "none"
        BY <2>1, <3>2, <4>3, <4>4 DEF CloseUnderWay
      <4> QED
        BY <1>0, <2>1, <2>3, <2>5, <3>1, <4>2, <4>3, <4>4, <4>5, <4>6, KernelHandsOver
    <3> QED
      BY <1>10, <3>3, <3>4
  <2> QED
    BY <2>6, <2>7
<1>11. CASE WriteBack
  <2>1. /\ UNCHANGED <<tracked, handling, closing, early, toKernel>>
        /\ writing \in Reports /\ writing' = NoMessage /\ NoMessage \notin Reports
    BY <1>0, <1>11, ResultFacts DEF WriteBack, LedgerTypeOK, wires
  <2>2. Said' = Said /\ InFlight \subseteq InFlight' \cup {writing} /\ Handled(u)' = Handled(u)
    BY <1>1, <2>1 DEF InFlight, Handled
  <2>3. CloseSaid(u)' = CloseSaid(u) /\ ~(writing'.topic = "TRADE_CLOSED" /\ writing'.id = u)
    BY <2>1, <2>2, ResultFacts DEF CloseSaid
  <2>4. writing.topic = "TRADE_CLOSED" => writing.id = writing.of
    BY DEF Orderly, Closes
  <2>5. CASE u \in lostAbout' \cup early'
    BY <2>5 DEF Custody
  <2>6. CASE u \notin lostAbout' \cup early'
    <3>1. /\ money[u] # "none" /\ (u \in tracked \/ Handled(u)) => closing[u] = "written" \/ CloseSaid(u)
          /\ writing.topic = "TRADE_CLOSED" /\ writing.id = u => u \notin tracked /\ ~Handled(u)
      BY <1>0, <2>1, <2>6 DEF Custody
    <3>2. CASE writing.of # u /\ UNCHANGED rowVars
      <4>1. \A ok \in BOOLEAN : ResultOf(u, ok) \in InFlight => ResultOf(u, ok) \in InFlight'
        BY <2>2, <3>2, ResultFacts
      <4>2. CloseUnderWay(u) => CloseUnderWay(u)'
        BY <2>3, <2>4, <3>2 DEF CloseUnderWay
      <4>3. UNCHANGED <<outcome, money, linked>> /\ OpenRows' = OpenRows
        BY <3>2 DEF rowVars, OpenRows
      <4> QED
        BY <1>0, <2>1, <2>2, <2>3, <3>1, <4>1, <4>2, <4>3, KernelHandsOver
    <3>3. CASE writing.topic = "TRADE_CLOSED" /\ Written(writing)
      <4>1. money' = [money EXCEPT ![writing.id] = "broker"] /\ UNCHANGED <<outcome, linked>>
        BY <3>3 DEF Written
      <4>2. \/ money'[u] = money[u] /\ writing.id # u
            \/ money'[u] # "none" /\ writing.id = u
        BY <1>0, <4>1 DEF LedgerTypeOK
      <4>3. u \in OpenRows' => u \in OpenRows
        BY <4>1, <4>2 DEF OpenRows
      <4>4. \A ok \in BOOLEAN : ResultOf(u, ok) \in InFlight => ResultOf(u, ok) \in InFlight'
        BY <2>2, <3>3, ResultFacts
      <4>5. CloseUnderWay(u) => CloseUnderWay(u)' \/ money'[u] # "none"
        BY <2>3, <4>2 DEF CloseUnderWay
      <4>6. money[u] # "none" => money'[u] # "none"
        BY <4>2
      <4>7. money'[u] # "none" /\ (u \in tracked' \/ Handled(u)') => closing'[u] = "written" \/ CloseSaid(u)'
        BY <2>1, <2>2, <2>3, <3>1, <3>3, <4>2
      <4> QED
        BY <1>0, <2>1, <2>3, <4>1, <4>3, <4>4, <4>5, <4>6, <4>7, KernelHandsOver
    <3>4. CASE writing.topic = "MT5_ORDER_RESULT" /\ writing.ok /\ Written(writing)
      <4>1. linked' = linked \cup {writing.of} /\ UNCHANGED <<outcome, money>>
        BY <3>4 DEF Written
      <4>2. OpenRows' = OpenRows
        BY <4>1 DEF OpenRows
      <4>3. /\ ResultOf(u, TRUE) \in InFlight => ResultOf(u, TRUE) \in InFlight' \/ u \in linked'
            /\ ResultOf(u, FALSE) \in InFlight => ResultOf(u, FALSE) \in InFlight'
        <5>1. writing # ResultOf(u, FALSE)
          BY <3>4 DEF ResultOf
        <5>2. writing = ResultOf(u, TRUE) => writing.of = u
          BY DEF ResultOf
        <5> QED
          BY <2>2, <4>1, <5>1, <5>2
      <4>4. CloseUnderWay(u) => CloseUnderWay(u)'
        BY <2>3, <3>4 DEF CloseUnderWay
      <4> QED
        BY <1>0, <2>1, <2>2, <2>3, <3>1, <4>1, <4>2, <4>3, <4>4, KernelHandsOver
    <3>5. CASE writing.topic = "MT5_ORDER_RESULT" /\ ~writing.ok /\ Written(writing)
      <4>1. /\ outcome' = [outcome EXCEPT ![writing.of] = IF writing.of \in OpenRows
                                                          THEN "NOT_EXECUTED" ELSE @]
            /\ UNCHANGED <<money, linked>>
        BY <3>5 DEF Written
      <4>2. (u \in OpenRows' => u \in OpenRows) /\ (writing.of = u => u \notin OpenRows')
        BY <1>0, <4>1 DEF OpenRows, LedgerTypeOK
      <4>3. /\ ResultOf(u, TRUE) \in InFlight => ResultOf(u, TRUE) \in InFlight'
            /\ ResultOf(u, FALSE) \in InFlight => ResultOf(u, FALSE) \in InFlight' \/ u \notin OpenRows'
        <5>1. writing # ResultOf(u, TRUE)
          BY <3>5 DEF ResultOf
        <5>2. writing = ResultOf(u, FALSE) => writing.of = u
          BY DEF ResultOf
        <5> QED
          BY <2>2, <4>2, <5>1, <5>2
      <4>4. CloseUnderWay(u) => CloseUnderWay(u)'
        BY <2>3, <3>5 DEF CloseUnderWay
      <4> QED
        BY <1>0, <2>1, <2>2, <2>3, <3>1, <4>1, <4>2, <4>3, <4>4, KernelHandsOver
    <3>6. CASE Written(writing)
      BY <2>1, <3>3, <3>4, <3>5, <3>6, ReportKinds
    <3>7. CASE Loses({writing.of}) /\ UNCHANGED rowVars
      <4>1. writing.of # u
        BY <2>6, <3>7 DEF Loses
      <4> QED
        BY <3>2, <3>7, <4>1
    <3> QED
      BY <1>11, <3>6, <3>7 DEF WriteBack
  <2> QED
    BY <2>5, <2>6
<1>12. CASE ListenerDrops \/ KernelRestart
  <2>1. /\ UNCHANGED <<outcome, money, linked, closing, early>> /\ toKernel' = <<>>
        /\ About(toKernel) \subseteq lostAbout' /\ OpenRows' = OpenRows
    BY <1>12 DEF ListenerDrops, KernelRestart, Loses, ledgerVars, rowVars, OpenRows
  <2>2. \A m \in Said : m \in Reports /\ m \in InFlight /\ m.of \in lostAbout'
    BY <2>1 DEF Said, InFlight, About
  <2>3. CASE u \in lostAbout' \cup early'
    BY <2>3 DEF Custody
  <2>4. CASE u \notin lostAbout' \cup early'
    <3>1. ~CloseSaid(u)
      <4>1. ASSUME NEW m \in Said, m.topic = "TRADE_CLOSED", m.id = u PROVE FALSE
        <5>1. m.of = u
          BY <1>0, <2>2, <4>1, ReportKinds DEF Orderly, Closes, ClosesBy
        <5> QED
          BY <2>2, <2>4, <5>1
      <4> QED
        BY <4>1 DEF CloseSaid
    <3>2. \A ok \in BOOLEAN : ResultOf(u, ok) \notin Said
      BY <2>2, <2>4, ResultFacts
    <3>3. /\ money[u] # "none" /\ (u \in tracked \/ Handled(u)) => closing[u] = "written"
          /\ writing.topic = "TRADE_CLOSED" /\ writing.id = u => u \notin tracked /\ ~Handled(u)
      BY <1>0, <2>1, <2>4, <3>1 DEF Custody
    <3>4. CASE ListenerDrops
      <4>1. UNCHANGED <<tracked, handling, writing>> /\ Handled(u)' = Handled(u)
        BY <3>4 DEF ListenerDrops, ledgerVars, kernelVars, Handled
      <4>2. \A ok \in BOOLEAN : ResultOf(u, ok) \in InFlight => ResultOf(u, ok) \in InFlight'
        BY <3>2, <4>1 DEF InFlight
      <4>3. CloseUnderWay(u) => CloseUnderWay(u)'
        BY <3>1, <4>1 DEF CloseUnderWay
      <4> QED
        BY <1>0, <2>1, <3>3, <4>1, <4>2, <4>3, KernelHandsOver
    <3>5. CASE KernelRestart
      <4>1. /\ tracked' \subseteq OpenRows /\ handling' = NotHandling /\ writing' = NoMessage /\ ~Handled(u)'
        BY <3>5, RestartReads DEF KernelRestart, Handled
      <4>2. /\ writing # NoMessage => writing.of \in lostAbout'
            /\ handling.step = "saved" => handling.of \in lostAbout'
        BY <3>5 DEF KernelRestart, Loses
      <4>3. \A ok \in BOOLEAN : ResultOf(u, ok) \notin InFlight
        BY <2>4, <3>2, <4>2, ResultFacts DEF InFlight
      <4>4. ~CloseUnderWay(u)
        BY <2>4, <3>1, <4>2, ResultFacts DEF CloseUnderWay, Orderly, Closes
      <4>5. handling # [step |-> "saved", of |-> u]
        BY <2>4, <4>2
      <4>6. u \in tracked' => money'[u] = "none"
        BY <2>1, <4>1 DEF OpenRows
      <4> QED
        BY <1>0, <2>1, <4>1, <4>3, <4>4, <4>5, <4>6, ResultFacts, KernelHandsOver
    <3> QED
      BY <1>12, <3>4, <3>5
  <2> QED
    BY <2>3, <2>4
<1>13. CASE (\E t \in Manual : ManualOrder(t)) \/ (\E t \in Trades : AskToCloseOpen(t))
  BY <1>8, <1>13 DEF ManualOrder, AskToCloseOpen, AskToClose
<1> QED
  BY <1>3, <1>4, <1>5, <1>6, <1>7, <1>9, <1>10, <1>11, <1>12, <1>13 DEF KernelStep, PageStep

\* The layer of the custody is inductive on those of stages and rows,
LEMMA CustodyStep ==
  /\ TypeOK /\ Orderly /\ [Next]_vars
  /\ \A t \in AutoTrades : Booked(t) /\ Watched(t)
  /\ \A t \in AutoTrades : Custody(t)
  => \A t \in AutoTrades : Custody(t)'
<1> SUFFICES ASSUME TypeOK, Orderly, [Next]_vars, NEW u \in AutoTrades, Booked(u), Custody(u)
             PROVE  Custody(u)'
  OBVIOUS
<1>1. CASE UNCHANGED vars
  <2>1. /\ UNCHANGED <<outcome, money, linked, tracked, handling, writing, closing, early, lostAbout>>
        /\ UNCHANGED <<position, ins, outs, reported, task>>
    BY <1>1 DEF vars, bridgeVars, account, ledgerVars, rowVars, kernelVars, history
  <2>2. Ordered' = Ordered /\ Said' = Said /\ InFlight' = InFlight
    BY <1>1, <2>1, NothingOrdered, NothingSaid DEF vars, wires
  <2> QED
    BY <2>1, <2>2
    DEF Custody, CloseUnderWay, CloseSaid, OpenRows, Handled, Placing, PlacedAlready, Marking
<1> QED
  BY <1>1, BridgeCustody, KernelCustody DEF Next

\* and holds always.
LEMMA LifecycleCustody == Spec => [](\A t \in AutoTrades : Custody(t))
<1> DEFINE Books == \A t \in AutoTrades : Booked(t) /\ Watched(t)
           Kept  == \A t \in AutoTrades : Custody(t)
<1>1. Init => Kept
  <2> SUFFICES ASSUME Init, NEW t \in AutoTrades PROVE Custody(t)
    OBVIOUS
  <2>1. /\ t \in Trades /\ position[t] = "none" /\ outcome[t] = "none" /\ money[t] = "none"
        /\ reported = {} /\ writing = NoMessage /\ ~Marking(t)
    BY DEF Init, BridgeInit, LedgerInit, AutoTrades, Marking, Idle
  <2> QED
    BY <2>1, ResultFacts DEF Custody, OpenRows
<1>2. TypeOK /\ Orderly /\ Books /\ Kept /\ [Next]_vars => Kept'
  BY CustodyStep
<1>3. Spec => []Books
  BY LifecycleBooked
<1> HIDE DEF Books, Kept
<1>4. Spec => []Kept
  BY <1>1, <1>2, <1>3, LifecycleTyped, LifecycleOrderly, PTL DEF Spec
<1> QED
  BY <1>4 DEF Kept

\* When nothing is under way, the custody of a trade has ended somewhere.
LEMMA QuietReconciles ==
  TypeOK /\ Orderly /\ (\A t \in AutoTrades : Booked(t) /\ Watched(t))
    /\ (\A t \in AutoTrades : Custody(t)) => Reconciled
<1> SUFFICES ASSUME TypeOK, Orderly, Quiet, NEW t \in AutoTrades \ (lostAbout \cup early),
                    Booked(t), Watched(t), Custody(t)
             PROVE  /\ position[t] = "open"   => /\ t \in linked
                                                 /\ outcome[t] = "APPROVED"
                                                 /\ t \notin leftOut =>
                                                      (t \in tracked <=> money[t] = "none")
                    /\ position[t] = "closed" => t \in linked \ tracked /\ money[t] # "none"
                    /\ position[t] = "none"   => t \notin OpenRows
  BY DEF Reconciled
<1>1. /\ toBridge = <<>> /\ toKernel = <<>> /\ task = Idle
      /\ handling = NotHandling /\ writing = NoMessage /\ closing[t] = "no"
  BY DEF Quiet, wires
<1>2. Ordered = {} /\ Said = {}
  BY <1>1, EmptySeq DEF Ordered, Said
<1>3. InFlight = {} /\ ~CloseSaid(t) /\ ~CloseUnderWay(t)
  BY <1>1, <1>2, ResultFacts DEF InFlight, CloseSaid, CloseUnderWay
<1>4. ~Placing(t) /\ ~PlacedAlready(t) /\ ~Marking(t) /\ ~Handled(t)
      /\ handling # [step |-> "saved", of |-> t]
  BY <1>1 DEF Placing, PlacedAlready, Marking, Idle, Handled, NotHandling
<1>5. money[t] # "none" => t \notin tracked
  BY <1>1, <1>3 DEF Custody
<1>6. CASE position[t] = "open"
  <2>1. t \in linked /\ outcome[t] = "APPROVED"
    BY <1>3, <1>4, <1>6 DEF Custody, Booked
  <2>2. money[t] = "none" /\ t \notin leftOut => t \in tracked
    BY <1>4, <1>6, <2>1 DEF Watched, OpenRows
  <2> QED
    BY <1>5, <1>6, <2>1, <2>2
<1>7. CASE position[t] = "closed"
  <2>1. t \in linked
    BY <1>3, <1>4, <1>7 DEF Custody
  <2>2. t \in outs => t \in reported
    BY <1>7 DEF Quiet, Unreported, AutoTrades, TypeOK, BridgeTypeOK
  <2>3. money[t] # "none"
    BY <1>3, <1>4, <1>7, <2>2 DEF Custody
  <2> QED
    BY <1>5, <1>7, <2>1, <2>3
<1>8. CASE position[t] = "none"
  BY <1>2, <1>3, <1>4, <1>8 DEF Custody
<1> QED
  BY <1>6, <1>7, <1>8 DEF TypeOK, BridgeTypeOK, AutoTrades

\* Once nothing is under way, the table and the account agree on every trade
\* that nothing was lost about.
THEOREM TableMatchesAccount == Spec => []Reconciled
<1> DEFINE Books == \A t \in AutoTrades : Booked(t) /\ Watched(t)
           Kept  == \A t \in AutoTrades : Custody(t)
<1>1. TypeOK /\ Orderly /\ Books /\ Kept => Reconciled
  BY QuietReconciles
<1>2. Spec => []Books
  BY LifecycleBooked
<1>3. Spec => []Kept
  BY LifecycleCustody
<1> HIDE DEF Books, Kept
<1> QED
  BY <1>1, <1>2, <1>3, LifecycleTyped, LifecycleOrderly, PTL

=============================================================================
