--------------------------- MODULE SignalSources ---------------------------
(***************************************************************************)
(* Where TRADE_SIGNAL comes from, and how often the kernel's handlers see   *)
(* each signal: the TwelveData poller and the burst watcher dispatch inside *)
(* the kernel, the mock publishes on the kernel's bus, the webhook publishes*)
(* in Redis, and the external listener dispatches what it hears there.      *)
(***************************************************************************)
EXTENDS Naturals, Sequences, SequencesExt

CONSTANTS
  SignalSymbols,   \* the symbols, in order
  MaxSignals       \* bound: signals

ASSUME SourcesAssumption ==
  MaxSignals \in Nat /\ SignalSymbols \in Seq(ToSet(SignalSymbols))

VARIABLES
  mode,       \* SIGNAL_SOURCE
  signals,    \* by number: who made it, and how often it was handled
  heard,      \* numbers on their way to the external listener
  listening,  \* is it subscribed?
  cycle       \* symbols the poller or the mock has still to come to

sourceVars == <<mode, signals, heard, listening, cycle>>

SourcesTypeOK ==
  /\ mode \in {"mock", "twelvedata", "external"}
  /\ signals \in Seq([by : {"mock", "poll", "burst", "webhook"}, handled : 0 .. 3])
  /\ Len(signals) <= MaxSignals /\ heard \in Seq(1 .. MaxSignals)
  /\ listening \in BOOLEAN /\ cycle \in Seq(ToSet(SignalSymbols))

SourcesInit ==
  /\ mode \in {"mock", "twelvedata", "external"}
  /\ signals = <<>> /\ heard = <<>> /\ listening = FALSE
  /\ cycle = <<>>

----------------------------------------------------------------------------
Number == Len(signals) + 1

Made(by, handled) ==
  /\ Len(signals) < MaxSignals
  /\ signals' = Append(signals, [by |-> by, handled |-> handled])

\* In Redis; nobody keeps it for a listener that is away.
Broadcast == heard' = IF listening THEN Append(heard, Number) ELSE heard

\* EventBus.publish: Redis first, then the local handlers.
BusPublish(by) == Made(by, 1) /\ Broadcast

\* EventBus.dispatch: the local handlers only.
Dispatch(by) == Made(by, 1) /\ UNCHANGED heard

\* Mutant: the poller publishes.
PollPublishes == BusPublish("poll")

PollSends == Dispatch("poll")

CycleStarts ==
  /\ mode # "external" /\ cycle = <<>>
  /\ cycle' = SignalSymbols
  /\ UNCHANGED <<mode, signals, heard, listening>>

\* TwelveDataPublisher: no price from TwelveData nor yfinance is no signal.
Poll ==
  /\ mode = "twelvedata" /\ cycle # <<>>
  /\ cycle' = Tail(cycle)
  /\ PollSends \/ UNCHANGED <<signals, heard>>
  /\ UNCHANGED <<mode, listening>>

MockSignal ==
  /\ mode = "mock" /\ cycle # <<>>
  /\ cycle' = Tail(cycle)
  /\ BusPublish("mock")
  /\ UNCHANGED <<mode, listening>>

\* tradingview_webhook runs in the gateway, which has no handlers.
Webhook ==
  /\ Made("webhook", 0) /\ Broadcast
  /\ UNCHANGED <<mode, listening, cycle>>

\* _external_listener: dispatches what it hears, its own kernel's signals too.
HearSignal ==
  /\ heard # <<>> /\ heard' = Tail(heard)
  /\ signals' = [signals EXCEPT ![heard[1]].handled = @ + 1]
  /\ UNCHANGED <<mode, listening, cycle>>

ListenerTurns ==
  /\ listening' = ~listening /\ heard' = <<>>
  /\ UNCHANGED <<mode, signals, cycle>>

\* BurstWatcher._tick sends a burst of any symbol: module BurstWatcher.
Burst ==
  /\ Dispatch("burst")
  /\ UNCHANGED <<mode, listening, cycle>>

SourcesNext ==
  CycleStarts \/ Poll \/ MockSignal \/ Burst \/ Webhook \/ HearSignal \/ ListenerTurns

----------------------------------------------------------------------------
\* The handlers see a signal once, although the kernel listens to the topic it
\* also feeds; only the mock's signals come back to it.
HandledOnce ==
  \A i \in DOMAIN signals : signals[i].handled <= IF signals[i].by = "mock" THEN 2 ELSE 1

=============================================================================
