--------------------------- MODULE TradePipeline ---------------------------
(***************************************************************************)
(* The kernel's path from a TRADE_SIGNAL to a TRADE_APPROVED: ResearchAgent *)
(* -> SignalFilter -> TradeHandler, with the CircuitBreaker handlers that   *)
(* the outcome calls.                                                      *)
(*                                                                         *)
(* The kernel is one asyncio loop.  A source (the poller, the burst        *)
(* watcher, the Redis listener) awaits the whole pipeline of the signal it *)
(* dispatched, because every bus.publish awaits the handlers of its topic; *)
(* so a source is one process, and a stage is a place where it awaits.     *)
(* What happens between two awaits is one step.                            *)
(***************************************************************************)
EXTENDS TradingHalt, FiniteSets

CONSTANTS
  Sources,     \* the coroutines that dispatch TRADE_SIGNAL
  Listener,    \* the one of them that also relays TRADE_CLOSED from Redis
  Symbols,
  Directions,
  None,        \* no symbol, no direction, no open position
  Risks,       \* what an approved order may add to the day's risk
  Pnls,        \* what a closed trade may bring
  PnlCap       \* bound: the day's P&L the model goes on counting

ASSUME PipelineAssumption ==
  /\ Listener \in Sources
  /\ IsFiniteSet(Sources)
  /\ None \notin Symbols \cup Directions
  /\ Risks \subseteq Nat
  /\ Pnls \subseteq Int
  /\ PnlCap \in Nat

VARIABLES
  stage,       \* where each source awaits
  sym, dir,    \* the signal each source carries
  inFlight,    \* ResearchAgent._in_flight
  open,        \* SignalFilter._open: the direction believed open per symbol
  orphan,      \* a POLICY_BLOCKED that outlived its pipeline is under way
  paused,      \* policy.paused, set by the dashboard
  tgPaused,    \* TelegramBot._paused
  lateBy       \* history: sources that got a trade approved since the halt

pipeVars == <<stage, sym, dir, inFlight, open, orphan>>
vars == <<haltVars, pipeVars, paused, tgPaused, lateBy>>

(***************************************************************************)
(*  research   in ResearchAgent._research: context, LLM, memory            *)
(*  vetting    past the filter's halt checks; symbol switch and news        *)
(*  rejected   SIGNAL_REJECTED is being published                          *)
(*  counted    CircuitBreaker._on_reject saves before it compares          *)
(*  review     SIGNAL_APPROVED: policy gate, LLM review, order, DB row     *)
(*  booked     CircuitBreaker._on_approved saves before it compares        *)
(*  closed     CircuitBreaker._on_closed saves before it compares          *)
(***************************************************************************)
Working == {"research", "vetting", "rejected", "counted", "review", "booked"}
Stages  == Working \cup {"idle", "closed"}

Halted == paused \/ tgPaused \/ triggered

TypeOK ==
  /\ HaltTypeOK
  /\ stage    \in [Sources -> Stages]
  /\ sym      \in [Sources -> Symbols \cup {None}]
  /\ dir      \in [Sources -> Directions \cup {None}]
  /\ inFlight \in SUBSET Symbols
  /\ open     \in [Symbols -> Directions \cup {None}]
  /\ orphan   \in BOOLEAN
  /\ paused   \in BOOLEAN
  /\ tgPaused \in BOOLEAN
  /\ lateBy   \in SUBSET Sources

NoSignal == [t \in Sources |-> None]
NoneOpen == [s \in Symbols |-> None]
AllIdle  == [t \in Sources |-> "idle"]

Init ==
  /\ HaltInit
  /\ stage = AllIdle
  /\ sym = NoSignal
  /\ dir = NoSignal
  /\ inFlight = {}
  /\ open = NoneOpen
  /\ orphan = FALSE
  /\ paused = FALSE
  /\ tgPaused = FALSE
  /\ lateBy = {}

----------------------------------------------------------------------------
(* The signal's path.                                                       *)

Goto(t, to) == stage' = [stage EXCEPT ![t] = to]

\* handle()'s finally: whatever ended the pipeline, the symbol is free again.
Finish(t) ==
  /\ Goto(t, "idle")
  /\ inFlight' = inFlight \ {sym[t]}
  /\ sym' = [sym EXCEPT ![t] = None]
  /\ dir' = [dir EXCEPT ![t] = None]

\* Mutant: no in-flight deduplication.
SignalUndeduplicated(t, s, d) ==
  /\ stage[t] = "idle"
  /\ Goto(t, "research")
  /\ sym' = [sym EXCEPT ![t] = s]
  /\ dir' = [dir EXCEPT ![t] = d]
  /\ inFlight' = inFlight \cup {s}
  /\ UNCHANGED <<haltVars, open, orphan, paused, tgPaused>>

\* A signal for a symbol in flight is skipped: no step.
Signal(t, s, d) ==
  /\ stage[t] = "idle"
  /\ s \notin inFlight
  /\ Goto(t, "research")
  /\ sym' = [sym EXCEPT ![t] = s]
  /\ dir' = [dir EXCEPT ![t] = d]
  /\ inFlight' = inFlight \cup {s}
  /\ UNCHANGED <<haltVars, open, orphan, paused, tgPaused>>

\* RESEARCH_COMPLETE (a real answer or the neutral fallback) reaches the
\* filter, which looks at the three halts before its first await.
SkipHalted(t) ==
  /\ stage[t] = "research"
  /\ Halted
  /\ Finish(t)
  /\ UNCHANGED <<haltVars, open, orphan, paused, tgPaused>>

\* Mutants: the gate forgets one of the three halts.
GateUnlessPaused(t) ==
  /\ stage[t] = "research"
  /\ ~paused /\ ~tgPaused
  /\ Goto(t, "vetting")
  /\ UNCHANGED <<haltVars, sym, dir, inFlight, open, orphan, paused, tgPaused>>

GateIgnoringTelegram(t) ==
  /\ stage[t] = "research"
  /\ ~paused /\ ~triggered
  /\ Goto(t, "vetting")
  /\ UNCHANGED <<haltVars, sym, dir, inFlight, open, orphan, paused, tgPaused>>

Gate(t) ==
  /\ stage[t] = "research"
  /\ ~Halted
  /\ Goto(t, "vetting")
  /\ UNCHANGED <<haltVars, sym, dir, inFlight, open, orphan, paused, tgPaused>>

\* Symbol switched off, news blackout, or only outside trading hours.
SkipSignal(t) ==
  /\ stage[t] = "vetting"
  /\ Finish(t)
  /\ UNCHANGED <<haltVars, open, orphan, paused, tgPaused>>

\* Low confidence or ATR, or a position believed open in this direction.
RejectSignal(t) ==
  /\ stage[t] = "vetting"
  /\ Goto(t, "rejected")
  /\ UNCHANGED <<haltVars, sym, dir, inFlight, open, orphan, paused, tgPaused>>

\* No stacking; the other direction is allowed.  A correlated position only
\* scales the lot, which is part of Risks.
PassSignal(t) ==
  /\ stage[t] = "vetting"
  /\ open[sym[t]] # dir[t]
  /\ Goto(t, "review")
  /\ UNCHANGED <<haltVars, sym, dir, inFlight, open, orphan, paused, tgPaused>>

OnReject(t) ==
  /\ stage[t] = "rejected"
  /\ Goto(t, "counted")
  /\ CountReject
  /\ UNCHANGED <<sym, dir, inFlight, open, orphan, paused, tgPaused>>

\* Mutant: one reject too many.
CheckRejectLate(t) ==
  /\ stage[t] = "counted"
  /\ Finish(t)
  /\ Trip(consec > MaxConsec)
  /\ UNCHANGED <<open, orphan, paused, tgPaused>>

CheckReject(t) ==
  /\ stage[t] = "counted"
  /\ Finish(t)
  /\ Trip(TooManyRejects)
  /\ UNCHANGED <<open, orphan, paused, tgPaused>>

\* POLICY_BLOCKED: the stop is too wide, or the LLM said no.
Block(t) ==
  /\ stage[t] = "review"
  /\ Finish(t)
  /\ ForgetRejects
  /\ UNCHANGED <<open, orphan, paused, tgPaused>>

\* The row of a blocked decision is saved beside the publish, by a gather: if
\* the database fails first, the pipeline ends and the publish goes on alone.
AbandonBlock(t) ==
  /\ stage[t] = "review"
  /\ Finish(t)
  /\ orphan' = TRUE
  /\ UNCHANGED <<haltVars, open, paused, tgPaused>>

\* One of those publishes reaches the breaker; there may be more.
OrphanBlock ==
  /\ orphan
  /\ orphan' \in BOOLEAN
  /\ ForgetRejects
  /\ UNCHANGED <<stage, sym, dir, inFlight, open, paused, tgPaused>>

\* The order is sized, placed and saved, then TRADE_APPROVED runs the
\* filter's and the breaker's handlers in one turn of the loop.
Approve(t, usd) ==
  /\ stage[t] = "review"
  /\ Goto(t, "booked")
  /\ open' = [open EXCEPT ![sym[t]] = dir[t]]
  /\ CountApproved(usd)
  /\ UNCHANGED <<sym, dir, inFlight, orphan, paused, tgPaused>>

\* Mutant: the budget must be exceeded.
CheckBudgetLate(t) ==
  /\ stage[t] = "booked"
  /\ Finish(t)
  /\ Trip(dayNotional > DailyBudget)
  /\ UNCHANGED <<open, orphan, paused, tgPaused>>

CheckBudget(t) ==
  /\ stage[t] = "booked"
  /\ Finish(t)
  /\ Trip(BudgetSpent)
  /\ UNCHANGED <<open, orphan, paused, tgPaused>>

\* Mutant: the symbol is released only by a pipeline that succeeds.
AbortLeaking(t) ==
  /\ stage[t] \in {"research", "vetting", "rejected", "review"}
  /\ Goto(t, "idle")
  /\ UNCHANGED <<haltVars, sym, dir, inFlight, open, orphan, paused, tgPaused>>

\* bus.publish raises before any local handler runs when Redis is away, and
\* so do the database and the feeds: the source logs it and goes on.
Abort(t) ==
  /\ stage[t] \in {"research", "vetting", "rejected", "review"}
  /\ Finish(t)
  /\ UNCHANGED <<haltVars, open, orphan, paused, tgPaused>>

----------------------------------------------------------------------------
(* TRADE_CLOSED, relayed one at a time by the listener: any position of the *)
(* account may close, whoever opened it.                                    *)

Closed(s, pnl) ==
  /\ stage[Listener] = "idle"
  /\ Goto(Listener, "closed")
  /\ open' = [open EXCEPT ![s] = None]
  /\ Today(dayPnl) + pnl \in -PnlCap .. PnlCap
  /\ CountPnl(pnl)
  /\ UNCHANGED <<sym, dir, inFlight, orphan, paused, tgPaused>>

CheckLoss ==
  /\ stage[Listener] = "closed"
  /\ Goto(Listener, "idle")
  /\ Trip(LossLimitHit)
  /\ UNCHANGED <<sym, dir, inFlight, open, orphan, paused, tgPaused>>

----------------------------------------------------------------------------
(* Operators, the clock and crashes.                                        *)

Pause ==
  /\ paused' = TRUE
  /\ UNCHANGED <<haltVars, pipeVars, tgPaused>>

Resume ==
  /\ paused' = FALSE
  /\ ResetRequest
  /\ UNCHANGED <<pipeVars, tgPaused>>

ResetButton ==
  /\ ResetRequest
  /\ UNCHANGED <<pipeVars, paused, tgPaused>>

TelegramPause ==
  /\ tgPaused' = TRUE
  /\ UNCHANGED <<haltVars, pipeVars, paused>>

TelegramResume ==
  /\ tgPaused' = FALSE
  /\ Reset
  /\ UNCHANGED <<pipeVars, paused>>

NewDay ==
  /\ DayEnds
  /\ UNCHANGED <<pipeVars, paused, tgPaused>>

MidnightReset ==
  /\ MidnightClears
  /\ UNCHANGED <<pipeVars, paused, tgPaused>>

\* The kernel dies and boots: its memory is gone, polis:control is read back.
Restart ==
  /\ stage' = AllIdle
  /\ sym' = NoSignal
  /\ dir' = NoSignal
  /\ inFlight' = {}
  /\ open' = NoneOpen
  /\ orphan' = FALSE
  /\ HaltRestart
  /\ paused' \in BOOLEAN
  /\ tgPaused' = FALSE

----------------------------------------------------------------------------
Step(t) ==
  \/ SkipHalted(t) \/ Gate(t)
  \/ SkipSignal(t) \/ RejectSignal(t) \/ PassSignal(t)
  \/ OnReject(t) \/ CheckReject(t)
  \/ Block(t) \/ (\E usd \in Risks : Approve(t, usd)) \/ CheckBudget(t)
  \/ AbandonBlock(t) \/ Abort(t)

Operator ==
  \/ Pause \/ Resume \/ ResetButton \/ TelegramPause \/ TelegramResume

Move ==
  \/ \E t \in Sources, s \in Symbols, d \in Directions : Signal(t, s, d)
  \/ \E t \in Sources : Step(t)
  \/ \E s \in Symbols, pnl \in Pnls : Closed(s, pnl)
  \/ CheckLoss
  \/ OrphanBlock
  \/ Operator
  \/ NewDay \/ MidnightReset
  \/ Restart

\* lateBy collects, from the moment trading is halted until it is allowed
\* again, the sources whose signal was approved nevertheless.
Approved(t) == stage[t] = "review" /\ stage'[t] = "booked"

Remember ==
  lateBy' = IF Halted /\ Halted'
              THEN lateBy \cup {t \in Sources : Approved(t)}
              ELSE {}

Next == Move /\ Remember

Spec == Init /\ [][Next]_vars

\* Every await of a pipeline ends: the LLM calls, the broker and the feeds
\* have timeouts, and whatever raises ends the pipeline; the breaker's save
\* returns or raises, and swallows what it raises.  Signals, closes, operators
\* and crashes owe nothing.
Fairness ==
  /\ \A t \in Sources : WF_vars(Step(t) /\ Remember)
  /\ WF_vars(CheckLoss /\ Remember)

FairSpec == Spec /\ Fairness

----------------------------------------------------------------------------
(* Properties.                                                              *)

\* No signal gets past the filter, or stays past it, for a direction in which
\* the filter believes its symbol open: the check is separated from the
\* bookkeeping by an LLM call, and only in-flight deduplication keeps a second
\* source from using that window.
NoStacking ==
  \A t \in Sources : stage[t] = "review" => open[sym[t]] # dir[t]

\* A limit that is reached has halted trading, unless the handler that counted
\* it is still saving and will compare.
NoMissedTrip ==
  /\ TooManyRejects => triggered \/ \E t \in Sources : stage[t] = "counted"
  /\ BudgetSpent    => triggered \/ \E t \in Sources : stage[t] = "booked"
  /\ LossLimitHit   => triggered \/ stage[Listener] = "closed"

\* The budget is checked after the order: it is overshot, but by no more than
\* one order of every source.
BudgetOvershoot ==
  \A most \in Risks :
    (\A usd \in Risks : usd <= most)
      => dayNotional < DailyBudget + most * Cardinality(Sources)

\* Pausing or tripping stops no pipeline that is past the gate, yet until
\* trading is allowed again each source gets at most one more trade approved.
OneLateApproval ==
  [][\A t \in Sources : Approved(t) /\ Halted => t \notin lateBy]_vars

\* A symbol that is being worked on becomes free again, however its pipeline
\* ends: a symbol left in _in_flight would never be traded again.
InFlightReleased ==
  \A s \in Symbols : s \in inFlight ~> s \notin inFlight

\* A limit that is reached halts trading, unless a reset empties its counter
\* first: the comparison behind the save always comes.
LimitHalts ==
  /\ TooManyRejects ~> (triggered \/ ~TooManyRejects)
  /\ BudgetSpent    ~> (triggered \/ ~BudgetSpent)
  /\ LossLimitHit   ~> (triggered \/ ~LossLimitHit)

=============================================================================
