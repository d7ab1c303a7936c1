# POLIS in TLA+

A verification project for the POLIS trading system: TLA+ models of the parts that decide
whether, how large and how often it trades, how its positions are executed, protected and
accounted for, and of the services around them; TLC configurations that check them on small
instances; and TLAPS proofs of the theorems that matter most. Every definition is translated
from the source; `PROJECT.json` maps each one to its lines.

    tlc -workers 2 -config MCTradePipeline.cfg MCTradePipeline
    tlc -workers 2 -config MCTradeLifecycle.cfg MCTradeLifecycle
    tlapm --threads 4 TradeLifecycleProofs.tla

## 1. The system

Kernel (one asyncio loop), gateway (FastAPI), dashboard (Next.js) and an MT5 bridge on a
Windows host exchange messages over Redis pub/sub and keep decisions in Postgres.

| Component | State | Operations | Talks to | What is hard | What makes it correct |
|---|---|---|---|---|---|
| ResearchAgent | `_in_flight` | TRADE_SIGNAL: skip a duplicate, research, publish | bus, LLM, Qdrant | long awaits, failures in the middle | one pipeline per symbol; a symbol is always released |
| SignalFilter | `_open`, thresholds, caches | three halt checks; news, confidence, hours, position, correlation; book approvals and closes | bus, policy, Telegram, breaker | checks long before the booking; a restart empties the book | no stacking; nothing starts while halted |
| TradeHandler | none | policy gate, LLM review, sizing, order, row, publish | broker, DB, bus | the order comes before the budget check; publish may raise after it | bounded overshoot; order, row and books agree |
| CircuitBreaker | counters, flag, streaks, recovery | rejects, blocks, approvals, closes, resets, midnight | bus, Redis | every handler counts, awaits, compares; risk overrides are messages | no limit is missed; risk in force follows the counters; halts last and end as documented |
| PolicyEngine, PolicyGovernor | `max_risk`, `paused` | evaluate; board resolutions | bus, Redis | five authors of `max_risk`: environment, page, Telegram, governor, breaker | bounds; dashboard and kernel agree |
| Boot and listeners | connections | restore the pause, relay control and external messages, restart crashed components | Redis | five seconds of silence after an error | nothing lost that matters; a pause survives |
| TradeTracker | `_open` | approvals, order results, ticks, closes, trailing | DB, bus | results before approvals, double closes | tracked = open at the broker; one close per trade |
| db | `trade_decisions` | save, close, record execution, mark not executed | Postgres | unconditional updates by several writers | a trade is settled at one price; a refused order is never a trade |
| MT5 bridge | open tickets, reported set | execute, hedge close, trailing, partial take-profit, report closes, rehydrate | MT5, Redis | crash between publish and mark; a restart that knows only where the stop is now | each close reported once, none lost; no gain given back |
| Gateway: control, trades | `polis:control` | pause, resume, risk, settings, manual close and order | Redis, DB | store and publish are two steps | the store and the kernel agree |
| Gateway: content queue | `content_queue` | add, schedule, publish, worker | media service | two publishers, a timeout shorter than the post | posted once |
| Gateway: subscriptions | requests, subscribers | request, approve, reject, expire | kernel, Telegram | two approvals of a request | nobody gets more than a plan; what is over ends |
| BoardMeeting | `_trigger`, interval | meet, wait, wake early | LLM, bus | any step of a meeting raises | the board always meets again |
| CostTracker | buffer, aggregate | record, flush, re-queue | Redis | failure after the write | every call is accounted for |
| BurstWatcher, publishers | windows, cooldowns | rounds over prices, signals | bus, Redis | the kernel hears its own topic; handlers raise | a signal is handled once; bursts keep their distance |
| Telegram bot | `_paused` | /pause, /resume, /risk, menus | policy, breaker | memory only | paused means no new trades |
| Backtest | none | crossings, simulation, report | TwelveData | bar after signal, running peak | the report is what the bars say |
| Dashboard, reports, world model, shadow analyst, memory | read-only, or output | | | | not modelled: no path to an order |

`bus.publish` sends to Redis first and then awaits every local handler of the topic;
`bus.dispatch` only does the latter. So the coroutine that dispatches a TRADE_SIGNAL awaits the
whole chain RESEARCH_COMPLETE, SIGNAL_APPROVED, TRADE_APPROVED before it turns to its next
signal, and a source of signals is one sequential process. The loop switches at awaits only;
what a handler does between two awaits is one step of the models. `asyncio.gather` schedules
the handlers of a topic in one turn, so their parts before the first await are one step too.

## 2. The modules

### Whether to trade

| Module | Models | State and actions |
|---|---|---|
| `TradingHalt` | the breaker's limits, flag and resets | fragments of handlers: `CountReject`, `CountApproved`, `CountPnl`, `ForgetRejects`, `Trip`, `Reset`, `ResetRequest`, `MidnightClears` |
| `TradePipeline` | signal sources, ResearchAgent, SignalFilter, TradeHandler, the breaker's halting half, operators, midnight, restart | `stage[t]` is the await where source `t` is; one action per stretch between awaits |
| `CircuitBreaker` | the breaker as governor of risk: `_on_closed` with its awaits, streak, step-down, recovery mode, RISK_OVERRIDE and its listener, the recovery key in Redis | `handler` is the await where `_on_closed` is |

`TradePipeline` and `CircuitBreaker` both extend `TradingHalt` and interleave its fragments
with their own callers. `TradePipeline` takes closes as far as they count money;
`CircuitBreaker` takes them in full and leaves rejects and the budget to `TradePipeline` (its
`RefreshDay` stands for any other handler that meets a new day). The reason to split is the
state space; the joint they share, the flag and the day's counters, is one module.

- A signal: `Signal` (handle, `_in_flight`), `Gate` or `SkipHalted` (the halt checks at the
  start of `_on_research`), `SkipSignal`, `RejectSignal` or `PassSignal` (after the symbol and
  news lookups), `Block` or `Approve` (TradeHandler and the handlers of what it publishes),
  `CheckReject` and `CheckBudget` (behind the breaker's save). `Abort` is an exception at any
  await: Redis, database and feeds raise, and the source's own loop catches it. A blocked
  decision is published and saved by one `gather`; when the row fails, the pipeline ends and
  the publish goes on without it (`AbandonBlock`, `OrphanBlock`). Telegram,
  Discord, memory, broker and breaker saves swallow what they raise.
- Redis publish, LLM review, order and row are one stage, `review`: between them the kernel
  changes none of the modelled state.
- `newDay` says that the UTC date is no longer the breaker's `_day_key`; `midnightDue` that
  `run()` has not yet woken for this midnight. The two happen in any order.
- A closed trade is won when its P&L is at least 0 and lost when it is at most 0: the bridge
  and the gateway classify 0 differently.
- `max_risk` is one of the levels base, half, boost and manual; the factors are not modelled.
  `scale` is the key `polis:recovery_scale`, or unset.

### From the decision to the settlement

| Module | Models | State and actions |
|---|---|---|
| `TradeMessages` | the two pub/sub channels between kernel, gateway and bridge, and the budget of failures | `toBridge`, `toKernel`; `Order`, `Tell`; what was lost or told again is kept as history |
| `Bridge` | `execute_order` with hedging and refusals, close requests, `report_closed_positions`, `rehydrate_open_tickets`, restarts; the account | `task` is where the loop is; `position`, `ins`, `outs` are the account and its deal history, `tickets` the bridge's memory, `reported` the Redis set |
| `TradeLedger` | order and row in TradeHandler, the filter's book, the tracker with its database writes, the listener, the page's order and close buttons | `handling`, `writing` and `closing` are the awaits of handler, tracker and page; `outcome`, `money`, `linked` are columns of the row |
| `OpenTrades` | `get_open_trades`, what a tracker that starts reads back: the newest open rows, of all symbols, up to the limit of the query | `Fetched`, `LeftOutOf`; used by `TradeLedger` and `SimulatedTrades` |
| `TradeContract` | abstract: per decision, what the ledger may say given what the account did | `Approve`, `Refuse`, `Settle`, `WriteOff` against `Opens`, `Closes` |
| `TradeLifecycle` | the composition of `Bridge` and `TradeLedger` over the lossy channels, and the refinement of `TradeContract` (`Contract`, `KeepsContract`) | |

The bridge is one thread, so between two of its steps only the account moves or the process
dies. A ticket is named by the decision it executes; the order's comment carries the name
through a restart. `Bridge` and `TradeLedger` share nothing but the channels: `Next` is a step of
one with the other unchanged. `LedgerOf` reads the columns of a row together: settled at the
broker's price, written off by hand, approved, refused, or not there.

### Stops and prices

| Module | Models | State and actions |
|---|---|---|
| `BridgeStops` | `manage_trailing`, the partial take-profit, `modify_sl` and its refusal, what `rehydrate_open_tickets` rebuilds, `_wait_for_redis`, the watchdog's alarm "unprotected" | `gain`, `slip` of the fill, `sl`, `tp`, `volume` at MT5; `meta` is the bridge's record. `Poll` is a round of the loop, `Watch` the watchdog behind it, `Market` the price |
| `SimulatedTrades` | the tracker without a broker: the row and then its announcement, ticks, trailing, closing, the echo of TRADE_CLOSED | `approving` are rows whose TRADE_APPROVED is on its way to Redis (`Opened`, `Booked`, `Unannounced`); `tick[k]` is what a tick's handler has still to close and its await: `WriteRow`, `Delete`, `Publish`, `Fails` |
| `Backtest` | crossings, the play of a signal bar by bar, the drawdown of the report | `PlayBar`, `WalkTrade` |
| `Protection` | composes the three | `focus` |

Prices are gains of the position in points, so that a short is the mirror of a long.

### Around trading

| Module | Models | State and actions |
|---|---|---|
| `ControlPlane` | the page's pause, risk and settings (stored, then published), Telegram's, the governor's, the breaker's overrides of the risk, boots, the control listener | `stored` in Redis, `inUse` in the kernel, `wire` between; `todo[u]` are the steps a request has left |
| `Board` | the meeting, votes, the CEO, the announcement, the wait, the trigger and the interval | `board` is the await of the loop; `Adjourns` and `Aborts` end a meeting |
| `CostTracker` | record, flush with its three awaits, re-queue | `flushing`; `buffer` and `taken` are the two lists |
| `SignalSources` | which source publishes, which dispatches, and the listener that hears its own kernel | `signals[i].handled` counts |
| `BurstWatcher` | rounds, window, cooldown, symbols switched off, a handler that raises, restarts | `hist`, `lastFire`; `Look` is one symbol of a round |
| `ContentQueue` | the queue's endpoints, the worker and its time limit at any await of the request, failures of the database, restarts | `handler[h]` is the await of a publish request: read, mark, post, note |
| `ManualOrders` | an order by hand, its row, the bridge's answer, the settle task | `settling` holds the answer and the rows the subselect found |
| `Subscriptions` | request, approval in three statements, repeated or concurrent, manual rows, the hourly expiry | `approving[a]` is how far an admin's approval is |
| `Operations` | composes the eight | `focus` |

The parts of `Protection`, and those of `Operations`, share no state. A behaviour follows one
part, chosen by `focus`, and the others stay at their initial states, so that one run is the sum
of the parts' state spaces and not their product. A property of a part holds of the others'
behaviours because it holds initially.

`MCTradePipeline`, `MCCircuitBreaker`, `MCTradeLifecycle`, `MCProtection` and `MCOperations`
give the constants values.

### The proofs

| Module | Extends | Holds |
|---|---|---|
| `TradingHaltProofs` | `TradingHalt` | lemmas on the breaker's fragments, for the next two |
| `TradePipelineProofs` | `TradePipeline` | five theorems |
| `CircuitBreakerProofs` | `CircuitBreaker` | four theorems |
| `TradeLifecycleProofs` | `TradeLifecycle` | the types, the stages of an order, the rows, and the four invariants of the run `lifecycle` |
| `ContractProofs` | `TradeLifecycleProofs` | the refinement of `TradeContract` |
| `ProtectionProofs` | `Protection` | an invariant for each of the three parts, and nine theorems |
| `ControlProofs` | `ControlPlane`, `Board`, `CostTracker`, `SignalSources`, `BurstWatcher` | the invariants of the kernel's parts of `Operations`, as lemmas |
| `OperationsProofs` | `Operations`, `ControlProofs` | the same for the gateway's parts, and the nine theorems about `Operations` |

### Abstractions and assumptions

- Prices, confidences, hours and lots are free choices. `TRADE_EXECUTION=mt5`, the default, holds
  in all modules but `SimulatedTrades`: TRADE_CLOSED comes through the listener, one at a time.
- The breaker's Redis commands take effect in the order they were issued (its connection pool
  would allow two concurrent commands to be swapped); a queue of overrides is lost whole when the
  listener's connection drops; the news and symbol caches are inside the free choice of
  `SkipSignal`.
- What MT5 answers is taken as true: a deal it reports happened, an order it refuses did not. Its
  history may come without a deal (the five minutes before the bridge's start), which `lostAbout`
  records.
- History variables serve the properties only. `lostAbout` are trades of which a message, deal
  or write was lost; `retold` those whose close somebody had reason to repeat; `early` those the
  listener heard of before the kernel had booked them; `doubt` the keys of which a change was
  lost or crossed another, or that were changed where the page is not told; `leftOut` and `unseen`
  the open rows a restart did not read, the latter also those whose approval was never announced;
  `retried` and `unmarked` the queue items somebody published or scheduled again by hand, and
  those the worker gave up before their row was marked; `byHand` what an admin typed in. No guard
  of an action reads one, but for their bounds.
- `get_open_trades` returns the newest 50 open rows of all symbols. The models follow one symbol:
  the newer rows of the others leave it some room, which a restart chooses, and any of its rows may
  be the newest. `RowLimit` stands for the 50.
- `positions_get` returns None on an error, which the bridge reads as no positions: an order in
  that moment would neither hedge nor be refused. `TakeOrder` assumes that it answers.
- The levels of the stop are set around the price asked for and the gain counts from the fill,
  which may be off by up to `Slip` times the ratio; the distance a restart recovers is then off by
  the slippage divided by the ratio. A ticket without a tick, and an exception in the round of
  another ticket, end this one's poll as a refused move does (`StopRefused`).
- The worker's query takes at most ten rows and orders nothing: `Fetch` takes any of the due ones.
- The breaker's overrides in `ControlPlane` come at any time and are any of the three values it
  sends; when it sends which is the subject of `CircuitBreaker`.
- In `BridgeStops` the market moves at most a point between a poll and the watchdog that
  follows it in the same round. `PARTIAL_TP_R` is 0 by default; the model has it switched on.
  The hysteresis is an absolute 0.001 in the code, less than a point of gold and ten pips of an
  FX pair: a constant of the model.
- In the simulator the kernel publishes TRADE_CLOSED to itself and hears it again through Redis;
  `heard` counts it. What the breaker counts twice there is a hazard listed without a property:
  no comment promises otherwise, and MT5 is the default.
- Statements about rows take the SQL as written. asyncpg accepts only datetime objects for
  timestamp parameters, where the gateway passes strings in places (`scheduled_at`, a
  subscriber's `expires_at`); a refusal by the driver is a step that is not taken. A time in a row
  may then only come from the other statements that write one.

## 3. What is checked

| Run | Result | Shows |
|---|---|---|
| `pipeline` | 1,431,612 states | `TypeOK`, `NoStacking`, `NoMissedTrip`, `BudgetOvershoot`, `OneLateApproval` |
| `pipeline_live` | 126,052 states | `InFlightReleased`, `LimitHalts` |
| `breaker` | 473,334 states | `CBTypeOK`, `NoStaleOverride`, `DrawdownHandled`, `RecoveryNeedsWins`, `HaltEnds` |
| `lifecycle` | 2,027,422 states | `TypeOK`, `OneSided`, `CountedOnce`, `Reconciled`, `StillTracked`, `KeepsContract` |
| `lifecycle_live` | 88,398 states | `ClosesAreSettled` |
| `protection` | 1,562,103 states | `TypeOK`, `StopDistanceKept`, `GainIsKept`, `StopNeverLoosens`, `HalvedOnce`, `NoFalseAlarm`, `ProfitGetsProtected`, `ClosesOnce`, `OpenIsTracked`, `BacktestRight` |
| `operations` | 1,519,101 states | `TypeOK`, `RiskInBand`, `KernelFollows`, `BoardKeepsMeeting`, `CostsAccounted`, `HandledOnce`, `BurstsSpaced`, `WorkerPostsOnce`, `ManualRowsTrue`, `PaidFor`, `ExpiryHappens` |
| `halt_lasts` | violated | a restart clears a tripped breaker |
| `half_until_recovered` | violated | the recovery key expires while recovery mode goes on |
| `reported_once` | violated | a close is published, not noted, and published again |
| `broker_wins` | violated | the page's close overwrites the broker's result |
| `telegram_pause` | violated | a restart ends Telegram's pause |

Whether to trade:

- `NoStacking`: the filter's look at its book and the booking are an LLM call apart. Only the
  deduplication in ResearchAgent keeps a second source out of the window.
- `OneLateApproval`: a signal that is past the gate is not recalled by a halt. Because a source
  is sequential and the gate is before every review, each source gets one late approval at most,
  however the operator and the breaker interleave. `BudgetOvershoot` is the money side of it.
- `NoMissedTrip`, `LimitHalts`, `DrawdownHandled`: the comparison behind the save is never lost
  to a reset, a new day or another handler that runs in the save.
- `NoStaleOverride`: when nothing is under way and nothing was lost, boosted risk means a streak
  and halved risk means a stepped-down day. The midnight reset is essential: a new day met by a
  handler resets the counters and sends nothing.

From the decision to the settlement:

- `OneSided`: whatever the filter's book forgot (a restart, the close of another position, an
  order on top of an opposite one), the bridge closes what is opposite and refuses what would
  stack. The book alone does not give this.
- `CountedOnce`: a close enters the day's P&L twice only if somebody had reason to repeat it: the
  bridge could not ask or note what it had reported, or the row was closed by hand. The run
  `reported_once` shows that the first happens.
- `Reconciled`: once all is quiet, row and account agree on every trade about which nothing was
  lost and which the listener did not hear of too early, and so does the tracker, unless its last
  start had no room for the row. What is lost stays lost: nothing reconciles the table with the
  deal history afterwards. An early refusal leaves a ghost in the tracker until the next restart.
- `StillTracked`: the tracker's book, unlike the filter's, is read back from the table, as far as
  the limit of the query goes: with more open rows than that a restart does lose the oldest.
- `KeepsContract`: every step of the detailed system is a step of `TradeContract` or leaves its
  state alone: no position without an approved row, no "not executed" over one that has a
  position, no settlement at the broker's price before the close. A decision written off by hand
  promises nothing, as the page closes the row and not the position.
- `ClosesAreSettled`: what closes is settled in the end, unless it is in `lostAbout`.

Stops and prices:

- `StopDistanceKept`: a restarted bridge sees the stop where it is now; it derives R from the
  target, which is never moved, and is off by a share of the fill's slippage, however often it
  restarts. `GainIsKept` and `StopNeverLoosens` then hold across restarts,
  refusals and a missing Redis, and `ProfitGetsProtected` even if Redis never comes back.
- `NoFalseAlarm`: half an R lies between where the trail starts and where the alarm does, for
  the market to move in. `HalvedOnce`: the only way to be halved twice is a restart below
  the level at which the first half was taken. Half of 0.01 lot rounds to 0.01, so the smallest
  position is closed whole; `TypeOK` has the volumes of such a series.
- `ClosesOnce`: of the ticks that decide to close one trade, the first takes its entry and
  publishes. `OpenIsTracked`: the row is written before the entry goes, so that a handler that
  fails half-way leaves no open row unwatched. A new row is committed before it is announced; if
  Redis refuses the announcement, nobody watches the row until a restart (`unseen`).
- `BacktestRight`: results against their definition over whole series, the drawdown against the
  maximum over all pairs of points.

Around trading:

- `RiskInBand`: page, /risk and governor keep the risk between 0.2% and 1%; the environment and the
  breaker do not. Half of MAX_RISK may be below the band and its boost above it (the listener
  applies either as it is), so the property says that no order of the five leaves the wider band
  from there: the breaker's factors are applied to MAX_RISK and not to what is in use.
- `KernelFollows`: a connected kernel with nothing on its way uses what the page shows, but for
  keys in `doubt`. A pause that is stored while the kernel is between its read of the store and its
  subscription is such a key, and so is the risk once Telegram or the breaker has changed it: the
  page then shows a risk that is not in use.
- `CostsAccounted`: `recorded + twice = total + buffer + taken + died`, at every await.
- `HandledOnce`: only the mock's signals come back to the kernel that published them.
- `BurstsSpaced`: the time of a burst is noted before the dispatch that may raise. A restart of the
  kernel forgets it, and the property counts from there.
- `WorkerPostsOnce`: the row is marked before the post, and no row in `publishing` is fetched
  again. The price is that a restart in the post leaves the row there until somebody patches it.
  If the worker's 120 seconds end before the mark, the row is fetched again while the request goes
  on, and both may post: the property excepts such items (`unmarked`).
- `ManualRowsTrue`: answers are settled on the newest pending row, whichever order they answer;
  still no position is shown twice and none that MT5 did not open. An answer that comes before its
  own row is written settles nothing, and that row stays pending; no property forbids it.
- `PaidFor`: the end of a subscription is counted from now, so that a second approval of a request
  renews nothing. An admin may type in any number of days, negative ones too (`byHand`). `ExpiryHappens` needs the loop to survive the gateway's absence.
- `BoardKeepsMeeting`: whatever raises in a meeting, the loop waits and meets again.

Bounds.

- Pipeline and breaker: three sources are the three coroutines of the kernel (poller, burst
  watcher, listener), two symbols and two directions let the same and different symbols meet;
  limits of 1 and 2 are reached by one or two events, and risks 1 and 2 overshoot. `PnlCap`,
  `CountCap` and `QueueCap` stop counting where nothing new can happen: past the loss limit,
  past a streak's boost, at two overrides under way. The streak and recovery thresholds are the
  code's 3. Source `ext` is also the listener and so is not symmetric to the others. The liveness
  run has two sources, one direction, only losses and no symmetry.
- Lifecycle: two decisions of opposite directions and a manual order, of one symbol, as hedging and
  stacking never look at another one. `MaxEvents` is 2, and 1 in the live run, over crashes,
  losses, failed writes and presses together: each interplay the properties exclude takes one or
  two. `QueueCap` 1 makes a sender wait instead of queueing; the receivers are sequential.
  `RowLimit` 2 is room for both decisions, for one, or for none.
- Protection: the stop is 5 points away, the reward ratio 3, trailing starts at 1.5 R and halving
  at 1 R; the hysteresis is a point and the market jumps up to 3, so that it passes a level
  without standing on it. The fill is off by a ratio of points either way or not at all, so that the
  distance recovered is too; three hundredths of a lot are halved to one or two, then to one,
  then to nothing. Two refusals by MT5. In the simulator two trades, two concurrent tickers, three
  ticks, a failure and a restart's room for 0 to 2 rows; gains below, at and between the levels.
  In the backtest five bars of three prices.
- Operations: two users, three changes, two boots, MAX_RISK 1% (the top of the band, which the
  breaker's boost leaves) and a risk of 0.1% typed in, which is clamped to the floor; two officers,
  intervals below, in and above the band; four calls to count; four signals of two symbols; five
  rounds with a window of 3 and a cooldown of 2; two items, two concurrent publish requests, two
  posts, which are enough for one item to go out twice; three manual orders; two requests (a
  customer's and one without an id, for a plan of 1 and of 2 units), 3 and -1 units by hand, two
  admins, three days and one absence of the gateway.

`CHECK_DEADLOCK FALSE` where a position ends or bounded inputs run out.

Fairness. In `pipeline_live` every stage of a pipeline and the breaker's comparison are weakly
fair: LLM calls, feeds and broker have timeouts, an exception ends the pipeline, saves return
or raise. Signals, closes, operators, the clock and crashes are not fair. In `breaker`, days
pass and `run()` wakes at midnight. In `lifecycle_live` the bridge polls, the listener listens and
Postgres answers; nobody has to trade or to press a button. In `protection` the bridge polls every
three seconds, in `main` or in `_wait_for_redis`, and the watchdog follows; Redis owes nothing. In
`operations` the board's awaits have timeouts and its wait an interval, and the kernel's hourly
loop goes on.

Findings.

1. A restart forgets the halt and the day's loss (`circuit_breaker.py:66`), although the docstring
   and the trip message name only midnight and `/resume`.
2. The recovery scale is written once with a day to live (`circuit_breaker.py:322`); after that
   lots are full again while recovery mode is on, although the trader was told they stay halved
   until three wins.
3. The bridge publishes a close and then notes it in Redis (`polis_mt5_bridge.py:609`); a crash or
   a failed SADD in between reports it again and the breaker counts it again, although the set is
   said to prevent that.
4. The page's close reads that a row is open and updates it later by its id alone
   (`main.py:792`), over what the broker settled in between, although the broker's number is to win.
5. Telegram's `/pause` lives in the bot's memory (`telegram_bot.py:313`); after a restart signals
   are processed, although the answer says none will be until `/resume`.

Each property of a passing run has a mutant of the code it is about (`PROJECT.json`), defined
before the definition it replaces; TLC finds the property violated with it.

## 4. What is proved

`TradePipelineProofs`, for all constants that satisfy `HaltAssumption` and
`PipelineAssumption` (positive limits, finitely many sources, `None` no symbol or direction):

| Theorem | Property | Argument |
|---|---|---|
| `TypeCorrect` | `TypeOK` | inductive by itself; the halting half through `HaltTyped` of `TradingHaltProofs`, because every step of `Next` makes one of the moves of `TradingHalt` (`NextMovesHalt`) |
| `NeverStacks` | `NoStacking` | not inductive: another source could book the symbol. `StackInv` adds `Exclusive`: a source at work holds its symbol in `inFlight`, and no two hold the same |
| `TripsAreNotMissed` | `NoMissedTrip` | inductive with the types: a counter that reaches its limit is followed by the stage that compares |
| `AtMostOneLateApproval` | `OneLateApproval` | `LateBarred`: while trading is halted, a source in `lateBy` is not past the gate, as only `Gate` admits |
| `OvershootIsBounded` | `BudgetOvershoot` | `BoundedBy`: until the breaker trips, only booked sources carry the risk past the budget; from then on, the risk plus what the sources past the gate may still add stays below the budget plus one largest order for each source. The two meet because no source is both (`BookedOrMayAdd`), and once tripped the gate admits nobody |

`CircuitBreakerProofs`, for all constants that satisfy `HaltAssumption` and
`BreakerAssumption`. The latter asks for a streak of more than one win, as the code's 3 is: with
one, a win being taken while midnight resets would boost on a streak that the new day is still to
clear.

| Theorem | Property | Argument |
|---|---|---|
| `GovernorTyped` | `CBTypeOK` | inductive, in four parts: the halting half, flags, counters, the queue of overrides |
| `DrawdownIsHandled` | `DrawdownHandled` | `DrawdownInv` adds the await behind the step-down, after which only the loss limit is compared |
| `RecoveryTakesWins` | `RecoveryNeedsWins` | `RecoveryInv`: the wins recovery counts were won in a row, but while a loss waits for its override to be sent |
| `OverridesFollow` | `NoStaleOverride` | `OverrideInv` is about `Newest`, the override that will be in force when the queue has drained: it follows from the counters or base risk is about to be restored. `NewDayInv` is the step a test would miss: once midnight's reset is done, the new day's first event finds nothing left to clear |

`TradeLifecycleProofs`, for all constants that satisfy `BridgeAssumption`: any finite set of
decisions and manual orders, each long or short, any bound on failures and any length of the
channels. The invariant has layers, each inductive relative to those before it:

1. `TypeOK`.
2. `Orderly`: the stage of an order, wherever it is. It is in Redis once, or at the bridge, or
   has a position, or was answered, in that order and never back (`Stages`, `OrdersOnce`); a
   close from the broker names a position that is closed (`Closes`).
3. `Booked` and `Watched`: what the row of a decision says at each stage. Where there is a
   position, or an order on its way to one, the row was approved, and the tracker has it or is
   about to, or the last restart left it out. What a restart reads is a lemma of its own
   (`RestartReads`, `FetchedOrLeftOut`): it is all that the later layers know of the limit.
4. On these, independently, `Facing`, `Counts` and `Custody`.

| Theorem | Property | Argument |
|---|---|---|
| `LifecycleTyped` | `TypeOK` | inductive by itself |
| `PositionsPointOneWay` | `OneSided` | `Facing`: while the bridge is about to place an order, each open position it is not still to close points the same way, and then the order is manual. The account cannot open a position behind the bridge's back |
| `ClosesAreCountedOnce` | `CountedOnce` | `Counts`: of a trade that nobody had reason to repeat, at most one TRADE_CLOSED is in the channel, none once it is counted, and the bridge has it in `reported`, is about to note it, or does not see its deal |
| `OpenPositionsStayTracked` | `StillTracked` | `Watched` says it also of orders that are still coming, as the tracker's load at boot reads the row, not the account |
| `TableMatchesAccount` | `Reconciled` | `Custody`: as long as nothing is lost, somebody holds what is still to be done about a trade: the order is at the handler, in Redis or at the bridge, the answer on its way, the close in a message, in the listener or in the history that the bridge will read. Where all is quiet nobody holds anything, so it is done |

`ContractProofs` proves `LifecycleKeepsContract` (`KeepsContract`): `Ledger` and `Account` are
the contract's state; steps of the bridge open and close positions and write no row, steps of
the kernel and the page write one row and leave the account alone. `Booked` gives the
contract's guards: an order placed has an approved row that is not settled, a refusal being
written is of a trade without a position (`Stages`), a settlement being written is of one that
closed (`Closes`).

Two things were found in the model when it was reasoned about, and changed: the guards of the
CASE in `LedgerOf` overlapped, which TLC reads from the top and TLA+ does not; and some
assumptions on constants and types of variables did not say all that the actions rely on.

`ProtectionProofs`, for `StopsAssumption`, `SimAssumption` and `BacktestAssumption`.
`StopsAssumption` asks for a trail that starts at one R or more (in halves, `Activate >= 2`),
a target beyond that start, a stop of at least two points even where the fill slipped, and a slip
and hysteresis that together are less than the stop's distance, as the defaults are (1.5 R, a
deviation of 20 points, and 0.001 in price). The three parts share no state: `ProtectionInv` is the conjunction of theirs, and a
step changes one of them.

| Theorem | Property | Argument |
|---|---|---|
| `ProtectionTyped` | `TypeOK` | part of the invariants below; a volume and the number of partial closes together never exceed the lots ordered |
| `DistanceIsKept` | `StopDistanceKept` | the target is never moved, so that target divided by ratio is the distance less the slip (`RecoveredRight`) |
| `GainsAreKept` | `GainIsKept` | `Placed`: the stop is where it was first set, or past the entry; a stop in between would be taken for one that was moved. The gain is measured by the wider of the two distances a record may hold |
| `StopsNeverLoosen` | `StopNeverLoosens` | a step property of the same invariant |
| `HalvedOnlyOnce` | `HalvedOnce` | `Halved`: a known position of which a part was closed is recorded as halved, until a restart cannot tell |
| `AlarmsAreTrue` | `NoFalseAlarm` | `Watched1`: behind a poll that was not refused, the stop is past the entry if the gain starts the trail, and the market has moved one point since |
| `SimulatedClosesOnce` | `ClosesOnce` | `OneCloses`: who removed the entry of a trade publishes it, nobody has and no two are about to; `Decided` and `AfterWrite` carry the result from the tick to the row |
| `OpenTradesTracked` | `OpenIsTracked` | `AfterWrite`: an entry is only removed behind a written row. `Announced`: what is being announced is open and in nobody's hands, so that booking it takes nothing back |
| `BacktestIsRight` | `BacktestRight` | `Running`: the bars passed held neither stop nor target. `Walked`: the running peak is the maximum of the curve so far, so the deepest fall to its last point is the fall from the peak |

`BacktestRight` compares a loop with a definition over the whole series. The loop's state is in
the model (`bar`, `equity`, `peak`, and `curve` as history), so this is an invariant of its steps
and needs no induction over data.

`OperationsProofs`, for the assumptions of the eight parts. `ControlAssumption` asks no more of
`MAX_RISK` than that it is a natural number: the code clamps what page, Telegram and governor
set, but takes the environment's value, and the breaker's multiples of it, as they are. `OpsInv` is the conjunction of the parts' invariants.

| Theorem | Property | Argument |
|---|---|---|
| `OperationsTyped` | `TypeOK` | part of the invariants below |
| `RiskStaysInBand` | `RiskInBand` | the values in requests, in messages and in the governor's hands are in the same band as well (`ControlTyped`), each author's arithmetic stays in it (`ReachFacts`, `RiskSteps`, `ClampInBand`), and the breaker starts from MAX_RISK each time |
| `KernelFollowsPage` | `KernelFollows` | `ControlCore`, for keys not in `doubt`: one request at a time changes a key and carries one value (`OneVoice`), stores before it sends (`SentAfter`, `StoredFirst`), and the last message on the wire carries what is stored (`LastWord`) |
| `CostsAreAccounted` | `CostsAccounted` | `CostInv`: the total that a flush read is still the total when it writes; there is one flush |
| `SignalsHandledOnce` | `HandledOnce` | `HeardOnce`: what is on its way to the listener is there once and was handled by nobody, or is the mock's |
| `BurstsAreSpaced` | `BurstsSpaced` | `Noted`: `_last_fire` is the last burst of this run of the kernel, also after a handler that raised |
| `WorkerPublishesOnce` | `WorkerPostsOnce` | `Once`: where an item of the worker's can be: fetched, with one request for which the worker waits until its row is marked, or done; `Clean` are the items it is about. The number of posts counts requests (`Uploaded`), by cardinalities |
| `ManualRowsAreTrue` | `ManualRowsTrue` | `OnePlace`: an order is in one place, at the bridge, in an answer, with a settle task or on a row; and a ticket was opened before it is answered |
| `MembersPaid` | `PaidFor` | `Inserted`: an approval that has only its mark left has made the subscriber |

Only model-checked: the liveness properties (`InFlightReleased`, `LimitHalts`, `HaltEnds`,
`ClosesAreSettled`, `ProfitGetsProtected`, `BoardKeepsMeeting`, `ExpiryHappens`), which TLAPS
does not prove under fairness, as that needs ENABLED. Every invariant, every step property and
the refinement that a passing run checks is a theorem. `RECURSIVE` is used nowhere. The bounds
on failures, messages and changes (`MaxEvents`, `QueueCap`, `MaxChanges` and the like) are
constants in the theorems too: they hold for each value of them.

The properties that the code violates (findings 1 to 5) have no theorem; the theorems say what
holds in spite of them.

## 5. Plan

1. Fewer and shorter proofs: facts on queues that `TradeLifecycleProofs` and `ControlProofs`
   both prove (an element of a shortened or appended sequence) belong in one module.
2. Safety halves of the liveness properties as theorems: what a stage that must end is waiting
   for is always there (a symbol in `_in_flight` has a source at work; a counter at its limit has
   the comparison pending; an overdue subscription is seen by the next call of the loop).
3. An abstract specification of control (store, then kernel) and of the content queue, each
   refined by its part of `Operations`, as `TradeContract` is by the lifecycle.
4. Coverage: the gateway's remaining statements that write rows, and the bridge's connection to
   MT5.

## 6. Not modelled

- Dashboard pages, reports, analytics queries and other reads of the gateway and the table;
  menus and notifications of the Telegram bot: input and output without a state that trading
  depends on, beyond the free choices above.
- Daily briefing, world model, sentiment feeds, shadow analyst, vector memory and the LLM provider
  chain: they answer or raise, and the stages that await them take both.
- Lot and stop arithmetic in money, ATR, RSI and averages, and how a price becomes a direction:
  data that the models choose freely. The prices that the bridge publishes reach `BurstWatcher` as
  free choices too.
- The external watchdog tool and the bridge's other alarms: they change nothing.
- OANDA is off by default and never raises. Scheduler, orchestrator, registry and economy are
  skeletons. Seeding, scoring and debugging tools run apart from the system.

`PROJECT.json` lists every component and, under `hazards`, what is hard to test in the code and
which properties are about it.
