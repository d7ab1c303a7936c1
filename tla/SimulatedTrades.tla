-------------------------- MODULE SimulatedTrades --------------------------
(***************************************************************************)
(* The trade tracker when no broker is attached: it closes trades against   *)
(* the prices of TRADE_SIGNAL.  Several publishers send signals, so the     *)
(* handlers of two ticks interleave at every await.  Prices are gains of    *)
(* the trade in points; the prices a close is decided at, and written with, *)
(* may be old by the time it is written.                                   *)
(***************************************************************************)
EXTENDS Integers, Sequences, FiniteSets, OpenTrades

CONSTANTS
  SimTrades, Tickers,
  SimPrices,    \* gains a tick may bring
  SimStop,      \* the stop's distance
  SimReward,    \* REWARD_RATIO
  SimTrail,     \* TRAIL_ACTIVATE_R
  MaxTicks,     \* bound: ticks
  MaxSimFaults  \* bound: restarts, failed writes and failed publishes

ASSUME SimAssumption ==
  /\ IsFiniteSet(SimTrades) /\ SimPrices \subseteq Int
  /\ SimStop \in Nat \ {0} /\ SimReward \in Nat \ {0} /\ SimTrail \in Nat \ {0}
  /\ MaxTicks \in Nat /\ MaxSimFaults \in Nat

VARIABLES
  row,        \* trade_result, and pnl_usd, of the row
  approving,  \* rows that are saved while TRADE_APPROVED is on its way to Redis
  tracked,    \* keys of TradeTracker._open
  trail,      \* breakeven_done and trail_sl of an entry
  tick,       \* what each tick's handler has still to close, and where it is
  echoes,     \* TRADE_CLOSED on its way back through Redis
  published,  \* history: how often a close reached the local handlers
  heard,      \* history: how often the breaker was told of it
  unseen,     \* history: rows since the last restart that no approval announced,
              \* and open rows that the restart had no room for
  ticks, simFaults

simVars == <<row, approving, tracked, trail, tick, echoes, published, heard, unseen,
             ticks, simFaults>>

NoTrail == [be |-> FALSE, sl |-> 0]
Done    == [todo |-> <<>>, step |-> "write"]

Decision == [of : SimTrades, gain : SimPrices, result : {"WIN", "LOSS"}]

SimTypeOK ==
  /\ row \in [SimTrades -> [result : {"none", "OPEN", "WIN", "LOSS"}, pnl : {0} \cup SimPrices]]
  /\ approving \subseteq SimTrades /\ tracked \subseteq SimTrades /\ unseen \subseteq SimTrades
  /\ trail \in [SimTrades -> [be : BOOLEAN, sl : Int]]
  /\ tick \in [Tickers -> [todo : Seq(Decision), step : {"write", "delete", "publish"}]]
  /\ echoes \in Seq(SimTrades)
  /\ ticks \in 0 .. MaxTicks /\ simFaults \in 0 .. MaxSimFaults

SimInit ==
  /\ row = [t \in SimTrades |-> [result |-> "none", pnl |-> 0]]
  /\ approving = {} /\ tracked = {} /\ unseen = {}
  /\ trail = [t \in SimTrades |-> NoTrail]
  /\ tick = [k \in Tickers |-> Done]
  /\ echoes = <<>>
  /\ published = [t \in SimTrades |-> 0] /\ heard = [t \in SimTrades |-> 0]
  /\ ticks = 0 /\ simFaults = 0

SimFault == simFaults < MaxSimFaults /\ simFaults' = simFaults + 1

\* TradeHandler.handle commits the row with save_decision, and only then awaits
\* the publication of TRADE_APPROVED.
Opened(t) ==
  /\ row[t].result = "none"
  /\ row' = [row EXCEPT ![t].result = "OPEN"]
  /\ approving' = approving \cup {t}
  /\ UNCHANGED <<tracked, trail, tick, echoes, published, heard, unseen, ticks, simFaults>>

\* Redis took it: _on_approved.
Booked(t) ==
  /\ t \in approving
  /\ approving' = approving \ {t}
  /\ tracked' = tracked \cup {t}
  /\ trail' = [trail EXCEPT ![t] = NoTrail]
  /\ UNCHANGED <<row, tick, echoes, published, heard, unseen, ticks, simFaults>>

\* publish raises before it calls a local handler.
Unannounced(t) ==
  /\ t \in approving /\ SimFault
  /\ approving' = approving \ {t}
  /\ unseen' = unseen \cup {t}
  /\ UNCHANGED <<row, tracked, trail, tick, echoes, published, heard, ticks>>

----------------------------------------------------------------------------
\* _update_trail: breakeven once, then a stop that only advances.
Trailed(tr, gain) ==
  LET be == tr.be \/ gain >= SimTrail * SimStop IN
    [be |-> be, sl |-> IF be /\ gain - SimStop > tr.sl THEN gain - SimStop ELSE tr.sl]

\* _check.
Hit(tr, gain) ==
  CASE gain >= SimReward * SimStop   -> "WIN"
    [] tr.be /\ gain <= tr.sl        -> "WIN"
    [] ~tr.be /\ gain <= -SimStop    -> "LOSS"
    [] OTHER                         -> "none"

\* Entries in the order of the dictionary.
SetAsSeq(S) == CHOOSE s \in [1 .. Cardinality(S) -> S] :
                 \A i, j \in DOMAIN s : s[i] = s[j] => i = j

\* _on_tick decides on every trade before it closes the first.
Tick(k, gain) ==
  /\ tick[k].todo = <<>> /\ ticks < MaxTicks
  /\ ticks' = ticks + 1
  /\ trail' = [t \in SimTrades |-> IF t \in tracked THEN Trailed(trail[t], gain) ELSE trail[t]]
  /\ LET hit == SetAsSeq({t \in tracked : Hit(trail'[t], gain) # "none"})
         due == [i \in DOMAIN hit |-> [of |-> hit[i], gain |-> gain,
                                       result |-> Hit(trail'[hit[i]], gain)]]
     IN tick' = [tick EXCEPT ![k] = [todo |-> due, step |-> "write"]]
  /\ UNCHANGED <<row, approving, tracked, echoes, published, heard, unseen, simFaults>>

At(k, step) == tick[k].todo # <<>> /\ tick[k].step = step
Now(k) == tick[k].todo[1]
Goes(k, step) == tick' = [tick EXCEPT ![k].step = step]

\* Mutant: what the trailing stop said, whatever was lost.
AsDecided(d) == d.result

\* A trailing stop that closed at a loss is a loss.
Result(d) == IF d.gain < 0 THEN "LOSS" ELSE d.result

WriteRow(k) ==
  /\ At(k, "write")
  /\ row' = [row EXCEPT ![Now(k).of] = [result |-> Result(Now(k)), pnl |-> Now(k).gain]]
  /\ Goes(k, "delete")
  /\ UNCHANGED <<approving, tracked, trail, echoes, published, heard, unseen, ticks,
                 simFaults>>

\* Mutant: an entry that another handler removed is no error.
PopEntry(k) ==
  /\ tracked' = tracked \ {Now(k).of}
  /\ Goes(k, "publish")

\* del self._open[trade_id]: the handler whose entry is gone ends with a
\* KeyError, and what it had still to close stays open.
DeleteEntry(k) ==
  /\ tracked' = tracked \ {Now(k).of}
  /\ IF Now(k).of \in tracked
       THEN Goes(k, "publish")
       ELSE tick' = [tick EXCEPT ![k] = Done]

Delete(k) ==
  /\ At(k, "delete")
  /\ DeleteEntry(k)
  /\ UNCHANGED <<row, approving, trail, echoes, published, heard, unseen, ticks, simFaults>>

\* The publish reaches Redis and then the local handlers.
Publish(k) ==
  /\ At(k, "publish")
  /\ published' = [published EXCEPT ![Now(k).of] = @ + 1]
  /\ heard' = [heard EXCEPT ![Now(k).of] = @ + 1]
  /\ echoes' = Append(echoes, Now(k).of)
  /\ tick' = [tick EXCEPT ![k] = [todo |-> Tail(@.todo), step |-> "write"]]
  /\ UNCHANGED <<row, approving, tracked, trail, unseen, ticks, simFaults>>

\* Mutant: the entry goes before the row is written.
FailsUntracked(k) ==
  /\ tick[k].todo # <<>> /\ tick[k].step # "delete" /\ SimFault
  /\ tick' = [tick EXCEPT ![k] = Done]
  /\ tracked' = tracked \ {Now(k).of}
  /\ UNCHANGED <<row, approving, trail, echoes, published, heard, unseen, ticks>>

\* Postgres or Redis raises: the handler is over.
Fails(k) ==
  /\ tick[k].todo # <<>> /\ tick[k].step # "delete" /\ SimFault
  /\ tick' = [tick EXCEPT ![k] = Done]
  /\ UNCHANGED <<row, approving, tracked, trail, echoes, published, heard, unseen, ticks>>

\* The kernel subscribes to what it publishes: the listener dispatches the
\* close once more.
Echo ==
  /\ echoes # <<>>
  /\ echoes' = Tail(echoes)
  /\ heard' = [heard EXCEPT ![echoes[1]] = @ + 1]
  /\ tracked' = tracked \ {echoes[1]}
  /\ UNCHANGED <<row, approving, trail, tick, published, unseen, ticks, simFaults>>

\* init reloads the newest open rows; how far a stop had trailed is not in the
\* table.
SimRestart ==
  /\ SimFault
  /\ LET open == {t \in SimTrades : row[t].result = "OPEN"} IN
       \E room \in Rooms : /\ tracked' \in Fetched(open, room)
                           /\ unseen' = LeftOutOf(open, tracked', room)
  /\ approving' = {}
  /\ trail' = [t \in SimTrades |-> NoTrail]
  /\ tick' = [k \in Tickers |-> Done]
  /\ echoes' = <<>>
  /\ UNCHANGED <<row, published, heard, ticks>>

SimNext ==
  \/ \E t \in SimTrades : Opened(t) \/ Booked(t) \/ Unannounced(t)
  \/ \E k \in Tickers :
       \/ \E gain \in SimPrices : Tick(k, gain)
       \/ WriteRow(k) \/ Delete(k) \/ Publish(k) \/ Fails(k)
  \/ Echo \/ SimRestart

----------------------------------------------------------------------------
(* Properties.                                                              *)

\* However many ticks decide to close a trade, one of them publishes it.
PublishedOnce == \A t \in SimTrades : published[t] <= 1

\* A row is a win exactly when it made no loss, a trailing stop that slipped
\* below the entry included.
ResultHonest ==
  \A t \in SimTrades : row[t].result \in {"WIN", "LOSS"} =>
                         (row[t].result = "WIN" <=> row[t].pnl >= 0)

\* A trade whose row is open is watched, whatever handler failed half-way, or
\* its approval is still being announced.  It is not when that failed, until a
\* restart, or when the restart found more open rows than it asks for.
OpenIsTracked ==
  \A t \in SimTrades : row[t].result = "OPEN" => t \in tracked \cup approving \cup unseen

=============================================================================
