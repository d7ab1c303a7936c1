---------------------------- MODULE BridgeStops ----------------------------
(***************************************************************************)
(* How the MT5 bridge moves the stop of one open position: trailing, the    *)
(* partial take-profit, what a restarted bridge rebuilds from MT5, and the  *)
(* watchdog's alarm about a profit left unprotected.                        *)
(*                                                                         *)
(* Prices are the position's gain in points, so that a short is the mirror  *)
(* of a long; R, the initial risk, is StopDist points.  The stop and the    *)
(* target are set around the price asked for, and the fill may differ.      *)
(***************************************************************************)
EXTENDS Integers

CONSTANTS
  StopDist,     \* points between the entry and the first stop
  RewardRatio,  \* REWARD_RATIO
  Activate,     \* TRAIL_ACTIVATE_R, in halves of R
  Partial,      \* PARTIAL_TP_R, in halves of R; 0 switches it off
  Hysteresis,   \* a stop moves by more than this (0.001 in the code)
  Lots,         \* volume of the order, in hundredths of a lot
  Slip,         \* bound: RewardRatio points the fill is off ("deviation")
  MaxJump,      \* bound: points the market moves between two steps
  MaxFailures   \* bound: order_send calls that MT5 refuses

\* A point is at most half an R, the room the watchdog leaves the market, and
\* the stop is further away than slippage and hysteresis together.
ASSUME StopsAssumption ==
  /\ StopDist \in Nat /\ RewardRatio \in Nat \ {0} /\ Activate \in Nat \ {0, 1}
  /\ Partial \in Nat /\ Hysteresis \in Nat /\ MaxJump \in Nat /\ MaxFailures \in Nat
  /\ Lots \in Nat \ {0} /\ Slip \in Nat
  /\ 2 * RewardRatio > Activate /\ StopDist - Slip >= 2
  /\ RewardRatio * Slip + Hysteresis < StopDist

VARIABLES
  gain,       \* of the position, at the market
  slip,       \* how much worse the fill was, in RewardRatio points
  sl, tp,     \* the position's stop and target at MT5
  volume,     \* of the position, in hundredths of a lot
  ended,      \* closed by its stop, its target or its partial closes
  meta,       \* the bridge's record of the ticket
  redis,      \* does Redis answer?
  loop,       \* "main", or "waiting" in _wait_for_redis
  watching,   \* "fresh" or "moved": the watchdog is next, and whether the
              \* market has moved since the poll; else "no"
  alarm,      \* the watchdog's alarm "unprotected" was sent
  refusals,   \* history: polls that MT5 refused
  refusedSl,  \* history: the last poll was refused, or broke off
  best,       \* history: the highest gain at a poll that was not refused
  halvings,   \* history: partial closes
  forgot      \* history: restarted below the partial level after it was taken

stopsVars == <<gain, slip, sl, tp, volume, ended, meta, redis, loop, watching, alarm,
               refusals, refusedSl, best, halvings, forgot>>

\* A record that does not exist; its fields are never read.
NoMeta == [known |-> FALSE, dist |-> 0, beDone |-> FALSE, partialDone |-> FALSE]

\* From the fill; it is worse than the price asked for by slip.
FirstStop == -StopDist - RewardRatio * slip
Target    == RewardRatio * (StopDist - slip)

Gains == -StopDist - RewardRatio * Slip - MaxJump .. RewardRatio * (StopDist + Slip) + MaxJump

StopsTypeOK ==
  /\ slip \in -Slip .. Slip
  /\ gain \in Gains /\ sl \in Gains /\ tp = Target
  /\ volume \in 0 .. Lots /\ halvings \in 0 .. Lots - volume
  /\ ended \in BOOLEAN /\ redis \in BOOLEAN /\ alarm \in BOOLEAN
  /\ refusedSl \in BOOLEAN /\ forgot \in BOOLEAN
  /\ watching \in {"no", "fresh", "moved"}
  /\ meta \in [known : BOOLEAN, dist : Nat, beDone : BOOLEAN, partialDone : BOOLEAN]
  /\ loop \in {"main", "waiting"}
  /\ refusals \in 0 .. MaxFailures
  /\ best \in Gains

\* The order was just filled.
StopsInit ==
  /\ slip \in -Slip .. Slip
  /\ gain = 0 /\ sl = FirstStop /\ tp = Target
  /\ volume = Lots /\ ended = FALSE
  /\ meta = [known |-> TRUE, dist |-> StopDist, beDone |-> FALSE, partialDone |-> FALSE]
  /\ redis = TRUE /\ loop = "main" /\ watching = "no"
  /\ alarm = FALSE /\ refusals = 0 /\ refusedSl = FALSE
  /\ best = 0 /\ halvings = 0 /\ forgot = FALSE

----------------------------------------------------------------------------
\* The gain is at least so many halves of a distance.
Reaches(g, halves, dist) == 2 * g >= halves * dist

\* Mutant: the distance is read off the stop, which has moved.
RecoveredFromStop ==
  [known |-> TRUE, dist |-> IF sl < 0 THEN -sl ELSE sl, beDone |-> sl >= 0,
   partialDone |-> Partial = 0 \/ Reaches(gain, Partial, StopDist)]

\* rehydrate_open_tickets: the target was never moved, so it gives the distance
\* but for the slippage.
Recovered ==
  LET dist == tp \div RewardRatio IN
    [known |-> TRUE, dist |-> dist, beDone |-> sl >= 0,
     partialDone |-> Partial = 0 \/ Reaches(gain, Partial, dist)]

Known == IF meta.known THEN meta ELSE Recovered

\* Mutant: the record is not asked.
TakesAgain == Partial > 0 /\ Reaches(gain, Partial, Known.dist)

TakesPartial == Partial > 0 /\ Reaches(gain, Partial, Known.dist) /\ ~Known.partialDone

\* round(v * 0.5, 2): an odd half goes either way, that of the smallest
\* position up.
Half(v) == IF v = 1 THEN {1} ELSE {v \div 2, (v + 1) \div 2}

\* Mutant: half of what was ordered, whatever is left of it.
HalfOfOrder == IF TakesPartial THEN {volume - h : h \in Half(Lots)} ELSE {volume}

\* What may be left of the position; 0.01 lot is closed as a whole.
PartialClose == IF TakesPartial THEN {volume - h : h \in Half(volume)} ELSE {volume}

TrailSl == IF gain - Known.dist > 0 THEN gain - Known.dist ELSE 0

\* Mutants: a stop that follows the price down; one that moves only once.
MovesBack == Reaches(gain, Activate, Known.dist)

MovesOnce ==
  /\ Reaches(gain, Activate, Known.dist)
  /\ TrailSl > sl + Hysteresis /\ ~Known.beDone

Moves ==
  /\ Reaches(gain, Activate, Known.dist)
  /\ TrailSl > sl + Hysteresis

\* Mutant: without Redis the bridge gives up its positions.
ManagesWithRedis == ~ended /\ watching = "no" /\ loop = "main"

\* The loop of main and the loop of _wait_for_redis both manage positions.
Manages == ~ended /\ watching = "no"

\* modify_sl is obeyed, or the stop need not move.
StopFollows ==
  /\ volume' # 0
  /\ sl' = IF Moves THEN TrailSl ELSE sl
  /\ best' = IF gain > best THEN gain ELSE best
  /\ refusedSl' = FALSE /\ watching' = "fresh"
  /\ UNCHANGED refusals

\* modify_sl returns False, MT5 shows no tick or no position, or an exception, of
\* this ticket or of another, ends the round and its watchdog.
StopRefused ==
  /\ volume' # 0 /\ (Moves \/ volume' = volume)
  /\ refusals < MaxFailures
  /\ refusals' = refusals + 1
  /\ refusedSl' = TRUE /\ watching' \in {"fresh", "no"}
  /\ UNCHANGED <<sl, best>>

\* The partial close left nothing: modify_sl finds no position.
NothingLeft ==
  /\ volume' = 0
  /\ refusedSl' = FALSE /\ watching' = "fresh"
  /\ UNCHANGED <<sl, best, refusals>>

\* One round of rehydrate_open_tickets and manage_trailing.
Poll ==
  /\ Manages
  /\ volume' \in {volume} \cup PartialClose     \* partial_close may fail
  /\ halvings' = IF volume' # volume THEN halvings + 1 ELSE halvings
  /\ ended' = (volume' = 0)
  /\ StopFollows \/ StopRefused \/ NothingLeft
  /\ \/ meta' = [Known EXCEPT !.beDone = @ \/ sl' # sl,
                              !.partialDone = @ \/ volume' # volume]
     \/ refusedSl' /\ volume' = volume /\ UNCHANGED meta   \* nothing to recover from
  /\ forgot' = \/ forgot
               \/ halvings > 0 /\ ~meta.known /\ meta'.known /\ ~Recovered.partialDone
  /\ UNCHANGED <<gain, slip, tp, redis, loop, alarm>>

\* Mutant: the threshold the watchdog had before.
UnprotectedTooSoon(r) == Reaches(gain, Activate - 1, r) /\ sl < 0

Unprotected(r) == Reaches(gain, Activate + 1, r) /\ sl < 0

\* The watchdog; while Redis is away it only says that.  In _wait_for_redis
\* Redis is then asked, and main starts with an empty record.
Watch ==
  /\ watching # "no"
  /\ watching' = "no"
  /\ alarm' = (loop = "main" /\ meta.known /\ ~ended /\ Unprotected(meta.dist))
  /\ IF loop = "waiting" /\ redis
       THEN loop' = "main" /\ meta' = NoMeta
       ELSE UNCHANGED <<loop, meta>>
  /\ UNCHANGED <<gain, slip, sl, tp, volume, ended, redis, refusals, refusedSl, best,
                 halvings, forgot>>

\* Without Redis the main loop ends, and the supervisor starts it again.
StopsRestart ==
  /\ meta' = NoMeta
  /\ watching' = "no"
  /\ loop' = IF redis THEN "main" ELSE "waiting"
  /\ UNCHANGED <<gain, slip, sl, tp, volume, ended, redis, alarm, refusals, refusedSl,
                 best, halvings, forgot>>

RedisComesAndGoes ==
  /\ redis' = ~redis
  /\ UNCHANGED <<gain, slip, sl, tp, volume, ended, meta, loop, watching, alarm,
                 refusals, refusedSl, best, halvings, forgot>>

\* The market: a gap closes the position beyond its stop or target.  Between
\* the move of the stop and the watchdog it goes one point at most.
Market ==
  /\ ~ended
  /\ gain' \in Gains \cap (gain - MaxJump .. gain + MaxJump)
  /\ \/ watching = "no" /\ UNCHANGED watching
     \/ watching = "fresh" /\ gain' \in gain - 1 .. gain + 1 /\ watching' = "moved"
  /\ ended' = (gain' <= sl \/ gain' >= tp)
  /\ UNCHANGED <<slip, sl, tp, volume, meta, redis, loop, alarm, refusals, refusedSl,
                 best, halvings, forgot>>

StopsNext == Poll \/ Watch \/ StopsRestart \/ RedisComesAndGoes \/ Market

----------------------------------------------------------------------------
(* Properties.                                                              *)

\* The distance that every later R is measured by survives restarts, although
\* the stop it once was has moved: it is off by the slippage of the fill,
\* divided by the reward ratio, and by no more the more restarts there are.
StopDistanceKept == meta.known => meta.dist \in {StopDist, StopDist - slip}

\* The wider of the distance ordered and the one a restart finds.
Widest == IF slip < 0 THEN StopDist - slip ELSE StopDist

\* Once a poll saw the activating gain and MT5 did not refuse, the stop is at
\* or past the entry and follows the best gain at one R and the hysteresis,
\* whatever restarts, refusals and missing Redis came in between.
GainIsKept ==
  Reaches(best, Activate, Widest) => sl >= 0 /\ sl >= best - Widest - Hysteresis

\* A stop is never moved back, by no restart and by no second manager of it.
StopNeverLoosens == [][sl' >= sl]_stopsVars

\* The alarm "unprotected" is never false: the poll before it was refused by
\* MT5 or had no tick (half an R lies between the trail and the alarm for that).
NoFalseAlarm == [][alarm' /\ ~alarm => refusedSl]_stopsVars

\* The position is halved twice only if a restart found it below the level,
\* which is how the bridge recognises that it was halved before.
HalvedOnce == halvings > 1 => forgot

Exposed == ~ended /\ Reaches(gain, Activate, Widest) /\ sl < 0

\* A position that stays far enough in profit gets its stop past the entry,
\* even if Redis never answers.
ProfitGetsProtected == Exposed ~> ~Exposed

=============================================================================
