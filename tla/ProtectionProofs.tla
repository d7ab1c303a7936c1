-------------------------- MODULE ProtectionProofs --------------------------
(***************************************************************************)
(* TLAPS proofs about Protection: the stop of a position at MT5, the        *)
(* tracker without a broker, and the backtest.                              *)
(***************************************************************************)
EXTENDS Protection, TLAPS, SequenceTheorems, FiniteSetTheorems

----------------------------------------------------------------------------
(* The bridge.                                                              *)

\* The target was never moved, so it gives the distance back.
LEMMA DistanceFromTarget ==
  ASSUME NEW a \in Nat \ {0}, NEW b \in Nat
  PROVE  (a * b) \div a = b
OBVIOUS

\* A wider distance is further off.
LEMMA FurtherOff ==
  ASSUME NEW a \in Nat, NEW b \in Int, NEW c \in Int, b <= c
  PROVE  a * b <= a * c
OBVIOUS

\* The flags of the bridge.
StopsFlags ==
  /\ ended \in BOOLEAN /\ redis \in BOOLEAN /\ alarm \in BOOLEAN
  /\ refusedSl \in BOOLEAN /\ forgot \in BOOLEAN
  /\ meta.known \in BOOLEAN /\ meta.beDone \in BOOLEAN /\ meta.partialDone \in BOOLEAN

\* The rest of what StopsTypeOK says; a position of no volume has ended.
StopsTyped ==
  /\ slip \in -Slip .. Slip
  /\ gain \in Gains /\ sl \in Gains /\ best \in Gains /\ tp = Target
  /\ volume \in 0 .. Lots /\ halvings \in 0 .. Lots - volume
  /\ volume = 0 => ended
  /\ refusals \in 0 .. MaxFailures
  /\ watching \in {"no", "fresh", "moved"} /\ loop \in {"main", "waiting"}
  /\ meta.dist \in Nat
  /\ meta = [known |-> meta.known, dist |-> meta.dist, beDone |-> meta.beDone,
             partialDone |-> meta.partialDone]

\* The stop is where it was first set, or past the entry.
Placed == sl = FirstStop \/ sl >= 0

\* A record of a halved position says so, unless a restart could not tell.
Halved ==
  ~forgot => /\ halvings <= 1
             /\ meta.known /\ halvings > 0 => meta.partialDone

\* After a poll that MT5 did not refuse the stop is past the entry at the
\* activating gain, by the distance in the record; the market may have gone one
\* point since.
Watched1 ==
  meta.known /\ ~refusedSl /\ ~ended =>
    /\ watching = "fresh" => (Reaches(gain, Activate, meta.dist) => sl >= 0)
    /\ watching = "moved" => (Reaches(gain - 1, Activate, meta.dist) => sl >= 0)

\* What a step of the bridge keeps, besides the flags.
StopsCore ==
  StopsTyped /\ StopDistanceKept /\ Placed /\ GainIsKept /\ Halved /\ Watched1

StopsInv == StopsFlags /\ StopsCore

\* What the arithmetic of the steps needs of the constants and the slippage.
LEMMA StopsNumbers ==
  ASSUME slip \in -Slip .. Slip
  PROVE  /\ StopDist \in Nat /\ StopDist >= 2 /\ StopDist - slip \in Nat /\ StopDist - slip >= 2
         /\ Hysteresis \in Nat /\ Activate \in Nat /\ MaxJump \in Nat
         /\ FirstStop \in Int /\ FirstStop + Hysteresis < 0
         /\ Widest \in Int /\ StopDist <= Widest /\ StopDist - slip <= Widest
         /\ Gains \subseteq Int /\ 0 \in Gains /\ FirstStop \in Gains
         /\ \A g \in Gains : \A d \in Nat : g - d > 0 => g - d \in Gains
<1> USE StopsAssumption DEF StopsAssumption
<1>1. /\ StopDist \in Nat /\ StopDist >= 2 /\ StopDist - slip \in Nat /\ StopDist - slip >= 2
      /\ Hysteresis \in Nat /\ Activate \in Nat /\ MaxJump \in Nat
  OBVIOUS
<1>2. RewardRatio * slip \in Int /\ RewardRatio * Slip \in Nat
  OBVIOUS
<1>3. RewardRatio * slip <= RewardRatio * Slip
  BY FurtherOff
<1>4. RewardRatio * (-Slip) <= RewardRatio * slip
  BY FurtherOff
<1>5. RewardRatio * (-Slip) = -(RewardRatio * Slip)
  OBVIOUS
<1>6. FirstStop \in Int /\ FirstStop + Hysteresis < 0
  BY <1>1, <1>2, <1>4, <1>5 DEF FirstStop
<1>7. RewardRatio * (StopDist + Slip) \in Nat
  BY <1>1
<1>8. Gains \subseteq Int /\ 0 \in Gains /\ FirstStop \in Gains
  <2>1. \A g : g \in Gains <=> /\ g \in Int
                               /\ -StopDist - RewardRatio * Slip - MaxJump <= g
                               /\ g <= RewardRatio * (StopDist + Slip) + MaxJump
    BY <1>1, <1>2, <1>7 DEF Gains
  <2> QED
    BY <2>1, <1>1, <1>2, <1>3, <1>6, <1>7 DEF FirstStop
<1>9. \A g \in Gains : \A d \in Nat : g - d > 0 => g - d \in Gains
  BY <1>1, <1>2, <1>7 DEF Gains
<1>10. Widest \in Int /\ StopDist <= Widest /\ StopDist - slip <= Widest
  BY <1>1 DEF Widest
<1> QED
  BY <1>1, <1>6, <1>8, <1>9, <1>10

\* A restarted bridge finds the distance again, but for the slippage.
LEMMA RecoveredRight ==
  ASSUME tp = Target, slip \in -Slip .. Slip
  PROVE  Recovered.dist = StopDist - slip
<1>1. tp \div RewardRatio = StopDist - slip
  BY DistanceFromTarget, StopsNumbers, StopsAssumption DEF StopsAssumption, Target
<1> QED
  BY <1>1 DEF Recovered

\* The bridge knows the position it has opened, with its first stop and target.
LEMMA StopsInitially == StopsInit => StopsInv
<1> SUFFICES ASSUME StopsInit PROVE StopsInv
  OBVIOUS
<1>1. StopsFlags
  BY DEF StopsInit, StopsFlags
<1>2. /\ slip \in -Slip .. Slip /\ Lots \in Nat \ {0} /\ MaxFailures \in Nat
      /\ meta = [known |-> TRUE, dist |-> StopDist, beDone |-> FALSE, partialDone |-> FALSE]
  BY StopsAssumption DEF StopsAssumption, StopsInit
<1>3. StopsTyped
  BY <1>2, StopsNumbers DEF StopsInit, StopsTyped
<1>4. StopDistanceKept /\ Placed /\ Halved /\ Watched1
  BY <1>2 DEF StopsInit, StopDistanceKept, Placed, Halved, Watched1
<1>5. GainIsKept
  <2>1. Activate * StopDist <= Activate * Widest /\ Activate * StopDist > 0
    BY <1>2, StopsNumbers, FurtherOff, StopsAssumption DEF StopsAssumption
  <2>2. Activate * Widest \in Int /\ Activate * StopDist \in Int
    BY <1>2, StopsNumbers
  <2>3. ~Reaches(0, Activate, Widest)
    BY <2>1, <2>2 DEF Reaches
  <2> QED
    BY <2>3 DEF StopsInit, GainIsKept
<1> QED
  BY <1>1, <1>3, <1>4, <1>5 DEF StopsInv, StopsCore

\* The record a poll works with measures by the right distance, and says that
\* a halved position was halved unless that was forgotten.
LEMMA KnownRight ==
  ASSUME StopsCore
  PROVE  /\ Known.dist \in {StopDist, StopDist - slip} /\ Known.dist \in Nat
         /\ Known = [known |-> Known.known, dist |-> Known.dist, beDone |-> Known.beDone,
                     partialDone |-> Known.partialDone]
         /\ (meta.known => Known = meta) /\ (~meta.known => Known = Recovered)
<1>1. CASE meta.known
  BY <1>1 DEF Known, StopsCore, StopsTyped, StopDistanceKept
<1>2. CASE ~meta.known
  <2>1. tp = Target /\ slip \in -Slip .. Slip
    BY DEF StopsCore, StopsTyped
  <2>2. Recovered = [known |-> TRUE, dist |-> StopDist - slip, beDone |-> sl >= 0,
                     partialDone |-> Partial = 0 \/ Reaches(gain, Partial, StopDist - slip)]
    BY <2>1, RecoveredRight DEF Recovered
  <2> QED
    BY <1>2, <2>1, <2>2, StopsNumbers DEF Known
<1> QED
  BY <1>1, <1>2

\* The stop after a poll that was not refused.
LEMMA StopAfterPoll ==
  ASSUME StopsCore, sl' = IF Moves THEN TrailSl ELSE sl
  PROVE  /\ sl' \in Gains /\ sl' >= sl /\ (sl' = FirstStop \/ sl' >= 0)
         /\ Reaches(gain, Activate, Known.dist) =>
              sl' >= 0 /\ sl' >= gain - Known.dist - Hysteresis
<1> DEFINE d == Known.dist  far == Reaches(gain, Activate, d)
<1>1. /\ sl \in Gains /\ gain \in Gains /\ Placed /\ slip \in -Slip .. Slip
      /\ TrailSl = (IF gain - d > 0 THEN gain - d ELSE 0)
      /\ Moves <=> far /\ TrailSl > sl + Hysteresis
  BY DEF StopsCore, StopsTyped, TrailSl, Moves
<1>2. d \in Nat
  BY KnownRight
<1> HIDE DEF d, far
<1>3. sl \in Int /\ gain \in Int /\ TrailSl \in Gains /\ TrailSl \in Int /\ TrailSl >= 0
  BY <1>1, <1>2, StopsNumbers
<1>4. CASE Moves
  BY <1>1, <1>2, <1>3, <1>4, StopsNumbers DEF d, far
<1>5. CASE ~Moves
  <2>1. far => sl >= 0 /\ sl + Hysteresis >= TrailSl
    BY <1>1, <1>3, <1>5, StopsNumbers DEF Placed
  <2> QED
    BY <1>1, <1>2, <1>3, <1>5, <2>1, StopsNumbers DEF Placed, d, far
<1> QED
  BY <1>4, <1>5

\* What a partial close may leave.
LEMMA PartialLeaves ==
  ASSUME StopsCore, ~ended, NEW v \in {volume} \cup PartialClose
  PROVE  /\ v \in 0 .. Lots /\ v <= volume
         /\ v # volume => TakesPartial
<1>1. volume \in Nat \ {0} /\ Lots \in Nat /\ volume <= Lots
  BY StopsAssumption DEF StopsAssumption, StopsCore, StopsTyped
<1>2. \A h \in Half(volume) : h \in Nat /\ 1 <= h /\ h <= volume
  <2>1. CASE volume = 1
    BY <2>1 DEF Half
  <2>2. CASE volume # 1
    <3>1. /\ volume \div 2 \in Nat /\ 1 <= volume \div 2 /\ volume \div 2 <= volume
          /\ (volume + 1) \div 2 \in Nat /\ 1 <= (volume + 1) \div 2 /\ (volume + 1) \div 2 <= volume
      BY <1>1, <2>2
    <3> QED
      BY <2>2, <3>1 DEF Half
  <2> QED
    BY <2>1, <2>2
<1> QED
  BY <1>1, <1>2 DEF PartialClose

\* One round of the bridge's management.
LEMMA PollStep ==
  ASSUME StopsCore, Poll
  PROVE  StopsCore' /\ sl' >= sl
<1> DEFINE noted == [Known EXCEPT !.beDone = @ \/ sl' # sl,
                                  !.partialDone = @ \/ volume' # volume]
           tells == halvings > 0 /\ ~meta.known /\ meta'.known /\ ~Recovered.partialDone
<1>1. /\ ~ended /\ volume' \in {volume} \cup PartialClose
      /\ halvings' = (IF volume' # volume THEN halvings + 1 ELSE halvings)
      /\ ended' = (volume' = 0)
      /\ forgot' = (forgot \/ tells)
      /\ UNCHANGED <<gain, slip, tp, redis, loop, alarm>>
  BY DEF Poll, Manages
<1>2. /\ slip \in -Slip .. Slip /\ sl \in Gains /\ gain \in Gains /\ best \in Gains
      /\ volume \in 0 .. Lots /\ halvings \in 0 .. Lots - volume /\ Lots \in Nat
      /\ refusals \in 0 .. MaxFailures /\ MaxFailures \in Nat
      /\ Placed /\ GainIsKept /\ Halved
  BY StopsAssumption DEF StopsAssumption, StopsCore, StopsTyped
<1>3. \/ meta' = noted
      \/ refusedSl' /\ volume' = volume /\ meta' = meta
  BY DEF Poll
<1>4. /\ volume' \in 0 .. Lots /\ volume' <= volume
      /\ volume' # volume => TakesPartial
  BY <1>1, PartialLeaves
<1>5. ASSUME meta' = noted
      PROVE  /\ meta'.known = Known.known /\ meta'.dist = Known.dist
             /\ meta'.partialDone = (Known.partialDone \/ volume' # volume)
             /\ meta' = [known |-> meta'.known, dist |-> meta'.dist, beDone |-> meta'.beDone,
                         partialDone |-> meta'.partialDone]
  BY <1>5, KnownRight
<1>6. /\ meta'.dist \in Nat /\ (meta'.known => meta'.dist \in {StopDist, StopDist - slip})
      /\ meta' = [known |-> meta'.known, dist |-> meta'.dist, beDone |-> meta'.beDone,
                  partialDone |-> meta'.partialDone]
  <2>1. CASE meta' = noted
    BY <1>5, <2>1, KnownRight
  <2>2. CASE meta' = meta
    BY <2>2 DEF StopsCore, StopsTyped, StopDistanceKept
  <2> QED
    BY <1>3, <2>1, <2>2
<1>7. ~refusedSl' => meta'.dist = Known.dist
  BY <1>3, <1>5
<1> HIDE DEF noted, tells
<1>8. /\ refusals' \in 0 .. MaxFailures /\ watching' \in {"fresh", "no"}
      /\ best' \in Gains /\ sl' \in Gains /\ sl' >= sl /\ (sl' = FirstStop \/ sl' >= 0)
      /\ GainIsKept'
      /\ ~refusedSl' /\ volume' # 0 => (Reaches(gain, Activate, Known.dist) => sl' >= 0)
  <2>1. CASE StopFollows
    <3>1. /\ sl' = (IF Moves THEN TrailSl ELSE sl) /\ best' = (IF gain > best THEN gain ELSE best)
          /\ watching' = "fresh" /\ UNCHANGED refusals
      BY <2>1 DEF StopFollows
    <3>2. /\ sl' \in Gains /\ sl' >= sl /\ (sl' = FirstStop \/ sl' >= 0)
          /\ Reaches(gain, Activate, Known.dist) =>
               sl' >= 0 /\ sl' >= gain - Known.dist - Hysteresis
      BY <3>1, StopAfterPoll
    <3>3. Known.dist \in Int /\ Known.dist <= Widest /\ Widest \in Int /\ Hysteresis \in Int
          /\ Activate \in Nat
      BY <1>2, KnownRight, StopsNumbers
    <3>4. Activate * Known.dist <= Activate * Widest
      BY <3>3, FurtherOff
    <3>5. Activate * Known.dist \in Int /\ Activate * Widest \in Int
      BY <3>3
    <3>6. gain \in Int /\ best \in Int /\ sl \in Int /\ sl' \in Int
      BY <1>2, <3>2, StopsNumbers
    <3>7. Reaches(gain, Activate, Widest) => sl' >= 0 /\ sl' >= gain - Widest - Hysteresis
      BY <3>2, <3>3, <3>4, <3>5, <3>6 DEF Reaches
    <3>8. Widest' = Widest
      BY <1>1 DEF Widest
    <3>9. GainIsKept'
      <4>1. CASE gain > best
        BY <3>1, <3>7, <3>8, <4>1 DEF GainIsKept
      <4>2. CASE ~(gain > best)
        BY <1>2, <3>1, <3>2, <3>3, <3>6, <3>8, <4>2 DEF GainIsKept
      <4> QED
        BY <4>1, <4>2
    <3>10. best' \in Gains /\ refusals' \in 0 .. MaxFailures
      BY <1>2, <3>1
    <3> QED
      BY <3>1, <3>2, <3>9, <3>10
  <2>2. CASE StopRefused \/ NothingLeft
    <3>1. /\ UNCHANGED <<sl, best>> /\ refusals' \in 0 .. MaxFailures
          /\ watching' \in {"fresh", "no"} /\ (refusedSl' \/ volume' = 0)
      BY <1>2, <2>2 DEF StopRefused, NothingLeft
    <3>2. GainIsKept'
      BY <1>1, <1>2, <3>1 DEF GainIsKept, Widest
    <3>3. sl \in Int
      BY <1>2, StopsNumbers
    <3> QED
      BY <1>2, <3>1, <3>2, <3>3 DEF Placed
  <2> QED
    BY <2>1, <2>2 DEF Poll
<1>9. Halved'
  <2> SUFFICES ASSUME ~forgot'
               PROVE  halvings' <= 1 /\ (meta'.known /\ halvings' > 0 => meta'.partialDone)
    BY DEF Halved
  <2>1. ~forgot /\ ~tells /\ halvings <= 1 /\ (meta.known /\ halvings > 0 => meta.partialDone)
    BY <1>1, <1>2 DEF Halved
  <2>2. CASE meta' = noted
    <3>1. /\ meta'.known = Known.known
          /\ meta'.partialDone = (Known.partialDone \/ volume' # volume)
      BY <1>5, <2>2
    <3>2. halvings > 0 => Known.partialDone
      <4>1. CASE meta.known
        BY <2>1, <4>1, KnownRight
      <4>2. CASE ~meta.known
        <5>1. Known = Recovered /\ Recovered.known
          BY <4>2, KnownRight DEF Recovered
        <5> QED
          BY <2>1, <3>1, <4>2, <5>1 DEF tells
      <4> QED
        BY <4>1, <4>2
    <3>3. volume' # volume => ~Known.partialDone
      BY <1>4 DEF TakesPartial
    <3>4. halvings' <= 1
      BY <1>1, <1>2, <2>1, <3>2, <3>3
    <3>5. halvings' > 0 => Known.partialDone \/ volume' # volume
      BY <1>1, <3>2
    <3> QED
      BY <3>1, <3>4, <3>5
  <2>3. CASE volume' = volume /\ meta' = meta
    BY <1>1, <2>1, <2>3
  <2> QED
    BY <1>3, <2>2, <2>3
<1>10. StopsTyped'
  <2>1. tp' = Target'
    BY <1>1 DEF Target, StopsCore, StopsTyped
  <2>2. halvings' \in 0 .. Lots - volume'
    <3>1. CASE volume' = volume
      BY <1>1, <1>2, <3>1
    <3>2. CASE volume' # volume
      <4> DEFINE v == volume'  n == halvings'
      <4>1. n = halvings + 1 /\ v < volume
        BY <1>1, <1>2, <1>4, <3>2
      <4>2. halvings \in Nat /\ halvings <= Lots - volume /\ volume \in Nat /\ v \in Nat
        BY <1>2, <1>4
      <4> HIDE DEF v, n
      <4>3. n \in 0 .. Lots - v
        BY <1>2, <4>1, <4>2
      <4> QED
        BY <4>3 DEF v, n
    <3> QED
      BY <3>1, <3>2
  <2>3. volume' = 0 => ended'
    BY <1>1
  <2>4. loop' \in {"main", "waiting"} /\ watching' \in {"no", "fresh", "moved"}
    BY <1>1, <1>8 DEF StopsCore, StopsTyped
  <2> QED
    BY <1>1, <1>2, <1>4, <1>6, <1>8, <2>1, <2>2, <2>3, <2>4 DEF StopsTyped
<1>11. Placed' /\ StopDistanceKept'
  BY <1>1, <1>6, <1>8 DEF Placed, StopDistanceKept, FirstStop
<1>12. Watched1'
  BY <1>1, <1>7, <1>8 DEF Watched1
<1> QED
  BY <1>8, <1>9, <1>10, <1>11, <1>12 DEF StopsCore

\* The watchdog, the restart and Redis do not touch the position; the market
\* touches nothing else.
LEMMA OtherStopsStep ==
  ASSUME StopsCore, Watch \/ StopsRestart \/ RedisComesAndGoes \/ Market \/ UNCHANGED stopsVars
  PROVE  StopsCore' /\ sl' = sl
<1>1. ASSUME \/ Watch \/ StopsRestart \/ RedisComesAndGoes \/ UNCHANGED stopsVars
      PROVE  /\ UNCHANGED <<gain, slip, sl, tp, volume, ended, refusals, refusedSl, best,
                            halvings, forgot>>
             /\ watching' \in {watching, "no"} /\ loop' \in {"main", "waiting"}
             /\ meta' = meta \/ meta' = NoMeta
  BY <1>1 DEF Watch, StopsRestart, RedisComesAndGoes, stopsVars, StopsCore, StopsTyped
<1>2. ASSUME \/ Watch \/ StopsRestart \/ RedisComesAndGoes \/ UNCHANGED stopsVars
      PROVE  StopsCore'
  <2>1. StopsTyped'
    BY <1>1, <1>2 DEF StopsCore, StopsTyped, NoMeta, Target
  <2>2. StopDistanceKept' /\ Halved'
    BY <1>1, <1>2 DEF StopsCore, StopDistanceKept, Halved, NoMeta
  <2>3. Placed' /\ GainIsKept'
    BY <1>1, <1>2 DEF StopsCore, Placed, GainIsKept, FirstStop, Widest
  <2>4. Watched1'
    BY <1>1, <1>2 DEF StopsCore, Watched1, NoMeta
  <2> QED
    BY <2>1, <2>2, <2>3, <2>4 DEF StopsCore
<1>3. ASSUME Market PROVE StopsCore' /\ sl' = sl
  <2>1. /\ gain \in Gains /\ gain' \in Gains /\ slip \in -Slip .. Slip /\ ~ended
        /\ UNCHANGED <<slip, sl, tp, volume, meta, redis, loop, alarm, refusals, refusedSl,
                       best, halvings, forgot>>
        /\ \/ watching = "no" /\ watching' = "no"
           \/ watching = "fresh" /\ gain' \in gain - 1 .. gain + 1 /\ watching' = "moved"
    BY <1>3 DEF Market, StopsCore, StopsTyped
  <2>2. StopsTyped'
    BY <2>1 DEF StopsCore, StopsTyped, Target
  <2>3. StopDistanceKept' /\ Halved' /\ Placed' /\ GainIsKept'
    BY <2>1 DEF StopsCore, StopDistanceKept, Halved, Placed, GainIsKept, FirstStop, Widest
  <2>4. Watched1'
    <3>1. CASE watching' = "no"
      BY <3>1 DEF Watched1
    <3>2. CASE watching = "fresh" /\ gain' \in gain - 1 .. gain + 1 /\ watching' = "moved"
      <4>1. ASSUME meta'.known, ~refusedSl', Reaches(gain' - 1, Activate, meta'.dist)
            PROVE  sl' >= 0
        <5>1. Activate * meta.dist \in Int /\ gain \in Int /\ gain' \in Int
          BY <2>1, StopsNumbers, StopsAssumption DEF StopsAssumption, StopsCore, StopsTyped
        <5>2. gain' <= gain + 1
          BY <3>2, <5>1
        <5>3. Reaches(gain, Activate, meta.dist)
          BY <2>1, <4>1, <5>1, <5>2 DEF Reaches
        <5> QED
          BY <2>1, <3>2, <4>1, <5>3 DEF StopsCore, Watched1
      <4> QED
        BY <3>2, <4>1 DEF Watched1
    <3> QED
      BY <2>1, <3>1, <3>2
  <2> QED
    BY <2>1, <2>2, <2>3, <2>4 DEF StopsCore
<1> QED
  BY <1>1, <1>2, <1>3

\* The flags stay flags.
LEMMA FlagsStep ==
  ASSUME StopsInv, StopsNext \/ UNCHANGED stopsVars
  PROVE  StopsFlags'
<1>1. /\ ended \in BOOLEAN /\ redis \in BOOLEAN /\ alarm \in BOOLEAN
      /\ refusedSl \in BOOLEAN /\ forgot \in BOOLEAN
      /\ meta.known \in BOOLEAN /\ meta.beDone \in BOOLEAN /\ meta.partialDone \in BOOLEAN
  BY DEF StopsInv, StopsFlags
<1>2. NoMeta.known \in BOOLEAN /\ NoMeta.beDone \in BOOLEAN /\ NoMeta.partialDone \in BOOLEAN
  BY DEF NoMeta
<1>3. CASE Poll
  <2>1. UNCHANGED <<redis, alarm>> /\ refusedSl' \in BOOLEAN /\ forgot' \in BOOLEAN
    BY <1>1, <1>3 DEF Poll, StopFollows, StopRefused, NothingLeft
  <2>2. ended' \in BOOLEAN
    BY <1>3 DEF Poll
  <2>3. Known.known \in BOOLEAN /\ Known.beDone \in BOOLEAN /\ Known.partialDone \in BOOLEAN
    <3>1. CASE meta.known
      BY <1>1, <3>1 DEF Known
    <3>2. CASE ~meta.known
      <4>1. /\ Known.known = TRUE /\ Known.beDone = (sl >= 0)
            /\ Known.partialDone = (Partial = 0 \/ Reaches(gain, Partial, tp \div RewardRatio))
        BY <3>2 DEF Known, Recovered
      <4>2. (sl >= 0) \in BOOLEAN
        OBVIOUS
      <4>3. (Partial = 0 \/ Reaches(gain, Partial, tp \div RewardRatio)) \in BOOLEAN
        BY Zenon
      <4>4. Known.beDone \in BOOLEAN
        BY <4>1, <4>2
      <4>5. Known.partialDone \in BOOLEAN
        BY <4>1, <4>3
      <4> QED
        BY <4>1, <4>4, <4>5
    <3> QED
      BY <3>1, <3>2
  <2>4. \/ /\ meta'.known = Known.known
           /\ meta'.beDone = (Known.beDone \/ sl' # sl)
           /\ meta'.partialDone = (Known.partialDone \/ volume' # volume)
        \/ meta' = meta
    BY <1>3, KnownRight DEF Poll, StopsInv
  <2>5. (Known.beDone \/ sl' # sl) \in BOOLEAN
    BY Zenon
  <2>6. (Known.partialDone \/ volume' # volume) \in BOOLEAN
    BY Zenon
  <2>7. meta'.known \in BOOLEAN /\ meta'.beDone \in BOOLEAN /\ meta'.partialDone \in BOOLEAN
    BY <1>1, <2>3, <2>4, <2>5, <2>6
  <2> QED
    BY <2>1, <2>2, <2>7, <1>1 DEF StopsFlags
<1>4. CASE Watch
  BY <1>1, <1>2, <1>4 DEF Watch, StopsFlags
<1>5. CASE StopsRestart
  BY <1>1, <1>2, <1>5 DEF StopsRestart, StopsFlags
<1>6. CASE RedisComesAndGoes
  BY <1>1, <1>6 DEF RedisComesAndGoes, StopsFlags
<1>7. CASE Market
  BY <1>1, <1>7 DEF Market, StopsFlags
<1>8. CASE UNCHANGED stopsVars
  BY <1>1, <1>8 DEF stopsVars, StopsFlags
<1> QED
  BY <1>3, <1>4, <1>5, <1>6, <1>7, <1>8 DEF StopsNext

\* The inductive invariant of the bridge's stops.
LEMMA StopsStep ==
  ASSUME StopsInv, StopsNext \/ UNCHANGED stopsVars
  PROVE  StopsInv' /\ sl' >= sl
<1>1. StopsCore' /\ sl' >= sl
  <2>1. sl \in Int
    BY StopsNumbers DEF StopsInv, StopsCore, StopsTyped
  <2> QED
    BY <2>1, PollStep, OtherStopsStep DEF StopsInv, StopsNext
<1> QED
  BY <1>1, FlagsStep DEF StopsInv

\* The watchdog's alarm is raised only after a refused poll.
LEMMA AlarmStep ==
  ASSUME StopsInv, StopsNext, alarm', ~alarm
  PROVE  refusedSl
<1>1. Watch
  BY DEF StopsNext, Poll, StopsRestart, RedisComesAndGoes, Market, Watch
<1>2. watching # "no" /\ ~ended /\ meta.known /\ Unprotected(meta.dist)
  BY <1>1 DEF Watch
<1>3. SUFFICES ASSUME ~refusedSl PROVE FALSE
  OBVIOUS
<1> DEFINE d == meta.dist
<1>4. /\ slip \in -Slip .. Slip /\ gain \in Int /\ sl \in Int /\ watching \in {"fresh", "moved"}
      /\ d \in {StopDist, StopDist - slip}
  BY <1>2, StopsNumbers DEF StopsInv, StopsCore, StopsTyped, StopDistanceKept
<1>5. d \in Nat /\ d >= 2 /\ Activate \in Nat
  BY <1>4, StopsNumbers
<1>6. Watched1
  BY DEF StopsInv, StopsCore
<1> HIDE DEF d
<1>7. Activate * d \in Int /\ (Activate + 1) * d = Activate * d + d
  BY <1>5
<1>8. 2 * gain >= Activate * d + d /\ sl < 0
  BY <1>2, <1>7 DEF Unprotected, Reaches, d
<1>9. Reaches(gain, Activate, d) /\ Reaches(gain - 1, Activate, d)
  BY <1>4, <1>5, <1>7, <1>8 DEF Reaches
<1> QED
  BY <1>2, <1>3, <1>4, <1>6, <1>8, <1>9 DEF Watched1, d

----------------------------------------------------------------------------
(* The tracker without a broker.                                            *)

Closed(t) == row[t].result \in {"WIN", "LOSS"}

\* A loss was decided on a loss.
Decided ==
  \A k \in Tickers : \A i \in DOMAIN tick[k].todo :
    tick[k].todo[i].result = "LOSS" => tick[k].todo[i].gain < 0

\* What a handler has written, and what comes back through Redis, is closed.
AfterWrite ==
  /\ \A k \in Tickers : At(k, "delete") \/ At(k, "publish") => Closed(Now(k).of)
  /\ \A i \in DOMAIN echoes : Closed(echoes[i])

\* Whoever removed the entry of a trade publishes it, and nobody has before.
OneCloses ==
  /\ \A t \in SimTrades : /\ published[t] \in {0, 1}
                          /\ published[t] = 1 => Closed(t) /\ t \notin tracked
  /\ \A k \in Tickers : At(k, "publish") =>
       published[Now(k).of] = 0 /\ Now(k).of \notin tracked
  /\ \A k, l \in Tickers :
       At(k, "publish") /\ At(l, "publish") /\ Now(k).of = Now(l).of => k = l

\* A trade whose approval is on its way is open and in nobody's hands; what a
\* tick may have to close has a row.
Announced ==
  /\ \A t \in approving : row[t].result = "OPEN" /\ t \notin tracked
  /\ \A t \in tracked : row[t].result # "none"
  /\ \A k \in Tickers : \A i \in DOMAIN tick[k].todo :
       /\ tick[k].todo[i].of \in SimTrades \ approving
       /\ row[tick[k].todo[i].of].result # "none"

SimCore ==
  /\ SimTypeOK /\ published \in [SimTrades -> {0, 1}]
  /\ Decided /\ AfterWrite /\ OneCloses /\ Announced /\ ResultHonest /\ OpenIsTracked

\* No trade is tracked.
LEMMA SimInitially == SimInit => SimCore
<1> SUFFICES ASSUME SimInit PROVE SimCore
  OBVIOUS
<1> USE SimAssumption DEF SimAssumption, SimInit
<1>1. \A k \in Tickers : tick[k].todo = <<>> /\ tick[k].step = "write"
  BY DEF Done
<1>2. NoTrail \in [be : BOOLEAN, sl : Int] /\ <<>> \in Seq(Decision)
  BY EmptySeq DEF NoTrail
<1>3. SimTypeOK
  BY <1>2, EmptySeq DEF SimTypeOK, Done
<1>4. /\ Decided /\ AfterWrite /\ OneCloses /\ Announced
      /\ published \in [SimTrades -> {0, 1}]
  BY <1>1, EmptySeq DEF Decided, AfterWrite, OneCloses, Announced, At
<1> QED
  BY <1>3, <1>4 DEF SimCore, ResultHonest, OpenIsTracked

\* The entries of the dictionary in an order, each once.
LEMMA SetAsSeqType ==
  ASSUME NEW S, IsFiniteSet(S)
  PROVE  /\ Cardinality(S) \in Nat
         /\ SetAsSeq(S) \in [1 .. Cardinality(S) -> S]
<1>1. Cardinality(S) \in Nat /\ ExistsBijection(1 .. Cardinality(S), S)
  BY FS_CardinalityType
<1>2. PICK f \in Bijection(1 .. Cardinality(S), S) : TRUE
  BY <1>1 DEF ExistsBijection
<1>3. f \in [1 .. Cardinality(S) -> S] /\ \A i, j \in DOMAIN f : f[i] = f[j] => i = j
  BY <1>2 DEF Bijection, Injection, IsInjective
<1> QED
  BY <1>1, <1>3 DEF SetAsSeq

\* A handler's trade.
LEMMA NowType ==
  ASSUME SimCore, NEW k \in Tickers, tick[k].todo # <<>>
  PROVE  /\ Now(k) \in Decision /\ 1 \in DOMAIN tick[k].todo
         /\ Now(k).of \in SimTrades /\ Now(k).gain \in SimPrices
         /\ Now(k).result \in {"WIN", "LOSS"}
         /\ Now(k).result = "LOSS" => Now(k).gain < 0
<1>1. tick[k].todo \in Seq(Decision)
  BY DEF SimCore, SimTypeOK
<1>2. Now(k) \in Decision /\ 1 \in DOMAIN tick[k].todo
  BY <1>1, LenProperties, EmptySeq, ElementOfSeq DEF Now
<1> QED
  BY <1>2 DEF Decision, SimCore, Decided, Now

\* A row is written: nobody has heard of its trade yet.
LEMMA OpenedStep ==
  ASSUME SimCore, NEW t \in SimTrades, Opened(t)
  PROVE  SimCore'
<1>1. /\ row[t].result = "none" /\ approving' = approving \cup {t}
      /\ row' = [row EXCEPT ![t].result = "OPEN"]
      /\ UNCHANGED <<tracked, trail, tick, echoes, published, heard, unseen, ticks, simFaults>>
  BY DEF Opened
<1>2. row \in [SimTrades -> [result : {"none", "OPEN", "WIN", "LOSS"}, pnl : {0} \cup SimPrices]]
  BY DEF SimCore, SimTypeOK
<1>3. /\ row'[t].result = "OPEN" /\ \A u \in SimTrades : u # t => row'[u] = row[u]
      /\ \A u \in SimTrades : Closed(u)' <=> Closed(u)
  BY <1>1, <1>2 DEF Closed
<1>4. SimTypeOK'
  BY <1>1, <1>2 DEF SimCore, SimTypeOK
<1>5. \A k \in Tickers : Now(k)' = Now(k) /\ (At(k, "delete")' <=> At(k, "delete"))
                         /\ (At(k, "publish")' <=> At(k, "publish"))
                         /\ (tick[k].todo # <<>> => Now(k).of \in SimTrades)
  BY <1>1, NowType DEF Now, At
<1>6. \A i \in DOMAIN echoes : echoes[i] \in SimTrades
  BY ElementOfSeq, LenProperties DEF SimCore, SimTypeOK
<1>7. Decided' /\ AfterWrite'
  BY <1>1, <1>3, <1>5, <1>6 DEF SimCore, Decided, AfterWrite, At
<1>8. OneCloses'
  BY <1>1, <1>3, <1>5 DEF SimCore, OneCloses, AfterWrite
<1>9. Announced'
  <2>1. tracked \subseteq SimTrades /\ approving \subseteq SimTrades
    BY DEF SimCore, SimTypeOK
  <2> QED
    BY <1>1, <1>3, <2>1 DEF SimCore, Announced
<1>10. ResultHonest' /\ OpenIsTracked'
  BY <1>1, <1>3 DEF SimCore, ResultHonest, OpenIsTracked
<1> QED
  BY <1>1, <1>4, <1>7, <1>8, <1>9, <1>10 DEF SimCore

\* The approval arrives: nobody has closed the trade, and it is tracked.
LEMMA BookedStep ==
  ASSUME SimCore, NEW t \in SimTrades, Booked(t)
  PROVE  SimCore'
<1>1. /\ t \in approving /\ approving' = approving \ {t} /\ tracked' = tracked \cup {t}
      /\ trail' = [trail EXCEPT ![t] = NoTrail]
      /\ UNCHANGED <<row, tick, echoes, published, heard, unseen, ticks, simFaults>>
  BY DEF Booked
<1>2. NoTrail \in [be : BOOLEAN, sl : Int]
  BY DEF NoTrail
<1>3. SimTypeOK'
  BY <1>1, <1>2 DEF SimCore, SimTypeOK
<1>4. row[t].result = "OPEN" /\ ~Closed(t)
  BY <1>1 DEF SimCore, Announced, Closed
<1>5. Decided' /\ AfterWrite'
  BY <1>1 DEF SimCore, Decided, AfterWrite, At, Now, Closed
<1>6. OneCloses'
  BY <1>1, <1>4 DEF SimCore, OneCloses, AfterWrite, At, Now, Closed
<1>7. Announced'
  BY <1>1, <1>4 DEF SimCore, Announced
<1>8. ResultHonest' /\ OpenIsTracked'
  BY <1>1 DEF SimCore, ResultHonest, OpenIsTracked
<1> QED
  BY <1>1, <1>3, <1>5, <1>6, <1>7, <1>8 DEF SimCore

\* Nobody hears of a trade whose handler or publication ends.
LEMMA AnnouncedStays ==
  ASSUME Announced, approving' \subseteq approving, tracked' \subseteq tracked,
         \A u \in approving' : row'[u] = row[u],
         \A u : row[u].result # "none" => row'[u].result # "none",
         \A k \in Tickers : \A i \in DOMAIN tick'[k].todo :
           \E j \in DOMAIN tick[k].todo : tick'[k].todo[i] = tick[k].todo[j]
  PROVE  Announced'
BY DEF Announced

\* The publication fails: the row stays open and nobody watches it.
LEMMA UnannouncedStep ==
  ASSUME SimCore, NEW t \in SimTrades, Unannounced(t)
  PROVE  SimCore'
<1>1. /\ approving' = approving \ {t} /\ unseen' = unseen \cup {t}
      /\ simFaults < MaxSimFaults /\ simFaults' = simFaults + 1
      /\ UNCHANGED <<row, tracked, trail, tick, echoes, published, heard, ticks>>
  BY DEF Unannounced, SimFault
<1>2. SimTypeOK'
  BY <1>1, SimAssumption DEF SimAssumption, SimCore, SimTypeOK
<1>3. Decided' /\ AfterWrite' /\ OneCloses'
  BY <1>1 DEF SimCore, Decided, AfterWrite, OneCloses, At, Now, Closed
<1>4. Announced'
  BY <1>1, AnnouncedStays DEF SimCore
<1>5. ResultHonest' /\ OpenIsTracked'
  BY <1>1 DEF SimCore, ResultHonest, OpenIsTracked
<1> QED
  BY <1>1, <1>2, <1>3, <1>4, <1>5 DEF SimCore

\* A handler's new work list does not disturb what the invariant says of the
\* others.
LEMMA OthersStay ==
  ASSUME SimCore, NEW k \in Tickers, NEW d,
         tick' = [tick EXCEPT ![k] = d]
  PROVE  /\ tick'[k] = d
         /\ \A l \in Tickers : l # k => /\ tick'[l] = tick[l] /\ Now(l)' = Now(l)
                                        /\ At(l, "delete")' <=> At(l, "delete")
                                        /\ At(l, "publish")' <=> At(l, "publish")
BY DEF SimCore, SimTypeOK, Now, At

\* A tick trails every stop and decides which trades have ended; a loss is
\* decided on a loss.
LEMMA TickStep ==
  ASSUME SimCore, NEW k \in Tickers, NEW p \in SimPrices, Tick(k, p)
  PROVE  SimCore'
<1> USE SimAssumption DEF SimAssumption
<1> DEFINE H == {t \in tracked : Hit(trail'[t], p) # "none"}
           hit == SetAsSeq(H)
           due == [i \in DOMAIN hit |-> [of |-> hit[i], gain |-> p,
                                         result |-> Hit(trail'[hit[i]], p)]]
           d == [todo |-> due, step |-> "write"]
<1>1. /\ tick[k].todo = <<>> /\ ticks < MaxTicks /\ ticks' = ticks + 1
      /\ tick' = [tick EXCEPT ![k] = d]
      /\ UNCHANGED <<row, approving, tracked, echoes, published, heard, unseen, simFaults>>
  BY DEF Tick
<1>2. trail' \in [SimTrades -> [be : BOOLEAN, sl : Int]]
  <2>1. trail' = [t \in SimTrades |-> IF t \in tracked THEN Trailed(trail[t], p) ELSE trail[t]]
    BY DEF Tick
  <2>2. ASSUME NEW t \in SimTrades PROVE Trailed(trail[t], p) \in [be : BOOLEAN, sl : Int]
    <3>1. trail[t].be \in BOOLEAN /\ trail[t].sl \in Int /\ p \in Int
      BY DEF SimCore, SimTypeOK
    <3>2. (trail[t].be \/ p >= SimTrail * SimStop) \in BOOLEAN
      BY Zenon
    <3> DEFINE be == trail[t].be \/ p >= SimTrail * SimStop
    <3> HIDE DEF be
    <3>3. (IF be /\ p - SimStop > trail[t].sl THEN p - SimStop ELSE trail[t].sl) \in Int
      BY <3>1
    <3> QED
      BY <3>2, <3>3 DEF Trailed, be
  <2> QED
    BY <2>1, <2>2 DEF SimCore, SimTypeOK
<1>3. /\ due \in Seq(Decision)
      /\ \A i \in DOMAIN due : due[i].result = "LOSS" => due[i].gain < 0
      /\ \A i \in DOMAIN due : due[i].of \in tracked
  <2>1. IsFiniteSet(H) /\ H \subseteq SimTrades
    <3>1. tracked \subseteq SimTrades
      BY DEF SimCore, SimTypeOK
    <3> QED
      BY <3>1, FS_Subset
  <2> HIDE DEF H
  <2>2. Cardinality(H) \in Nat /\ hit \in [1 .. Cardinality(H) -> H]
    BY <2>1, SetAsSeqType
  <2>3. \A t \in H : /\ Hit(trail'[t], p) \in {"WIN", "LOSS"}
                     /\ Hit(trail'[t], p) = "LOSS" => p < 0
    <3> SUFFICES ASSUME NEW t \in H
                 PROVE  /\ Hit(trail'[t], p) \in {"WIN", "LOSS"}
                        /\ Hit(trail'[t], p) = "LOSS" => p < 0
      OBVIOUS
    <3>1. Hit(trail'[t], p) # "none"
      BY DEF H
    <3>2. p \in Int
      OBVIOUS
    <3> DEFINE target == SimReward * SimStop
    <3>3. target \in Int /\ target > 0
      OBVIOUS
    <3>4. Hit(trail'[t], p) =
            CASE p >= target -> "WIN"
              [] trail'[t].be /\ p <= trail'[t].sl -> "WIN"
              [] ~trail'[t].be /\ p <= -SimStop -> "LOSS"
              [] OTHER -> "none"
      BY DEF Hit
    <3> HIDE DEF target
    <3>5. CASE p >= target
      BY <3>2, <3>3, <3>4, <3>5
    <3>6. CASE ~(p >= target) /\ trail'[t].be
      BY <3>1, <3>2, <3>3, <3>4, <3>6
    <3>7. CASE ~(p >= target) /\ ~trail'[t].be
      BY <3>1, <3>2, <3>3, <3>4, <3>7
    <3> QED
      BY <3>5, <3>6, <3>7
  <2>4. DOMAIN due = 1 .. Cardinality(H) /\ \A i \in DOMAIN due : due[i] \in Decision
    BY <2>1, <2>2, <2>3 DEF Decision
  <2>5. /\ \A i \in DOMAIN due : due[i].result = "LOSS" => due[i].gain < 0
        /\ \A i \in DOMAIN due : due[i].of \in H
    BY <2>2, <2>3
  <2>6. due = [i \in 1 .. Cardinality(H) |-> due[i]]
    BY <2>2
  <2>7. \A i \in DOMAIN due : due[i].of \in tracked
    BY <2>5 DEF H
  <2> HIDE DEF due
  <2> QED
    BY <2>2, <2>4, <2>5, <2>6, <2>7
<1> HIDE DEF due, hit, H
<1>4. tick'[k] = d /\ \A l \in Tickers : l # k =>
        /\ tick'[l] = tick[l] /\ Now(l)' = Now(l)
        /\ At(l, "delete")' <=> At(l, "delete")
        /\ At(l, "publish")' <=> At(l, "publish")
  <2> HIDE DEF d
  <2> QED
    BY <1>1, OthersStay
<1>5. ~At(k, "delete")' /\ ~At(k, "publish")' /\ d.step = "write" /\ d.todo = due
  BY <1>4 DEF At
<1>6. SimTypeOK'
  <2>1. ticks' \in 0 .. MaxTicks
    BY <1>1 DEF SimCore, SimTypeOK
  <2> QED
    BY <1>1, <1>2, <1>3, <2>1 DEF SimCore, SimTypeOK
<1>7. Decided'
  BY <1>3, <1>4, <1>5 DEF SimCore, Decided
<1>8. AfterWrite' /\ OneCloses'
  BY <1>1, <1>4, <1>5 DEF SimCore, AfterWrite, OneCloses, Closed
<1>9. Announced'
  <2>1. tracked \subseteq SimTrades
    BY DEF SimCore, SimTypeOK
  <2> QED
    BY <1>1, <1>3, <1>4, <1>5, <2>1 DEF SimCore, Announced
<1> QED
  BY <1>1, <1>6, <1>7, <1>8, <1>9 DEF SimCore, ResultHonest, OpenIsTracked

\* A handler writes what it decided at its tick, over what another one wrote.
LEMMA WriteRowStep ==
  ASSUME SimCore, NEW k \in Tickers, WriteRow(k)
  PROVE  SimCore'
<1> DEFINE n == Now(k)  t == n.of  new == [result |-> Result(n), pnl |-> n.gain]
           d == [tick[k] EXCEPT !.step = "delete"]
<1>1. /\ tick[k].todo # <<>> /\ tick[k].step = "write"
      /\ row' = [row EXCEPT ![t] = new] /\ tick' = [tick EXCEPT ![k] = d]
      /\ UNCHANGED <<approving, tracked, trail, echoes, published, heard, unseen, ticks,
                     simFaults>>
  BY DEF WriteRow, At, Goes, SimCore, SimTypeOK
<1>2. /\ n \in Decision /\ t \in SimTrades /\ n.gain \in SimPrices /\ n.gain \in Int
      /\ n.result \in {"WIN", "LOSS"} /\ (n.result = "LOSS" => n.gain < 0)
  BY <1>1, NowType, SimAssumption DEF SimAssumption
<1>3. /\ new.result \in {"WIN", "LOSS"} /\ new.pnl = n.gain
      /\ new.result = "WIN" <=> new.pnl >= 0
      /\ new \in [result : {"none", "OPEN", "WIN", "LOSS"}, pnl : {0} \cup SimPrices]
  BY <1>2 DEF Result
<1>4. d = [todo |-> tick[k].todo, step |-> "delete"]
  BY DEF SimCore, SimTypeOK
<1> HIDE DEF new, d
<1>5. row'[t] = new /\ \A u \in SimTrades : u # t => row'[u] = row[u]
  BY <1>1, <1>2 DEF SimCore, SimTypeOK
<1>6. \A u \in SimTrades : u = t \/ Closed(u) => Closed(u)'
  BY <1>3, <1>5 DEF Closed
<1>7. SimTypeOK'
  BY <1>1, <1>2, <1>3, <1>4 DEF SimCore, SimTypeOK
<1>8. tick'[k] = d /\ \A l \in Tickers : l # k =>
        /\ tick'[l] = tick[l] /\ Now(l)' = Now(l)
        /\ At(l, "delete")' <=> At(l, "delete")
        /\ At(l, "publish")' <=> At(l, "publish")
  BY <1>1, OthersStay
<1>9. Now(k)' = n /\ ~At(k, "publish")' /\ tick'[k].todo = tick[k].todo
  BY <1>4, <1>8 DEF Now, At
<1>10. Decided'
  BY <1>8, <1>9 DEF SimCore, Decided
<1>11. AfterWrite'
  <2>1. \A i \in DOMAIN echoes : echoes[i] \in SimTrades
    BY ElementOfSeq, LenProperties DEF SimCore, SimTypeOK
  <2>2. \A l \in Tickers : At(l, "delete") \/ At(l, "publish") => Now(l).of \in SimTrades
    BY NowType DEF At
  <2>3. ASSUME NEW l \in Tickers, At(l, "delete")' \/ At(l, "publish")'
        PROVE  Closed(Now(l).of)'
    <3>1. CASE l = k
      BY <1>2, <1>6, <1>9, <3>1 DEF Closed
    <3>2. CASE l # k
      <4>1. Closed(Now(l).of) /\ Now(l).of \in SimTrades /\ Now(l)' = Now(l)
        BY <1>8, <2>2, <2>3, <3>2 DEF SimCore, AfterWrite
      <4> QED
        BY <1>6, <4>1 DEF Closed
    <3> QED
      BY <3>1, <3>2
  <2>4. \A i \in DOMAIN echoes' : Closed(echoes[i])'
    BY <1>1, <1>6, <2>1 DEF SimCore, AfterWrite, Closed
  <2> QED
    BY <2>3, <2>4 DEF AfterWrite
<1>12. OneCloses'
  BY <1>1, <1>6, <1>8, <1>9 DEF SimCore, OneCloses
<1>13. ResultHonest' /\ OpenIsTracked'
  BY <1>1, <1>3, <1>5 DEF SimCore, ResultHonest, OpenIsTracked
<1>14. Announced'
  <2>1. t \notin approving
    BY <1>1, NowType DEF SimCore, Announced, Now
  <2>2. approving \subseteq SimTrades /\ tracked \subseteq SimTrades
    BY DEF SimCore, SimTypeOK
  <2>3. \A u \in SimTrades : row[u].result # "none" => row'[u].result # "none"
    BY <1>3, <1>5
  <2>4. \A l \in Tickers : tick'[l].todo = tick[l].todo
    BY <1>8, <1>9
  <2> QED
    BY <1>1, <1>5, <2>1, <2>2, <2>3, <2>4 DEF SimCore, Announced
<1> QED
  BY <1>1, <1>7, <1>10, <1>11, <1>12, <1>13, <1>14 DEF SimCore

\* The handler removes the entry if it is still there, and only then publishes.
LEMMA DeleteStep ==
  ASSUME SimCore, NEW k \in Tickers, Delete(k)
  PROVE  SimCore'
<1> DEFINE t == Now(k).of
<1>1. /\ At(k, "delete") /\ tick[k].todo # <<>> /\ t \in SimTrades /\ Closed(t)
      /\ tracked' = tracked \ {t}
      /\ UNCHANGED <<row, approving, trail, echoes, published, heard, unseen, ticks, simFaults>>
  BY NowType DEF Delete, DeleteEntry, At, SimCore, AfterWrite
<1>2. PICK d \in {[tick[k] EXCEPT !.step = "publish"], Done} :
        /\ tick' = [tick EXCEPT ![k] = d]
        /\ d # Done => t \in tracked
  BY DEF Delete, DeleteEntry, Goes, SimCore, SimTypeOK
<1>3. /\ d \in [todo : Seq(Decision), step : {"write", "delete", "publish"}]
      /\ d.step # "delete"
      /\ d.todo # <<>> => d # Done /\ d.todo = tick[k].todo
      /\ d.todo = <<>> \/ d.todo = tick[k].todo
  <2>1. tick[k] \in [todo : Seq(Decision), step : {"write", "delete", "publish"}]
    BY DEF SimCore, SimTypeOK
  <2>2. CASE d = [tick[k] EXCEPT !.step = "publish"]
    BY <1>1, <2>1, <2>2 DEF Done
  <2>3. CASE d = Done
    BY <2>3, EmptySeq DEF Done
  <2> QED
    BY <2>2, <2>3
<1>4. tick'[k] = d /\ \A l \in Tickers : l # k =>
        /\ tick'[l] = tick[l] /\ Now(l)' = Now(l)
        /\ At(l, "delete")' <=> At(l, "delete")
        /\ At(l, "publish")' <=> At(l, "publish")
  BY <1>2, OthersStay
<1>5. ~At(k, "delete")' /\ (At(k, "publish")' => t \in tracked /\ Now(k)' = Now(k))
  BY <1>2, <1>3, <1>4 DEF At, Now
<1>6. SimTypeOK'
  BY <1>1, <1>2, <1>3 DEF SimCore, SimTypeOK
<1>7. Decided'
  BY <1>3, <1>4, EmptySeq DEF SimCore, Decided
<1>8. AfterWrite'
  BY <1>1, <1>4, <1>5 DEF SimCore, AfterWrite, Closed
<1>9. OneCloses'
  <2>1. \A u \in SimTrades : published'[u] \in {0, 1} /\ (published'[u] = 1 => Closed(u)' /\ u \notin tracked')
    BY <1>1 DEF SimCore, OneCloses, Closed
  <2>2. ASSUME NEW l \in Tickers, At(l, "publish")'
        PROVE  published'[Now(l)'.of] = 0 /\ Now(l)'.of \notin tracked'
    <3>1. CASE l = k
      BY <1>1, <1>5, <2>2, <3>1 DEF SimCore, OneCloses
    <3>2. CASE l # k
      BY <1>1, <1>4, <2>2, <3>2 DEF SimCore, OneCloses
    <3> QED
      BY <3>1, <3>2
  <2>3. ASSUME NEW l \in Tickers, At(l, "publish")', At(k, "publish")', l # k
        PROVE  Now(l)'.of # Now(k)'.of
    BY <1>4, <1>5, <2>3 DEF SimCore, OneCloses
  <2>4. ASSUME NEW l \in Tickers, NEW m \in Tickers, l # m,
               At(l, "publish")', At(m, "publish")'
        PROVE  Now(l)'.of # Now(m)'.of
    <3>1. CASE l = k \/ m = k
      BY <2>3, <2>4, <3>1
    <3>2. CASE l # k /\ m # k
      BY <1>4, <2>4, <3>2 DEF SimCore, OneCloses
    <3> QED
      BY <3>1, <3>2
  <2> QED
    BY <2>1, <2>2, <2>4 DEF OneCloses
<1>10. ResultHonest' /\ OpenIsTracked'
  BY <1>1 DEF SimCore, ResultHonest, OpenIsTracked, Closed
<1>11. Announced'
  <2>1. \A l \in Tickers : \A i \in DOMAIN tick'[l].todo :
          \E j \in DOMAIN tick[l].todo : tick'[l].todo[i] = tick[l].todo[j]
    BY <1>3, <1>4, EmptySeq
  <2> QED
    BY <1>1, <2>1, AnnouncedStays DEF SimCore
<1> QED
  BY <1>1, <1>6, <1>7, <1>8, <1>9, <1>10, <1>11 DEF SimCore

\* The handler that removed the entry publishes, once.
LEMMA PublishStep ==
  ASSUME SimCore, NEW k \in Tickers, Publish(k)
  PROVE  SimCore'
<1> DEFINE t == Now(k).of
           d == [todo |-> Tail(tick[k].todo), step |-> "write"]
<1>1. /\ At(k, "publish") /\ tick[k].todo # <<>> /\ t \in SimTrades /\ Closed(t)
      /\ published[t] = 0 /\ t \notin tracked
      /\ published' = [published EXCEPT ![t] = @ + 1]
      /\ echoes' = Append(echoes, t)
      /\ tick' = [tick EXCEPT ![k] = d]
      /\ UNCHANGED <<row, approving, tracked, trail, unseen, ticks, simFaults>>
  BY NowType DEF Publish, At, SimCore, SimTypeOK, AfterWrite, OneCloses
<1>2. /\ tick[k].todo \in Seq(Decision) /\ echoes \in Seq(SimTrades)
      /\ published \in [SimTrades -> {0, 1}]
  BY DEF SimCore, SimTypeOK
<1>3. /\ d.todo \in Seq(Decision) /\ d.step = "write"
      /\ \A i \in DOMAIN d.todo : \E j \in DOMAIN tick[k].todo : d.todo[i] = tick[k].todo[j]
  <2>1. /\ Tail(tick[k].todo) \in Seq(Decision)
        /\ Len(Tail(tick[k].todo)) = Len(tick[k].todo) - 1 /\ Len(tick[k].todo) \in Nat
        /\ \A i \in 1 .. Len(Tail(tick[k].todo)) : Tail(tick[k].todo)[i] = tick[k].todo[i + 1]
        /\ DOMAIN tick[k].todo = 1 .. Len(tick[k].todo)
    BY <1>1, <1>2, HeadTailProperties, LenProperties
  <2>2. DOMAIN Tail(tick[k].todo) = 1 .. Len(tick[k].todo) - 1
    BY <2>1, LenProperties
  <2> QED
    BY <2>1, <2>2
<1> HIDE DEF d
<1>4. tick'[k] = d /\ \A l \in Tickers : l # k =>
        /\ tick'[l] = tick[l] /\ Now(l)' = Now(l)
        /\ At(l, "delete")' <=> At(l, "delete")
        /\ At(l, "publish")' <=> At(l, "publish")
  BY <1>1, OthersStay
<1>5. ~At(k, "delete")' /\ ~At(k, "publish")'
  BY <1>3, <1>4 DEF At
<1>6. /\ echoes' \in Seq(SimTrades)
      /\ \A i \in DOMAIN echoes' : \/ echoes'[i] = t
                                   \/ i \in DOMAIN echoes /\ echoes'[i] = echoes[i]
  BY <1>1, <1>2, AppendProperties, LenProperties
<1>7. published'[t] = 1 /\ published' \in [SimTrades -> {0, 1}]
      /\ \A u \in SimTrades : u # t => published'[u] = published[u]
  BY <1>1, <1>2
<1>8. SimTypeOK'
  <2>1. d \in [todo : Seq(Decision), step : {"write", "delete", "publish"}]
    BY <1>3 DEF d
  <2> QED
    BY <1>1, <1>6, <2>1 DEF SimCore, SimTypeOK
<1>9. Decided'
  BY <1>3, <1>4 DEF SimCore, Decided
<1>10. AfterWrite'
  BY <1>1, <1>4, <1>5, <1>6 DEF SimCore, AfterWrite, Closed
<1>11. OneCloses'
  <2>1. ASSUME NEW l \in Tickers, l # k, At(l, "publish")
        PROVE  Now(l).of # t /\ Now(l).of \in SimTrades
    BY <1>1, <2>1, NowType DEF SimCore, OneCloses, At
  <2> QED
    BY <1>1, <1>4, <1>5, <1>7, <2>1 DEF SimCore, OneCloses, Closed
<1>12. Announced'
  <2>1. \A l \in Tickers : \A i \in DOMAIN tick'[l].todo :
          \E j \in DOMAIN tick[l].todo : tick'[l].todo[i] = tick[l].todo[j]
    BY <1>3, <1>4
  <2> QED
    BY <1>1, <2>1, AnnouncedStays DEF SimCore
<1> QED
  BY <1>1, <1>7, <1>8, <1>9, <1>10, <1>11, <1>12 DEF SimCore, ResultHonest, OpenIsTracked

\* A handler that raises drops the rest of its list; the entries stay.
LEMMA FailsStep ==
  ASSUME SimCore, NEW k \in Tickers, Fails(k)
  PROVE  SimCore'
<1>1. /\ tick' = [tick EXCEPT ![k] = Done]
      /\ simFaults < MaxSimFaults /\ simFaults' = simFaults + 1
      /\ UNCHANGED <<row, approving, tracked, trail, echoes, published, heard, unseen, ticks>>
  BY DEF Fails, SimFault
<1>2. tick'[k] = Done /\ \A l \in Tickers : l # k =>
        /\ tick'[l] = tick[l] /\ Now(l)' = Now(l)
        /\ At(l, "delete")' <=> At(l, "delete")
        /\ At(l, "publish")' <=> At(l, "publish")
  BY <1>1, OthersStay
<1>3. Done.todo = <<>> /\ Done \in [todo : Seq(Decision), step : {"write", "delete", "publish"}]
  BY EmptySeq DEF Done
<1>4. ~At(k, "delete")' /\ ~At(k, "publish")'
  BY <1>2, <1>3 DEF At
<1>5. SimTypeOK'
  BY <1>1, <1>3, SimAssumption DEF SimAssumption, SimCore, SimTypeOK
<1>6. Decided'
  BY <1>2, <1>3, EmptySeq DEF SimCore, Decided
<1>7. AfterWrite' /\ OneCloses'
  BY <1>1, <1>2, <1>4 DEF SimCore, AfterWrite, OneCloses, Closed
<1>8. Announced'
  <2>1. \A l \in Tickers : \A i \in DOMAIN tick'[l].todo :
          \E j \in DOMAIN tick[l].todo : tick'[l].todo[i] = tick[l].todo[j]
    BY <1>2, <1>3, EmptySeq
  <2> QED
    BY <1>1, <2>1, AnnouncedStays DEF SimCore
<1> QED
  BY <1>1, <1>5, <1>6, <1>7, <1>8 DEF SimCore, ResultHonest, OpenIsTracked

\* What was published is heard again through Redis.
LEMMA EchoStep ==
  ASSUME SimCore, Echo
  PROVE  SimCore'
<1> DEFINE t == echoes[1]
<1>1. /\ echoes # <<>> /\ echoes' = Tail(echoes) /\ tracked' = tracked \ {t}
      /\ UNCHANGED <<row, approving, trail, tick, published, unseen, ticks, simFaults>>
  BY DEF Echo
<1>2. echoes \in Seq(SimTrades)
  BY DEF SimCore, SimTypeOK
<1>3. /\ 1 \in DOMAIN echoes /\ echoes' \in Seq(SimTrades)
      /\ \A i \in DOMAIN echoes' : i + 1 \in DOMAIN echoes /\ echoes'[i] = echoes[i + 1]
  BY <1>1, <1>2, HeadTailProperties, LenProperties, EmptySeq
<1>4. Closed(t)
  BY <1>3 DEF SimCore, AfterWrite
<1> HIDE DEF t
<1>5. SimTypeOK'
  BY <1>1, <1>3 DEF SimCore, SimTypeOK
<1>6. Decided' /\ AfterWrite' /\ OneCloses'
  BY <1>1, <1>3 DEF SimCore, Decided, AfterWrite, OneCloses, Closed, At, Now
<1>7. ResultHonest' /\ OpenIsTracked'
  BY <1>1, <1>4 DEF SimCore, ResultHonest, OpenIsTracked, Closed
<1>8. Announced'
  BY <1>1, AnnouncedStays DEF SimCore
<1> QED
  BY <1>1, <1>5, <1>6, <1>7, <1>8 DEF SimCore

\* What the query returns and what the limit left out are all open rows.
LEMMA FetchedOrLeftOut ==
  ASSUME NEW open, NEW room, NEW S \in Fetched(open, room)
  PROVE  /\ S \subseteq open /\ LeftOutOf(open, S, room) \subseteq open
         /\ open \subseteq S \cup LeftOutOf(open, S, room)
BY DEF Fetched, LeftOutOf

\* A restart tracks the trades whose rows are open, as far as it reads them, and
\* the ticks and approvals are gone.
LEMMA SimRestartStep ==
  ASSUME SimCore, SimRestart
  PROVE  SimCore'
<1> DEFINE open == {t \in SimTrades : row[t].result = "OPEN"}
<1>1. /\ simFaults < MaxSimFaults /\ simFaults' = simFaults + 1
      /\ trail' = [t \in SimTrades |-> NoTrail] /\ tick' = [k \in Tickers |-> Done]
      /\ approving' = {}
      /\ echoes' = <<>> /\ UNCHANGED <<row, published, heard, ticks>>
  BY DEF SimRestart, SimFault
<1>8. tracked' \subseteq open /\ unseen' \subseteq open /\ open \subseteq tracked' \cup unseen'
  <2>1. PICK room \in Rooms : /\ tracked' \in Fetched(open, room)
                              /\ unseen' = LeftOutOf(open, tracked', room)
    BY DEF SimRestart
  <2> QED
    BY <2>1, FetchedOrLeftOut
<1>2. Done.todo = <<>> /\ Done \in [todo : Seq(Decision), step : {"write", "delete", "publish"}]
  BY EmptySeq DEF Done
<1>3. NoTrail \in [be : BOOLEAN, sl : Int] /\ <<>> \in Seq(SimTrades) /\ DOMAIN echoes' = {}
  BY <1>1, EmptySeq DEF NoTrail
<1>4. SimTypeOK'
  BY <1>1, <1>2, <1>3, <1>8, SimAssumption DEF SimAssumption, SimCore, SimTypeOK
<1>5. \A k \in Tickers : ~At(k, "delete")' /\ ~At(k, "publish")' /\ DOMAIN tick'[k].todo = {}
  BY <1>1, <1>2 DEF At
<1>6. Decided' /\ AfterWrite'
  BY <1>3, <1>5 DEF Decided, AfterWrite
<1>7. OneCloses' /\ ResultHonest' /\ OpenIsTracked'
  BY <1>1, <1>5, <1>8 DEF SimCore, OneCloses, ResultHonest, OpenIsTracked, Closed
<1>9. Announced'
  BY <1>1, <1>5, <1>8 DEF Announced
<1> QED
  BY <1>1, <1>4, <1>6, <1>7, <1>9 DEF SimCore

\* The inductive invariant of the tracker without a broker.
LEMMA SimStep ==
  ASSUME SimCore, SimNext \/ UNCHANGED simVars
  PROVE  SimCore'
<1>1. CASE UNCHANGED simVars
  <2>1. SimTypeOK'
    BY <1>1 DEF simVars, SimCore, SimTypeOK
  <2> QED
    BY <1>1, <2>1 DEF simVars, SimCore, Decided, AfterWrite, OneCloses, Closed, At, Now,
                      Announced, ResultHonest, OpenIsTracked
<1> QED
  BY <1>1, OpenedStep, BookedStep, UnannouncedStep, TickStep, WriteRowStep, DeleteStep, PublishStep, FailsStep, EchoStep,
     SimRestartStep DEF SimNext

----------------------------------------------------------------------------
(* The backtest.                                                            *)

\* A set of naturals below a bound has its smallest element.
LEMMA MinIsThere ==
  ASSUME NEW n \in Nat, NEW S, S \subseteq 1 .. n, S # {}
  PROVE  Min(S) \in S
<1> DEFINE Below(x) == {y \in S : y < x}
           T == {Below(x) : x \in S}
<1>1. IsFiniteSet(S)
  <2>1. IsFiniteSet(1 .. n)
    BY FS_Interval
  <2> QED
    BY <2>1, FS_Subset
<1>2. FiniteSubsetsOf(S) = SUBSET S
  BY <1>1, FS_FiniteSubsetsOfFinite
<1>3. IsWellFoundedOn(StrictSubsetOrdering(S), SUBSET S)
  BY <1>2, FS_StrictSubsetOrderingWellFounded
<1>4. T \subseteq SUBSET S /\ T # {}
  OBVIOUS
<1>5. PICK U \in T : \A V \in T : <<V, U>> \notin StrictSubsetOrdering(S)
  <2> HIDE DEF T
  <2> QED
    BY <1>3, <1>4, WFMin
<1>6. PICK x \in S : U = Below(x)
  OBVIOUS
<1>7. \A y \in S : x =< y
  <2> SUFFICES ASSUME NEW y \in S, y < x PROVE FALSE
    OBVIOUS
  <2>1. x \in Int /\ y \in Int
    OBVIOUS
  <2>2. ASSUME NEW z \in S, z < y PROVE z < x
    <3>1. z \in Int
      OBVIOUS
    <3> QED
      BY <2>1, <2>2, <3>1
  <2>3. Below(y) \subseteq Below(x)
    BY <2>2
  <2>4. y \in Below(x) /\ y \notin Below(y)
    <3>1. ~(y < y)
      BY <2>1
    <3> QED
      BY <3>1
  <2>5. Below(y) \in T /\ Below(y) \in SUBSET S /\ Below(x) \in SUBSET S
    OBVIOUS
  <2>6. <<Below(y), U>> \in StrictSubsetOrdering(S)
    <3> HIDE DEF Below
    <3> QED
      BY <1>6, <2>3, <2>4, <2>5 DEF StrictSubsetOrdering
  <2> QED
    BY <1>5, <2>5, <2>6
<1> QED
  BY <1>7 DEF Min

\* The bar found first: the one from which none lies before, and past the last
\* bar if there is none.
LEMMA FirstFound ==
  ASSUME NEW S, S \subseteq 1 .. Bars, NEW k \in 1 .. Bars
  PROVE  /\ k \in S /\ (\A j \in S : k <= j) => First(S) = k
         /\ (\A j \in S : k < j) => First(S) > k
         /\ S = {} => First(S) = Bars + 1
<1> USE BacktestAssumption DEF BacktestAssumption
<1>1. ASSUME k \in S, \A j \in S : k <= j PROVE First(S) = k
  <2>1. Min(S) \in S /\ S # {}
    BY <1>1, MinIsThere
  <2>2. \A j \in S : j \in Int
    OBVIOUS
  <2>3. \A x \in S : (\A y \in S : x =< y) => x = k
    BY <1>1, <2>2
  <2> QED
    BY <1>1, <2>1, <2>3 DEF First, Min
<1>2. ASSUME \A j \in S : k < j PROVE First(S) > k
  <2>1. CASE S = {}
    BY <2>1 DEF First
  <2>2. CASE S # {}
    <3>1. Min(S) \in S
      BY <2>2, MinIsThere
    <3> QED
      BY <1>2, <2>2, <3>1 DEF First
  <2> QED
    BY <2>1, <2>2
<1> QED
  BY <1>1, <1>2 DEF First

\* The bars on which a signal's trade is at its stop, or at its target.
StopBars(s) == {j \in s.bar + 1 .. Bars : Gain(s, closes[j]) <= -BtStop}
TargetBars(s) == {j \in s.bar + 1 .. Bars : Gain(s, closes[j]) >= BtReward * BtStop}

\* Until a bar, the signal's trade has been at neither.
Between(s, last) ==
  \A j \in s.bar + 1 .. last : ~(Gain(s, closes[j]) <= -BtStop)
                               /\ ~(Gain(s, closes[j]) >= BtReward * BtStop)

\* The running trade has been at neither on the bars it has passed.
Running == Simulates => Between(Signal, bar)

\* The peak is the highest point of the equity, and the equity its last.
Walked ==
  /\ Len(curve) = counted + 1 /\ curve[Len(curve)] = equity
  /\ \A i \in DOMAIN curve : curve[i] <= peak
  /\ \E i \in DOMAIN curve : curve[i] = peak

BtInv == BtTypeOK /\ Running /\ PlayedAsDefined /\ Walked /\ DrawdownIsDeepest

Result3 == {"WIN", "LOSS", "OPEN"}
TradeDone == [signal : SignalFound, result : Result3, pnl : Int]

\* What the definition asks of one trade.
Right(r) ==
  /\ r.result = "WIN" <=> First(TargetBars(r.signal)) < First(StopBars(r.signal))
  /\ r.result = "LOSS" <=> First(StopBars(r.signal)) < First(TargetBars(r.signal))

\* The definition, a trade at a time.
LEMMA RightMeans == PlayedAsDefined <=> \A i \in DOMAIN trades : Right(trades[i])
BY DEF PlayedAsDefined, Right, StopBars, TargetBars

\* What the arithmetic of the backtest needs of the constants.
LEMMA BtNumbers ==
  /\ Bars \in Nat /\ Bars >= 2 /\ BtStop \in Nat /\ 0 < BtStop
  /\ BtReward * BtStop \in Int /\ 0 < BtReward * BtStop
BY BacktestAssumption DEF BacktestAssumption

\* No bar has been played, or the backtest does not run.
LEMMA BtInitially == BtInit \/ BtBlank => BtInv
<1> SUFFICES ASSUME BtInit \/ BtBlank PROVE BtInv
  OBVIOUS
<1>1. BtStart
  BY DEF BtInit, BtBlank
<1>2. closes \in [1 .. Bars -> BtPrices] /\ signals \in Seq(SignalFound)
  <2>1. CASE BtInit
    <3>1. PICK side \in [1 .. Bars -> -1 .. 1], n \in 0 .. Bars - 1 :
            signals \in [1 .. n -> Crossings(side)]
      BY <2>1 DEF BtInit
    <3>2. Crossings(side) \subseteq SignalFound
      <4> SUFFICES ASSUME NEW c \in Crossings(side) PROVE c \in SignalFound
        OBVIOUS
      <4>1. PICK i \in 2 .. Bars : c = [bar |-> i, long |-> side[i] > 0]
        BY DEF Crossings
      <4>2. (side[i] > 0) \in BOOLEAN
        OBVIOUS
      <4> DEFINE long == side[i] > 0
      <4> HIDE DEF long
      <4> QED
        BY <4>1, <4>2 DEF SignalFound, long
    <3>3. n \in Nat /\ signals \in [1 .. n -> SignalFound]
      BY <3>1, <3>2, BtNumbers
    <3> QED
      BY <2>1, <3>3 DEF BtInit
  <2>2. CASE BtBlank
    <3>1. (CHOOSE p \in BtPrices : TRUE) \in BtPrices
      BY BacktestAssumption DEF BacktestAssumption
    <3> QED
      BY <2>2, <3>1, EmptySeq DEF BtBlank
  <2> QED
    BY <2>1, <2>2
<1>3. /\ trades = <<>> /\ DOMAIN trades = {} /\ Len(trades) = 0 /\ trades \in Seq(TradeDone)
      /\ bar = 1 /\ equity = 0 /\ peak = 0 /\ maxDD = 0 /\ counted = 0
      /\ curve = <<0>> /\ curve \in Seq(Int) /\ Len(curve) = 1 /\ curve[1] = 0
      /\ DOMAIN curve = {1}
  BY <1>1, EmptySeq DEF BtStart
<1>4. BtTypeOK
  BY <1>2, <1>3, BtNumbers DEF BtTypeOK, TradeDone, Result3
<1>5. Running
  <2>1. ASSUME Simulates PROVE Signal.bar \in 2 .. Bars
    <3>1. Signal = signals[1] /\ 1 \in 1 .. Len(signals)
      BY <1>2, <1>3, <2>1, LenProperties DEF Simulates, Signal
    <3>2. signals[1] \in SignalFound
      BY <1>2, <3>1, ElementOfSeq
    <3> QED
      BY <3>1, <3>2 DEF SignalFound
  <2> QED
    BY <1>3, <2>1 DEF Running, Between
<1>6. PlayedAsDefined /\ Walked /\ DrawdownIsDeepest
  BY <1>3 DEF PlayedAsDefined, Walked, DrawdownIsDeepest
<1> QED
  BY <1>4, <1>5, <1>6 DEF BtInv

\* The signal that is played is one of those found.
LEMMA SignalType ==
  BtTypeOK /\ Simulates => Signal \in SignalFound /\ Signal.bar \in 2 .. Bars
<1> SUFFICES ASSUME BtTypeOK, Simulates
             PROVE  Signal \in SignalFound /\ Signal.bar \in 2 .. Bars
  OBVIOUS
<1>1. signals \in Seq(SignalFound) /\ trades \in Seq(TradeDone)
  BY DEF BtTypeOK, TradeDone, Result3
<1>2. Len(trades) + 1 \in 1 .. Len(signals)
  BY <1>1, LenProperties DEF Simulates
<1>3. signals[Len(trades) + 1] \in SignalFound
  BY <1>1, <1>2, ElementOfSeq
<1> QED
  BY <1>3 DEF Signal, SignalFound

\* The bar found first is a bar, or the one past the last.
LEMMA FirstType ==
  ASSUME NEW s \in SignalFound
  PROVE  First(StopBars(s)) \in Int /\ First(TargetBars(s)) \in Int
<1>1. s.bar \in 2 .. Bars /\ Bars \in Nat
  BY BtNumbers DEF SignalFound
<1>2. ASSUME NEW S, S \subseteq 1 .. Bars PROVE First(S) \in Int
  <2>1. CASE S = {}
    BY <1>1, <2>1 DEF First
  <2>2. CASE S # {}
    <3>1. First(S) = Min(S) /\ Min(S) \in S
      BY <1>1, <1>2, <2>2, MinIsThere DEF First
    <3>2. First(S) \in 1 .. Bars
      BY <1>2, <3>1
    <3> QED
      BY <1>1, <3>2
  <2> QED
    BY <2>1, <2>2
<1>3. StopBars(s) \subseteq 1 .. Bars /\ TargetBars(s) \subseteq 1 .. Bars
  BY <1>1 DEF StopBars, TargetBars
<1> QED
  BY <1>2, <1>3

\* A trade that ends on the first bar it could end on, or on none, is right.
LEMMA EndsRight ==
  ASSUME NEW s \in SignalFound, NEW last \in 1 .. Bars, s.bar <= last, Between(s, last)
  PROVE  /\ /\ last + 1 <= Bars /\ Gain(s, closes[last + 1]) <= -BtStop
            /\ ~(Gain(s, closes[last + 1]) >= BtReward * BtStop)
            => First(StopBars(s)) < First(TargetBars(s))
         /\ /\ last + 1 <= Bars /\ Gain(s, closes[last + 1]) >= BtReward * BtStop
            /\ ~(Gain(s, closes[last + 1]) <= -BtStop)
            => First(TargetBars(s)) < First(StopBars(s))
         /\ last = Bars => First(StopBars(s)) = First(TargetBars(s))
<1> DEFINE S == StopBars(s)  T == TargetBars(s)  k == last + 1
<1>1. s.bar \in 2 .. Bars /\ Bars \in Nat
  BY BtNumbers DEF SignalFound
<1>2. /\ S \subseteq 1 .. Bars /\ T \subseteq 1 .. Bars
      /\ \A j \in S : k <= j /\ Gain(s, closes[j]) <= -BtStop
      /\ \A j \in T : k <= j /\ Gain(s, closes[j]) >= BtReward * BtStop
  BY <1>1 DEF StopBars, TargetBars, Between
<1>3. k <= Bars => /\ k \in S <=> Gain(s, closes[k]) <= -BtStop
                   /\ k \in T <=> Gain(s, closes[k]) >= BtReward * BtStop
  BY <1>1 DEF StopBars, TargetBars
<1> HIDE DEF S, T
<1>4. ASSUME k <= Bars, k \in S, k \notin T PROVE First(S) < First(T)
  <2>1. \A j \in T : k < j
    BY <1>1, <1>2, <1>4
  <2>2. k \in 1 .. Bars
    BY <1>1, <1>4
  <2>3. First(S) = k
    BY <1>2, <1>4, <2>2, FirstFound
  <2>4. First(T) > k
    BY <1>2, <2>1, <2>2, FirstFound
  <2>5. First(T) \in Int
    BY FirstType DEF T
  <2> QED
    BY <2>2, <2>3, <2>4, <2>5
<1>5. ASSUME k <= Bars, k \in T, k \notin S PROVE First(T) < First(S)
  <2>1. \A j \in S : k < j
    BY <1>1, <1>2, <1>5
  <2>2. k \in 1 .. Bars
    BY <1>1, <1>5
  <2>3. First(T) = k
    BY <1>2, <1>5, <2>2, FirstFound
  <2>4. First(S) > k
    BY <1>2, <2>1, <2>2, FirstFound
  <2>5. First(S) \in Int
    BY FirstType DEF S
  <2> QED
    BY <2>2, <2>3, <2>4, <2>5
<1>6. ASSUME last = Bars PROVE First(S) = First(T)
  <2>1. S = {} /\ T = {}
    BY <1>1, <1>2, <1>6
  <2> QED
    BY <2>1 DEF First
<1> QED
  BY <1>3, <1>4, <1>5, <1>6 DEF S, T

\* A result that is appended as it was played.
LEMMA EndsStep ==
  ASSUME BtInv, Simulates, NEW result \in Result3, NEW pnl \in Int, Ends(result, pnl),
         UNCHANGED <<closes, signals, equity, peak, maxDD, counted, curve>>,
         Right([signal |-> Signal, result |-> result, pnl |-> pnl])
  PROVE  BtInv'
<1> DEFINE r == [signal |-> Signal, result |-> result, pnl |-> pnl]
<1>1. trades' = Append(trades, r) /\ bar' = 1 /\ trades \in Seq(TradeDone) /\ r \in TradeDone
  BY SignalType DEF Ends, BtInv, BtTypeOK, TradeDone, Result3
<1>7. Right(r)
  OBVIOUS
<1> HIDE DEF r
<1>2. /\ trades' \in Seq(TradeDone) /\ Len(trades') = Len(trades) + 1 /\ Len(trades) \in Nat
      /\ \A i \in DOMAIN trades' : \/ i \in DOMAIN trades /\ trades'[i] = trades[i]
                                   \/ trades'[i] = r
  BY <1>1, AppendProperties, LenProperties
<1>3. BtTypeOK'
  <2>1. counted' \in 0 .. Len(trades')
    BY <1>2 DEF BtInv, BtTypeOK
  <2>2. bar' \in 1 .. Bars
    BY <1>1, BtNumbers
  <2> QED
    BY <1>2, <2>1, <2>2 DEF BtInv, BtTypeOK, TradeDone, Result3
<1>4. Running'
  <2>1. Simulates' => (Signal.bar \in 2 .. Bars)'
    BY <1>3, SignalType, PTL
  <2> QED
    BY <1>1, <2>1 DEF Running, Between
<1>5. PlayedAsDefined'
  <2>2. \A i \in DOMAIN trades : Right(trades[i])
    BY RightMeans DEF BtInv
  <2>3. \A i \in DOMAIN trades' : Right(trades[i])'
    BY <1>2, <1>7, <2>2 DEF Right, StopBars, TargetBars, Gain
  <2> QED
    BY <2>3 DEF PlayedAsDefined, Right, StopBars, TargetBars
<1>6. Walked' /\ DrawdownIsDeepest'
  BY DEF BtInv, Walked, DrawdownIsDeepest
<1> QED
  BY <1>3, <1>4, <1>5, <1>6 DEF BtInv

\* Gains are differences of closes.
LEMMA GainType ==
  ASSUME BtTypeOK, NEW s \in SignalFound, NEW j \in 1 .. Bars
  PROVE  Gain(s, closes[j]) \in Int
<1>1. closes[j] \in Int /\ closes[s.bar] \in Int
  <2>1. closes \in [1 .. Bars -> BtPrices] /\ BtPrices \subseteq Int
    BY BacktestAssumption DEF BacktestAssumption, BtTypeOK
  <2>2. s.bar \in 1 .. Bars
    BY BtNumbers DEF SignalFound
  <2> QED
    BY <2>1, <2>2
<1> QED
  BY <1>1 DEF Gain

\* A bar is the first at the stop, the first at the target, the last one, or
\* none of them.
LEMMA PlayBarStep ==
  ASSUME BtInv, PlayBar
  PROVE  BtInv'
<1> DEFINE at == IF bar < Signal.bar THEN Enter ELSE bar
           g == Gain(Signal, closes[at + 1])
           target == BtReward * BtStop
<1>1. /\ Simulates /\ UNCHANGED <<closes, signals, equity, peak, maxDD, counted, curve>>
      /\ IF at >= Bars THEN Ends("OPEN", Gain(Signal, closes[Bars]))
         ELSE IF g <= -BtStop THEN Ends("LOSS", -BtStop)
         ELSE IF g >= target THEN Ends("WIN", target)
         ELSE bar' = at + 1 /\ UNCHANGED trades
  BY DEF PlayBar
<1>2. /\ BtTypeOK /\ Signal \in SignalFound /\ Signal.bar \in 2 .. Bars /\ bar \in 1 .. Bars
      /\ Between(Signal, bar)
  BY <1>1, SignalType DEF BtInv, BtTypeOK, Running
<1>3. at \in 1 .. Bars /\ Signal.bar <= at /\ Between(Signal, at)
  <2>1. CASE bar < Signal.bar
    BY <1>2, <2>1 DEF Between, Enter
  <2>2. CASE ~(bar < Signal.bar)
    BY <1>2, <2>2
  <2> QED
    BY <2>1, <2>2
<1>4. Gain(Signal, closes[Bars]) \in Int /\ -BtStop \in Int /\ target \in Int
  BY <1>2, GainType, BtNumbers
<1>5. at < Bars => g \in Int /\ at + 1 <= Bars
  BY <1>2, <1>3, GainType, BtNumbers
<1> HIDE DEF at
<1>6. CASE at >= Bars
  <2>1. at = Bars
    BY <1>3, <1>6, BtNumbers
  <2>2. First(StopBars(Signal)) = First(TargetBars(Signal))
    BY <1>2, <1>3, <2>1, EndsRight
  <2>3. First(StopBars(Signal)) \in Int
    BY <2>1, <1>3, FirstType, <1>2
  <2>4. Right([signal |-> Signal, result |-> "OPEN", pnl |-> Gain(Signal, closes[Bars])])
    BY <2>2, <2>3 DEF Right
  <2> QED
    BY <1>1, <1>4, <1>6, <2>4, EndsStep DEF Result3
<1>7. CASE ~(at >= Bars) /\ g <= -BtStop
  <2>1. ~(g >= target)
    BY <1>3, <1>5, <1>7, BtNumbers
  <2>2. First(StopBars(Signal)) < First(TargetBars(Signal))
    BY <1>2, <1>3, <1>5, <1>7, <2>1, EndsRight, BtNumbers
  <2>3. Right([signal |-> Signal, result |-> "LOSS", pnl |-> -BtStop])
    BY <2>2, FirstType, <1>2 DEF Right
  <2> QED
    BY <1>1, <1>4, <1>7, <2>3, EndsStep DEF Result3
<1>8. CASE ~(at >= Bars) /\ ~(g <= -BtStop) /\ g >= target
  <2>1. First(TargetBars(Signal)) < First(StopBars(Signal))
    BY <1>2, <1>3, <1>5, <1>8, EndsRight, BtNumbers
  <2>2. Right([signal |-> Signal, result |-> "WIN", pnl |-> target])
    BY <2>1, FirstType, <1>2 DEF Right
  <2> QED
    BY <1>1, <1>4, <1>8, <2>2, EndsStep DEF Result3
<1>9. CASE ~(at >= Bars) /\ ~(g <= -BtStop) /\ ~(g >= target)
  <2>1. bar' = at + 1 /\ UNCHANGED <<trades, closes, signals, equity, peak, maxDD, counted, curve>>
    BY <1>1, <1>9
  <2>2. Between(Signal, at + 1)
    <3>1. \A j \in Signal.bar + 1 .. at + 1 : j \in Signal.bar + 1 .. at \/ j = at + 1
      BY <1>2, <1>3
    <3> QED
      BY <1>3, <1>9, <3>1 DEF Between
  <2>3. BtTypeOK'
    BY <1>2, <1>3, <1>5, <1>9, <2>1, BtNumbers DEF BtTypeOK
  <2>4. Running'
    BY <2>1, <2>2 DEF Running, Between, Simulates, Signal, Gain
  <2>5. PlayedAsDefined' /\ Walked' /\ DrawdownIsDeepest'
    BY <2>1 DEF BtInv, PlayedAsDefined, Gain, Walked, DrawdownIsDeepest
  <2> QED
    BY <2>3, <2>4, <2>5 DEF BtInv
<1> QED
  BY <1>6, <1>7, <1>8, <1>9

\* The equity goes on by one trade: if there is a new deepest fall, it is the
\* one from the peak to the new point.
LEMMA WalkTradeStep ==
  ASSUME BtInv, WalkTrade
  PROVE  BtInv'
<1> DEFINE n == counted + 1  pnl == trades[n].pnl
<1>1. /\ ~Simulates /\ counted < Len(trades) /\ counted' = n
      /\ equity' = equity + pnl /\ curve' = Append(curve, equity')
      /\ peak' = (IF equity' > peak THEN equity' ELSE peak)
      /\ maxDD' = (IF peak' - equity' > maxDD THEN peak' - equity' ELSE maxDD)
      /\ UNCHANGED <<closes, signals, bar, trades>>
  BY DEF WalkTrade, Drawdown
<1>2. /\ trades \in Seq(TradeDone) /\ equity \in Int /\ peak \in Int /\ maxDD \in Int
      /\ curve \in Seq(Int) /\ counted \in Nat /\ Len(trades) \in Nat
      /\ Walked /\ DrawdownIsDeepest
  BY LenProperties DEF BtInv, BtTypeOK, TradeDone, Result3
<1>3. pnl \in Int /\ n \in 0 .. Len(trades)
  <2>1. n \in 1 .. Len(trades)
    BY <1>1, <1>2
  <2>2. trades[n] \in TradeDone
    BY <1>2, <2>1, ElementOfSeq
  <2> QED
    BY <2>1, <2>2 DEF TradeDone
<1> HIDE DEF n, pnl
<1>4. equity' \in Int /\ peak' \in Int /\ maxDD' \in Int
  BY <1>1, <1>2, <1>3
<1>5. /\ curve' \in Seq(Int) /\ Len(curve') = Len(curve) + 1 /\ Len(curve) \in Nat
      /\ DOMAIN curve = 1 .. Len(curve) /\ DOMAIN curve' = 1 .. Len(curve) + 1
      /\ \A i \in DOMAIN curve : curve'[i] = curve[i] /\ curve[i] \in Int
      /\ curve'[Len(curve) + 1] = equity'
  BY <1>1, <1>2, <1>4, AppendProperties, LenProperties, ElementOfSeq
<1> DEFINE m == Len(curve) + 1
<1>6. m \in DOMAIN curve' /\ \A i \in DOMAIN curve' : i = m \/ i \in DOMAIN curve
  BY <1>5
<1>7. Walked'
  <2>1. \A i \in DOMAIN curve' : curve'[i] <= peak'
    BY <1>1, <1>2, <1>4, <1>5, <1>6 DEF Walked
  <2>2. \E i \in DOMAIN curve' : curve'[i] = peak'
    <3>1. CASE equity' > peak
      BY <1>1, <1>5, <1>6, <3>1
    <3>2. CASE ~(equity' > peak)
      BY <1>1, <1>2, <1>5, <3>2 DEF Walked
    <3> QED
      BY <3>1, <3>2
  <2>3. Len(curve') = counted' + 1
    BY <1>1, <1>2, <1>5 DEF Walked, n
  <2> QED
    BY <1>5, <2>1, <2>2, <2>3 DEF Walked
<1>8. DrawdownIsDeepest'
  <2>1. \A j \in DOMAIN curve' : \A i \in 1 .. j : i \in DOMAIN curve'
    BY <1>5
  <2>2. \A j \in DOMAIN curve : \A i \in 1 .. j : i \in DOMAIN curve
    BY <1>5
  <2>3. ASSUME NEW j \in DOMAIN curve', NEW i \in 1 .. j
        PROVE  curve'[i] - curve'[j] <= maxDD'
    <3>1. CASE j \in DOMAIN curve
      <4>1. curve[i] - curve[j] <= maxDD /\ i \in DOMAIN curve
        BY <1>2, <2>2, <3>1 DEF DrawdownIsDeepest
      <4> QED
        BY <1>1, <1>2, <1>4, <1>5, <3>1, <4>1
    <3>2. CASE j = m
      <4>1. curve'[i] <= peak' /\ curve'[i] \in Int /\ curve'[j] = equity'
        BY <1>4, <1>5, <1>6, <1>7, <2>1, <3>2 DEF Walked
      <4>2. maxDD' >= peak' - equity'
        BY <1>1, <1>2, <1>4
      <4>3. \A c, e, p, d \in Int : c <= p /\ d >= p - e => c - e <= d
        OBVIOUS
      <4>4. curve'[i] - equity' <= maxDD'
        BY <1>4, <4>1, <4>2, <4>3
      <4> QED
        BY <4>1, <4>4
    <3> QED
      BY <1>6, <3>1, <3>2
  <2>4. \E j \in DOMAIN curve' : \E i \in 1 .. j : curve'[i] - curve'[j] = maxDD'
    <3>1. CASE peak' - equity' > maxDD
      <4>1. PICK i \in DOMAIN curve' : curve'[i] = peak'
        BY <1>7 DEF Walked
      <4>2. i \in 1 .. m /\ curve'[i] - curve'[m] = maxDD'
        BY <1>1, <1>5, <3>1, <4>1
      <4> QED
        BY <1>6, <4>2
    <3>2. CASE ~(peak' - equity' > maxDD)
      <4>1. PICK j \in DOMAIN curve : \E i \in 1 .. j : curve[i] - curve[j] = maxDD
        BY <1>2 DEF DrawdownIsDeepest
      <4>2. PICK i \in 1 .. j : curve[i] - curve[j] = maxDD
        BY <4>1
      <4>3. i \in DOMAIN curve /\ j \in DOMAIN curve'
        BY <1>5, <2>2
      <4> QED
        BY <1>1, <1>5, <3>2, <4>2, <4>3
    <3> QED
      BY <3>1, <3>2
  <2> QED
    BY <2>3, <2>4 DEF DrawdownIsDeepest
<1>9. BtTypeOK'
  BY <1>1, <1>3, <1>4, <1>5 DEF BtInv, BtTypeOK
<1>10. Running' /\ PlayedAsDefined'
  BY <1>1 DEF BtInv, Running, Simulates, PlayedAsDefined, Gain
<1> QED
  BY <1>7, <1>8, <1>9, <1>10 DEF BtInv

\* The inductive invariant of the backtest.
LEMMA BtStep ==
  ASSUME BtInv, BtNext \/ UNCHANGED btVars
  PROVE  BtInv'
<1>1. CASE UNCHANGED btVars
  <2>1. BtTypeOK' /\ Running'
    BY <1>1 DEF btVars, BtInv, BtTypeOK, Running, Between, Simulates, Signal, Gain
  <2>2. PlayedAsDefined' /\ Walked' /\ DrawdownIsDeepest'
    BY <1>1 DEF btVars, BtInv, PlayedAsDefined, Gain, Walked, DrawdownIsDeepest
  <2> QED
    BY <2>1, <2>2 DEF BtInv
<1> QED
  BY <1>1, PlayBarStep, WalkTradeStep DEF BtNext

----------------------------------------------------------------------------
(* Protection: every part keeps its invariant, whichever a behaviour        *)
(* follows.                                                                 *)

ProtectionInv ==
  /\ focus \in {"bridge", "simulated", "backtest"}
  /\ StopsInv /\ SimCore /\ BtInv

\* All parts start in their invariants.
LEMMA ProtectionInitially == Init => ProtectionInv
BY StopsInitially, SimInitially, BtInitially DEF Init, ProtectionInv

\* A step is a step of one part, and a stutter of the others.
LEMMA OneMoves ==
  ASSUME [Next]_vars
  PROVE  /\ StopsNext \/ UNCHANGED stopsVars
         /\ SimNext \/ UNCHANGED simVars
         /\ BtNext \/ UNCHANGED btVars
         /\ UNCHANGED focus
<1>1. CASE UNCHANGED vars
  BY <1>1 DEF vars
<1>2. CASE Next
  BY <1>2 DEF Next, Bridge, Simulated, Backtests
<1> QED
  BY <1>1, <1>2

\* A step of one part leaves the others where they are.
LEMMA ProtectionStep == ProtectionInv /\ [Next]_vars => ProtectionInv'
<1> SUFFICES ASSUME ProtectionInv, [Next]_vars PROVE ProtectionInv'
  OBVIOUS
<1>1. StopsInv' /\ SimCore' /\ BtInv'
  BY OneMoves, StopsStep, SimStep, BtStep DEF ProtectionInv
<1>2. focus' \in {"bridge", "simulated", "backtest"}
  BY OneMoves DEF ProtectionInv
<1> QED
  BY <1>1, <1>2 DEF ProtectionInv

\* What the theorems below state follows from the invariants of the parts.
LEMMA ProtectionImplies ==
  ProtectionInv => /\ TypeOK /\ StopDistanceKept /\ GainIsKept /\ HalvedOnce
                   /\ ClosesOnce /\ OpenIsTracked /\ BacktestRight
<1> SUFFICES ASSUME ProtectionInv
    PROVE  /\ TypeOK /\ StopDistanceKept /\ GainIsKept /\ HalvedOnce
           /\ ClosesOnce /\ OpenIsTracked /\ BacktestRight
  OBVIOUS
<1>1. StopsTypeOK
  <2>1. meta \in [known : BOOLEAN, dist : Nat, beDone : BOOLEAN, partialDone : BOOLEAN]
    BY DEF ProtectionInv, StopsInv, StopsFlags, StopsCore, StopsTyped
  <2> QED
    BY <2>1 DEF ProtectionInv, StopsInv, StopsFlags, StopsCore, StopsTyped, StopsTypeOK
<1>2. TypeOK
  BY <1>1 DEF ProtectionInv, SimCore, BtInv, TypeOK
<1>3. HalvedOnce
  <2>1. halvings \in Int /\ Halved
    BY StopsAssumption DEF StopsAssumption, ProtectionInv, StopsInv, StopsCore, StopsTyped
  <2> QED
    BY <2>1 DEF Halved, HalvedOnce
<1>4. ClosesOnce
  BY DEF ProtectionInv, SimCore, OneCloses, PublishedOnce, ClosesOnce
<1> QED
  BY <1>2, <1>3, <1>4 DEF ProtectionInv, StopsInv, StopsCore, SimCore, BtInv, BacktestRight

\* The invariant of all parts.
LEMMA ProtectionAlways == Spec => []ProtectionInv
<1>1. ProtectionInv /\ [Next]_vars => ProtectionInv'
  BY ProtectionStep
<1> QED
  BY ProtectionInitially, <1>1, PTL DEF Spec

\* The part a behaviour follows stays in its types: no partial close takes more
\* than is left, and no stop leaves the range of the market.
THEOREM ProtectionTyped == Spec => []TypeOK
BY ProtectionAlways, ProtectionImplies, PTL

\* The distance every R is measured by survives any number of restarts, up to
\* the slippage of the fill.
THEOREM DistanceIsKept == Spec => []StopDistanceKept
BY ProtectionAlways, ProtectionImplies, PTL

\* The stop follows the best gain a poll saw, whatever the market, the restarts
\* and the refusals, for every distance, activation and hysteresis.
THEOREM GainsAreKept == Spec => []GainIsKept
BY ProtectionAlways, ProtectionImplies, PTL

\* A position is halved twice only after a restart that could not tell.
THEOREM HalvedOnlyOnce == Spec => []HalvedOnce
BY ProtectionAlways, ProtectionImplies, PTL

\* A simulated trade is published once and booked as what it made, for any
\* number of trades, ticks in flight, failures and restarts.
THEOREM SimulatedClosesOnce == Spec => []ClosesOnce
BY ProtectionAlways, ProtectionImplies, PTL

\* A trade whose row is open is watched or about to be, unless its approval was
\* never announced or the last restart had no room for it: for any number of
\* trades, handlers, failures, restarts, and every limit of the query.
THEOREM OpenTradesTracked == Spec => []OpenIsTracked
BY ProtectionAlways, ProtectionImplies, PTL

\* Every trade of the backtest ends as defined, and its drawdown is the deepest
\* fall, for every series of closes, every set of signals and every stop.
THEOREM BacktestIsRight == Spec => []BacktestRight
BY ProtectionAlways, ProtectionImplies, PTL

\* No step moves a stop back.
THEOREM StopsNeverLoosen == Spec => StopNeverLoosens
<1>1. ProtectionInv /\ [Next]_vars => [sl' >= sl]_stopsVars
  BY OneMoves, StopsStep DEF ProtectionInv
<1> QED
  BY ProtectionAlways, <1>1, PTL DEF Spec, StopNeverLoosens

\* No step raises the alarm unless MT5 refused the poll before it.
THEOREM AlarmsAreTrue == Spec => NoFalseAlarm
<1>1. ProtectionInv /\ [Next]_vars => [alarm' /\ ~alarm => refusedSl]_stopsVars
  <2> SUFFICES ASSUME ProtectionInv, [Next]_vars, StopsNext, alarm', ~alarm
               PROVE  refusedSl
    BY OneMoves
  <2> QED
    BY AlarmStep DEF ProtectionInv
<1> QED
  BY ProtectionAlways, <1>1, PTL DEF Spec, NoFalseAlarm

=============================================================================
