--------------------------- MODULE ControlProofs ---------------------------
(***************************************************************************)
(* TLAPS proofs about the parts of Operations that live in the kernel:      *)
(* control, the cost tracker, the board, the signal sources and the burst   *)
(* watcher.  Each part has an inductive invariant of its own, its initial   *)
(* states satisfy it, and each of its steps, or a stutter, keeps it.        *)
(***************************************************************************)
EXTENDS ControlPlane, Board, CostTracker, SignalSources, BurstWatcher, TLAPS,
        SequenceTheorems, FiniteSetTheorems

----------------------------------------------------------------------------
(* The cost tracker.                                                        *)

\* A flush that is not running holds no records, and the total it read is
\* still the total when it writes.
CostInv ==
  /\ CostTypeOK
  /\ flushing = "sleeping" => taken = 0
  /\ flushing = "writing" => existing = total
  /\ CostsAccounted

\* Nothing is recorded at first.
LEMMA CostInitially == CostInit => CostInv
BY CostAssumption DEF CostAssumption, CostInit, CostInv, CostTypeOK, CostsAccounted

\* Recording, each await of a flush, its failures and the kernel's death.
LEMMA CostStep ==
  ASSUME CostInv, CostNext \/ UNCHANGED costVars
  PROVE  CostInv'
<1> USE CostAssumption DEF CostAssumption, CostInv, CostTypeOK, CostsAccounted
<1>1. CASE Record
  BY <1>1 DEF Record
<1>2. CASE FlushStarts
  BY <1>2 DEF FlushStarts
<1>3. CASE ReadTotal
  BY <1>3 DEF ReadTotal
<1>4. CASE WriteTotal
  BY <1>4 DEF WriteTotal
<1>5. CASE FlushEnds
  BY <1>5 DEF FlushEnds
<1>6. CASE FlushFails
  <2>1. CASE flushing # "closing" /\ UNCHANGED <<total, twice>>
    BY <1>6, <2>1 DEF FlushFails, Requeued
  <2>2. CASE flushing = "writing" /\ total' = existing + taken /\ twice' = twice + taken
    BY <1>6, <2>2 DEF FlushFails, Requeued
  <2>3. CASE flushing = "closing" /\ twice' = twice + taken /\ UNCHANGED total
    BY <1>6, <2>3 DEF FlushFails, Requeued
  <2> QED
    BY <1>6, <2>1, <2>2, <2>3 DEF FlushFails
<1>7. CASE KernelDies
  BY <1>7 DEF KernelDies
<1>8. CASE UNCHANGED costVars
  BY <1>8 DEF costVars
<1> QED
  BY <1>1, <1>2, <1>3, <1>4, <1>5, <1>6, <1>7, <1>8 DEF CostNext

----------------------------------------------------------------------------
(* The board.                                                               *)

\* What BoardTypeOK says of the flags, and of the rest.
BoardFlags == trigger \in BOOLEAN /\ applied \in BOOLEAN /\ saved \in BOOLEAN

MeetingTyped ==
  /\ board \in {"settling", "convening", "voting", "resolving", "announcing", "waiting", "ended"}
  /\ votes \in [Officers -> Resolutions \cup {"none", "malformed"}]
  /\ resolution \in Resolutions
  /\ interval \in 60 .. 3600

\* The loop begins by waiting for the kernel to settle.
LEMMA BoardInitially == BoardInit => BoardTypeOK
<1>1. BoardInit => BoardFlags
  BY Zenon DEF BoardInit, BoardFlags
<1>2. BoardInit => MeetingTyped
  BY DEF BoardInit, MeetingTyped, NoVotes, Resolutions
<1> QED
  BY <1>1, <1>2 DEF BoardTypeOK, BoardFlags, MeetingTyped

\* The trigger and what a meeting did are flags; Boolean-valued variables are
\* kept apart from the rest, as the provers take them better alone.
LEMMA FlagsKept ==
  ASSUME BoardFlags, BoardNext \/ UNCHANGED boardVars
  PROVE  BoardFlags'
BY Zenon DEF BoardFlags, BoardNext, BoardStep, Settles, Convenes, Votes, CeoResolves, Announces,
     Wakes, BoardTriggered, IntervalSet, Adjourns, Aborts, boardVars

\* Votes, resolution and interval keep their ranges, through malformed answers
\* and meetings that abort.
LEMMA MeetingKept ==
  ASSUME MeetingTyped, BoardNext \/ UNCHANGED boardVars
  PROVE  MeetingTyped'
<1> USE DEF MeetingTyped, Resolutions
<1>1. CASE Settles
  BY <1>1 DEF Settles
<1>2. CASE Convenes
  BY <1>2 DEF Convenes, Adjourns, Aborts, NoVotes
<1>3. ASSUME NEW o \in Officers, Votes(o)
      PROVE  MeetingTyped'
  BY <1>3 DEF Votes
<1>4. CASE CeoResolves
  BY <1>4 DEF CeoResolves, Adjourns, Aborts
<1>5. CASE Announces
  BY <1>5 DEF Announces, Adjourns, Aborts
<1>6. CASE Wakes
  BY <1>6 DEF Wakes
<1>7. CASE BoardTriggered
  BY <1>7 DEF BoardTriggered
<1>8. ASSUME NEW s \in IntervalInputs, IntervalSet(s)
      PROVE  MeetingTyped'
  <2>1. Within(s) \in 60 .. 3600
    BY BoardAssumption DEF Within, BoardAssumption
  <2> QED
    BY <1>8, <2>1 DEF IntervalSet
<1>9. CASE UNCHANGED boardVars
  BY <1>9 DEF boardVars
<1> HIDE DEF MeetingTyped, Resolutions
<1> QED
  BY <1>1, <1>2, <1>3, <1>4, <1>5, <1>6, <1>7, <1>8, <1>9 DEF BoardNext, BoardStep

\* The type invariant of the board.
LEMMA BoardKeepsType ==
  ASSUME BoardTypeOK, BoardNext \/ UNCHANGED boardVars
  PROVE  BoardTypeOK'
<1>1. BoardFlags /\ MeetingTyped
  BY DEF BoardTypeOK, BoardFlags, MeetingTyped
<1>2. BoardFlags' /\ MeetingTyped'
  BY <1>1, FlagsKept, MeetingKept
<1> QED
  BY <1>2 DEF BoardTypeOK, BoardFlags, MeetingTyped

----------------------------------------------------------------------------
(* The signal sources.                                                      *)

SignalRecord == [by : {"mock", "poll", "burst", "webhook"}, handled : 0 .. 3]

\* What comes back to the kernel: the mock's signals, handled once, and the
\* webhook's, which nobody handled.
Echoed(by, handled) ==
  (by = "mock" /\ handled = 1) \/ (by = "webhook" /\ handled = 0)

\* Every signal on its way to the external listener is there once, and was
\* handled by nobody but, if the mock made it, the kernel's own handlers.
HeardOnce ==
  /\ \A i \in DOMAIN heard :
       /\ heard[i] \in DOMAIN signals
       /\ Echoed(signals[heard[i]].by, signals[heard[i]].handled)
  /\ \A i, j \in DOMAIN heard : heard[i] = heard[j] => i = j

SourcesInv == SourcesTypeOK /\ HeardOnce /\ HandledOnce

\* No signal has been made.
LEMMA SourcesInitially == SourcesInit => SourcesInv
<1> SUFFICES ASSUME SourcesInit PROVE SourcesInv
  OBVIOUS
<1>1. SourcesTypeOK
  <2>1. listening \in BOOLEAN
    BY Zenon DEF SourcesInit
  <2>2. /\ Len(signals) <= MaxSignals /\ heard \in Seq(1 .. MaxSignals)
        /\ signals \in Seq(SignalRecord) /\ cycle \in Seq(ToSet(SignalSymbols))
    BY SourcesAssumption DEF SourcesInit, SourcesAssumption
  <2> QED
    BY <2>1, <2>2 DEF SourcesInit, SourcesTypeOK, SignalRecord
<1>2. HeardOnce /\ HandledOnce
  BY DEF SourcesInit, HeardOnce, HandledOnce
<1> QED
  BY <1>1, <1>2 DEF SourcesInv

\* A new signal, put in the listener's queue or not.
LEMMA SignalMade ==
  ASSUME SourcesInv, NEW by \in {"mock", "poll", "burst", "webhook"}, NEW handled \in 0 .. 1,
         Made(by, handled),
         \/ Broadcast /\ Echoed(by, handled)
         \/ UNCHANGED heard
  PROVE  /\ signals' \in Seq(SignalRecord) /\ Len(signals') <= MaxSignals
         /\ heard' \in Seq(1 .. MaxSignals)
         /\ HeardOnce' /\ HandledOnce'
<1> DEFINE new == [by |-> by, handled |-> handled]
<1> USE SourcesAssumption DEF SourcesAssumption
<1>1. /\ signals \in Seq(SignalRecord) /\ Len(signals) \in Nat /\ DOMAIN signals = 1 .. Len(signals)
      /\ new \in SignalRecord
  BY LenProperties DEF SourcesInv, SourcesTypeOK, SignalRecord
<1>2. /\ signals' \in Seq(SignalRecord)
      /\ Len(signals') = Len(signals) + 1 /\ Len(signals) < MaxSignals
      /\ \A i \in 1 .. Len(signals) : signals'[i] = signals[i]
      /\ signals'[Len(signals) + 1] = new
      /\ DOMAIN signals' = 1 .. Len(signals) + 1
  BY <1>1, AppendProperties DEF Made
<1>3. heard \in Seq(1 .. MaxSignals) /\ Len(heard) \in Nat /\ DOMAIN heard = 1 .. Len(heard)
  BY LenProperties DEF SourcesInv, SourcesTypeOK
<1>4. HandledOnce'
  BY <1>1, <1>2 DEF SourcesInv, HandledOnce
<1>5. CASE UNCHANGED heard
  BY <1>1, <1>2, <1>3, <1>4, <1>5 DEF SourcesInv, HeardOnce
<1>6. CASE Broadcast /\ listening /\ Echoed(by, handled)
  <2>1. Number = Len(signals) + 1 /\ Number \in 1 .. MaxSignals
    BY <1>1, <1>2 DEF Number
  <2>2. /\ heard' \in Seq(1 .. MaxSignals)
        /\ Len(heard') = Len(heard) + 1
        /\ \A i \in 1 .. Len(heard) : heard'[i] = heard[i]
        /\ heard'[Len(heard) + 1] = Number
        /\ DOMAIN heard' = 1 .. Len(heard) + 1
    BY <1>3, <1>6, <2>1, AppendProperties DEF Broadcast
  <2>3. \A i \in DOMAIN heard : heard[i] \in 1 .. Len(signals)
    BY <1>1 DEF SourcesInv, HeardOnce
  <2>4. \A i, j \in 1 .. Len(heard) : heard[i] = heard[j] => i = j
    BY <1>3 DEF SourcesInv, HeardOnce
  <2>5. \A i, j \in DOMAIN heard' : heard'[i] = heard'[j] => i = j
    <3>1. \A i \in 1 .. Len(heard) : heard'[i] # heard'[Len(heard) + 1]
      BY <1>1, <2>1, <2>2, <2>3
    <3>2. \A i \in DOMAIN heard' : i \in 1 .. Len(heard) \/ i = Len(heard) + 1
      BY <1>3, <2>2
    <3> QED
      BY <1>3, <2>2, <2>4, <3>1, <3>2
  <2>6. ASSUME NEW i \in DOMAIN heard'
        PROVE  /\ heard'[i] \in DOMAIN signals'
               /\ Echoed(signals'[heard'[i]].by, signals'[heard'[i]].handled)
    <3>1. CASE i = Len(heard) + 1
      BY <1>1, <1>2, <1>3, <1>6, <2>1, <2>2, <3>1
    <3>2. CASE i # Len(heard) + 1
      <4>1. i \in DOMAIN heard /\ heard'[i] = heard[i] /\ heard[i] \in 1 .. Len(signals)
        BY <1>3, <2>2, <2>3, <3>2
      <4> QED
        BY <1>1, <1>2, <4>1 DEF SourcesInv, HeardOnce
    <3> QED
      BY <3>1, <3>2
  <2>7. HeardOnce'
    BY <2>5, <2>6 DEF HeardOnce
  <2> QED
    BY <1>2, <1>4, <2>2, <2>7
<1> QED
  BY <1>5, <1>6 DEF Broadcast

\* A source makes a signal, publishes or dispatches it, or the listener hears one.
LEMMA SourcesStep ==
  ASSUME SourcesInv, SourcesNext \/ UNCHANGED sourceVars
  PROVE  SourcesInv'
<1> DEFINE Rest == /\ mode \in {"mock", "twelvedata", "external"}
                   /\ cycle \in Seq(ToSet(SignalSymbols))
           Queues == /\ signals \in Seq(SignalRecord) /\ Len(signals) <= MaxSignals
                     /\ heard \in Seq(1 .. MaxSignals)
                     /\ HeardOnce /\ HandledOnce
<1>1. Rest /\ Queues /\ listening \in BOOLEAN
  BY DEF SourcesInv, SourcesTypeOK, SignalRecord
<1>2. (listening \in BOOLEAN)'
  BY <1>1, Zenon DEF SourcesNext, CycleStarts, Poll, MockSignal, Burst, Webhook, HearSignal,
       ListenerTurns, sourceVars
<1>3. Rest'
  <2>1. cycle # <<>> => Tail(cycle) \in Seq(ToSet(SignalSymbols))
    BY <1>1, HeadTailProperties
  <2> QED
    BY <1>1, <2>1, SourcesAssumption DEF SourcesAssumption, SourcesNext, CycleStarts, Poll,
         MockSignal, Burst, Webhook, HearSignal, ListenerTurns, sourceVars
<1>4. Queues'
  <2>1. CASE UNCHANGED <<signals, heard>>
    BY <1>1, <2>1 DEF HeardOnce, HandledOnce
  <2>2. CASE PollSends \/ Burst
    <3>1. PICK by \in {"poll", "burst"} : Made(by, 1) /\ UNCHANGED heard
      BY <2>2 DEF PollSends, Burst, Dispatch
    <3> QED
      BY <3>1, SignalMade
  <2>3. CASE MockSignal
    <3>1. Made("mock", 1) /\ Broadcast
      BY <2>3 DEF MockSignal, BusPublish
    <3>2. "mock" \in {"mock", "poll", "burst", "webhook"} /\ 1 \in 0 .. 1
      OBVIOUS
    <3>3. Echoed("mock", 1)
      BY Zenon DEF Echoed
    <3> QED
      BY ONLY <3>1, <3>2, <3>3, SourcesInv, SignalMade
  <2>4. CASE Webhook
    <3>1. Made("webhook", 0) /\ Broadcast
      BY <2>4 DEF Webhook
    <3>2. "webhook" \in {"mock", "poll", "burst", "webhook"} /\ 0 \in 0 .. 1
      OBVIOUS
    <3>3. Echoed("webhook", 0)
      BY Zenon DEF Echoed
    <3> QED
      BY ONLY <3>1, <3>2, <3>3, SourcesInv, SignalMade
  <2>5. CASE HearSignal
    <3> DEFINE n == heard[1]
    <3>1. /\ Len(heard) \in Nat \ {0} /\ DOMAIN heard = 1 .. Len(heard)
          /\ heard' \in Seq(1 .. MaxSignals) /\ Len(heard') = Len(heard) - 1
          /\ \A i \in 1 .. Len(heard') : heard'[i] = heard[i + 1]
          /\ DOMAIN heard' = 1 .. Len(heard')
      BY <1>1, <2>5, LenProperties, HeadTailProperties, EmptySeq DEF HearSignal
    <3>2. n \in DOMAIN signals /\ signals[n].handled \in 0 .. 1
      BY <1>1, <3>1 DEF HeardOnce, Echoed
    <3>3. /\ Len(signals) \in Nat /\ DOMAIN signals = 1 .. Len(signals)
          /\ signals[n] \in SignalRecord
      BY <1>1, <3>2, LenProperties, ElementOfSeq
    <3>4. [signals[n] EXCEPT !.handled = @ + 1] \in SignalRecord
      BY <3>2, <3>3 DEF SignalRecord
    <3>5. signals' = [signals EXCEPT ![n] = [signals[n] EXCEPT !.handled = @ + 1]]
      BY <2>5 DEF HearSignal
    <3>6. /\ signals' \in Seq(SignalRecord) /\ Len(signals') = Len(signals)
          /\ DOMAIN signals' = DOMAIN signals
          /\ \A i \in DOMAIN signals : i # n => signals'[i] = signals[i]
          /\ signals'[n].by = signals[n].by /\ signals'[n].handled = signals[n].handled + 1
      BY <3>2, <3>3, <3>4, <3>5, ExceptSeq, <1>1 DEF SignalRecord
    <3>0. \A i, j \in 1 .. Len(heard) : heard[i] = heard[j] => i = j
      BY <1>1, <3>1 DEF HeardOnce
    <3>7. \A i \in DOMAIN heard' : i + 1 \in DOMAIN heard /\ heard'[i] = heard[i + 1] /\ heard'[i] # n
      BY <3>0, <3>1
    <3>10. \A i, j \in DOMAIN heard' : heard'[i] = heard'[j] => i = j
      BY <3>0, <3>1
    <3>8. HeardOnce'
      BY <1>1, <3>6, <3>7, <3>10 DEF HeardOnce
    <3>9. HandledOnce'
      BY <1>1, <3>1, <3>2, <3>6 DEF HandledOnce, HeardOnce, Echoed
    <3> QED
      BY <1>1, <3>1, <3>6, <3>8, <3>9
  <2>6. CASE ListenerTurns
    BY <1>1, <2>6 DEF ListenerTurns, HeardOnce, HandledOnce
  <2> QED
    BY <2>1, <2>2, <2>3, <2>4, <2>5, <2>6 DEF SourcesNext, CycleStarts, Poll, sourceVars
<1> QED
  BY <1>2, <1>3, <1>4 DEF SourcesInv, SourcesTypeOK, SignalRecord

----------------------------------------------------------------------------
(* The burst watcher.                                                       *)

\* The last burst of a symbol is the one that _last_fire holds.
Noted == \A s \in Syms : /\ lastFire[s] <= round
                         /\ fired[s] # <<>> => fired[s][Len(fired[s])] = lastFire[s]

BurstInv == BurstTypeOK /\ Noted /\ BurstsSpaced

\* No symbol has fired.
LEMMA BurstInitially == BurstInit => BurstInv
<1> USE BurstAssumption DEF BurstAssumption
<1>1. Never \in Int /\ Never <= 0
  BY DEF Never
<1> QED
  BY <1>1 DEF BurstInit, BurstInv, BurstTypeOK, Noted, BurstsSpaced

\* What the watcher keeps of a symbol's prices is still such a sequence.
LEMMA RecentType ==
  ASSUME BurstTypeOK, NEW s \in Syms, NEW mid \in Mids
  PROVE  Recent(s, mid) \in Seq([at : 0 .. MaxRounds, mid : Mids])
<1> DEFINE Quotes == [at : 0 .. MaxRounds, mid : Mids]
           h == Append(hist[s], [at |-> round, mid |-> mid])
           old == {i \in DOMAIN h : round - h[i].at > Window}
<1>1. h \in Seq(Quotes) /\ Len(h) \in Nat /\ DOMAIN h = 1 .. Len(h)
  <2>1. hist[s] \in Seq(Quotes) /\ [at |-> round, mid |-> mid] \in Quotes
    BY DEF BurstTypeOK
  <2> QED
    BY <2>1, AppendProperties, LenProperties
<1>2. Cardinality(old) \in Nat
  <2>1. IsFiniteSet(1 .. Len(h)) /\ old \in SUBSET (1 .. Len(h))
    <3> HIDE DEF h
    <3> QED
      BY <1>1, FS_Interval
  <2> QED
    BY <2>1, FS_Subset, FS_CardinalityType
<1>3. \A i \in Cardinality(old) + 1 .. Len(h) : h[i] \in Quotes
  <2> SUFFICES ASSUME NEW i \in Cardinality(old) + 1 .. Len(h) PROVE h[i] \in Quotes
    OBVIOUS
  <2>1. i \in 1 .. Len(h)
    <3> HIDE DEF h, old
    <3> QED
      BY <1>1, <1>2
  <2> QED
    BY <1>1, <2>1, ElementOfSeq
<1>4. SubSeq(h, Cardinality(old) + 1, Len(h)) \in Seq(Quotes)
  <2> HIDE DEF Quotes, h, old
  <2> QED
    BY <1>1, <1>2, <1>3, SubSeqProperties
<1> QED
  BY <1>4 DEF Recent

\* A round's look at one symbol notes the burst before the handlers can raise.
LEMMA BurstStep ==
  ASSUME BurstInv, BurstNext \/ UNCHANGED burstVars
  PROVE  BurstInv'
<1> USE BurstAssumption DEF BurstAssumption
<1>1. Never \in Int /\ Never <= 0
  BY DEF Never
<1>2. BurstTypeOK /\ Noted /\ BurstsSpaced
  BY DEF BurstInv
<1>3. CASE RoundStarts
  <2>1. looking' \in Seq(Syms)
    BY <1>3, EmptySeq DEF RoundStarts, Syms
  <2>2. round \in 0 .. MaxRounds /\ round' = round + 1 /\ round' \in 0 .. MaxRounds
    BY <1>2, <1>3 DEF RoundStarts, BurstTypeOK
  <2>3. \A s \in Syms : lastFire[s] \in Int
    BY <1>1, <1>2 DEF BurstTypeOK
  <2>4. UNCHANGED <<hist, lastFire, active, fired>>
    BY <1>3 DEF RoundStarts
  <2>5. BurstTypeOK'
    BY <1>2, <2>1, <2>2, <2>4 DEF BurstTypeOK
  <2>6. Noted' /\ BurstsSpaced'
    BY <1>2, <2>2, <2>3, <2>4 DEF Noted, BurstsSpaced
  <2> QED
    BY <2>5, <2>6 DEF BurstInv
<1>4. ASSUME NEW S \in SUBSET Syms, Activates(S)
      PROVE  BurstInv'
  BY <1>2, <1>4 DEF Activates, BurstInv, BurstTypeOK, Noted, BurstsSpaced
<1>5. ASSUME NEW mid \in Mids, Look(mid)
      PROVE  BurstInv'
  <2> DEFINE s == looking[1]
  <2>1. s \in Syms /\ Tail(looking) \in Seq(Syms)
    BY <1>2, <1>5, HeadTailProperties DEF Look, BurstTypeOK
  <2>2. UNCHANGED <<round, active>>
    BY <1>5 DEF Look
  <2>3. hist' \in [Syms -> Seq([at : 0 .. MaxRounds, mid : Mids])]
    BY <1>2, <1>5, <2>1, RecentType DEF Look, BurstTypeOK
  <2>4. CASE UNCHANGED <<lastFire, fired>> /\ looking' = Tail(looking)
    BY <1>2, <2>1, <2>2, <2>3, <2>4 DEF BurstInv, BurstTypeOK, Noted, BurstsSpaced
  <2>5. CASE Bursts(s, mid) /\ Fires(s)
    <3>1. /\ lastFire' = [lastFire EXCEPT ![s] = round]
          /\ fired' = [fired EXCEPT ![s] = Append(@, round)]
          /\ looking' \in {<<>>, Tail(looking)}
      BY <2>5 DEF Fires, Notes
    <3>2. /\ round \in 0 .. MaxRounds /\ fired[s] \in Seq(0 .. MaxRounds)
          /\ lastFire[s] \in Int /\ round - lastFire[s] >= Cooldown
      BY <1>1, <1>2, <2>1, <2>5 DEF BurstTypeOK, Bursts
    <3> DEFINE f == fired[s]  n == Len(f)
    <3>3. /\ f \in Seq(0 .. MaxRounds) /\ n \in Nat
          /\ Append(f, round) \in Seq(0 .. MaxRounds) /\ Append(f, round) # <<>>
          /\ Len(Append(f, round)) = n + 1
          /\ \A i \in 1 .. n : Append(f, round)[i] = f[i]
          /\ Append(f, round)[n + 1] = round
          /\ n = 0 <=> f = <<>>
      BY <3>2, AppendProperties, LenProperties, EmptySeq
    <3>4. BurstTypeOK'
      <4>1. fired' \in [Syms -> Seq(0 .. MaxRounds)]
        BY <1>2, <2>1, <3>1, <3>3 DEF BurstTypeOK
      <4>2. lastFire' \in [Syms -> {Never} \cup 0 .. MaxRounds]
        BY <1>2, <2>1, <3>1, <3>2 DEF BurstTypeOK
      <4>3. looking' \in Seq(Syms)
        <5>1. looking' = <<>> \/ looking' = Tail(looking)
          BY <3>1
        <5> QED
          BY <2>1, <5>1, EmptySeq
      <4> QED
        BY <1>2, <2>2, <2>3, <4>1, <4>2, <4>3 DEF BurstTypeOK
    <3>5. Noted'
      <4> SUFFICES ASSUME NEW t \in Syms
                   PROVE  /\ lastFire'[t] <= round
                          /\ fired'[t] # <<>> => fired'[t][Len(fired'[t])] = lastFire'[t]
        BY <2>2 DEF Noted
      <4>1. CASE t # s
        BY <1>2, <2>1, <3>1, <4>1 DEF Noted, BurstTypeOK
      <4>2. CASE t = s
        <5>1. fired'[t] = Append(f, round) /\ lastFire'[t] = round
          BY <1>2, <2>1, <3>1, <4>2 DEF BurstTypeOK
        <5> QED
          BY <3>2, <3>3, <5>1
      <4> QED
        BY <4>1, <4>2
    <3>6. BurstsSpaced'
      <4> SUFFICES ASSUME NEW t \in Syms, NEW i \in 2 .. Len(fired'[t])
                   PROVE  fired'[t][i] - fired'[t][i - 1] >= Cooldown
        BY DEF BurstsSpaced
      <4>1. CASE t # s
        BY <1>2, <2>1, <3>1, <4>1 DEF BurstsSpaced, BurstTypeOK
      <4>2. CASE t = s /\ i <= n
        <5>1. fired'[t] = Append(f, round) /\ i - 1 \in 1 .. n /\ i \in 1 .. n
          BY <1>2, <2>1, <3>1, <3>3, <4>2 DEF BurstTypeOK
        <5>2. fired'[t][i] = f[i] /\ fired'[t][i - 1] = f[i - 1]
          BY <3>3, <5>1
        <5> QED
          BY <1>2, <2>1, <3>3, <4>2, <5>2 DEF BurstsSpaced
      <4>3. CASE t = s /\ i > n
        <5>1. fired'[t] = Append(f, round) /\ i = n + 1 /\ n \in 1 .. n
          BY <1>2, <2>1, <3>1, <3>3, <4>3 DEF BurstTypeOK
        <5>2. fired'[t][i] = round /\ fired'[t][i - 1] = f[n] /\ f[n] = lastFire[s]
          BY <1>2, <2>1, <3>3, <5>1 DEF Noted
        <5> QED
          BY <3>2, <5>2
      <4> QED
        BY <3>3, <4>1, <4>2, <4>3
    <3> QED
      BY <3>4, <3>5, <3>6 DEF BurstInv
  <2> QED
    BY <1>5, <2>4, <2>5 DEF Look
<1>7. CASE WatcherRestarts
  <2>1. \A s \in Syms : lastFire'[s] = Never /\ fired'[s] = <<>> /\ hist'[s] = <<>>
    BY <1>7 DEF WatcherRestarts
  <2>2. BurstTypeOK'
    BY <1>2, <1>7, EmptySeq DEF WatcherRestarts, BurstTypeOK
  <2>3. Noted'
    BY <1>1, <1>2, <1>7, <2>1 DEF WatcherRestarts, BurstTypeOK, Noted
  <2>4. BurstsSpaced'
    BY <2>1 DEF BurstsSpaced
  <2> QED
    BY <2>2, <2>3, <2>4 DEF BurstInv
<1>6. CASE UNCHANGED burstVars
  BY <1>2, <1>6 DEF burstVars, BurstInv, BurstTypeOK, Noted, BurstsSpaced
<1> QED
  BY <1>3, <1>4, <1>5, <1>6, <1>7 DEF BurstNext

----------------------------------------------------------------------------
(* Control.                                                                 *)

\* The values of each key, and the steps and messages that carry one.
Reach    == Lowest .. Highest
ValuesOf == [paused |-> BOOLEAN, risk |-> Reach, setting |-> {0, 1}]
StepSet == UNION {[op : {"hset", "publish"}, key : {k}, value : ValuesOf[k]] : k \in Keys}
InBand == [paused : BOOLEAN, risk : Reach, setting : {0, 1}]

ControlTyped ==
  /\ stored \in InBand /\ inUse \in InBand
  /\ phase \in {"down", "booting", "listening", "away"}
  /\ todo \in [WebUsers -> Seq(StepSet)]
  /\ wire \in Seq(StepSet)
  /\ resolving \in Seq(Reach)
  /\ changes \in 0 .. MaxChanges /\ boots \in 0 .. MaxBoots
  /\ doubt \subseteq Keys

ControlFlags == tgPaused \in BOOLEAN /\ asked \in BOOLEAN

\* A key that is not in doubt is changed by one web request at a time, which
\* carries one value,
OneVoice ==
  \A k \in Keys \ doubt : \A u, w \in WebUsers : \A i \in DOMAIN todo[u], j \in DOMAIN todo[w] :
    todo[u][i].key = k /\ todo[w][j].key = k => u = w /\ todo[u][i].value = todo[w][j].value

\* sends what it stores after it stored it,
SentAfter ==
  \A k \in Keys \ doubt : \A u \in WebUsers : \A i \in DOMAIN todo[u] :
    todo[u][i].key = k /\ todo[u][i].op = "hset" =>
      \E j \in DOMAIN todo[u] : j > i /\ todo[u][j].key = k

\* and has stored it when only the sending is left.
StoredFirst ==
  \A k \in Keys \ doubt : \A u \in WebUsers : \A i \in DOMAIN todo[u] :
    /\ todo[u][i].key = k
    /\ \A j \in DOMAIN todo[u] : todo[u][j].key = k => todo[u][j].op = "publish"
    => todo[u][i].value = stored[k]

\* The last message of a key on its way to the listener carries what is stored.
LastWord ==
  \A k \in Keys \ (doubt \cup Pending) : \A i \in DOMAIN wire :
    /\ wire[i].key = k
    /\ \A j \in DOMAIN wire : j > i => wire[j].key # k
    => wire[i].value = stored[k]

\* A risk of the board that is not in doubt meets no other change of the risk.
Alone ==
  "risk" \notin doubt /\ resolving # <<>> =>
    /\ \A u \in WebUsers : "risk" \notin KeysOf(todo[u])
    /\ "risk" \notin KeysOf(wire)
    /\ inUse.risk = resolving[1]

\* Nothing travels to a listener that is not there.
Quiet == (phase # "listening" => wire = <<>>) /\ (phase = "down" => resolving = <<>>)

\* KernelFollows, from the boot on.
Follows ==
  phase # "down" =>
    \A k \in Keys \ (doubt \cup Pending \cup KeysOf(wire)) : inUse[k] = stored[k]

ControlInv ==
  /\ ControlTyped /\ ControlFlags
  /\ OneVoice /\ SentAfter /\ StoredFirst /\ LastWord /\ Alone /\ Quiet /\ Follows

\* What stands in ControlInv besides the types.
ControlCore ==
  OneVoice /\ SentAfter /\ StoredFirst /\ LastWord /\ Alone /\ Quiet /\ Follows

\* The band, MAX_RISK and what the breaker asks for are within reach.
LEMMA ReachFacts ==
  /\ Lowest \in 0 .. 20 /\ Highest \in Nat /\ Highest >= 100
  /\ 20 .. 100 \subseteq Reach /\ Reach \subseteq Int
  /\ EnvRisk \in Reach /\ Overrides \subseteq Reach
<1> DEFINE half == EnvRisk \div 2  up == (EnvRisk + 1) \div 2  more == (EnvRisk * 12 + 5) \div 10
<1>1. /\ half \in Nat /\ up \in Nat /\ more \in Nat /\ EnvRisk \in Nat
      /\ half <= up /\ up <= EnvRisk /\ EnvRisk <= more
  BY ControlAssumption DEF ControlAssumption
<1>2. /\ Lowest = IF half < 20 THEN half ELSE 20
      /\ Highest = IF more > 100 THEN more ELSE 100
      /\ Overrides = {EnvRisk, more, half, up}
  BY DEF Lowest, Highest, Boosted, Halves, Overrides
<1> HIDE DEF half, up, more
<1> QED
  BY <1>1, <1>2 DEF Reach

\* The parts of a step that a web request takes.
LEMMA StepType ==
  ASSUME NEW m \in StepSet
  PROVE  m.key \in Keys /\ m.op \in {"hset", "publish"} /\ m.value \in ValuesOf[m.key]
BY DEF StepSet

\* What a web request is made of.
LEMMA StepMade ==
  ASSUME NEW k \in Keys, NEW v \in ValuesOf[k]
  PROVE  Set(k, v) \in StepSet /\ Send(k, v) \in StepSet
BY DEF StepSet, Set, Send

\* What a message changes is in the band.
LEMMA ChangeInBand ==
  ASSUME NEW r \in InBand, NEW m \in StepSet
  PROVE  [r EXCEPT ![m.key] = m.value] \in InBand
<1> DEFINE new == [r EXCEPT ![m.key] = m.value]
<1>1. m.key \in Keys /\ m.value \in ValuesOf[m.key]
  BY StepType
<1>2. DOMAIN r = {"paused", "risk", "setting"} /\ r = [x \in DOMAIN r |-> r[x]]
  BY DEF InBand
<1>3. r.paused \in BOOLEAN /\ r.risk \in Reach /\ r.setting \in {0, 1}
  BY DEF InBand
<1>4. /\ DOMAIN new = {"paused", "risk", "setting"} /\ new = [x \in DOMAIN new |-> new[x]]
      /\ new["paused"] = IF m.key = "paused" THEN m.value ELSE r["paused"]
      /\ new["risk"] = IF m.key = "risk" THEN m.value ELSE r["risk"]
      /\ new["setting"] = IF m.key = "setting" THEN m.value ELSE r["setting"]
  BY <1>1, <1>2 DEF Keys
<1>5. /\ ValuesOf["paused"] = BOOLEAN
      /\ ValuesOf["risk"] = Reach
      /\ ValuesOf["setting"] = {0, 1}
  BY DEF ValuesOf
<1>6. new["paused"] \in BOOLEAN
  BY <1>1, <1>3, <1>4, <1>5, Zenon
<1>7. new["risk"] \in Reach /\ new["setting"] \in {0, 1}
  BY <1>1, <1>3, <1>4, <1>5
<1> HIDE DEF new
<1>8. new = [paused |-> new["paused"], risk |-> new["risk"], setting |-> new["setting"]]
  BY <1>4
<1>9. new \in InBand
  BY <1>6, <1>7, <1>8, Zenon DEF InBand
<1> QED
  BY <1>9 DEF new

\* The factors and clamps of Telegram and the governor lead from there to there.
LEMMA RiskSteps ==
  ASSUME NEW r \in Reach
  PROVE  /\ Tight(r) \in Reach /\ Loose(r) \in Reach
         /\ Tighten(r) \in Reach /\ Loosen(r) \in Reach
<1>1. Lowest \in 0 .. 20 /\ Highest \in Nat /\ Highest >= 100 /\ r \in Lowest .. Highest
  BY ReachFacts DEF Reach
<1> QED
  BY <1>1 DEF Reach, Tight, Loose, Tighten, Loosen, Floor, Ceiling

\* Whatever number is typed in, the clamp brings it into the band.
LEMMA ClampInBand ==
  ASSUME NEW r \in Nat
  PROVE  Clamp(r) \in Reach
<1>1. Clamp(r) \in 20 .. 100
  BY DEF Clamp, Floor, Ceiling
<1> QED
  BY <1>1, ReachFacts

\* The store and the kernel start from the environment.
LEMMA ControlInitially == ControlInit => ControlInv
<1> SUFFICES ASSUME ControlInit PROVE ControlInv
  OBVIOUS
<1> USE ControlAssumption DEF ControlAssumption, ControlInit
<1>1. FromEnv \in InBand
  BY ReachFacts DEF FromEnv, InBand
<1>2. ControlTyped
  BY <1>1 DEF ControlTyped
<1>3. ControlFlags
  BY Zenon DEF ControlFlags
<1>4. ControlCore
  BY DEF ControlCore, OneVoice, SentAfter, StoredFirst, LastWord, Alone, Quiet, Follows
<1> QED
  BY <1>2, <1>3, <1>4 DEF ControlInv, ControlCore

\* A request that a web handler may start with.
GoodRequest(steps) ==
  /\ steps \in Seq(StepSet)
  /\ \A i, j \in DOMAIN steps : steps[i].key = steps[j].key => steps[i].value = steps[j].value
  /\ \A i \in DOMAIN steps : steps[i].op = "hset" =>
       \E j \in DOMAIN steps : j > i /\ steps[j].key = steps[i].key

\* A page's request starts; if another one or a message is about the same key,
\* the key is in doubt.
LEMMA StartsStep ==
  ASSUME ControlTyped, ControlCore, NEW u \in WebUsers, NEW steps, GoodRequest(steps), Starts(u, steps)
  PROVE  ControlTyped' /\ ControlCore'
<1> DEFINE keys == KeysOf(steps)
           unstored == {k \in keys : ~\E i \in DOMAIN steps : steps[i].key = k /\ steps[i].op = "hset"}
<1>1. /\ todo[u] = <<>> /\ todo' = [todo EXCEPT ![u] = steps]
      /\ changes < MaxChanges /\ changes' = changes + 1
      /\ doubt' = (doubt \ keys) \cup ((keys \cap Pending) \cup unstored)
      /\ UNCHANGED <<stored, inUse, tgPaused, phase, resolving, wire, boots, asked>>
  BY DEF Starts, Change
<1>2. /\ todo'[u] = steps /\ \A w \in WebUsers : w # u => todo'[w] = todo[w]
      /\ todo' \in [WebUsers -> Seq(StepSet)]
  BY <1>1 DEF ControlTyped, GoodRequest
<1>3. keys \subseteq Keys
  <2> SUFFICES ASSUME NEW i \in DOMAIN steps PROVE steps[i].key \in Keys
    BY DEF KeysOf
  <2> QED
    BY StepType, ElementOfSeq, LenProperties DEF GoodRequest
<1>4. ControlTyped'
  BY <1>1, <1>2, <1>3, ControlAssumption DEF ControlTyped, ControlAssumption
<1>5. Pending' = Pending \cup keys
  <2>1. KeysOf(todo[u]) = {}
    BY <1>1 DEF KeysOf
  <2>2. \A w \in WebUsers : KeysOf(todo'[w]) = IF w = u THEN keys ELSE KeysOf(todo[w])
    BY <1>2
  <2> HIDE DEF keys
  <2>3. ASSUME NEW k \in Keys
        PROVE  (\E w \in WebUsers : k \in KeysOf(todo'[w]))
                 <=> (k \in keys \/ \E w \in WebUsers : k \in KeysOf(todo[w]))
    BY <2>1, <2>2
  <2>5. Pending' = {k \in Keys : \/ \E w \in WebUsers : k \in KeysOf(todo'[w])
                                 \/ k = "risk" /\ resolving # <<>>}
    BY <1>1 DEF Pending
  <2> QED
    <3>1. Pending' \subseteq Pending \cup keys
      BY <2>3, <2>5, Zenon DEF Pending
    <3>2. Pending \cup keys \subseteq Pending'
      BY <1>3, <2>3, <2>5, Zenon DEF Pending
    <3> QED
      BY <3>1, <3>2, Zenon
\* A key that is not in doubt afterwards is one of the request's and nobody
\* else's, or not one of the request's at all.
<1>6. ASSUME NEW k \in Keys \ doubt'
      PROVE  \/ /\ k \in keys /\ k \notin Pending
                /\ \E i \in DOMAIN steps : steps[i].key = k /\ steps[i].op = "hset"
             \/ k \notin keys /\ k \notin doubt
  BY <1>1, <1>6
<1>7. \A k \in Keys \ Pending, w \in WebUsers : \A i \in DOMAIN todo[w] : todo[w][i].key # k
  <2> SUFFICES ASSUME NEW k \in Keys \ Pending, NEW w \in WebUsers, NEW i \in DOMAIN todo[w]
               PROVE  todo[w][i].key # k
    OBVIOUS
  <2>1. todo[w][i].key \in KeysOf(todo[w])
    BY DEF KeysOf
  <2>2. k \notin KeysOf(todo[w])
    BY Zenon DEF Pending
  <2> QED
    BY <2>1, <2>2
<1>8. \A i \in DOMAIN steps : steps[i].key \in keys
  BY DEF KeysOf
<1> HIDE DEF keys, unstored
<1>9. OneVoice'
  <2> SUFFICES ASSUME NEW k \in Keys \ doubt', NEW v \in WebUsers, NEW w \in WebUsers,
                      NEW i \in DOMAIN todo'[v], NEW j \in DOMAIN todo'[w],
                      todo'[v][i].key = k, todo'[w][j].key = k
               PROVE  v = w /\ todo'[v][i].value = todo'[w][j].value
    BY DEF OneVoice
  <2>1. CASE k \in keys /\ k \notin Pending
    BY <1>2, <1>7, <2>1 DEF GoodRequest
  <2>2. CASE k \notin keys /\ k \notin doubt
    BY <1>2, <1>8, <2>2 DEF ControlCore, OneVoice
  <2> QED
    BY <1>6, <2>1, <2>2
<1>10. SentAfter'
  <2> SUFFICES ASSUME NEW k \in Keys \ doubt', NEW w \in WebUsers, NEW i \in DOMAIN todo'[w],
                      todo'[w][i].key = k, todo'[w][i].op = "hset"
               PROVE  \E j \in DOMAIN todo'[w] : j > i /\ todo'[w][j].key = k
    BY DEF SentAfter
  <2>1. CASE w = u
    BY <1>2, <2>1 DEF GoodRequest
  <2>2. CASE w # u
    BY <1>2, <1>6, <1>7, <2>2 DEF ControlCore, SentAfter
  <2> QED
    BY <2>1, <2>2
<1>11. StoredFirst'
  <2> SUFFICES ASSUME NEW k \in Keys \ doubt', NEW w \in WebUsers, NEW i \in DOMAIN todo'[w],
                      todo'[w][i].key = k,
                      \A j \in DOMAIN todo'[w] : todo'[w][j].key = k => todo'[w][j].op = "publish"
               PROVE  todo'[w][i].value = stored[k]
    BY <1>1 DEF StoredFirst
  <2>1. CASE w = u
    BY <1>2, <1>6, <1>8, <2>1
  <2>2. CASE w # u
    <3>1. todo'[w] = todo[w] /\ k \in Keys \ doubt
      BY <1>2, <1>6, <1>7, <2>2
    <3> QED
      BY <3>1 DEF ControlCore, StoredFirst
  <2> QED
    BY <2>1, <2>2
<1>12. LastWord'
  BY <1>1, <1>5, <1>6 DEF ControlCore, LastWord
<1>13. Alone'
  <2> SUFFICES ASSUME "risk" \notin doubt', resolving # <<>>
               PROVE  /\ \A w \in WebUsers : "risk" \notin KeysOf(todo'[w])
                      /\ "risk" \notin KeysOf(wire)
                      /\ inUse.risk = resolving[1]
    BY <1>1 DEF Alone
  <2>1. "risk" \in Pending
    BY DEF Pending, Keys
  <2>2. "risk" \notin keys /\ "risk" \notin doubt
    BY <1>6, <2>1 DEF Keys
  <2>3. KeysOf(todo'[u]) = keys
    BY <1>2 DEF keys
  <2> QED
    BY <1>2, <2>2, <2>3 DEF ControlCore, Alone
<1>14. Quiet' /\ Follows'
  BY <1>1, <1>5, <1>6 DEF ControlCore, Quiet, Follows
<1> QED
  BY <1>4, <1>9, <1>10, <1>11, <1>12, <1>13, <1>14 DEF ControlCore

\* A request stores, or publishes what it has stored.
LEMMA WebStepStep ==
  ASSUME ControlTyped, ControlCore, NEW u \in WebUsers, WebStep(u)
  PROVE  ControlTyped' /\ ControlCore'
<1> DEFINE t == todo[u]  s == t[1]  n == Len(t)
<1>1. /\ t # <<>> /\ todo' = [todo EXCEPT ![u] = Tail(t)]
      /\ \/ /\ s.op = "hset" /\ stored' = [stored EXCEPT ![s.key] = s.value]
            /\ UNCHANGED <<wire, doubt>>
         \/ /\ s.op # "hset" /\ UNCHANGED stored
            /\ \/ phase = "listening" /\ wire' = Append(wire, s) /\ UNCHANGED doubt
               \/ phase # "listening" /\ doubt' = doubt \cup {s.key} /\ UNCHANGED wire
      /\ UNCHANGED <<inUse, tgPaused, phase, resolving, changes, boots, asked>>
  BY DEF WebStep
<1>2. /\ t \in Seq(StepSet) /\ n \in Nat \ {0} /\ DOMAIN t = 1 .. n /\ s \in StepSet
      /\ Tail(t) \in Seq(StepSet) /\ DOMAIN Tail(t) = 1 .. n - 1
      /\ \A i \in 1 .. n - 1 : Tail(t)[i] = t[i + 1]
  BY <1>1, LenProperties, HeadTailProperties, EmptySeq, ElementOfSeq DEF ControlTyped
<1>3. s.key \in Keys /\ s.op \in {"hset", "publish"}
  BY <1>2, StepType
<1>4. /\ todo'[u] = Tail(t) /\ \A w \in WebUsers : w # u => todo'[w] = todo[w]
      /\ todo' \in [WebUsers -> Seq(StepSet)]
  BY <1>1, <1>2 DEF ControlTyped
<1>5. /\ wire \in Seq(StepSet) /\ Len(wire) \in Nat /\ DOMAIN wire = 1 .. Len(wire)
      /\ Append(wire, s) \in Seq(StepSet) /\ DOMAIN Append(wire, s) = 1 .. Len(wire) + 1
      /\ \A i \in 1 .. Len(wire) : Append(wire, s)[i] = wire[i]
      /\ Append(wire, s)[Len(wire) + 1] = s
  BY <1>2, LenProperties, AppendProperties DEF ControlTyped
<1>6. stored' \in InBand
  BY <1>1, <1>2, ChangeInBand DEF ControlTyped
<1>7. ControlTyped'
  BY <1>1, <1>3, <1>4, <1>5, <1>6 DEF ControlTyped
<1> HIDE DEF t, n
\* What is left was there, and only the step's own key may leave.
<1>8. \A w \in WebUsers : \A i \in DOMAIN todo'[w] :
        \E j \in DOMAIN todo[w] : todo[w][j] = todo'[w][i]
  <2> SUFFICES ASSUME NEW w \in WebUsers, NEW i \in DOMAIN todo'[w]
               PROVE  \E j \in DOMAIN todo[w] : todo[w][j] = todo'[w][i]
    OBVIOUS
  <2>1. CASE w = u
    <3>1. i \in 1 .. n - 1 /\ i + 1 \in DOMAIN t /\ t[i + 1] = todo'[w][i]
      BY <1>2, <1>4, <2>1
    <3> QED
      BY <2>1, <3>1 DEF t
  <2>2. CASE w # u
    BY <1>4, <2>2
  <2> QED
    BY <2>1, <2>2
<1>9. \A j \in DOMAIN t : j = 1 \/ (j - 1 \in DOMAIN todo'[u] /\ todo'[u][j - 1] = t[j])
  BY <1>2, <1>4
<1>10. ASSUME NEW k \in Keys, k \notin Pending', k # s.key
       PROVE  k \notin Pending
  <2> SUFFICES ASSUME k \in Pending PROVE FALSE
    OBVIOUS
  <2>1. PICK w \in WebUsers : k \in KeysOf(todo[w])
    BY <1>1, <1>10, Zenon DEF Pending
  <2>2. PICK j \in DOMAIN todo[w] : todo[w][j].key = k
    BY <2>1 DEF KeysOf
  <2>3. \E i \in DOMAIN todo'[w] : todo'[w][i].key = k
    BY <1>4, <1>9, <1>10, <2>2 DEF t
  <2>4. k \in KeysOf(todo'[w])
    BY <2>3 DEF KeysOf
  <2> QED
    BY <1>10, <2>4, Zenon DEF Pending
<1>11. ASSUME NEW k \in Keys, k \notin Pending', NEW i \in DOMAIN todo'[u]
       PROVE  todo'[u][i].key # k
  <2>1. todo'[u][i].key \in KeysOf(todo'[u])
    BY DEF KeysOf
  <2> QED
    BY <1>11, <2>1, Zenon DEF Pending
<1>12. ASSUME NEW k \in Keys \ doubt, k = s.key, s.op = "hset"
       PROVE  k \in Pending'
  <2>1. 1 \in DOMAIN t /\ t[1].key = k /\ t[1].op = "hset"
    BY <1>2, <1>12
  <2>2. PICK j \in DOMAIN t : j > 1 /\ t[j].key = k
    BY <2>1 DEF ControlCore, SentAfter, t
  <2> QED
    BY <1>9, <1>11, <2>2
<1>13. ASSUME NEW k \in Keys, k # s.key
       PROVE  stored'[k] = stored[k]
  BY <1>1, <1>13 DEF ControlTyped, InBand, Keys
<1>14. OneVoice'
  <2> SUFFICES ASSUME NEW k \in Keys \ doubt', NEW v \in WebUsers, NEW w \in WebUsers,
                      NEW i \in DOMAIN todo'[v], NEW j \in DOMAIN todo'[w],
                      todo'[v][i].key = k, todo'[w][j].key = k
               PROVE  v = w /\ todo'[v][i].value = todo'[w][j].value
    BY DEF OneVoice
  <2>1. k \in Keys \ doubt
    BY <1>1
  <2>2. PICK a \in DOMAIN todo[v] : todo[v][a] = todo'[v][i]
    BY <1>8
  <2>3. PICK b \in DOMAIN todo[w] : todo[w][b] = todo'[w][j]
    BY <1>8
  <2> QED
    BY <2>1, <2>2, <2>3 DEF ControlCore, OneVoice
<1>15. SentAfter'
  <2> SUFFICES ASSUME NEW k \in Keys \ doubt', NEW w \in WebUsers, NEW i \in DOMAIN todo'[w],
                      todo'[w][i].key = k, todo'[w][i].op = "hset"
               PROVE  \E j \in DOMAIN todo'[w] : j > i /\ todo'[w][j].key = k
    BY DEF SentAfter
  <2>1. k \in Keys \ doubt
    BY <1>1
  <2>2. CASE w = u
    <3>1. i \in 1 .. n - 1 /\ t[i + 1].key = k /\ t[i + 1].op = "hset" /\ i + 1 \in DOMAIN t
      BY <1>2, <1>4, <2>2
    <3>2. PICK j \in DOMAIN t : j > i + 1 /\ t[j].key = k
      BY <2>1, <3>1 DEF ControlCore, SentAfter, t
    <3> QED
      BY <1>2, <1>9, <2>2, <3>1, <3>2
  <2>3. CASE w # u
    <3>1. todo'[w] = todo[w]
      BY <1>4, <2>3
    <3> QED
      BY <2>1, <3>1 DEF ControlCore, SentAfter
  <2> QED
    BY <2>2, <2>3
<1>16. StoredFirst'
  <2> SUFFICES ASSUME NEW k \in Keys \ doubt', NEW w \in WebUsers, NEW i \in DOMAIN todo'[w],
                      todo'[w][i].key = k,
                      \A j \in DOMAIN todo'[w] : todo'[w][j].key = k => todo'[w][j].op = "publish"
               PROVE  todo'[w][i].value = stored'[k]
    BY DEF StoredFirst
  <2>1. k \in Keys \ doubt
    BY <1>1
  <2>2. PICK a \in DOMAIN todo[w] : todo[w][a] = todo'[w][i]
    BY <1>8
  <2>3. CASE s.key = k /\ s.op = "hset"
    <3>1. 1 \in DOMAIN todo[u] /\ todo[u][1].key = k
      BY <1>2, <2>3 DEF t
    <3>2. todo[w][a].value = todo[u][1].value
      BY <2>1, <2>2, <3>1 DEF ControlCore, OneVoice
    <3>3. stored'[k] = todo[u][1].value
      BY <1>1, <2>3 DEF t, ControlTyped, InBand, Keys
    <3> QED
      BY <2>2, <3>2, <3>3
  <2>4. CASE ~(s.key = k /\ s.op = "hset")
    <3>1. \A j \in DOMAIN todo[w] : todo[w][j].key = k => todo[w][j].op = "publish"
      <4>1. CASE w = u
        BY <1>3, <1>9, <2>4, <4>1 DEF t
      <4>2. CASE w # u
        <5>1. todo'[w] = todo[w]
          BY <1>4, <4>2
        <5> QED
          BY <5>1
      <4> QED
        BY <4>1, <4>2
    <3>2. todo[w][a].value = stored[k]
      BY <2>1, <2>2, <3>1 DEF ControlCore, StoredFirst
    <3>3. stored'[k] = stored[k]
      BY <1>1, <1>13, <2>4
    <3> QED
      BY <2>2, <3>2, <3>3
  <2> QED
    BY <2>3, <2>4
<1>17. LastWord'
  <2> SUFFICES ASSUME NEW k \in Keys \ (doubt \cup Pending)', NEW i \in DOMAIN wire',
                      wire'[i].key = k, \A j \in DOMAIN wire' : j > i => wire'[j].key # k
               PROVE  wire'[i].value = stored'[k]
    BY DEF LastWord
  <2>1. k \in Keys \ doubt /\ k \notin Pending'
    BY <1>1
  <2>2. CASE k # s.key
    <3>1. k \in Keys \ (doubt \cup Pending) /\ stored'[k] = stored[k]
      BY <1>10, <1>13, <2>1, <2>2
    <3>2. i \in DOMAIN wire /\ wire[i] = wire'[i]
          /\ \A j \in DOMAIN wire : j > i => wire[j].key # k
      BY <1>1, <1>5, <2>2
    <3> QED
      BY <3>1, <3>2 DEF ControlCore, LastWord
  <2>3. CASE k = s.key
    <3>1. s.op = "publish"
      BY <1>3, <1>12, <2>1, <2>3
    <3>2. wire' = Append(wire, s) /\ UNCHANGED stored
      BY <1>1, <2>3, <3>1
    <3>3. i = Len(wire) + 1 /\ wire'[i] = s
      BY <1>5, <2>3, <3>2
    <3>4. \A j \in DOMAIN todo[u] : todo[u][j].key = k => todo[u][j].op = "publish"
      BY <1>9, <1>11, <2>1, <3>1 DEF t
    <3>5. 1 \in DOMAIN todo[u] /\ todo[u][1].key = k
      BY <1>2, <2>3 DEF t
    <3>6. s.value = stored[k]
      BY <2>1, <3>4, <3>5 DEF ControlCore, StoredFirst, t
    <3> QED
      BY <3>2, <3>3, <3>6
  <2> QED
    BY <2>2, <2>3
<1>18. Alone'
  <2> SUFFICES ASSUME "risk" \notin doubt', resolving # <<>>
               PROVE  /\ \A w \in WebUsers : "risk" \notin KeysOf(todo'[w])
                      /\ "risk" \notin KeysOf(wire')
                      /\ inUse.risk = resolving[1]
    BY <1>1 DEF Alone
  <2>1. /\ \A w \in WebUsers : "risk" \notin KeysOf(todo[w])
        /\ "risk" \notin KeysOf(wire)
        /\ inUse.risk = resolving[1]
    BY <1>1 DEF ControlCore, Alone
  <2>2. \A w \in WebUsers : \A i \in DOMAIN todo[w] : todo[w][i].key # "risk"
    BY <2>1 DEF KeysOf
  <2>3. s.key # "risk"
    BY <1>2, <2>2 DEF t
  <2>4. \A i \in DOMAIN wire : wire[i].key # "risk"
    BY <2>1 DEF KeysOf
  <2>5. \A i \in DOMAIN wire' : wire'[i].key # "risk"
    BY <1>1, <1>5, <2>3, <2>4
  <2> QED
    BY <1>8, <2>1, <2>2, <2>5 DEF KeysOf
<1>19. Quiet'
  BY <1>1 DEF ControlCore, Quiet
<1>20. Follows'
  <2> SUFFICES ASSUME phase # "down", NEW k \in Keys \ (doubt \cup Pending \cup KeysOf(wire))'
               PROVE  inUse[k] = stored'[k]
    BY <1>1 DEF Follows
  <2>1. k \in Keys \ doubt /\ k \notin Pending' /\ k \notin KeysOf(wire')
    BY <1>1 DEF KeysOf
  <2>2. k # s.key
    <3> SUFFICES ASSUME k = s.key PROVE FALSE
      OBVIOUS
    <3>1. s.op # "hset" /\ wire' = Append(wire, s)
      BY <1>1, <1>12, <2>1
    <3>2. Len(wire) + 1 \in DOMAIN wire' /\ wire'[Len(wire) + 1].key = k
      BY <1>5, <3>1
    <3> QED
      BY <2>1, <3>2 DEF KeysOf
  <2>3. k \notin KeysOf(wire)
    <3>1. \A i \in DOMAIN wire : i \in DOMAIN wire' /\ wire'[i] = wire[i]
      BY <1>1, <1>5
    <3> QED
      BY <2>1, <3>1 DEF KeysOf
  <2> QED
    BY <1>10, <1>13, <2>1, <2>2, <2>3 DEF ControlCore, Follows
<1> QED
  BY <1>7, <1>14, <1>15, <1>16, <1>17, <1>18, <1>19, <1>20 DEF ControlCore

\* A step that leaves the web's requests and the wire alone, and changes at
\* most the risk in use, which it then puts in doubt.
LEMMA TelegramStep ==
  ASSUME ControlTyped, ControlCore,
         \/ \E p \in BOOLEAN : TelegramPause(p)
         \/ \E r \in Reach : TelegramRisk(r)
  PROVE  ControlTyped' /\ ControlCore'
<1>1. /\ UNCHANGED <<stored, phase, todo, resolving, wire, boots>>
      /\ changes < MaxChanges /\ changes' = changes + 1
      /\ \/ UNCHANGED inUse /\ doubt' = doubt
         \/ doubt' = doubt \cup {"risk"} /\ \E r \in Reach : inUse' = [inUse EXCEPT !.risk = r]
  BY DEF TelegramPause, TelegramRisk, Change
<1>2. inUse' \in InBand /\ \A k \in Keys : k # "risk" => inUse'[k] = inUse[k]
  BY <1>1 DEF ControlTyped, InBand, Keys
<1>3. ControlTyped'
  BY <1>1, <1>2, ControlAssumption DEF ControlTyped, ControlAssumption, Keys
<1>4. doubt \subseteq doubt' /\ (UNCHANGED inUse \/ "risk" \in doubt') /\ Pending' = Pending
  BY <1>1 DEF Pending
<1>5. OneVoice' /\ SentAfter' /\ StoredFirst' /\ LastWord'
  BY <1>1, <1>4 DEF ControlCore, OneVoice, SentAfter, StoredFirst, LastWord
<1>6. Alone' /\ Quiet'
  BY <1>1, <1>4 DEF ControlCore, Alone, Quiet
<1>7. Follows'
  BY <1>1, <1>2, <1>4 DEF ControlCore, Follows
<1> QED
  BY <1>3, <1>5, <1>6, <1>7 DEF ControlCore

\* The governor sets a risk, to be stored later.
LEMMA ResolveStep ==
  ASSUME ControlTyped, ControlCore, NEW r \in Reach, Resolve(r)
  PROVE  ControlTyped' /\ ControlCore'
<1>1. /\ UNCHANGED <<stored, phase, todo, wire, boots>> /\ phase # "down" /\ resolving = <<>>
      /\ changes < MaxChanges /\ changes' = changes + 1
      /\ inUse' = [inUse EXCEPT !.risk = r] /\ resolving' = <<r>>
      /\ doubt' = (doubt \ {"risk"}) \cup ({"risk"} \cap (Pending \cup KeysOf(wire)))
  BY DEF Resolve, Change
<1>2. inUse' \in InBand /\ inUse'.risk = r /\ \A k \in Keys : k # "risk" => inUse'[k] = inUse[k]
  BY <1>1 DEF ControlTyped, InBand, Keys
<1>3. ControlTyped'
  BY <1>1, <1>2, ControlAssumption DEF ControlTyped, ControlAssumption, Keys
<1>4. doubt' \subseteq Keys /\ doubt \ {"risk"} \subseteq doubt' /\ "risk" \in Pending'
      /\ ("risk" \notin doubt' => "risk" \notin Pending /\ "risk" \notin KeysOf(wire))
  BY <1>1 DEF Pending, Keys, ControlTyped
<1>5. \A k \in Keys \ Pending' : k \in Keys \ Pending /\ k # "risk"
  BY <1>1, <1>4, Zenon DEF Pending
\* A key that is not in doubt afterwards was not before, or nobody changes it.
<1>11. ASSUME NEW k \in Keys \ doubt', NEW w \in WebUsers, NEW i \in DOMAIN todo[w], todo[w][i].key = k
       PROVE  k \notin doubt
  <2>1. k \in KeysOf(todo[w])
    BY <1>11 DEF KeysOf
  <2>2. k \in Pending
    BY <2>1, Zenon DEF Pending
  <2> QED
    BY <1>4, <2>2
<1>6. OneVoice' /\ SentAfter' /\ StoredFirst'
  BY <1>1, <1>11 DEF ControlCore, OneVoice, SentAfter, StoredFirst
<1>7. LastWord'
  BY <1>1, <1>4, <1>5 DEF ControlCore, LastWord
<1>8. Alone'
  <2> SUFFICES ASSUME "risk" \notin doubt'
               PROVE  /\ \A w \in WebUsers : "risk" \notin KeysOf(todo[w])
                      /\ "risk" \notin KeysOf(wire)
                      /\ inUse'.risk = resolving'[1]
    BY <1>1 DEF Alone
  <2>1. "risk" \notin Pending /\ "risk" \notin KeysOf(wire) /\ "risk" \in Keys
    BY <1>4 DEF Keys
  <2>2. \A w \in WebUsers : "risk" \notin KeysOf(todo[w])
    BY <2>1, Zenon DEF Pending
  <2> QED
    BY <1>1, <1>2, <2>1, <2>2
<1>9. Quiet'
  BY <1>1 DEF ControlCore, Quiet
<1>10. Follows'
  BY <1>1, <1>2, <1>4, <1>5 DEF ControlCore, Follows
<1> QED
  BY <1>3, <1>6, <1>7, <1>8, <1>9, <1>10 DEF ControlCore

\* The breaker's override is on its way, and the risk in doubt.
LEMMA OverrideStep ==
  ASSUME ControlTyped, ControlCore, NEW r \in Reach, Override(r)
  PROVE  ControlTyped' /\ ControlCore'
<1> DEFINE m == Send("risk", r)
<1>1. /\ UNCHANGED <<stored, inUse, phase, todo, resolving, boots>> /\ phase = "listening"
      /\ wire' = Append(wire, m)
      /\ changes < MaxChanges /\ changes' = changes + 1
      /\ doubt' = doubt \cup {"risk"}
  BY DEF Override, Change
<1>2. m \in StepSet /\ m.key = "risk"
  <2>1. "risk" \in Keys /\ r \in ValuesOf["risk"]
    BY DEF Keys, ValuesOf
  <2> QED
    BY <2>1, StepMade DEF Send
<1> HIDE DEF m
<1>3. /\ wire \in Seq(StepSet) /\ Len(wire) \in Nat /\ DOMAIN wire = 1 .. Len(wire)
      /\ wire' \in Seq(StepSet) /\ DOMAIN wire' = 1 .. Len(wire) + 1
      /\ \A i \in 1 .. Len(wire) : wire'[i] = wire[i]
      /\ wire'[Len(wire) + 1] = m
  BY <1>1, <1>2, LenProperties, AppendProperties DEF ControlTyped
<1>4. ControlTyped'
  BY <1>1, <1>3, ControlAssumption DEF ControlTyped, ControlAssumption, Keys
<1>5. Pending' = Pending /\ \A k \in Keys \ doubt' : k \in Keys \ doubt /\ k # "risk"
  BY <1>1 DEF Pending
<1>6. OneVoice' /\ SentAfter' /\ StoredFirst'
  BY <1>1, <1>5 DEF ControlCore, OneVoice, SentAfter, StoredFirst
<1>7. LastWord'
  <2> SUFFICES ASSUME NEW k \in Keys \ (doubt \cup Pending)', NEW i \in DOMAIN wire',
                      wire'[i].key = k, \A j \in DOMAIN wire' : j > i => wire'[j].key # k
               PROVE  wire'[i].value = stored[k]
    BY <1>1 DEF LastWord
  <2>1. k \in Keys \ (doubt \cup Pending) /\ k # "risk"
    BY <1>5
  <2>2. i \in DOMAIN wire /\ wire[i] = wire'[i] /\ \A j \in DOMAIN wire : j > i => wire[j].key # k
    BY <1>2, <1>3, <2>1
  <2> QED
    BY <2>1, <2>2 DEF ControlCore, LastWord
<1>8. Alone' /\ Quiet'
  BY <1>1 DEF ControlCore, Alone, Quiet
<1>9. Follows'
  <2> SUFFICES ASSUME NEW k \in Keys \ (doubt \cup Pending \cup KeysOf(wire))'
               PROVE  inUse[k] = stored[k]
    BY <1>1 DEF Follows
  <2>1. k \notin KeysOf(wire)
    BY <1>3 DEF KeysOf
  <2> QED
    BY <1>1, <1>5, <2>1 DEF ControlCore, Follows
<1> QED
  BY <1>4, <1>6, <1>7, <1>8, <1>9 DEF ControlCore

\* The governor's risk reaches the store, or does not and is in doubt.
LEMMA PublishRiskStep ==
  ASSUME ControlTyped, ControlCore, PublishRisk
  PROVE  ControlTyped' /\ ControlCore'
<1> DEFINE new == resolving[1]
<1>1. /\ resolving # <<>> /\ resolving' = <<>>
      /\ \/ stored' = [stored EXCEPT !.risk = new] /\ doubt' = doubt
         \/ doubt' = doubt \cup {"risk"} /\ UNCHANGED stored
      /\ UNCHANGED <<inUse, phase, todo, wire, changes, boots>>
  BY DEF PublishRisk
<1>2. new \in Reach
  <2>1. resolving \in Seq(Reach) /\ 1 \in 1 .. Len(resolving)
    BY <1>1, EmptySeq DEF ControlTyped
  <2> QED
    BY <2>1, ElementOfSeq
<1> HIDE DEF new
<1>3. stored' \in InBand /\ \A k \in Keys : k # "risk" => stored'[k] = stored[k]
  BY <1>1, <1>2 DEF ControlTyped, InBand, Keys
<1>4. ControlTyped'
  BY <1>1, <1>3 DEF ControlTyped, Keys
<1>5. doubt \subseteq doubt' /\ Pending' \subseteq Pending
  BY <1>1, Zenon DEF Pending
<1>6. \A k \in Keys \ {"risk"} : k \in Pending => k \in Pending'
  BY <1>1, Zenon DEF Pending
\* Either the risk is in doubt now, or nobody else is changing it.
<1>7. \/ "risk" \in doubt' /\ UNCHANGED stored
      \/ "risk" \in doubt
      \/ /\ \A w \in WebUsers : \A i \in DOMAIN todo[w] : todo[w][i].key # "risk"
         /\ \A i \in DOMAIN wire : wire[i].key # "risk"
         /\ inUse.risk = new /\ stored'.risk = new
  <2> SUFFICES ASSUME "risk" \notin doubt, doubt' = doubt, stored' = [stored EXCEPT !.risk = new]
               PROVE  /\ \A w \in WebUsers : \A i \in DOMAIN todo[w] : todo[w][i].key # "risk"
                      /\ \A i \in DOMAIN wire : wire[i].key # "risk"
                      /\ inUse.risk = new /\ stored'.risk = new
    BY <1>1
  <2>1. /\ \A w \in WebUsers : "risk" \notin KeysOf(todo[w])
        /\ "risk" \notin KeysOf(wire)
        /\ inUse.risk = new
    BY <1>1 DEF ControlCore, Alone, new
  <2>2. stored'.risk = new
    BY <1>1, <1>2 DEF ControlTyped, InBand
  <2> QED
    BY <2>1, <2>2 DEF KeysOf
<1>8. OneVoice' /\ SentAfter'
  BY <1>1, <1>5 DEF ControlCore, OneVoice, SentAfter
<1>9. StoredFirst'
  BY <1>1, <1>3, <1>5, <1>7 DEF ControlCore, StoredFirst
<1>10. LastWord'
  <2> SUFFICES ASSUME NEW k \in Keys \ (doubt \cup Pending)', NEW i \in DOMAIN wire,
                      wire[i].key = k, \A j \in DOMAIN wire : j > i => wire[j].key # k
               PROVE  wire[i].value = stored'[k]
    BY <1>1 DEF LastWord
  <2>1. k # "risk"
    BY <1>5, <1>7
  <2> QED
    BY <1>3, <1>5, <1>6, <2>1 DEF ControlCore, LastWord
<1>11. Alone' /\ Quiet'
  BY <1>1 DEF ControlCore, Alone, Quiet
<1>12. Follows'
  <2> SUFFICES ASSUME phase # "down", NEW k \in Keys \ (doubt \cup Pending \cup KeysOf(wire))'
               PROVE  inUse[k] = stored'[k]
    BY <1>1 DEF Follows
  <2>1. CASE k # "risk"
    <3>1. k \in Keys \ (doubt \cup Pending \cup KeysOf(wire))
      BY <1>1, <1>5, <1>6, <2>1 DEF KeysOf
    <3> QED
      BY <1>3, <2>1, <3>1 DEF ControlCore, Follows
  <2>2. CASE k = "risk"
    BY <1>5, <1>7, <2>2
  <2> QED
    BY <2>1, <2>2
<1> QED
  BY <1>4, <1>8, <1>9, <1>10, <1>11, <1>12 DEF ControlCore

\* A boot restores the pause and stores the environment's risk, or fails to.
LEMMA BootStep ==
  ASSUME ControlTyped, ControlCore, Boot
  PROVE  ControlTyped' /\ ControlCore'
<1>1. /\ phase = "down" /\ phase' = "booting" /\ boots < MaxBoots /\ boots' = boots + 1
      /\ wire = <<>> /\ resolving = <<>>
      /\ UNCHANGED <<todo, resolving, wire, changes>>
  BY DEF Boot, ControlCore, Quiet
<1>2. /\ stored.paused \in BOOLEAN /\ FromEnv \in InBand
      /\ FromEnv.risk = EnvRisk /\ EnvRisk \in Reach
  BY ReachFacts DEF ControlTyped, InBand, FromEnv
<1>3. [FromEnv EXCEPT !.paused = RestoredPause] \in InBand
  BY <1>2, Zenon DEF FromEnv, InBand, RestoredPause
<1>4. [stored EXCEPT !.risk = EnvRisk] \in InBand
  BY <1>2 DEF ControlTyped, InBand
<1>5. inUse' \in InBand /\ stored' \in InBand
  BY <1>2, <1>3, <1>4 DEF Boot, ControlTyped
<1>6. /\ doubt' \subseteq Keys /\ Pending \subseteq doubt'
      /\ Pending' = Pending
      /\ \/ /\ inUse' = [FromEnv EXCEPT !.paused = RestoredPause]
            /\ stored' = [stored EXCEPT !.risk = EnvRisk]
            /\ "setting" \in doubt'
         \/ doubt' = Keys
  BY <1>1 DEF Boot, Pending, Keys
<1>7. ControlTyped'
  BY <1>1, <1>5, <1>6, ControlAssumption DEF ControlTyped, ControlAssumption
<1>8. ASSUME NEW k \in Keys \ doubt', NEW w \in WebUsers, NEW i \in DOMAIN todo'[w]
      PROVE  todo'[w][i].key # k
  <2>1. todo'[w][i].key \in KeysOf(todo[w])
    BY <1>1 DEF KeysOf
  <2>2. k \notin KeysOf(todo[w])
    BY <1>6, Zenon DEF Pending
  <2> QED
    BY <2>1, <2>2
<1>9. OneVoice' /\ SentAfter' /\ StoredFirst'
  BY <1>8 DEF OneVoice, SentAfter, StoredFirst
<1>10. LastWord' /\ Alone' /\ Quiet'
  BY <1>1 DEF LastWord, Alone, Quiet
<1>11. Follows'
  <2> SUFFICES ASSUME NEW k \in Keys \ doubt'
               PROVE  inUse'[k] = stored'[k]
    BY DEF Follows
  <2>1. /\ inUse' = [FromEnv EXCEPT !.paused = RestoredPause]
        /\ stored' = [stored EXCEPT !.risk = EnvRisk]
        /\ k \in {"paused", "risk"}
    BY <1>6 DEF Keys
  <2>2. inUse'["paused"] = stored.paused /\ inUse'["risk"] = EnvRisk
    BY <2>1 DEF FromEnv, RestoredPause
  <2>3. stored'["paused"] = stored.paused /\ stored'["risk"] = EnvRisk
    BY <2>1 DEF ControlTyped, InBand
  <2> QED
    BY <2>1, <2>2, <2>3
<1> QED
  BY <1>7, <1>9, <1>10, <1>11 DEF ControlCore

\* The listener subscribes, loses its connection, or the kernel stops: what was
\* on the wire is lost, and what was under way is in doubt.
LEMMA ListenerStep ==
  ASSUME ControlTyped, ControlCore, Listens \/ Disconnects \/ KernelStops
  PROVE  ControlTyped' /\ ControlCore'
<1>1. /\ UNCHANGED <<stored, inUse, todo, changes, boots>>
      /\ wire' \in {wire, <<>>} /\ resolving' \in {resolving, <<>>}
      /\ doubt \subseteq doubt' /\ doubt' \subseteq doubt \cup KeysOf(wire)
      /\ phase' \in {"down", "away", "listening"}
  BY DEF Listens, Disconnects, KernelStops
<1>2. KeysOf(wire) \subseteq Keys
  <2> SUFFICES ASSUME NEW i \in DOMAIN wire PROVE wire[i].key \in Keys
    BY DEF KeysOf
  <2> QED
    BY StepType, ElementOfSeq, LenProperties DEF ControlTyped
<1>3. ControlTyped'
  <2>1. wire' \in Seq(StepSet) /\ resolving' \in Seq(Reach)
    BY <1>1, EmptySeq DEF ControlTyped
  <2> QED
    BY <1>1, <1>2, <2>1 DEF ControlTyped
<1>4. OneVoice' /\ SentAfter' /\ StoredFirst'
  BY <1>1 DEF ControlCore, OneVoice, SentAfter, StoredFirst
<1>5. wire' = <<>> \/ (Listens /\ UNCHANGED <<wire, doubt, resolving>> /\ phase # "down")
  BY DEF Listens, Disconnects, KernelStops
<1>6. LastWord'
  <2>1. CASE wire' = <<>>
    BY <2>1 DEF LastWord
  <2>2. CASE UNCHANGED <<wire, doubt, resolving>>
    BY <1>1, <2>2 DEF ControlCore, LastWord, Pending
  <2> QED
    BY <1>5, <2>1, <2>2
<1>7. Alone'
  BY <1>1 DEF ControlCore, Alone, KeysOf
<1>8. Quiet'
  BY DEF Listens, Disconnects, KernelStops, ControlCore, Quiet
<1>9. Follows'
  <2> SUFFICES ASSUME phase' # "down", NEW k \in Keys \ (doubt \cup Pending \cup KeysOf(wire))'
               PROVE  inUse[k] = stored[k]
    BY <1>1 DEF Follows
  <2>1. phase # "down" /\ UNCHANGED resolving /\ KeysOf(wire) \subseteq doubt' \cup KeysOf(wire')
    BY DEF Listens, Disconnects, KernelStops
  <2>2. Pending' = Pending
    BY <1>1, <2>1 DEF Pending
  <2>3. KeysOf(wire)' = KeysOf(wire')
    BY DEF KeysOf
  <2> QED
    BY <1>1, <2>1, <2>2, <2>3 DEF ControlCore, Follows
<1> QED
  BY <1>3, <1>4, <1>6, <1>7, <1>8, <1>9 DEF ControlCore

\* The kernel takes the oldest message.
LEMMA HearControlStep ==
  ASSUME ControlTyped, ControlCore, HearControl
  PROVE  ControlTyped' /\ ControlCore'
<1> DEFINE m == wire[1]  n == Len(wire)
<1>1. /\ wire # <<>> /\ wire' = Tail(wire)
      /\ inUse' = [inUse EXCEPT ![m.key] = m.value]
      /\ UNCHANGED <<stored, phase, todo, resolving, changes, boots, doubt>>
  BY DEF HearControl
<1>2. /\ wire \in Seq(StepSet) /\ n \in Nat \ {0} /\ DOMAIN wire = 1 .. n /\ m \in StepSet
      /\ wire' \in Seq(StepSet) /\ DOMAIN wire' = 1 .. n - 1
      /\ \A i \in 1 .. n - 1 : wire'[i] = wire[i + 1]
  BY <1>1, LenProperties, HeadTailProperties, EmptySeq, ElementOfSeq DEF ControlTyped
<1>3. inUse' \in InBand /\ m.key \in Keys
  BY <1>1, <1>2, ChangeInBand, StepType DEF ControlTyped
<1> HIDE DEF n
<1>4. ControlTyped'
  BY <1>1, <1>2, <1>3 DEF ControlTyped
<1>5. Pending' = Pending
  BY <1>1 DEF Pending
<1>6. OneVoice' /\ SentAfter' /\ StoredFirst'
  BY <1>1 DEF ControlCore, OneVoice, SentAfter, StoredFirst
<1>7. LastWord'
  <2> SUFFICES ASSUME NEW k \in Keys \ (doubt \cup Pending), NEW i \in DOMAIN wire',
                      wire'[i].key = k, \A j \in DOMAIN wire' : j > i => wire'[j].key # k
               PROVE  wire'[i].value = stored[k]
    BY <1>1, <1>5 DEF LastWord
  <2>1. i + 1 \in DOMAIN wire /\ wire[i + 1] = wire'[i]
    BY <1>2
  <2>2. \A j \in DOMAIN wire : j > i + 1 => wire[j].key # k
    <3> SUFFICES ASSUME NEW j \in DOMAIN wire, j > i + 1 PROVE wire[j].key # k
      OBVIOUS
    <3>1. j - 1 \in DOMAIN wire' /\ j - 1 > i /\ wire'[j - 1] = wire[j]
      BY <1>2
    <3> QED
      BY <3>1
  <2> QED
    BY <2>1, <2>2 DEF ControlCore, LastWord
<1>8. Alone'
  <2> SUFFICES ASSUME "risk" \notin doubt, resolving # <<>>
               PROVE  /\ \A w \in WebUsers : "risk" \notin KeysOf(todo[w])
                      /\ "risk" \notin KeysOf(wire')
                      /\ inUse'.risk = resolving[1]
    BY <1>1 DEF Alone
  <2>1. /\ \A w \in WebUsers : "risk" \notin KeysOf(todo[w])
        /\ "risk" \notin KeysOf(wire) /\ inUse.risk = resolving[1]
    BY DEF ControlCore, Alone
  <2>2. \A i \in DOMAIN wire : wire[i].key # "risk"
    BY <2>1 DEF KeysOf
  <2>3. \A i \in DOMAIN wire' : wire'[i].key # "risk"
    <3> SUFFICES ASSUME NEW i \in DOMAIN wire' PROVE wire'[i].key # "risk"
      OBVIOUS
    <3>1. i + 1 \in DOMAIN wire /\ wire'[i] = wire[i + 1]
      BY <1>2
    <3> QED
      BY <2>2, <3>1
  <2>4. m.key # "risk"
    BY <1>2, <2>2
  <2>5. inUse'.risk = inUse.risk
    BY <1>1, <1>3, <2>4 DEF ControlTyped, InBand, Keys
  <2> QED
    BY <2>1, <2>3, <2>5 DEF KeysOf
<1>9. Quiet'
  BY <1>1, <1>2 DEF ControlCore, Quiet
<1>10. Follows'
  <2> SUFFICES ASSUME phase # "down", NEW k \in Keys \ (doubt \cup Pending),
                      \A i \in DOMAIN wire' : wire'[i].key # k
               PROVE  inUse'[k] = stored[k]
    BY <1>1, <1>5 DEF Follows, KeysOf
  <2>1. \A i \in DOMAIN wire : i > 1 => wire[i].key # k
    <3> SUFFICES ASSUME NEW i \in DOMAIN wire, i > 1 PROVE wire[i].key # k
      OBVIOUS
    <3>1. i - 1 \in DOMAIN wire' /\ wire'[i - 1] = wire[i]
      BY <1>2
    <3> QED
      BY <3>1
  <2>2. CASE m.key = k
    <3>1. 1 \in DOMAIN wire /\ wire[1].key = k
      BY <1>2, <2>2
    <3>2. m.value = stored[k]
      BY <2>1, <3>1 DEF ControlCore, LastWord
    <3>3. inUse'[k] = m.value
      BY <1>1, <2>2 DEF ControlTyped, InBand, Keys
    <3> QED
      BY <3>2, <3>3
  <2>3. CASE m.key # k
    <3>1. \A i \in DOMAIN wire : wire[i].key # k
      BY <1>2, <2>1, <2>3
    <3>2. inUse[k] = stored[k]
      BY <3>1 DEF ControlCore, Follows, KeysOf
    <3>3. inUse'[k] = inUse[k]
      BY <1>1, <1>3, <2>3 DEF ControlTyped, InBand, Keys
    <3> QED
      BY <3>2, <3>3
  <2> QED
    BY <2>2, <2>3
<1> QED
  BY <1>4, <1>6, <1>7, <1>8, <1>9, <1>10 DEF ControlCore

\* What the web handlers start with are such requests.
LEMMA PairRequest ==
  ASSUME NEW k \in Keys, NEW v \in ValuesOf[k]
  PROVE  GoodRequest(<<Set(k, v), Send(k, v)>>)
<1>1. Set(k, v) \in StepSet /\ Send(k, v) \in StepSet
  BY StepMade
<1> QED
  BY <1>1 DEF GoodRequest, Set, Send

\* The requests of the page are good ones: of settings,
LEMMA SettingsRequest ==
  ASSUME NEW v \in {0, 1}, NEW r \in Reach
  PROVE  GoodRequest(<<Set("setting", v), Set("risk", r), Send("risk", r), Send("setting", v)>>)
<1> DEFINE s == <<Set("setting", v), Set("risk", r), Send("risk", r), Send("setting", v)>>
<1>1. /\ Set("setting", v) \in StepSet /\ Set("risk", r) \in StepSet
      /\ Send("risk", r) \in StepSet /\ Send("setting", v) \in StepSet
  BY StepMade DEF Keys, ValuesOf
<1>2. s \in Seq(StepSet) /\ DOMAIN s = 1 .. 4
  BY <1>1
<1>3. /\ s[1] = Set("setting", v) /\ s[2] = Set("risk", r)
      /\ s[3] = Send("risk", r) /\ s[4] = Send("setting", v)
  OBVIOUS
<1>4. /\ s[1].key = "setting" /\ s[2].key = "risk" /\ s[3].key = "risk" /\ s[4].key = "setting"
      /\ s[1].value = v /\ s[2].value = r /\ s[3].value = r /\ s[4].value = v
      /\ s[3].op # "hset" /\ s[4].op # "hset"
  BY <1>3 DEF Set, Send
<1> HIDE DEF s
<1>5. \A i, j \in DOMAIN s : s[i].key = s[j].key => s[i].value = s[j].value
  BY <1>2, <1>4
<1>6. \A i \in DOMAIN s : s[i].op = "hset" => \E j \in DOMAIN s : j > i /\ s[j].key = s[i].key
  BY <1>2, <1>4
<1> QED
  BY <1>2, <1>5, <1>6 DEF GoodRequest, s

\* and of trading hours.
LEMMA HoursRequest ==
  ASSUME NEW v \in {0, 1}
  PROVE  GoodRequest(<<Send("setting", v)>>)
<1>1. Send("setting", v) \in StepSet
  BY StepMade DEF Keys, ValuesOf
<1> QED
  BY <1>1 DEF GoodRequest, Send

\* Telegram's flags.
LEMMA ControlFlagsKept ==
  ASSUME ControlFlags, ControlNext \/ UNCHANGED controlVars
  PROVE  ControlFlags'
BY Zenon DEF ControlFlags, ControlNext, ControlPaused, ControlRisk, PostSettings, ApplyBestHours,
     Starts, WebStep, TelegramPause, TelegramRisk, Resolve, PublishRisk, Override, Boot, Listens,
     Disconnects, HearControl, KernelStops, controlVars

\* The inductive invariant of the control plane.
LEMMA ControlStep ==
  ASSUME ControlInv, ControlNext \/ UNCHANGED controlVars
  PROVE  ControlInv'
<1> DEFINE Kept == ControlTyped' /\ ControlCore'
<1>1. ControlTyped /\ ControlCore /\ ControlFlags
  BY DEF ControlInv, ControlCore
<1>2. ASSUME NEW u \in WebUsers, WebStep(u)
      PROVE  Kept
  BY <1>1, <1>2, WebStepStep
<1>3. ASSUME NEW u \in WebUsers, NEW p \in BOOLEAN, ControlPaused(u, p)
      PROVE  Kept
  <2>1. "paused" \in Keys /\ p \in ValuesOf["paused"]
    BY Zenon DEF Keys, ValuesOf
  <2> QED
    BY <1>1, <1>3, <2>1, PairRequest, StartsStep DEF ControlPaused
<1>4. ASSUME NEW u \in WebUsers, NEW r \in RiskInputs, ControlRisk(u, r)
      PROVE  Kept
  <2>1. "risk" \in Keys /\ Clamp(r) \in ValuesOf["risk"]
    BY ClampInBand, ControlAssumption DEF ControlAssumption, Keys, ValuesOf
  <2> QED
    BY <1>1, <1>4, <2>1, PairRequest, StartsStep DEF ControlRisk
<1>5. ASSUME NEW u \in WebUsers, NEW r \in RiskInputs, NEW v \in {0, 1}, PostSettings(u, v, r)
      PROVE  Kept
  <2>1. Clamp(r) \in Reach
    BY ClampInBand, ControlAssumption DEF ControlAssumption
  <2> QED
    BY <1>1, <1>5, <2>1, SettingsRequest, StartsStep DEF PostSettings
<1>6. ASSUME NEW u \in WebUsers, NEW v \in {0, 1}, ApplyBestHours(u, v)
      PROVE  Kept
  BY <1>1, <1>6, HoursRequest, StartsStep DEF ApplyBestHours
<1>7. inUse.risk \in Reach
  BY <1>1 DEF ControlTyped, InBand
<1>8. ASSUME \/ \E p \in BOOLEAN : TelegramPause(p)
             \/ TelegramRisk(Tight(inUse.risk)) \/ TelegramRisk(Loose(inUse.risk))
      PROVE  Kept
  <2>1. \/ \E p \in BOOLEAN : TelegramPause(p)
        \/ \E r \in Reach : TelegramRisk(r)
    BY <1>7, <1>8, RiskSteps
  <2> QED
    BY <1>1, <2>1, TelegramStep
<1>9. ASSUME Resolve(Tighten(inUse.risk)) \/ Resolve(Loosen(inUse.risk))
      PROVE  Kept
  BY <1>1, <1>7, <1>9, RiskSteps, ResolveStep
<1>10. ASSUME PublishRisk
       PROVE  Kept
  BY <1>1, <1>10, PublishRiskStep
<1>11. ASSUME Boot
       PROVE  Kept
  BY <1>1, <1>11, BootStep
<1>12. ASSUME Listens \/ Disconnects \/ KernelStops
       PROVE  Kept
  BY <1>1, <1>12, ListenerStep
<1>13. ASSUME HearControl
       PROVE  Kept
  BY <1>1, <1>13, HearControlStep
<1>14. ASSUME UNCHANGED controlVars
       PROVE  Kept
  <2>1. ControlTyped'
    BY <1>1, <1>14 DEF controlVars, ControlTyped
  <2>2. OneVoice' /\ SentAfter' /\ StoredFirst' /\ LastWord'
    BY <1>1, <1>14 DEF controlVars, ControlCore, OneVoice, SentAfter, StoredFirst, LastWord, Pending
  <2>3. Alone' /\ Quiet' /\ Follows'
    BY <1>1, <1>14 DEF controlVars, ControlCore, Alone, Quiet, Follows, Pending, KeysOf
  <2> QED
    BY <2>1, <2>2, <2>3 DEF ControlCore
<1>17. ASSUME NEW r \in Overrides, Override(r)
       PROVE  Kept
  BY <1>1, <1>17, ReachFacts, OverrideStep
<1>15. Kept
  BY <1>17, <1>2, <1>3, <1>4, <1>5, <1>6, <1>8, <1>9, <1>10, <1>11, <1>12, <1>13, <1>14 DEF ControlNext
<1>16. ControlFlags'
  BY <1>1, ControlFlagsKept
<1> QED
  BY <1>15, <1>16 DEF ControlInv, ControlCore

\* What the two invariants of the control plane are to it.
LEMMA ControlImplies == ControlInv => ControlTypeOK /\ RiskInBand /\ KernelFollows
<1> SUFFICES ASSUME ControlInv PROVE ControlTypeOK /\ RiskInBand /\ KernelFollows
  OBVIOUS
<1>1. ControlTyped /\ ControlFlags /\ Quiet /\ Follows
  BY DEF ControlInv
<1>2. stored \in Controls /\ inUse \in Controls /\ resolving \in Seq(Int)
  <2>1. \A x : x \in InBand => x \in Controls
    BY ReachFacts DEF InBand, Controls
  <2>2. Reach \subseteq Int
    BY ReachFacts
  <2> QED
    BY <1>1, <2>1, <2>2, SeqMonotonic DEF ControlTyped
<1>3. /\ \A u \in WebUsers : \A i \in DOMAIN todo[u] : todo[u][i].key \in Keys
      /\ \A i \in DOMAIN wire : wire[i].key \in Keys
  BY <1>1, StepType, ElementOfSeq, LenProperties DEF ControlTyped
<1>4. ControlTypeOK
  <2>1. tgPaused \in BOOLEAN /\ asked \in BOOLEAN
    BY <1>1 DEF ControlFlags
  <2> QED
    BY <1>1, <1>2, <1>3, <2>1 DEF ControlTyped, ControlTypeOK
<1>5. RiskInBand
  BY <1>1 DEF ControlTyped, InBand, Reach, RiskInBand
<1>6. KernelFollows
  BY <1>1 DEF Follows, KernelFollows
<1> QED
  BY <1>4, <1>5, <1>6

=============================================================================
