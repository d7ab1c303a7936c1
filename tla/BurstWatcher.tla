---------------------------- MODULE BurstWatcher ----------------------------
(***************************************************************************)
(* The burst watcher looks at the bridge's prices in rounds and sends a     *)
(* signal when a symbol moved far within its window.  Time is in rounds,    *)
(* prices are in trigger distances.                                        *)
(***************************************************************************)
EXTENDS Integers, Sequences, FiniteSets, SequencesExt

CONSTANTS
  Watched,         \* the symbols, in the order of the price record
  Mids,            \* prices
  Window, Cooldown,  \* _WINDOW_S and _COOLDOWN_S, in rounds
  MaxRounds        \* bound: rounds

ASSUME BurstAssumption ==
  /\ Window \in Nat /\ Cooldown \in Nat /\ MaxRounds \in Nat /\ Mids \subseteq Int
  /\ Watched \in Seq(ToSet(Watched))

VARIABLES
  round,
  looking,         \* symbols the round has still to come to
  hist, lastFire,  \* _hist and _last_fire
  active,          \* polis:active_symbols
  fired            \* history: rounds in which this kernel sent the symbol's bursts

burstVars == <<round, looking, hist, lastFire, active, fired>>

Syms == ToSet(Watched)
Never == -Cooldown

BurstTypeOK ==
  /\ active \subseteq Syms /\ looking \in Seq(Syms) /\ round \in 0 .. MaxRounds
  /\ hist \in [Syms -> Seq([at : 0 .. MaxRounds, mid : Mids])]
  /\ lastFire \in [Syms -> {Never} \cup 0 .. MaxRounds]
  /\ fired \in [Syms -> Seq(0 .. MaxRounds)]

BurstInit ==
  /\ looking = <<>> /\ round = 0 /\ active = Syms
  /\ hist = [s \in Syms |-> <<>>] /\ fired = [s \in Syms |-> <<>>]
  /\ lastFire = [s \in Syms |-> Never]

\* set_active_symbols.
Activates(S) ==
  /\ active' = S /\ S # active
  /\ UNCHANGED <<round, looking, hist, lastFire, fired>>

\* BurstWatcher._tick; the bridge's prices may be missing.
RoundStarts ==
  /\ looking = <<>> /\ round < MaxRounds
  /\ round' = round + 1
  /\ looking' \in {<<>>, Watched}
  /\ UNCHANGED <<hist, lastFire, active, fired>>

\* The oldest go first, as long as they are too old.
Recent(s, mid) ==
  LET h == Append(hist[s], [at |-> round, mid |-> mid])
  IN  SubSeq(h, Cardinality({i \in DOMAIN h : round - h[i].at > Window}) + 1, Len(h))

Abs(n) == IF n < 0 THEN -n ELSE n

Bursts(s, mid) ==
  /\ Len(Recent(s, mid)) >= 3
  /\ Abs(mid - Recent(s, mid)[1].mid) >= 1
  /\ round - lastFire[s] >= Cooldown

\* Mutant: noted after the dispatch, which may raise.
NotesIfSent(s, raises) == IF raises THEN lastFire ELSE [lastFire EXCEPT ![s] = round]

Notes(s, raises) == [lastFire EXCEPT ![s] = round]

\* A handler that raises ends the round for the symbols that follow.
Fires(s) ==
  \E raises \in BOOLEAN :
    /\ lastFire' = Notes(s, raises)
    /\ fired' = [fired EXCEPT ![s] = Append(@, round)]
    /\ looking' = IF raises THEN <<>> ELSE Tail(looking)

\* One symbol of the round; one that is switched off is not even remembered.
Look(mid) ==
  /\ looking # <<>>
  /\ LET s == looking[1] IN
       /\ hist' = IF s \in active THEN [hist EXCEPT ![s] = Recent(s, mid)] ELSE hist
       /\ IF s \in active /\ Bursts(s, mid)
            THEN Fires(s)
            ELSE looking' = Tail(looking) /\ UNCHANGED <<lastFire, fired>>
  /\ UNCHANGED <<round, active>>

\* The new watcher knows no prices and no bursts.
WatcherRestarts ==
  /\ looking' = <<>>
  /\ hist' = [s \in Syms |-> <<>>] /\ lastFire' = [s \in Syms |-> Never]
  /\ fired' = [s \in Syms |-> <<>>]
  /\ UNCHANGED <<round, active>>

BurstNext ==
  \/ RoundStarts \/ WatcherRestarts
  \/ \E S \in SUBSET Syms : Activates(S)
  \/ \E mid \in Mids : Look(mid)

----------------------------------------------------------------------------
\* Bursts of a symbol that one kernel sends keep their distance, even if the
\* handlers of one failed.  A restart forgets the last.
BurstsSpaced ==
  \A s \in Syms : \A i \in 2 .. Len(fired[s]) : fired[s][i] - fired[s][i - 1] >= Cooldown

=============================================================================
