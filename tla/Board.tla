------------------------------- MODULE Board -------------------------------
(***************************************************************************)
(* The board meeting: officers vote in parallel, the CEO resolves, and the  *)
(* loop then waits for its interval or for a trigger.                       *)
(***************************************************************************)
EXTENDS Naturals, FiniteSets

CONSTANTS
  Officers,
  IntervalInputs  \* board_interval_s as the settings page sends it

ASSUME BoardAssumption == IsFiniteSet(Officers) /\ IntervalInputs \subseteq Nat

VARIABLES
  board,       \* where the loop is
  votes,       \* of the officers, "none" before they answer
  resolution,  \* the CEO's, of the last meeting
  trigger,     \* the asyncio.Event
  interval,    \* seconds between meetings
  applied, saved  \* what became of the last resolution: governor, database

boardVars == <<board, votes, resolution, trigger, interval, applied, saved>>

Resolutions == {"tighten", "hold", "loosen"}
NoVotes == [o \in Officers |-> "none"]

BoardTypeOK ==
  /\ board \in {"settling", "convening", "voting", "resolving", "announcing", "waiting", "ended"}
  /\ votes \in [Officers -> Resolutions \cup {"none", "malformed"}]
  /\ resolution \in Resolutions
  /\ trigger \in BOOLEAN /\ applied \in BOOLEAN /\ saved \in BOOLEAN
  /\ interval \in 60 .. 3600

BoardInit ==
  /\ board = "settling" /\ votes = NoVotes /\ resolution = "hold"
  /\ trigger = FALSE /\ interval = 300
  /\ applied = FALSE /\ saved = FALSE

\* run sleeps 45 s before the first meeting.
Settles ==
  /\ board = "settling" /\ board' = "convening"
  /\ UNCHANGED <<votes, resolution, trigger, interval, applied, saved>>

\* After a meeting, however it ended, a trigger that came meanwhile is cleared.
Adjourns == board' = "waiting" /\ trigger' = FALSE

\* Mutant: the exception leaves the loop.
AbortEnds == board' = "ended" /\ UNCHANGED trigger

Aborts == Adjourns

\* The head of _hold_meeting: the metrics may fail, or be empty.
Convenes ==
  /\ board = "convening"
  /\ \/ board' = "voting" /\ votes' = NoVotes /\ UNCHANGED trigger
     \/ Adjourns /\ UNCHANGED votes
     \/ Aborts /\ UNCHANGED votes
  /\ UNCHANGED <<resolution, interval, applied, saved>>

\* _officer_assess: what fails, or takes over 15 s, holds; an answer may have
\* no vote in it.
Votes(o) ==
  /\ board = "voting" /\ votes[o] = "none"
  /\ \E v \in Resolutions \cup {"malformed"} : votes' = [votes EXCEPT ![o] = v]
  /\ board' = IF \A p \in Officers \ {o} : votes[p] # "none" THEN "resolving" ELSE board
  /\ UNCHANGED <<resolution, trigger, interval, applied, saved>>

\* The votes are read before the CEO is asked; the CEO has 20 s, then it holds.
CeoResolves ==
  /\ board = "resolving"
  /\ IF \E o \in Officers : votes[o] = "malformed"
       THEN Aborts /\ UNCHANGED resolution
       ELSE board' = "announcing" /\ resolution' \in Resolutions /\ UNCHANGED trigger
  /\ UNCHANGED <<votes, interval, applied, saved>>

\* The resolution is published (the governor is one of the handlers) and saved
\* at the same time; either may raise without the other.
Announces ==
  /\ board = "announcing"
  /\ applied' \in BOOLEAN /\ saved' \in BOOLEAN
  /\ IF applied' /\ saved' THEN Adjourns ELSE Aborts
  /\ UNCHANGED <<votes, resolution, interval>>

\* The trigger, or the interval, ends the wait.
Wakes ==
  /\ board = "waiting" /\ board' = "convening"
  /\ UNCHANGED <<votes, resolution, trigger, interval, applied, saved>>

BoardTriggered ==
  /\ trigger' = TRUE
  /\ UNCHANGED <<board, votes, resolution, interval, applied, saved>>

\* Mutant: taken as it comes.
AnyInterval(s) == s

Within(s) == IF s < 60 THEN 60 ELSE IF s > 3600 THEN 3600 ELSE s

\* _on_settings_update.
IntervalSet(s) ==
  /\ interval' = Within(s)
  /\ trigger' = (trigger \/ interval' # interval)
  /\ UNCHANGED <<board, votes, resolution, applied, saved>>

BoardStep ==
  Settles \/ Convenes \/ (\E o \in Officers : Votes(o)) \/ CeoResolves \/ Announces \/ Wakes

BoardNext == BoardStep \/ BoardTriggered \/ \E s \in IntervalInputs : IntervalSet(s)

----------------------------------------------------------------------------
\* The board meets again and again, whatever failed in a meeting: an officer,
\* the CEO, the publication or the database.
MeetsAgain == []<>(board = "convening")

=============================================================================
