----------------------------- MODULE Operations -----------------------------
(***************************************************************************)
(* The parts around trading that share no state with each other: control,   *)
(* the board, the cost tracker, the signal sources, the burst watcher, the  *)
(* publishing queue, manual orders and subscriptions.  A behaviour follows  *)
(* one of them while the others stay at their initial states.               *)
(***************************************************************************)
EXTENDS ControlPlane, Board, CostTracker, SignalSources, BurstWatcher,
        ContentQueue, ManualOrders, Subscriptions

VARIABLE focus   \* the part the behaviour follows

vars == <<focus, controlVars, boardVars, costVars, sourceVars, burstVars, queueVars,
          manualVars, subVars>>

\* The state of the part the behaviour follows; the others have not moved.
TypeOK ==
  \/ focus = "control" /\ ControlTypeOK
  \/ focus = "board"   /\ BoardTypeOK
  \/ focus = "costs"   /\ CostTypeOK
  \/ focus = "sources" /\ SourcesTypeOK
  \/ focus = "bursts"  /\ BurstTypeOK
  \/ focus = "queue"   /\ QueueTypeOK
  \/ focus = "manual"  /\ ManualTypeOK
  \/ focus = "subs"    /\ SubTypeOK

Init ==
  /\ focus \in {"control", "board", "costs", "sources", "bursts", "queue", "manual", "subs"}
  /\ ControlInit /\ BoardInit /\ CostInit /\ SourcesInit
  /\ BurstInit /\ QueueInit /\ ManualInit /\ SubInit
  /\ focus = "sources" \/ mode = "external"

Control == focus = "control" /\ ControlNext
           /\ UNCHANGED <<focus, boardVars, costVars, sourceVars, burstVars, queueVars, manualVars, subVars>>
Meeting == focus = "board" /\ BoardNext
           /\ UNCHANGED <<focus, controlVars, costVars, sourceVars, burstVars, queueVars, manualVars, subVars>>
Costs   == focus = "costs" /\ CostNext
           /\ UNCHANGED <<focus, controlVars, boardVars, sourceVars, burstVars, queueVars, manualVars, subVars>>
Sources == focus = "sources" /\ SourcesNext
           /\ UNCHANGED <<focus, controlVars, boardVars, costVars, burstVars, queueVars, manualVars, subVars>>
BurstsSeen == focus = "bursts" /\ BurstNext
           /\ UNCHANGED <<focus, controlVars, boardVars, costVars, sourceVars, queueVars, manualVars, subVars>>
Queue   == focus = "queue" /\ QueueNext
           /\ UNCHANGED <<focus, controlVars, boardVars, costVars, sourceVars, burstVars, manualVars, subVars>>
Manual  == focus = "manual" /\ ManualNext
           /\ UNCHANGED <<focus, controlVars, boardVars, costVars, sourceVars, burstVars, queueVars, subVars>>
Paid    == focus = "subs" /\ SubNext
           /\ UNCHANGED <<focus, controlVars, boardVars, costVars, sourceVars, burstVars, queueVars, manualVars>>

Next ==
  Control \/ Meeting \/ Costs \/ Sources \/ BurstsSeen \/ Queue \/ Manual \/ Paid

\* The officers and the CEO have timeouts and the wait an interval; the hourly
\* loop of the subscriptions goes on.
Fairness == /\ WF_boardVars(focus = "board" /\ BoardStep)
            /\ WF_subVars(focus = "subs" /\ Expire)

Spec == Init /\ [][Next]_vars /\ Fairness

----------------------------------------------------------------------------
\* The board meets again and again, whatever failed in a meeting: an officer,
\* the CEO, the publication or the database.
BoardKeepsMeeting == focus = "board" => MeetsAgain

=============================================================================
