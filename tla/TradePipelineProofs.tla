------------------------ MODULE TradePipelineProofs ------------------------
(***************************************************************************)
(* TLAPS proofs about TradePipeline, for every set of sources, symbols and *)
(* directions and every value of the limits.                               *)
(***************************************************************************)
EXTENDS TradePipeline, TradingHaltProofs, FiniteSetTheorems

USE HaltAssumption, PipelineAssumption DEF HaltAssumption, PipelineAssumption

----------------------------------------------------------------------------
(* What the pipeline does to the breaker's own state.                       *)

\* Every step of the pipeline moves the breaker in one of these ways.
LEMMA NextMovesHalt == Next => HaltMove
<1> SUFFICES ASSUME Move PROVE HaltMove
  BY DEF Next
<1> USE DEF HaltMove
<1>1. CASE \E t \in Sources, s \in Symbols, d \in Directions : Signal(t, s, d)
  BY <1>1 DEF Signal
<1>2. ASSUME NEW t \in Sources, Step(t) PROVE HaltMove
  BY <1>2 DEF Step, SkipHalted, Gate, SkipSignal, RejectSignal, PassSignal,
       OnReject, CheckReject, Block, Approve, CheckBudget, AbandonBlock, Abort
<1>3. CASE \E s \in Symbols, pnl \in Pnls : Closed(s, pnl)
  BY <1>3 DEF Closed
<1>4. CASE CheckLoss \/ OrphanBlock
  BY <1>4 DEF CheckLoss, OrphanBlock
<1>5. CASE Operator
  BY <1>5 DEF Operator, Pause, Resume, ResetButton, TelegramPause, TelegramResume
<1>6. CASE NewDay \/ MidnightReset \/ Restart
  BY <1>6 DEF NewDay, MidnightReset, Restart
<1> QED
  BY <1>1, <1>2, <1>3, <1>4, <1>5, <1>6 DEF Move

----------------------------------------------------------------------------
(* Type correctness.                                                        *)

\* What TypeOK says of everything but the breaker.
PipeTypeOK ==
  /\ stage    \in [Sources -> Stages]
  /\ sym      \in [Sources -> Symbols \cup {None}]
  /\ dir      \in [Sources -> Directions \cup {None}]
  /\ inFlight \in SUBSET Symbols
  /\ open     \in [Symbols -> Directions \cup {None}]
  /\ orphan   \in BOOLEAN
  /\ paused   \in BOOLEAN
  /\ tgPaused \in BOOLEAN

\* The half of the state that the pipeline adds keeps its types.
LEMMA PipeTyped == PipeTypeOK /\ Next => PipeTypeOK'
<1> SUFFICES ASSUME PipeTypeOK, Move PROVE PipeTypeOK'
  BY DEF Next
<1> USE DEF PipeTypeOK, Stages, Working, Goto, Finish
<1>1. ASSUME NEW t \in Sources, NEW s \in Symbols, NEW d \in Directions,
             Signal(t, s, d)
      PROVE  PipeTypeOK'
  BY <1>1 DEF Signal
<1>2. ASSUME NEW t \in Sources, Step(t) PROVE PipeTypeOK'
  <2>1. CASE SkipHalted(t) \/ SkipSignal(t) \/ CheckReject(t) \/ Block(t)
               \/ CheckBudget(t) \/ AbandonBlock(t) \/ Abort(t)
    BY <2>1 DEF SkipHalted, SkipSignal, CheckReject, Block, CheckBudget, AbandonBlock, Abort
  <2>2. CASE Gate(t) \/ RejectSignal(t) \/ PassSignal(t) \/ OnReject(t)
    BY <2>2 DEF Gate, RejectSignal, PassSignal, OnReject
  <2>3. ASSUME NEW usd \in Risks, Approve(t, usd) PROVE PipeTypeOK'
    BY <2>3 DEF Approve
  <2> QED
    BY <1>2, <2>1, <2>2, <2>3 DEF Step
<1>3. ASSUME NEW s \in Symbols, NEW pnl \in Pnls, Closed(s, pnl)
      PROVE  PipeTypeOK'
  BY <1>3 DEF Closed
<1>4. CASE CheckLoss \/ OrphanBlock
  BY <1>4 DEF CheckLoss, OrphanBlock
<1>5. CASE Operator
  BY <1>5 DEF Operator, Pause, Resume, ResetButton, TelegramPause,
       TelegramResume, pipeVars
<1>6. CASE NewDay \/ MidnightReset
  BY <1>6 DEF NewDay, MidnightReset, pipeVars
<1>7. CASE Restart
  BY <1>7 DEF Restart, AllIdle, NoSignal, NoneOpen
<1> QED
  BY <1>1, <1>2, <1>3, <1>4, <1>5, <1>6, <1>7 DEF Move

\* Every variable keeps its type: no counter goes negative, no stage is
\* outside the diagram, no symbol in flight is unknown.
THEOREM TypeCorrect == Spec => []TypeOK
<1>1. Init => TypeOK
  <2> SUFFICES ASSUME Init PROVE TypeOK
    OBVIOUS
  <2>0. 0 \in Nat /\ 0 \in Int
    OBVIOUS
  <2>1. HaltTypeOK
    BY <2>0, Zenon DEF Init, HaltInit, HaltTypeOK
  <2>2. stage \in [Sources -> Stages]
    BY DEF Init, AllIdle, Stages
  <2>3. sym \in [Sources -> Symbols \cup {None}] /\ dir \in [Sources -> Directions \cup {None}]
    BY DEF Init, NoSignal
  <2>4. open \in [Symbols -> Directions \cup {None}]
    BY DEF Init, NoneOpen
  <2> QED
    BY <2>1, <2>2, <2>3, <2>4 DEF Init, TypeOK
<1>2. TypeOK /\ [Next]_vars => TypeOK'
  <2> SUFFICES ASSUME TypeOK, [Next]_vars PROVE TypeOK'
    OBVIOUS
  <2>1. CASE Next
    <3>1. HaltTypeOK'
      BY <2>1, HaltTyped, NextMovesHalt DEF TypeOK
    <3>2. PipeTypeOK'
      BY <2>1, PipeTyped DEF TypeOK, PipeTypeOK
    <3>3. lateBy' \in SUBSET Sources
      BY <2>1 DEF Next, Remember, TypeOK
    <3> QED
      BY <3>1, <3>2, <3>3 DEF TypeOK, PipeTypeOK
  <2>2. CASE UNCHANGED vars
    BY <2>2 DEF vars, haltVars, pipeVars, TypeOK, HaltTypeOK
  <2> QED
    BY <2>1, <2>2
<1> QED
  BY <1>1, <1>2, PTL DEF Spec

----------------------------------------------------------------------------
(* No stacking.                                                             *)

\* A source at work holds its symbol in flight, and no other source works on
\* that symbol.
Exclusive ==
  /\ \A t \in Sources : stage[t] \in Working => sym[t] \in inFlight /\ dir[t] \in Directions
  /\ \A t, u \in Sources :
       stage[t] \in Working /\ stage[u] \in Working /\ sym[t] = sym[u] => t = u

\* The filter's book only changes for the symbol a source holds, or by closing;
\* so Exclusive makes NoStacking inductive.
StackInv == Exclusive /\ NoStacking

\* Initially nobody is at work and nothing is booked.
LEMMA StackInvInit == Init => StackInv
BY DEF Init, AllIdle, StackInv, Exclusive, NoStacking, Working

\* Only one pipeline starts for a symbol: the others are in inFlight.
LEMMA SignalKeepsStackInv ==
  ASSUME TypeOK, StackInv, NEW t \in Sources, NEW s \in Symbols, NEW d \in Directions,
         Signal(t, s, d)
  PROVE  StackInv'
<1> USE DEF Signal, Goto, TypeOK, Stages, Working, StackInv
<1>1. Exclusive'
  BY DEF Exclusive
<1>2. NoStacking'
  BY DEF NoStacking
<1> QED
  BY <1>1, <1>2

\* A pipeline that ends releases only the symbol it holds.
LEMMA FinishKeepsStackInv ==
  ASSUME TypeOK, StackInv, NEW t \in Sources, stage[t] \in Working, Finish(t),
         UNCHANGED open
  PROVE  StackInv'
<1> USE DEF Finish, Goto, TypeOK, Stages, Working, StackInv
<1>1. Exclusive'
  BY DEF Exclusive
<1>2. NoStacking'
  BY DEF NoStacking
<1> QED
  BY <1>1, <1>2

\* A pipeline that goes on may enter the review only in a direction the book
\* does not hold.
LEMMA GotoKeepsStackInv ==
  ASSUME TypeOK, StackInv, NEW t \in Sources, NEW to \in Working,
         stage[t] \in Working, Goto(t, to),
         to = "review" => open[sym[t]] # dir[t],
         UNCHANGED <<sym, dir, inFlight, open>>
  PROVE  StackInv'
<1> USE DEF Goto, TypeOK, Stages, Working, StackInv
<1>1. Exclusive'
  BY DEF Exclusive
<1>2. NoStacking'
  BY DEF NoStacking
<1> QED
  BY <1>1, <1>2

\* A booking harms no other source, which works on another symbol.
LEMMA ApproveKeepsStackInv ==
  ASSUME TypeOK, StackInv, NEW t \in Sources, NEW usd \in Risks, Approve(t, usd)
  PROVE  StackInv'
<1> USE DEF Approve, Goto, TypeOK, Stages, Working, StackInv
<1>1. Exclusive'
  BY DEF Exclusive
<1>2. NoStacking'
  <2> SUFFICES ASSUME NEW u \in Sources, stage'[u] = "review"
               PROVE  open'[sym'[u]] # dir'[u]
    BY DEF NoStacking
  <2>1. u # t /\ stage[u] = "review"
    OBVIOUS
  <2>2. sym[u] # sym[t] /\ sym[u] \in Symbols /\ sym[t] \in Symbols
    BY <2>1 DEF Exclusive
  <2> QED
    BY <2>1, <2>2 DEF NoStacking
<1> QED
  BY <1>1, <1>2

\* A close only takes from the book.
LEMMA ClosedKeepsStackInv ==
  ASSUME TypeOK, StackInv, NEW s \in Symbols, NEW pnl \in Pnls, Closed(s, pnl)
  PROVE  StackInv'
<1> USE DEF Closed, Goto, TypeOK, Stages, Working, StackInv
<1>1. Exclusive'
  BY DEF Exclusive
<1>2. NoStacking'
  <2> SUFFICES ASSUME NEW u \in Sources, stage'[u] = "review"
               PROVE  open'[sym'[u]] # dir'[u]
    BY DEF NoStacking
  <2>1. stage[u] = "review" /\ dir[u] \in Directions /\ sym[u] \in Symbols
    BY DEF Exclusive
  <2> QED
    BY <2>1 DEF NoStacking
<1> QED
  BY <1>1, <1>2

\* Every step keeps the symbols of the sources at work apart and unstacked.
LEMMA StackInvStep == TypeOK /\ StackInv /\ Next => StackInv'
<1> SUFFICES ASSUME TypeOK, StackInv, Move PROVE StackInv'
  BY DEF Next
<1>1. CASE \E t \in Sources, s \in Symbols, d \in Directions : Signal(t, s, d)
  BY <1>1, SignalKeepsStackInv
<1>2. ASSUME NEW t \in Sources, Step(t) PROVE StackInv'
  <2>1. CASE SkipHalted(t) \/ SkipSignal(t) \/ CheckReject(t) \/ Block(t)
               \/ CheckBudget(t) \/ AbandonBlock(t) \/ Abort(t)
    BY <2>1, FinishKeepsStackInv DEF SkipHalted, SkipSignal, CheckReject, Block,
         CheckBudget, AbandonBlock, Abort, Working
  <2>2. CASE Gate(t) \/ RejectSignal(t) \/ PassSignal(t) \/ OnReject(t)
    BY <2>2, GotoKeepsStackInv DEF Gate, RejectSignal, PassSignal, OnReject, Working
  <2>3. CASE \E usd \in Risks : Approve(t, usd)
    BY <2>3, ApproveKeepsStackInv
  <2> QED
    BY <1>2, <2>1, <2>2, <2>3 DEF Step
<1>3. CASE \E s \in Symbols, pnl \in Pnls : Closed(s, pnl)
  BY <1>3, ClosedKeepsStackInv
<1>4. CASE CheckLoss \/ OrphanBlock
  BY <1>4 DEF CheckLoss, OrphanBlock, Goto, TypeOK, Stages, Working, StackInv, Exclusive,
       NoStacking
<1>5. CASE Operator
  BY <1>5 DEF Operator, Pause, Resume, ResetButton, TelegramPause, TelegramResume,
       pipeVars, StackInv, Exclusive, NoStacking
<1>6. CASE NewDay \/ MidnightReset
  BY <1>6 DEF NewDay, MidnightReset, pipeVars, StackInv, Exclusive, NoStacking
<1>7. CASE Restart
  BY <1>7 DEF Restart, AllIdle, Working, StackInv, Exclusive, NoStacking
<1> QED
  BY <1>1, <1>2, <1>3, <1>4, <1>5, <1>6, <1>7 DEF Move

\* A source under review never proposes a direction the filter believes open:
\* between the check and the approval lies an LLM call, and no other source can
\* change the symbol's entry meanwhile.
THEOREM NeverStacks == Spec => []NoStacking
<1>1. Init => StackInv
  BY StackInvInit
<1>2. TypeOK /\ StackInv /\ [Next]_vars => StackInv'
  <2>1. CASE Next
    BY <2>1, StackInvStep
  <2>2. CASE UNCHANGED vars
    BY <2>2 DEF vars, pipeVars, StackInv, Exclusive, NoStacking
  <2> QED
    BY <2>1, <2>2
<1>3. StackInv => NoStacking
  BY DEF StackInv
<1> QED
  BY <1>1, <1>2, <1>3, TypeCorrect, PTL DEF Spec

----------------------------------------------------------------------------
(* No missed trip.                                                          *)

\* A refresh leaves each counter below its limit or as it was, and nothing but
\* the comparison ends the stage that owes it.
LEMMA TripStep ==
  ASSUME TypeOK, NoMissedTrip, Next
  PROVE  NoMissedTrip'
<1> SUFFICES ASSUME Move PROVE NoMissedTrip'
  BY DEF Next
<1> USE DEF TypeOK, HaltTypeOK, Stages, Working, NoMissedTrip, TooManyRejects,
            BudgetSpent, LossLimitHit, Goto, Finish, haltVars, pipeVars, Refreshed, Today
<1>1. CASE \E t \in Sources, s \in Symbols, d \in Directions : Signal(t, s, d)
  BY <1>1 DEF Signal
<1>2. ASSUME NEW t \in Sources, Step(t) PROVE NoMissedTrip'
  <2>1. CASE SkipHalted(t) \/ SkipSignal(t) \/ AbandonBlock(t) \/ Abort(t)
    BY <2>1 DEF SkipHalted, SkipSignal, AbandonBlock, Abort
  <2>2. CASE Gate(t) \/ RejectSignal(t) \/ PassSignal(t)
    BY <2>2 DEF Gate, RejectSignal, PassSignal
  <2>3. CASE OnReject(t)
    BY <2>3 DEF OnReject, CountReject
  <2>4. CASE CheckReject(t)
    BY <2>4 DEF CheckReject, Trip
  <2>5. CASE Block(t)
    BY <2>5 DEF Block, ForgetRejects
  <2>6. CASE \E usd \in Risks : Approve(t, usd)
    BY <2>6 DEF Approve, CountApproved
  <2>7. CASE CheckBudget(t)
    BY <2>7 DEF CheckBudget, Trip
  <2> QED
    BY <1>2, <2>1, <2>2, <2>3, <2>4, <2>5, <2>6, <2>7 DEF Step
<1>3. CASE \E s \in Symbols, pnl \in Pnls : Closed(s, pnl)
  BY <1>3 DEF Closed, CountPnl
<1>4. CASE CheckLoss
  BY <1>4 DEF CheckLoss, Trip
<1>5. CASE OrphanBlock
  BY <1>5 DEF OrphanBlock, ForgetRejects
<1>6. CASE Operator
  BY <1>6 DEF Operator, Pause, Resume, ResetButton, TelegramPause, TelegramResume,
       ResetRequest, Reset, Cleared
<1>7. CASE NewDay \/ MidnightReset \/ Restart
  BY <1>7 DEF NewDay, DayEnds, MidnightReset, MidnightClears, Restart, HaltRestart, Cleared
<1> QED
  BY <1>1, <1>2, <1>3, <1>4, <1>5, <1>6, <1>7 DEF Move

\* A limit that is reached has tripped the breaker or has the handler that
\* counted it still between its save and its comparison.
THEOREM TripsAreNotMissed == Spec => []NoMissedTrip
<1>1. Init => NoMissedTrip
  BY DEF Init, HaltInit, NoMissedTrip, TooManyRejects, BudgetSpent, LossLimitHit
<1>2. TypeOK /\ NoMissedTrip /\ [Next]_vars => NoMissedTrip'
  <2>1. ASSUME TypeOK, NoMissedTrip, Next PROVE NoMissedTrip'
    BY <2>1, TripStep
  <2>2. ASSUME NoMissedTrip, UNCHANGED vars PROVE NoMissedTrip'
    BY <2>2 DEF vars, haltVars, pipeVars, NoMissedTrip, TooManyRejects, BudgetSpent,
         LossLimitHit
  <2> QED
    BY <2>1, <2>2
<1> QED
  BY <1>1, <1>2, TypeCorrect, PTL DEF Spec

----------------------------------------------------------------------------
(* One late approval.                                                       *)

\* A source that got a trade approved while trading is halted is not past the
\* gate any more, and the gate is closed.
LateBarred ==
  Halted => \A t \in lateBy : stage[t] \notin {"vetting", "review"}

\* Only the gate lets a source in, and only while nothing is halted.
LEMMA OnlyGateAdmits ==
  ASSUME TypeOK, Next, Halted, NEW t \in Sources,
         stage'[t] \in {"vetting", "review"}
  PROVE  stage[t] \in {"vetting", "review"}
<1> SUFFICES ASSUME Move PROVE stage[t] \in {"vetting", "review"}
  BY DEF Next
<1> USE DEF TypeOK, Stages, Working, Goto, Finish, pipeVars
<1>1. CASE \E u \in Sources, s \in Symbols, d \in Directions : Signal(u, s, d)
  BY <1>1 DEF Signal
<1>2. ASSUME NEW u \in Sources, Step(u) PROVE stage[t] \in {"vetting", "review"}
  BY <1>2 DEF Step, SkipHalted, Gate, SkipSignal, RejectSignal, PassSignal,
       OnReject, CheckReject, Block, Approve, CheckBudget, AbandonBlock, Abort
<1>3. CASE \E s \in Symbols, pnl \in Pnls : Closed(s, pnl)
  BY <1>3 DEF Closed
<1>4. CASE CheckLoss \/ OrphanBlock
  BY <1>4 DEF CheckLoss, OrphanBlock
<1>5. CASE Operator
  BY <1>5 DEF Operator, Pause, Resume, ResetButton, TelegramPause, TelegramResume
<1>6. CASE NewDay \/ MidnightReset \/ Restart
  BY <1>6 DEF NewDay, MidnightReset, Restart, AllIdle
<1> QED
  BY <1>1, <1>2, <1>3, <1>4, <1>5, <1>6 DEF Move

\* While trading is halted, the gate lets no source return to the review.
LEMMA LateBarredStep == TypeOK /\ LateBarred /\ Next => LateBarred'
<1> SUFFICES ASSUME TypeOK, LateBarred, Next, Halted',
                    NEW t \in lateBy', stage'[t] \in {"vetting", "review"}
             PROVE  FALSE
  BY DEF LateBarred
<1>1. Halted /\ (t \in lateBy \/ (t \in Sources /\ Approved(t)))
  BY DEF Next, Remember
<1>2. t \in Sources
  BY <1>1 DEF TypeOK
<1>3. ~Approved(t)
  BY DEF Approved
<1> QED
  BY <1>1, <1>2, <1>3, OnlyGateAdmits DEF LateBarred

\* From the moment trading is halted until it is allowed again, no source gets
\* a second trade approved.
THEOREM AtMostOneLateApproval == Spec => OneLateApproval
<1>1. Init => LateBarred
  BY DEF Init, LateBarred
<1>2. TypeOK /\ LateBarred /\ [Next]_vars => LateBarred'
  <2>1. ASSUME LateBarred, UNCHANGED vars PROVE LateBarred'
    BY <2>1 DEF vars, haltVars, pipeVars, LateBarred, Halted
  <2> QED
    BY <2>1, LateBarredStep
<1>3. LateBarred /\ [Next]_vars
        => [\A t \in Sources : Approved(t) /\ Halted => t \notin lateBy]_vars
  BY DEF LateBarred, Approved
<1> QED
  BY <1>1, <1>2, <1>3, TypeCorrect, PTL DEF Spec, OneLateApproval

----------------------------------------------------------------------------
(* The budget's overshoot.                                                  *)

Booked == {t \in Sources : stage[t] = "booked"}
MayAdd == {t \in Sources : stage[t] \in {"vetting", "review"}}

\* Until the breaker trips, only booked sources have carried the day past its
\* budget; from then on only those past the gate can add to it.
BoundedBy(most) ==
  /\ ~triggered => dayNotional < DailyBudget + most * Cardinality(Booked)
  /\ triggered  => dayNotional + most * Cardinality(MayAdd)
                     < DailyBudget + most * Cardinality(Sources)

BudgetInv ==
  \A most \in Nat : (\A usd \in Risks : usd <= most) => BoundedBy(most)

\* Multiplication is monotonic, and nothing more is needed of it.
LEMMA TimesMonotone ==
  ASSUME NEW m \in Nat, NEW a \in Nat, NEW b \in Nat, a <= b
  PROVE  m * a <= m * b /\ m * a \in Nat /\ m * b \in Nat
<1>1. PICK c \in Nat : b = a + c
  <2>1. b - a \in Nat /\ b = a + (b - a)
    OBVIOUS
  <2> QED
    BY <2>1
<1>2. m * b = m * a + m * c
  BY <1>1
<1>3. m * a \in Nat /\ m * b \in Nat /\ m * c \in Nat
  BY <1>1
<1> QED
  BY <1>2, <1>3

\* Sizes of sets of sources.
LEMMA SourceSets ==
  ASSUME NEW A \in SUBSET Sources
  PROVE  /\ IsFiniteSet(A)
         /\ Cardinality(A) \in Nat
         /\ Cardinality(Sources) \in Nat
         /\ Cardinality(A) <= Cardinality(Sources)
BY FS_Subset, FS_CardinalityType

\* A part of some sources is no more than they are.
LEMMA Smaller ==
  ASSUME NEW A \in SUBSET Sources, NEW B \in SUBSET A
  PROVE  Cardinality(B) <= Cardinality(A)
BY FS_Subset, SourceSets

\* A source that is booked is past the point of adding again.
LEMMA BookedOrMayAdd == Cardinality(Booked) + Cardinality(MayAdd) <= Cardinality(Sources)
<1>1. Booked \in SUBSET Sources /\ MayAdd \in SUBSET Sources /\ Booked \cap MayAdd = {}
  BY DEF Booked, MayAdd
<1>2. Cardinality(Booked \cup MayAdd) = Cardinality(Booked) + Cardinality(MayAdd)
  <2>1. IsFiniteSet(Booked) /\ IsFiniteSet(MayAdd)
    BY <1>1, SourceSets
  <2>2. Cardinality(Booked \cup MayAdd)
          = Cardinality(Booked) + Cardinality(MayAdd) - Cardinality(Booked \cap MayAdd)
    BY <2>1, FS_Union
  <2>3. Cardinality(Booked \cap MayAdd) = 0
    BY <1>1, FS_EmptySet
  <2> QED
    BY <1>1, <2>2, <2>3, SourceSets
<1>3. Cardinality(Booked \cup MayAdd) <= Cardinality(Sources)
  BY <1>1, SourceSets
<1>4. Cardinality(Booked) \in Nat /\ Cardinality(MayAdd) \in Nat
  BY <1>1, SourceSets
<1> QED
  BY <1>2, <1>3

\* The count of the day restarts from zero and nothing is tripped.
LEMMA BoundRestarts ==
  ASSUME NEW most \in Nat, stage' \in [Sources -> Stages], dayNotional' = 0, ~triggered'
  PROVE  BoundedBy(most)'
<1>1. Booked' \in SUBSET Sources
  BY DEF Booked
<1>2. most * Cardinality(Booked') \in Nat
  BY <1>1, SourceSets, TimesMonotone
<1> QED
  BY <1>2 DEF BoundedBy

\* Nothing is added and, as far as the breaker lets them, the sources only
\* leave the sets that count.
LEMMA BoundKept ==
  ASSUME NEW most \in Nat, BoundedBy(most), dayNotional \in Nat,
         dayNotional' = dayNotional, triggered' = triggered,
         triggered => MayAdd' \subseteq MayAdd,
         ~triggered => Booked' = Booked
  PROVE  BoundedBy(most)'
<1>1. MayAdd \in SUBSET Sources /\ Cardinality(MayAdd) \in Nat /\ Cardinality(Sources) \in Nat
  BY SourceSets DEF MayAdd
<1>2. CASE triggered
  <2>1. MayAdd' \in SUBSET MayAdd
    BY <1>2
  <2>2. Cardinality(MayAdd') <= Cardinality(MayAdd) /\ Cardinality(MayAdd') \in Nat
    BY <1>1, <2>1, Smaller, SourceSets
  <2>3. /\ most * Cardinality(MayAdd') <= most * Cardinality(MayAdd)
        /\ most * Cardinality(MayAdd') \in Nat
        /\ most * Cardinality(MayAdd) \in Nat
        /\ most * Cardinality(Sources) \in Nat
    BY <1>1, <2>2, TimesMonotone
  <2> QED
    BY <1>2, <2>3 DEF BoundedBy
<1>3. CASE ~triggered
  BY <1>3 DEF BoundedBy
<1> QED
  BY <1>2, <1>3

\* A comparison: if the breaker trips, whoever may still add was not booked.
LEMMA BoundTripped ==
  ASSUME NEW most \in Nat, BoundedBy(most), NEW limit, dayNotional \in Nat,
         Trip(limit), MayAdd' \subseteq MayAdd,
         ~triggered /\ ~limit => dayNotional < DailyBudget \/ Booked' = Booked,
         stage' \in [Sources -> Stages]
  PROVE  BoundedBy(most)'
<1>1. /\ MayAdd \in SUBSET Sources /\ Booked \in SUBSET Sources /\ Booked' \in SUBSET Sources
      /\ MayAdd' \in SUBSET MayAdd
  BY DEF MayAdd, Booked
<1>2. /\ Cardinality(MayAdd) \in Nat /\ Cardinality(Sources) \in Nat
      /\ Cardinality(Booked) \in Nat /\ Cardinality(Booked') \in Nat
      /\ Cardinality(MayAdd') \in Nat /\ Cardinality(MayAdd') <= Cardinality(MayAdd)
  BY <1>1, SourceSets, Smaller
<1>3. dayNotional' = dayNotional
  BY DEF Trip
<1>4. CASE triggered
  <2>1. triggered'
    BY <1>4 DEF Trip
  <2> QED
    BY <1>2, <1>3, <1>4, <2>1, TimesMonotone DEF BoundedBy
<1>5. CASE ~triggered /\ limit
  <2>1. triggered'
    BY <1>5 DEF Trip
  <2>2. Cardinality(Booked) + Cardinality(MayAdd') <= Cardinality(Sources)
    BY <1>2, BookedOrMayAdd
  <2>3. most * (Cardinality(Booked) + Cardinality(MayAdd')) <= most * Cardinality(Sources)
    BY <1>2, <2>2, TimesMonotone
  <2>4. most * (Cardinality(Booked) + Cardinality(MayAdd'))
          = most * Cardinality(Booked) + most * Cardinality(MayAdd')
    BY <1>2
  <2>5. /\ most * Cardinality(Booked) \in Nat /\ most * Cardinality(MayAdd') \in Nat
        /\ most * Cardinality(Sources) \in Nat
    BY <1>2, TimesMonotone
  <2>6. dayNotional < DailyBudget + most * Cardinality(Booked)
    BY <1>5 DEF BoundedBy
  <2>7. dayNotional + most * Cardinality(MayAdd') < DailyBudget + most * Cardinality(Sources)
    BY <2>3, <2>4, <2>5, <2>6
  <2> QED
    BY <1>3, <2>1, <2>7 DEF BoundedBy
<1>6. CASE ~triggered /\ ~limit
  <2>1. ~triggered'
    BY <1>6 DEF Trip
  <2>2. most * Cardinality(Booked') \in Nat
    BY <1>2, TimesMonotone
  <2>3. dayNotional < DailyBudget \/ Booked' = Booked
    BY <1>6
  <2>4. dayNotional < DailyBudget + most * Cardinality(Booked')
    BY <1>6, <2>2, <2>3 DEF BoundedBy
  <2> QED
    BY <1>3, <2>1, <2>4 DEF BoundedBy
<1> QED
  BY <1>4, <1>5, <1>6

\* An approval adds at most `most`, and moves its source from MayAdd to Booked.
LEMMA BoundApproved ==
  ASSUME TypeOK, NEW most \in Nat, BoundedBy(most), NEW t \in Sources, NEW usd \in Risks,
         usd <= most, Approve(t, usd)
  PROVE  BoundedBy(most)'
<1> USE DEF TypeOK, HaltTypeOK
<1>1. t \in MayAdd /\ t \notin Booked
  BY DEF Approve, MayAdd, Booked
<1>2. Booked' = Booked \cup {t} /\ MayAdd' = MayAdd \ {t}
  BY DEF Approve, MayAdd, Booked, Goto
<1>3. /\ Booked \in SUBSET Sources /\ MayAdd \in SUBSET Sources
      /\ IsFiniteSet(Booked) /\ IsFiniteSet(MayAdd)
      /\ Cardinality(Booked) \in Nat /\ Cardinality(MayAdd) \in Nat
      /\ Cardinality(Sources) \in Nat
  BY SourceSets DEF Booked, MayAdd
<1>4. Cardinality(Booked') = Cardinality(Booked) + 1
  BY <1>1, <1>2, <1>3, FS_AddElement
<1>5. Cardinality(MayAdd') = Cardinality(MayAdd) - 1
  BY <1>1, <1>2, <1>3, FS_RemoveElement
<1>6. most * Cardinality(Booked') = most * Cardinality(Booked) + most
  BY <1>3, <1>4
<1>7. most * Cardinality(MayAdd') = most * Cardinality(MayAdd) - most
  BY <1>3, <1>5
<1>8. /\ most * Cardinality(Booked) \in Nat /\ most * Cardinality(MayAdd) \in Nat
      /\ most * Cardinality(Sources) \in Nat
  BY <1>3, TimesMonotone
<1>9. CASE newDay
  <2>1. dayNotional' = usd
    BY <1>9 DEF Approve, CountApproved, Refreshed, Today
  <2>2. ~triggered'
    BY <1>9, Zenon DEF Approve, CountApproved, Refreshed
  <2> QED
    BY <1>6, <1>8, <2>1, <2>2 DEF BoundedBy
<1>10. CASE ~newDay
  <2>1. dayNotional' = dayNotional + usd
    BY <1>10 DEF Approve, CountApproved, Refreshed, Today
  <2>2. triggered' = triggered
    BY <1>10, Zenon DEF Approve, CountApproved, Refreshed, TypeOK, HaltTypeOK
  <2>3. CASE triggered
    BY <1>7, <1>8, <2>1, <2>2, <2>3 DEF BoundedBy
  <2>4. CASE ~triggered
    BY <1>6, <1>8, <2>1, <2>2, <2>4 DEF BoundedBy
  <2> QED
    BY <2>3, <2>4
<1> QED
  BY <1>9, <1>10

\* A refresh that adds nothing restarts the day or changes neither side.
LEMMA BoundRefreshed ==
  ASSUME TypeOK, NEW most \in Nat, BoundedBy(most), NEW c, NEW p,
         Refreshed(c, Today(dayNotional), p),
         stage' \in [Sources -> Stages], MayAdd' \subseteq MayAdd, Booked' = Booked
  PROVE  BoundedBy(most)'
<1>1. CASE newDay
  <2>1. dayNotional' = 0 /\ ~triggered'
    BY <1>1 DEF Refreshed, Today
  <2> QED
    BY <2>1, BoundRestarts
<1>2. CASE ~newDay
  <2>1. dayNotional' = dayNotional /\ triggered' = triggered
    BY <1>2, Zenon DEF Refreshed, Today, TypeOK, HaltTypeOK
  <2> QED
    BY <2>1, BoundKept DEF TypeOK, HaltTypeOK
<1> QED
  BY <1>1, <1>2

\* Every step keeps the day's risk within the bound.
LEMMA BudgetStep ==
  ASSUME TypeOK, Next, NEW most \in Nat, \A usd \in Risks : usd <= most, BoundedBy(most)
  PROVE  BoundedBy(most)'
<1>1. stage' \in [Sources -> Stages] /\ dayNotional \in Nat
  BY PipeTyped DEF TypeOK, PipeTypeOK, HaltTypeOK
<1>2. Move
  BY DEF Next
<1> USE DEF Goto, Finish
<1>3. CASE \E t \in Sources, s \in Symbols, d \in Directions : Signal(t, s, d)
  <2>1. MayAdd' \subseteq MayAdd /\ Booked' = Booked
    BY <1>3 DEF Signal, MayAdd, Booked, TypeOK
  <2> QED
    BY <1>1, <1>3, <2>1, BoundKept DEF Signal, haltVars
<1>4. ASSUME NEW t \in Sources, Step(t) PROVE BoundedBy(most)'
  <2>1. CASE SkipHalted(t) \/ SkipSignal(t) \/ AbandonBlock(t) \/ Abort(t)
    <3>1. MayAdd' \subseteq MayAdd /\ Booked' = Booked
      BY <2>1 DEF SkipHalted, SkipSignal, AbandonBlock, Abort, MayAdd, Booked, TypeOK
    <3> QED
      BY <1>1, <2>1, <3>1, BoundKept DEF SkipHalted, SkipSignal, AbandonBlock, Abort, haltVars
  <2>2. CASE Gate(t)
    <3>1. ~triggered /\ Booked' = Booked
      BY <2>2 DEF Gate, Halted, Booked, TypeOK
    <3> QED
      BY <1>1, <2>2, <3>1, BoundKept DEF Gate, haltVars
  <2>3. CASE RejectSignal(t) \/ PassSignal(t)
    <3>1. MayAdd' \subseteq MayAdd /\ Booked' = Booked
      BY <2>3 DEF RejectSignal, PassSignal, MayAdd, Booked, TypeOK
    <3> QED
      BY <1>1, <2>3, <3>1, BoundKept DEF RejectSignal, PassSignal, haltVars
  <2>4. CASE OnReject(t) \/ Block(t)
    <3>1. MayAdd' \subseteq MayAdd /\ Booked' = Booked
      BY <2>4 DEF OnReject, Block, MayAdd, Booked, TypeOK
    <3> QED
      BY <1>1, <2>4, <3>1, BoundRefreshed DEF OnReject, Block, CountReject, ForgetRejects
  <2>5. CASE CheckReject(t)
    <3>1. MayAdd' \subseteq MayAdd /\ Booked' = Booked
      BY <2>5 DEF CheckReject, MayAdd, Booked, TypeOK
    <3> QED
      BY <1>1, <2>5, <3>1, BoundTripped DEF CheckReject
  <2>6. CASE \E usd \in Risks : Approve(t, usd)
    BY <2>6, BoundApproved
  <2>7. CASE CheckBudget(t)
    <3>1. MayAdd' \subseteq MayAdd
      BY <2>7 DEF CheckBudget, MayAdd, TypeOK
    <3>2. ~BudgetSpent => dayNotional < DailyBudget
      BY <1>1 DEF BudgetSpent
    <3> QED
      BY <1>1, <2>7, <3>1, <3>2, BoundTripped DEF CheckBudget
  <2> QED
    BY <1>4, <2>1, <2>2, <2>3, <2>4, <2>5, <2>6, <2>7 DEF Step
<1>5. CASE \E s \in Symbols, pnl \in Pnls : Closed(s, pnl)
  <2>1. MayAdd' \subseteq MayAdd /\ Booked' = Booked
    BY <1>5 DEF Closed, MayAdd, Booked, TypeOK
  <2> QED
    BY <1>1, <1>5, <2>1, BoundRefreshed DEF Closed, CountPnl
<1>6. CASE CheckLoss
  <2>1. MayAdd' \subseteq MayAdd /\ Booked' = Booked
    BY <1>6 DEF CheckLoss, MayAdd, Booked, TypeOK
  <2> QED
    BY <1>1, <1>6, <2>1, BoundTripped DEF CheckLoss
<1>7. ASSUME UNCHANGED stage,
             UNCHANGED <<triggered, dayNotional>> \/ (dayNotional' = 0 /\ ~triggered')
      PROVE  BoundedBy(most)'
  BY <1>1, <1>7, BoundKept, BoundRestarts DEF MayAdd, Booked
<1>8. CASE Operator
  BY <1>7, <1>8 DEF Operator, Pause, Resume, ResetButton, TelegramPause, TelegramResume,
       ResetRequest, Reset, Cleared, haltVars, pipeVars
<1>9. CASE NewDay \/ MidnightReset
  BY <1>7, <1>9 DEF NewDay, DayEnds, MidnightReset, MidnightClears, Cleared, pipeVars
<1>10. CASE Restart
  BY <1>1, <1>10, BoundRestarts DEF Restart, HaltRestart, Cleared
<1>11. CASE OrphanBlock
  <2>1. MayAdd' = MayAdd /\ Booked' = Booked
    BY <1>11 DEF OrphanBlock, MayAdd, Booked
  <2> QED
    BY <1>1, <1>11, <2>1, BoundRefreshed DEF OrphanBlock, ForgetRejects
<1> QED
  BY <1>2, <1>3, <1>4, <1>5, <1>6, <1>8, <1>9, <1>10, <1>11 DEF Move

\* The day's risk exceeds the budget by less than the largest order of every
\* source: the check comes after the order, and those past the gate are not
\* called back.
THEOREM OvershootIsBounded == Spec => []BudgetOvershoot
<1>1. Init => BudgetInv
  <2> SUFFICES ASSUME Init, NEW most \in Nat PROVE BoundedBy(most)
    BY DEF BudgetInv
  <2>1. Booked \in SUBSET Sources
    BY DEF Booked
  <2>2. most * Cardinality(Booked) \in Nat
    BY <2>1, SourceSets, TimesMonotone
  <2> QED
    BY <2>2 DEF Init, HaltInit, BoundedBy
<1>2. TypeOK /\ BudgetInv /\ [Next]_vars => BudgetInv'
  <2>1. ASSUME TypeOK, BudgetInv, Next PROVE BudgetInv'
    BY <2>1, BudgetStep DEF BudgetInv
  <2>2. ASSUME BudgetInv, UNCHANGED vars PROVE BudgetInv'
    BY <2>2 DEF vars, haltVars, pipeVars, BudgetInv, BoundedBy, Booked, MayAdd
  <2> QED
    BY <2>1, <2>2
<1>3. TypeOK /\ BudgetInv => BudgetOvershoot
  <2> SUFFICES ASSUME TypeOK, BudgetInv, NEW most \in Risks, \A usd \in Risks : usd <= most
               PROVE  dayNotional < DailyBudget + most * Cardinality(Sources)
    BY DEF BudgetOvershoot
  <2>1. most \in Nat /\ BoundedBy(most)
    BY DEF BudgetInv
  <2>2. /\ Booked \in SUBSET Sources /\ MayAdd \in SUBSET Sources
        /\ Cardinality(Booked) \in Nat /\ Cardinality(MayAdd) \in Nat
        /\ Cardinality(Sources) \in Nat
        /\ Cardinality(Booked) <= Cardinality(Sources)
    BY SourceSets DEF Booked, MayAdd
  <2>3. /\ most * Cardinality(Booked) <= most * Cardinality(Sources)
        /\ {most * Cardinality(Booked), most * Cardinality(MayAdd),
            most * Cardinality(Sources)} \subseteq Nat
    BY <2>1, <2>2, TimesMonotone
  <2> QED
    BY <2>1, <2>2, <2>3 DEF BoundedBy, TypeOK, HaltTypeOK
<1> QED
  BY <1>1, <1>2, <1>3, TypeCorrect, PTL DEF Spec

=============================================================================
