--------------------------- MODULE Subscriptions ---------------------------
(***************************************************************************)
(* Paid subscriptions: requests, the approval (three statements, no          *)
(* transaction, several admins), and the hourly loop of the kernel that      *)
(* expires what was paid for.  Time is in units of the shortest plan.       *)
(***************************************************************************)
EXTENDS Integers, FiniteSets

CONSTANTS
  Requests, Admins,
  Customers,    \* telegram ids
  NoId,         \* the id that stands for none: telegram_id = 0, and UNIQUE
  IdOf,         \* the id in each request
  Days,         \* how long each request's plan lasts
  DaysInputs,   \* what an admin enters who adds a subscriber by hand
  MaxDay,       \* bound: time
  MaxAway       \* bound: rounds of the loop in which the gateway is away

ASSUME SubscriptionsAssumption ==
  /\ IsFiniteSet(Requests) /\ NoId \notin Customers
  /\ IdOf \in [Requests -> Customers \cup {NoId}]
  /\ Days \in [Requests -> Nat \ {0}] /\ DaysInputs \subseteq Int /\ MaxDay \in Nat /\ MaxAway \in Nat

VARIABLES
  request,     \* status of each request
  subscriber,  \* status and expires_at by telegram_id
  approving,   \* the request an admin approves, and how far it is
  day, looping, away,
  byHand       \* history: expires_at that an admin gave the id by hand

subVars == <<request, subscriber, approving, day, looping, away, byHand>>

Ids == Customers \cup {NoId}
Idle == [step |-> "idle"]

SubTypeOK ==
  /\ request \in [Requests -> {"none", "pending", "approved", "rejected"}]
  /\ subscriber \in [Ids -> [status : {"none", "active", "expired", "cancelled"}, until : Int]]
  /\ approving \in [Admins -> {Idle} \cup [step : {"insert", "mark"}, of : Requests]]
  /\ day \in 0 .. MaxDay /\ looping \in BOOLEAN /\ away \in 0 .. MaxAway
  /\ byHand \in [Ids -> Int]

SubInit ==
  /\ request = [r \in Requests |-> "none"]
  /\ subscriber = [c \in Ids |-> [status |-> "none", until |-> 0]]
  /\ approving = [a \in Admins |-> Idle]
  /\ day = 0 /\ looping = TRUE /\ away = 0
  /\ byHand = [c \in Ids |-> 0]

Ask(r) ==
  /\ request[r] = "none"
  /\ request' = [request EXCEPT ![r] = "pending"]
  /\ UNCHANGED <<subscriber, approving, day, looping, away, byHand>>

ReadRequest(a, r) ==
  /\ approving[a] = Idle /\ request[r] = "pending"
  /\ approving' = [approving EXCEPT ![a] = [step |-> "insert", of |-> r]]
  /\ UNCHANGED <<request, subscriber, day, looping, away, byHand>>

\* Mutant: a renewal is added to what is left, a second approval too.
AddedTo(id, days) ==
  (IF subscriber[id].status = "active" THEN subscriber[id].until ELSE day) + days

PaidUntil(id, days) == day + days

Subscribes(id, days) ==
  subscriber' = [subscriber EXCEPT ![id] = [status |-> "active", until |-> PaidUntil(id, days)]]

\* Without an id there is no ON CONFLICT: the second such row violates UNIQUE.
Insert(a) ==
  /\ approving[a] # Idle /\ approving[a].step = "insert"
  /\ LET r == approving[a].of  id == IdOf[r] IN
       IF id = NoId /\ subscriber[id].status # "none"
         THEN approving' = [approving EXCEPT ![a] = Idle] /\ UNCHANGED subscriber
         ELSE Subscribes(id, Days[r]) /\ approving' = [approving EXCEPT ![a].step = "mark"]
  /\ UNCHANGED <<request, day, looping, away, byHand>>

MarkApproved(a) ==
  /\ approving[a] # Idle /\ approving[a].step = "mark"
  /\ request' = [request EXCEPT ![approving[a].of] = "approved"]
  /\ approving' = [approving EXCEPT ![a] = Idle]
  /\ UNCHANGED <<subscriber, day, looping, away, byHand>>

\* The connection breaks between two statements.
ApprovalFails(a) ==
  /\ approving[a] # Idle
  /\ approving' = [approving EXCEPT ![a] = Idle]
  /\ UNCHANGED <<request, subscriber, day, looping, away, byHand>>

\* Whatever the request's status is.
Reject(r) ==
  /\ request[r] # "none"
  /\ request' = [request EXCEPT ![r] = "rejected"]
  /\ UNCHANGED <<subscriber, approving, day, looping, away, byHand>>

\* Whatever number of days.
AddSubscriber(c, days) ==
  /\ Subscribes(c, days)
  /\ byHand' = [byHand EXCEPT ![c] = day + days]
  /\ UNCHANGED <<request, approving, day, looping, away>>

Cancel(c) ==
  /\ subscriber[c].status # "none"
  /\ subscriber' = [subscriber EXCEPT ![c].status = "cancelled"]
  /\ UNCHANGED <<request, approving, day, looping, away, byHand>>

DayPasses ==
  /\ day < MaxDay
  /\ day' = day + 1
  /\ UNCHANGED <<request, subscriber, approving, looping, away, byHand>>

Overdue(c) == subscriber[c].status = "active" /\ subscriber[c].until < day

\* Mutant: the exception leaves the loop.
LoopEnds == looping' = FALSE

LoopGoesOn == UNCHANGED looping

\* _expire_subscribers_loop, with the endpoint it calls.
Expire ==
  /\ looping
  /\ \/ /\ subscriber' = [c \in Ids |-> IF Overdue(c) THEN [subscriber[c] EXCEPT !.status = "expired"]
                                                      ELSE subscriber[c]]
        /\ UNCHANGED <<looping, away>>
     \/ /\ away < MaxAway /\ away' = away + 1
        /\ LoopGoesOn /\ UNCHANGED subscriber
  /\ UNCHANGED <<request, approving, day, byHand>>

SubNext ==
  \/ \E r \in Requests : Ask(r) \/ Reject(r) \/ \E a \in Admins : ReadRequest(a, r)
  \/ \E a \in Admins : Insert(a) \/ MarkApproved(a) \/ ApprovalFails(a)
  \/ \E c \in Customers : Cancel(c) \/ \E days \in DaysInputs : AddSubscriber(c, days)
  \/ DayPasses \/ Expire

----------------------------------------------------------------------------
(* Properties.                                                              *)

\* Two admins who approve one request at once, or an approval that is repeated
\* after it failed half-way, give nobody more days than a plan they asked for, or
\* than an admin gave them by hand; and a request that is marked approved has its
\* subscriber.
PaidFor ==
  /\ \A c \in Ids : subscriber[c].status # "none" =>
       \/ subscriber[c].until <= byHand[c]
       \/ \E r \in Requests : IdOf[r] = c /\ subscriber[c].until <= day + Days[r]
  /\ \A r \in Requests : request[r] = "approved" => subscriber[IdOf[r]].status # "none"

SomeOverdue == \E c \in Ids : Overdue(c)

\* What was paid for ends: an overdue subscription does not stay active,
\* even if the gateway is away now and then.
ExpiryHappens == SomeOverdue ~> ~SomeOverdue

=============================================================================
