-------------------------- MODULE OperationsProofs --------------------------
(***************************************************************************)
(* TLAPS proofs about the gateway's parts of Operations (the publishing     *)
(* queue, manual orders, subscriptions), and the theorems about Operations. *)
(***************************************************************************)
EXTENDS Operations, ControlProofs

----------------------------------------------------------------------------
(* Subscriptions.                                                           *)

\* An approval that has only the mark left has made the subscriber.
Inserted ==
  \A a \in Admins : approving[a] # Idle /\ approving[a].step = "mark" =>
    subscriber[IdOf[approving[a].of]].status # "none"

SubInv == SubTypeOK /\ Inserted /\ PaidFor

\* Nobody has asked for a subscription.
LEMMA SubInitially == SubInit => SubInv
<1> SUFFICES ASSUME SubInit PROVE SubInv
  OBVIOUS
<1> USE SubscriptionsAssumption DEF SubscriptionsAssumption, SubInit
<1>1. SubTypeOK
  <2>1. looping \in BOOLEAN
    BY Zenon
  <2>2. /\ request \in [Requests -> {"none", "pending", "approved", "rejected"}]
        /\ subscriber \in [Ids -> [status : {"none", "active", "expired", "cancelled"}, until : Int]]
        /\ approving \in [Admins -> {Idle} \cup [step : {"insert", "mark"}, of : Requests]]
        /\ day \in 0 .. MaxDay /\ away \in 0 .. MaxAway
        /\ byHand \in [Ids -> Int]
    OBVIOUS
  <2> QED
    BY <2>1, <2>2 DEF SubTypeOK
<1>2. Inserted /\ PaidFor
  BY DEF Inserted, PaidFor, Idle, Ids
<1> QED
  BY <1>1, <1>2 DEF SubInv

\* A subscription for anybody, of the length of a plan the id asked for or one
\* given by hand.
LEMMA SubscribesStep ==
  ASSUME SubInv, NEW id \in Ids, NEW days \in Int, Subscribes(id, days),
         UNCHANGED <<request, day>>, day \in Nat,
         \A c \in Ids \ {id} : byHand'[c] = byHand[c],
         byHand'[id] = day + days \/ \E q \in Requests : IdOf[q] = id /\ days = Days[q]
  PROVE  /\ subscriber' \in [Ids -> [status : {"none", "active", "expired", "cancelled"}, until : Int]]
         /\ PaidFor'
         /\ subscriber'[id].status # "none"
         /\ \A c \in Ids : subscriber[c].status # "none" => subscriber'[c].status # "none"
<1> USE SubscriptionsAssumption DEF SubscriptionsAssumption
<1>1. SubTypeOK /\ PaidFor /\ day + days \in Int
  BY DEF SubInv
<1>2. /\ subscriber' = [subscriber EXCEPT ![id] = [status |-> "active", until |-> day + days]]
      /\ subscriber \in [Ids -> [status : {"none", "active", "expired", "cancelled"}, until : Int]]
  BY <1>1 DEF Subscribes, PaidUntil, SubTypeOK
<1>3. /\ subscriber'[id] = [status |-> "active", until |-> day + days]
      /\ \A c \in Ids : c # id => subscriber'[c] = subscriber[c]
      /\ subscriber' \in [Ids -> [status : {"none", "active", "expired", "cancelled"}, until : Int]]
  BY <1>1, <1>2
<1>4. \A c \in Ids : subscriber[c].status # "none" => subscriber'[c].status # "none"
  BY <1>3
<1>5. \A c \in Ids : subscriber'[c].status # "none" =>
         \/ subscriber'[c].until <= byHand'[c]
         \/ \E q \in Requests : IdOf[q] = c /\ subscriber'[c].until <= day + Days[q]
  <2> SUFFICES ASSUME NEW c \in Ids, subscriber'[c].status # "none"
               PROVE  \/ subscriber'[c].until <= byHand'[c]
                      \/ \E q \in Requests : IdOf[q] = c /\ subscriber'[c].until <= day + Days[q]
    OBVIOUS
  <2>1. CASE c = id
    BY <1>1, <1>3, <2>1
  <2>2. CASE c # id
    BY <1>1, <1>3, <2>2 DEF PaidFor
  <2> QED
    BY <2>1, <2>2
<1>6. \A q \in Requests : IdOf[q] \in Ids
  BY DEF Ids
<1> QED
  BY <1>1, <1>3, <1>4, <1>5, <1>6 DEF PaidFor

\* Requests, the three statements of an approval, rejections, manual rows and
\* the expiry.
LEMMA SubStep ==
  ASSUME SubInv, SubNext \/ UNCHANGED subVars
  PROVE  SubInv'
<1> USE SubscriptionsAssumption DEF SubscriptionsAssumption
<1> DEFINE Requested == request \in [Requests -> {"none", "pending", "approved", "rejected"}]
           Subscribed == subscriber \in [Ids -> [status : {"none", "active", "expired", "cancelled"}, until : Int]]
           Approving == approving \in [Admins -> {Idle} \cup [step : {"insert", "mark"}, of : Requests]]
           Counted == day \in 0 .. MaxDay /\ away \in 0 .. MaxAway /\ byHand \in [Ids -> Int]
           Good == Requested /\ Subscribed /\ Approving /\ Counted /\ Inserted /\ PaidFor
<1>1. Good /\ looping \in BOOLEAN
  BY DEF SubInv, SubTypeOK
<1>2. (looping \in BOOLEAN)'
  BY <1>1, Zenon DEF SubNext, Ask, Reject, ReadRequest, Insert, MarkApproved, ApprovalFails, Cancel,
       AddSubscriber, DayPasses, Expire, LoopGoesOn, subVars
<1>3. \A r \in Requests : IdOf[r] \in Ids
  BY DEF Ids
<1>4. \A a \in Admins : approving[a] # Idle => approving[a].of \in Requests
  BY <1>1
<1>5. ASSUME NEW r \in Requests, Ask(r) \/ Reject(r)
      PROVE  Good'
  BY <1>1, <1>5 DEF Ask, Reject, Inserted, PaidFor
<1>6. ASSUME NEW a \in Admins, NEW r \in Requests, ReadRequest(a, r)
      PROVE  Good'
  BY <1>1, <1>6 DEF ReadRequest, Inserted, PaidFor, Idle
<1>7. ASSUME NEW a \in Admins, Insert(a)
      PROVE  Good'
  <2> DEFINE r == approving[a].of
  <2>1. /\ approving[a] # Idle /\ r \in Requests /\ IdOf[r] \in Ids
        /\ UNCHANGED <<request, day, away, byHand>>
    BY <1>3, <1>4, <1>7 DEF Insert
  <2>2. CASE UNCHANGED subscriber /\ approving' = [approving EXCEPT ![a] = Idle]
    BY <1>1, <2>1, <2>2 DEF Inserted, PaidFor, Idle
  <2>3. CASE Subscribes(IdOf[r], Days[r]) /\ approving' = [approving EXCEPT ![a].step = "mark"]
    <3>1. /\ Subscribed' /\ PaidFor' /\ subscriber'[IdOf[r]].status # "none"
          /\ \A c \in Ids : subscriber[c].status # "none" => subscriber'[c].status # "none"
      BY <1>1, <2>1, <2>3, SubscribesStep
    <3>2. /\ approving'[a] = [approving[a] EXCEPT !.step = "mark"]
          /\ \A b \in Admins : b # a => approving'[b] = approving[b]
          /\ Approving'
      BY <1>1, <2>1, <2>3 DEF Idle
    <3>3. approving'[a].of = r
      BY <1>1, <2>1, <3>2 DEF Idle
    <3>4. Inserted'
      <4> SUFFICES ASSUME NEW b \in Admins, approving'[b] # Idle, approving'[b].step = "mark"
                   PROVE  subscriber'[IdOf[approving'[b].of]].status # "none"
        BY DEF Inserted
      <4>1. CASE b = a
        BY <3>1, <3>3, <4>1
      <4>2. CASE b # a
        BY <1>1, <1>3, <1>4, <3>1, <3>2, <4>2 DEF Inserted
      <4> QED
        BY <4>1, <4>2
    <3> QED
      BY <1>1, <2>1, <3>1, <3>2, <3>4
  <2> QED
    BY <1>7, <2>2, <2>3 DEF Insert
<1>8. ASSUME NEW a \in Admins, MarkApproved(a)
      PROVE  Good'
  <2>1. approving[a].of \in Requests /\ subscriber[IdOf[approving[a].of]].status # "none"
    BY <1>1, <1>4, <1>8 DEF MarkApproved, Inserted
  <2>2. Requested' /\ Approving' /\ Subscribed' /\ Counted'
    BY <1>1, <1>8, <2>1 DEF MarkApproved
  <2>3. Inserted' /\ PaidFor'
    BY <1>1, <1>8, <2>1 DEF MarkApproved, Inserted, PaidFor
  <2> QED
    BY <2>2, <2>3
<1>9. ASSUME NEW a \in Admins, ApprovalFails(a)
      PROVE  Good'
  BY <1>1, <1>9 DEF ApprovalFails, Inserted, PaidFor
<1>10. ASSUME NEW c \in Customers, Cancel(c)
       PROVE  Good'
  <2>1. /\ Subscribed'
        /\ \A d \in Ids : /\ subscriber'[d].status # "none" <=> subscriber[d].status # "none"
                          /\ subscriber'[d].until = subscriber[d].until
    BY <1>1, <1>10 DEF Cancel, Ids
  <2> QED
    BY <1>1, <1>3, <1>4, <1>10, <2>1 DEF Cancel, Inserted, PaidFor
<1>11. ASSUME NEW c \in Customers, NEW days \in DaysInputs, AddSubscriber(c, days)
       PROVE  Good'
  <2>1. /\ c \in Ids /\ days \in Int /\ byHand' \in [Ids -> Int] /\ byHand'[c] = day + days
        /\ \A d \in Ids \ {c} : byHand'[d] = byHand[d]
        /\ Subscribes(c, days) /\ UNCHANGED <<request, approving, day, away>>
    BY <1>1, <1>11 DEF AddSubscriber, Ids
  <2>2. /\ Subscribed' /\ PaidFor'
        /\ \A d \in Ids : subscriber[d].status # "none" => subscriber'[d].status # "none"
    BY <1>1, <2>1, SubscribesStep
  <2> QED
    BY <1>1, <1>3, <1>4, <2>1, <2>2 DEF Inserted
<1>12. ASSUME DayPasses
       PROVE  Good'
  <2>1. Requested' /\ Subscribed' /\ Approving' /\ Counted' /\ Inserted'
    BY <1>1, <1>12 DEF DayPasses, Inserted
  <2>2. PaidFor'
    <3> SUFFICES ASSUME NEW c \in Ids, subscriber[c].status # "none"
                 PROVE  \/ subscriber[c].until <= byHand[c]
                        \/ \E r \in Requests : IdOf[r] = c /\ subscriber[c].until <= day' + Days[r]
      BY <1>1, <1>12 DEF DayPasses, PaidFor
    <3>1. CASE subscriber[c].until <= byHand[c]
      BY <3>1
    <3>2. ASSUME NEW r \in Requests, IdOf[r] = c, subscriber[c].until <= day + Days[r]
          PROVE  subscriber[c].until <= day' + Days[r]
      BY <1>1, <1>12, <3>2 DEF DayPasses
    <3> QED
      BY <1>1, <3>1, <3>2 DEF PaidFor
  <2> QED
    BY <2>1, <2>2
<1>13. ASSUME Expire
       PROVE  Good'
  <2>1. /\ Subscribed'
        /\ \A d \in Ids : /\ subscriber'[d].status # "none" <=> subscriber[d].status # "none"
                          /\ subscriber'[d].until = subscriber[d].until
    <3>1. CASE UNCHANGED subscriber
      BY <1>1, <3>1
    <3>2. CASE subscriber' = [c \in Ids |-> IF Overdue(c) THEN [subscriber[c] EXCEPT !.status = "expired"]
                                                          ELSE subscriber[c]]
      <4>1. ASSUME NEW d \in Ids
            PROVE  /\ subscriber'[d] \in [status : {"none", "active", "expired", "cancelled"}, until : Int]
                   /\ subscriber'[d].status # "none" <=> subscriber[d].status # "none"
                   /\ subscriber'[d].until = subscriber[d].until
        BY <1>1, <3>2 DEF Overdue
      <4> QED
        BY <3>2, <4>1
    <3> QED
      BY <1>13, <3>1, <3>2 DEF Expire
  <2>2. away' \in 0 .. MaxAway /\ UNCHANGED <<request, approving, day, byHand>>
    <3>1. away' = away \/ (away < MaxAway /\ away' = away + 1)
      BY <1>13 DEF Expire
    <3>2. UNCHANGED <<request, approving, day, byHand>>
      BY <1>13 DEF Expire
    <3> QED
      BY <1>1, <3>1, <3>2
  <2> QED
    BY <1>1, <1>3, <1>4, <2>1, <2>2 DEF Inserted, PaidFor
<1>14. ASSUME UNCHANGED subVars
       PROVE  Good'
  BY <1>1, <1>14 DEF subVars, Inserted, PaidFor
<1>15. Good'
  <2> HIDE DEF Good
  <2> QED
    BY <1>5, <1>6, <1>7, <1>8, <1>9, <1>10, <1>11, <1>12, <1>13, <1>14 DEF SubNext
<1> QED
  BY <1>2, <1>15 DEF SubInv, SubTypeOK

----------------------------------------------------------------------------
(* The publishing queue.                                                    *)

Doing(h, i) == handler[h] # Free /\ handler[h].of = i

\* Requests whose upload is still to come, and those that did not upload.
Coming(i) == {h \in Handlers : Doing(h, i) /\ handler[h].step \in {"read", "mark", "post"}}

\* Every upload had a request of its own.
Uploaded == \A i \in Items : uploads[i] + Cardinality(Coming(i)) <= posts

\* The worker waits for one request at a time and fetches an item once.
OneAtATime ==
  /\ \A h, g \in awaited : h = g
  /\ \A m, n \in DOMAIN due : due[m] = due[n] => m = n

\* Items that only the worker handles, and never gave up before their mark.
Clean == Items \ (retried \cup unmarked)

\* Where such an item can be: fetched and untouched, or with one request, which
\* the worker waits for until the mark takes the row away from its next fetch.
Once(i) ==
  /\ uploads[i] <= 1
  /\ status[i] = "scheduled" => uploads[i] = 0
  /\ \A n \in DOMAIN due : due[n] = i =>
       uploads[i] = 0 /\ \A h \in Handlers : ~Doing(h, i)
  /\ \A h, g \in Handlers : Doing(h, i) /\ Doing(g, i) => h = g
  /\ \A h \in Handlers : Doing(h, i) =>
       /\ handler[h].step \in {"read", "mark"} => h \in awaited /\ uploads[i] = 0
       /\ handler[h].step = "post" => uploads[i] = 0
       /\ handler[h].step \in {"post", "note", "sent"} => status[i] # "scheduled"

\* The type invariant but the number of uploads.
QueueTyped ==
  /\ status \in [Items -> Statuses \cup {"none", "gone"}]
  /\ due \in Seq(Items) /\ awaited \subseteq Handlers
  /\ handler \in [Handlers -> {Free} \cup
                    [of : Items, step : {"read", "mark", "post", "note", "sent"}]]
  /\ posts \in 0 .. MaxPosts /\ retried \subseteq Items /\ unmarked \subseteq Items
  /\ uploads \in [Items -> Nat]

QueueInv ==
  /\ QueueTyped /\ Uploaded /\ OneAtATime
  /\ \A i \in Clean : Once(i)

\* The queue is empty.
LEMMA QueueInitially == QueueInit => QueueInv
<1> SUFFICES ASSUME QueueInit PROVE QueueInv
  OBVIOUS
<1> USE QueueAssumption DEF QueueAssumption, QueueInit
<1>1. QueueTyped
  BY DEF QueueTyped
<1>2. \A h \in Handlers, i \in Items : ~Doing(h, i)
  BY DEF Doing
<1>3. Uploaded
  <2> SUFFICES ASSUME NEW i \in Items PROVE uploads[i] + Cardinality(Coming(i)) <= posts
    BY DEF Uploaded
  <2>1. Coming(i) = {}
    BY <1>2 DEF Coming
  <2>2. Cardinality(Coming(i)) = 0
    BY <2>1, FS_EmptySet
  <2> QED
    BY <2>2
<1>4. OneAtATime /\ \A i \in Clean : Once(i)
  BY <1>2 DEF OneAtATime, Once, Clean
<1> QED
  BY <1>1, <1>3, <1>4 DEF QueueInv

\* There are finitely many handlers, so their number is one.
LEMMA ComingFinite ==
  ASSUME NEW i
  PROVE  IsFiniteSet(Coming(i)) /\ Cardinality(Coming(i)) \in Nat
BY QueueAssumption, FS_Subset, FS_CardinalityType DEF QueueAssumption, Coming

\* A step of the page or of the worker's fetch: no request moves.
LEMMA StillUploaded ==
  ASSUME Uploaded, UNCHANGED <<handler, posts, uploads>>
  PROVE  Uploaded'
<1>1. \A i \in Items : Coming(i)' = Coming(i)
  BY DEF Coming, Doing
<1> QED
  BY <1>1 DEF Uploaded

\* A request that begins makes room for an upload.
LEMMA RequestUploads ==
  ASSUME QueueTyped, Uploaded, NEW h \in Handlers, NEW j \in Items,
         Request(h, j), UNCHANGED uploads
  PROVE  Uploaded'
<1> SUFFICES ASSUME NEW i \in Items
             PROVE  uploads[i] + Cardinality(Coming(i)') <= posts + 1
  BY DEF Uploaded, Request
<1>1. Coming(i)' \subseteq Coming(i) \cup {h}
  BY DEF Coming, Doing, Request, QueueTyped
<1>2. /\ IsFiniteSet(Coming(i) \cup {h})
      /\ Cardinality(Coming(i) \cup {h}) <= Cardinality(Coming(i)) + 1
      /\ Cardinality(Coming(i)) \in Nat
  BY ComingFinite, FS_AddElement
<1>3. Cardinality(Coming(i)') <= Cardinality(Coming(i) \cup {h})
  BY <1>1, <1>2, FS_Subset
<1>4. Cardinality(Coming(i)') \in Nat /\ Cardinality(Coming(i) \cup {h}) \in Nat
  BY <1>1, <1>2, FS_Subset, FS_CardinalityType
<1> QED
  BY <1>2, <1>3, <1>4 DEF Uploaded, QueueTyped

\* A request that goes on, without its upload.
LEMMA GoesOnUploads ==
  ASSUME QueueTyped, Uploaded, UNCHANGED <<uploads, posts>>,
         \A i \in Items : Coming(i)' \subseteq Coming(i)
  PROVE  Uploaded'
<1> SUFFICES ASSUME NEW i \in Items
             PROVE  uploads[i] + Cardinality(Coming(i)') <= posts
  BY DEF Uploaded
<1>1. /\ Cardinality(Coming(i)') <= Cardinality(Coming(i))
      /\ Cardinality(Coming(i)') \in Nat /\ Cardinality(Coming(i)) \in Nat
  BY ComingFinite, FS_Subset, FS_CardinalityType
<1> QED
  BY <1>1 DEF Uploaded, QueueTyped

\* A request that uploads, or may have: its item has one upload more and one
\* request less to come.
LEMMA PostUploads ==
  ASSUME QueueTyped, Uploaded, NEW h \in Handlers, Post(h)
  PROVE  Uploaded' /\ uploads' \in [Items -> Nat]
<1> DEFINE j == handler[h].of
<1>1. /\ handler[h].step = "post" /\ handler[h] # Free /\ j \in Items
      /\ \/ handler' = [handler EXCEPT ![h].step = "sent"]
         \/ handler' = [handler EXCEPT ![h].step = "note"]
      /\ uploads' \in {uploads, [uploads EXCEPT ![j] = @ + 1]}
      /\ posts' = posts
  BY DEF Post, At, Goes, Free, QueueTyped
<1>2. uploads' \in [Items -> Nat]
  BY <1>1 DEF QueueTyped
<1> SUFFICES ASSUME NEW i \in Items
             PROVE  uploads'[i] + Cardinality(Coming(i)') <= posts
  BY <1>1, <1>2 DEF Uploaded
<1>3. Coming(i)' \subseteq Coming(i) \ {h}
  BY <1>1 DEF Coming, Doing, QueueTyped, Free
<1>4. /\ IsFiniteSet(Coming(i)) /\ IsFiniteSet(Coming(i) \ {h})
      /\ Cardinality(Coming(i) \ {h}) = IF h \in Coming(i) THEN Cardinality(Coming(i)) - 1
                                                           ELSE Cardinality(Coming(i))
      /\ Cardinality(Coming(i)) \in Nat /\ Cardinality(Coming(i) \ {h}) \in Nat
  BY ComingFinite, FS_RemoveElement, FS_CardinalityType
<1>5. Cardinality(Coming(i)') <= Cardinality(Coming(i) \ {h}) /\ Cardinality(Coming(i)') \in Nat
  BY <1>3, <1>4, FS_Subset, FS_CardinalityType
<1>6. i = j => h \in Coming(i)
  BY <1>1 DEF Coming, Doing
<1>7. uploads'[i] = uploads[i] \/ (i = j /\ uploads'[i] = uploads[i] + 1)
  BY <1>1 DEF QueueTyped
<1>8. uploads[i] + Cardinality(Coming(i)) <= posts /\ uploads[i] \in Nat /\ posts \in Nat
  BY DEF Uploaded, QueueTyped
<1> QED
  BY <1>4, <1>5, <1>6, <1>7, <1>8

\* A restart: what was uploading may finish.
LEMMA RestartUploads ==
  ASSUME QueueTyped, Uploaded, NEW S \in SUBSET {h \in Handlers : At(h, "post")},
         uploads' = [i \in Items |-> uploads[i] + Cardinality({h \in S : handler[h].of = i})],
         handler' = [h \in Handlers |-> Free], UNCHANGED posts
  PROVE  /\ Uploaded' /\ uploads' \in [Items -> Nat]
         /\ \A i \in Items : {h \in S : handler[h].of = i} \subseteq Coming(i)
<1> DEFINE Late(i) == {h \in S : handler[h].of = i}
<1>1. \A i \in Items : Late(i) \subseteq Coming(i)
  BY DEF At, Coming, Doing, Free, QueueTyped
<1>7. uploads' = [i \in Items |-> uploads[i] + Cardinality(Late(i))]
  OBVIOUS
<1> HIDE DEF Late
<1>2. ASSUME NEW i \in Items
      PROVE  /\ Cardinality(Late(i)) \in Nat
             /\ Cardinality(Late(i)) <= Cardinality(Coming(i))
             /\ Cardinality(Coming(i)) \in Nat
  BY <1>1, ComingFinite, FS_Subset, FS_CardinalityType
<1>6. \A i \in Items : uploads'[i] = uploads[i] + Cardinality(Late(i))
  BY <1>7
<1>3. uploads' \in [Items -> Nat]
  <2> SUFFICES ASSUME NEW i \in Items
               PROVE  uploads[i] + Cardinality(Late(i)) \in Nat
    BY <1>7
  <2>1. uploads[i] \in Nat
    BY DEF QueueTyped
  <2> QED
    BY <1>2, <2>1
<1>4. \A i \in Items : Coming(i)' = {}
  BY DEF Coming, Doing
<1>5. ASSUME NEW i \in Items
      PROVE  uploads'[i] + Cardinality(Coming(i)') <= posts
  <2>1. Cardinality(Coming(i)') = 0
    BY <1>4, FS_EmptySet
  <2>2. uploads[i] + Cardinality(Coming(i)) <= posts /\ uploads[i] \in Nat /\ posts \in Nat
    BY DEF Uploaded, QueueTyped
  <2> QED
    BY <1>2, <1>6, <2>1, <2>2
<1> QED
  BY <1>1, <1>3, <1>5 DEF Uploaded, Late

QueueCore == QueueTyped /\ OneAtATime /\ \A i \in Clean : Once(i)

\* What the page does to a row.
LEMMA PageStep ==
  ASSUME QueueCore, NEW i \in Items,
         Add(i) \/ DeleteItem(i) \/ \E s \in Statuses : Patch(i, s)
  PROVE  QueueCore' /\ UNCHANGED <<handler, posts, uploads>>
<1>1. /\ UNCHANGED <<due, handler, awaited, posts, uploads, unmarked>>
      /\ \E s \in Statuses \cup {"gone"} : status' = [status EXCEPT ![i] = s]
      /\ retried \subseteq retried' /\ retried' \subseteq retried \cup {i}
  BY DEF Add, DeleteItem, Patch, SetStatus, Exists, Statuses
<1>2. QueueTyped' /\ OneAtATime'
  BY <1>1 DEF QueueCore, QueueTyped, OneAtATime
<1>3. ASSUME NEW j \in Clean'
      PROVE  Once(j)'
  <2>1. Once(j) /\ j \notin retried'
    BY <1>1 DEF QueueCore, Clean
  <2>2. CASE j # i
    <3>1. status'[j] = status[j]
      BY <1>1, <2>2 DEF QueueCore, QueueTyped
    <3> QED
      BY <1>1, <2>1, <3>1 DEF Once, Doing
  <2>3. CASE j = i /\ Add(i)
    <3>1. status[i] = "none" /\ status'[i] = "queued"
      BY <2>3 DEF Add, QueueCore, QueueTyped
    <3> QED
      BY <1>1, <2>1, <2>3, <3>1 DEF Once, Doing
  <2>4. CASE j = i /\ DeleteItem(i)
    <3>1. status'[i] = "gone"
      BY <2>4 DEF DeleteItem, SetStatus, QueueCore, QueueTyped
    <3> QED
      BY <1>1, <2>1, <2>4, <3>1 DEF Once, Doing
  <2>5. ASSUME j = i, NEW s \in Statuses, Patch(i, s)
        PROVE  Once(j)'
    <3>1. status'[i] = s
      BY <2>5 DEF Patch, SetStatus, QueueCore, QueueTyped
    <3>2. s = "scheduled" => uploads[i] = 0 /\ \A h \in Handlers : ~Doing(h, i)
      BY <2>1, <2>5 DEF Patch, Busy, Doing, QueueCore, QueueTyped
    <3> QED
      BY <1>1, <2>1, <2>5, <3>1, <3>2 DEF Once, Doing
  <2> QED
    BY <2>2, <2>3, <2>4, <2>5
<1> QED
  BY <1>1, <1>2, <1>3 DEF QueueCore

\* The worker's fetch finds every scheduled item once.
LEMMA FetchStep ==
  ASSUME QueueCore, Fetch
  PROVE  QueueCore' /\ UNCHANGED <<handler, posts, uploads>>
<1> DEFINE D == {i \in Items : status[i] = "scheduled"}
<1>1. /\ due = <<>> /\ awaited = {}
      /\ UNCHANGED <<status, handler, awaited, posts, uploads, retried, unmarked>>
      /\ \E n \in 1 .. Cardinality(D) : /\ due' \in [1 .. n -> D]
                                        /\ \A k, l \in 1 .. n : due'[k] = due'[l] => k = l
  BY DEF Fetch
<1>2. /\ due' \in Seq(D) /\ due' \in Seq(Items)
      /\ \A m, n \in DOMAIN due' : due'[m] = due'[n] => m = n
  <2>1. D \in SUBSET Items
    OBVIOUS
  <2> HIDE DEF D
  <2>2. IsFiniteSet(D) /\ Cardinality(D) \in Nat
    BY <2>1, QueueAssumption, FS_Subset, FS_CardinalityType DEF QueueAssumption
  <2>3. PICK n \in 1 .. Cardinality(D) : /\ due' \in [1 .. n -> D]
                                         /\ \A k, l \in 1 .. n : due'[k] = due'[l] => k = l
    BY <1>1
  <2>4. n \in Nat /\ due' \in [1 .. n -> Items] /\ DOMAIN due' = 1 .. n
    BY <2>1, <2>2, <2>3
  <2> QED
    BY <2>3, <2>4, SeqDef
<1>3. QueueTyped' /\ OneAtATime'
  BY <1>1, <1>2 DEF QueueCore, QueueTyped, OneAtATime
<1>4. ASSUME NEW i \in Clean'
      PROVE  Once(i)'
  <2>1. Once(i)
    BY <1>1, <1>4 DEF QueueCore, Clean
  <2>2. \A n \in DOMAIN due' : due'[n] = i => status[i] = "scheduled"
    <3> SUFFICES ASSUME NEW n \in DOMAIN due', due'[n] = i PROVE i \in D
      OBVIOUS
    <3> HIDE DEF D
    <3> QED
      BY <1>2, ElementOfSeq, LenProperties
  <2>3. \A h \in Handlers : Doing(h, i) => handler[h].step \in {"read", "mark", "post", "note", "sent"}
    BY DEF QueueCore, QueueTyped, Doing
  <2>4. status[i] = "scheduled" => \A h \in Handlers : ~Doing(h, i)
    BY <1>1, <2>1, <2>3 DEF Once
  <2> QED
    BY <1>1, <2>1, <2>2, <2>4 DEF Once, Doing
<1> QED
  BY <1>1, <1>3, <1>4 DEF QueueCore

\* A new request, of the worker or by hand.
LEMMA RequestStep ==
  ASSUME QueueCore, NEW h \in Handlers,
         WorkerPosts(h) \/ \E i \in Items : PublishByHand(h, i)
  PROVE  /\ QueueCore' /\ UNCHANGED uploads
         /\ \E j \in Items : Request(h, j)
<1>1. CASE WorkerPosts(h)
  <2> DEFINE j == due[1]  n == Len(due)
  <2>1. /\ due \in Seq(Items) /\ n \in Nat \ {0} /\ DOMAIN due = 1 .. n /\ j \in Items
        /\ due' \in Seq(Items) /\ DOMAIN due' = 1 .. n - 1
        /\ \A m \in 1 .. n - 1 : due'[m] = due[m + 1]
    BY <1>1, LenProperties, HeadTailProperties, EmptySeq, ElementOfSeq
       DEF WorkerPosts, QueueCore, QueueTyped
  <2>2. /\ awaited = {} /\ awaited' = {h} /\ handler[h] = Free /\ Request(h, j)
        /\ handler' = [handler EXCEPT ![h] = [of |-> j, step |-> "read"]]
        /\ posts' = posts + 1 /\ posts < MaxPosts
        /\ UNCHANGED <<status, uploads, retried, unmarked>>
    BY <1>1 DEF WorkerPosts, Request
  <2> HIDE DEF n
  <2>3. QueueTyped'
    BY <2>1, <2>2, QueueAssumption DEF QueueCore, QueueTyped, QueueAssumption
  <2>4. \A k, l \in DOMAIN due : due[k] = due[l] => k = l
    BY DEF QueueCore, OneAtATime
  <2>5. /\ \A m \in DOMAIN due' : m + 1 \in DOMAIN due /\ due'[m] = due[m + 1] /\ due'[m] # j
        /\ 1 \in DOMAIN due
    BY <2>1, <2>4
  <2>6. OneAtATime'
    <3>1. ASSUME NEW k \in DOMAIN due', NEW l \in DOMAIN due', due'[k] = due'[l]
          PROVE  k = l
      <4>1. k + 1 \in DOMAIN due /\ l + 1 \in DOMAIN due /\ due[k + 1] = due[l + 1]
        BY <2>5, <3>1
      <4>2. k + 1 = l + 1
        BY <2>4, <4>1
      <4> QED
        BY <2>1, <4>2
    <3> QED
      BY <2>2, <3>1 DEF OneAtATime
  <2>7. ASSUME NEW i \in Clean'
        PROVE  Once(i)'
    <3>1. Once(i) /\ i \in Items
      BY <2>2, <2>7 DEF QueueCore, Clean
    <3>2. /\ handler'[h].of = j /\ handler'[h].step = "read" /\ handler'[h] # Free
          /\ \A g \in Handlers : g # h => handler'[g] = handler[g]
      BY <2>2 DEF QueueCore, QueueTyped, Free
    <3>3. CASE i = j
      <4>1. uploads[i] = 0 /\ \A g \in Handlers : ~Doing(g, i)
        BY <2>5, <3>1, <3>3 DEF Once
      <4> QED
        BY <2>2, <2>5, <3>1, <3>2, <3>3, <4>1 DEF Once, Doing
    <3>4. CASE i # j
      <4>1. \A g \in Handlers : /\ Doing(g, i)' <=> Doing(g, i)
                                /\ Doing(g, i) => handler'[g] = handler[g]
        BY <2>2, <3>2, <3>4 DEF Doing
      <4>2. \A m \in DOMAIN due' : due'[m] = i => \E l \in DOMAIN due : due[l] = i
        BY <2>5
      <4> QED
        BY <2>2, <3>1, <4>1, <4>2 DEF Once
    <3> QED
      BY <3>3, <3>4
  <2> QED
    BY <2>1, <2>2, <2>3, <2>6, <2>7 DEF QueueCore
<1>2. ASSUME NEW j \in Items, PublishByHand(h, j)
      PROVE  QueueCore' /\ UNCHANGED uploads /\ Request(h, j)
  <2>1. /\ handler[h] = Free /\ Request(h, j)
        /\ handler' = [handler EXCEPT ![h] = [of |-> j, step |-> "read"]]
        /\ posts' = posts + 1 /\ posts < MaxPosts /\ retried' = retried \cup {j}
        /\ UNCHANGED <<status, due, awaited, uploads, unmarked>>
    BY <1>2 DEF PublishByHand, Request
  <2>2. QueueTyped' /\ OneAtATime'
    BY <2>1, QueueAssumption DEF QueueCore, QueueTyped, OneAtATime, QueueAssumption
  <2>3. ASSUME NEW i \in Clean'
        PROVE  Once(i)'
    <3>1. Once(i) /\ i # j
      BY <2>1, <2>3 DEF QueueCore, Clean
    <3>2. \A g \in Handlers : /\ Doing(g, i)' <=> Doing(g, i)
                              /\ Doing(g, i) => handler'[g] = handler[g]
      BY <2>1, <3>1 DEF Doing, QueueCore, QueueTyped
    <3> QED
      BY <2>1, <3>1, <3>2 DEF Once
  <2> QED
    BY <2>1, <2>2, <2>3 DEF QueueCore
<1> QED
  BY <1>1, <1>2

\* A request goes on, or answers.
LEMMA HandlerStep ==
  ASSUME QueueCore, NEW h \in Handlers,
         \/ ReadItem(h) \/ Mark(h) \/ Note(h) \/ RequestFails(h)
         \/ Post(h) /\ uploads' \in [Items -> Nat]
  PROVE  /\ QueueCore'
         /\ ~Post(h) => UNCHANGED <<uploads, posts>> /\ \A i \in Items : Coming(i)' \subseteq Coming(i)
<1> DEFINE j == handler[h].of
<1>1. /\ handler[h] # Free /\ j \in Items
      /\ handler[h] \in [of : Items, step : {"read", "mark", "post", "note", "sent"}]
      /\ handler \in [Handlers -> {Free} \cup
                        [of : Items, step : {"read", "mark", "post", "note", "sent"}]]
  BY DEF ReadItem, Mark, Note, Post, RequestFails, Busy, At, Free, QueueCore, QueueTyped
\* It is free, or one step further with the same item.
<1>2. \/ handler' = [handler EXCEPT ![h] = Free] /\ awaited' = awaited \ {h}
      \/ /\ awaited' = awaited
         /\ \E step \in {"mark", "post", "note", "sent"} :
              handler' = [handler EXCEPT ![h].step = step]
  BY DEF ReadItem, Mark, Note, Post, RequestFails, Goes, Answers
<1>3. /\ UNCHANGED <<due, posts, retried, unmarked>>
      /\ status' = status \/ \E s \in {"publishing", "published", "queued"} : SetStatus(j, s)
  BY DEF ReadItem, Mark, Marks, Note, Post, RequestFails
<1>4. /\ \A g \in Handlers : g # h => handler'[g] = handler[g]
      /\ handler'[h] = Free \/ (handler'[h] # Free /\ handler'[h].of = j)
      /\ handler' \in [Handlers -> {Free} \cup
                         [of : Items, step : {"read", "mark", "post", "note", "sent"}]]
  BY <1>1, <1>2 DEF Free
<1>5. /\ status' \in [Items -> Statuses \cup {"none", "gone"}]
      /\ \A i \in Items : i # j => status'[i] = status[i]
  BY <1>1, <1>3 DEF SetStatus, Statuses, QueueCore, QueueTyped
<1>6. uploads' \in [Items -> Nat] /\ \A i \in Items : i # j => uploads'[i] = uploads[i]
  BY <1>1 DEF ReadItem, Mark, Note, Post, RequestFails, QueueCore, QueueTyped
<1>7. QueueTyped' /\ OneAtATime'
  BY <1>2, <1>3, <1>4, <1>5, <1>6 DEF QueueCore, QueueTyped, OneAtATime
<1>8. ~Post(h) => UNCHANGED <<uploads, posts>>
  BY DEF ReadItem, Mark, Note, RequestFails
<1>9. ~Post(h) => \A i \in Items : Coming(i)' \subseteq Coming(i)
  <2> SUFFICES ASSUME ~Post(h), NEW i \in Items, NEW g \in Coming(i)' PROVE g \in Coming(i)
    OBVIOUS
  <2>1. g \in Handlers /\ handler'[g] # Free /\ handler'[g].of = i
        /\ handler'[g].step \in {"read", "mark", "post"}
    BY DEF Coming, Doing
  <2>2. CASE g # h
    BY <1>4, <2>1, <2>2 DEF Coming, Doing
  <2>3. CASE g = h
    <3>1. i = j
      BY <1>4, <2>1, <2>3
    <3>2. handler[h].step \in {"read", "mark"}
      BY <1>1, <1>4, <2>1, <2>3 DEF ReadItem, Mark, Note, RequestFails, At, Answers, Free
    <3> QED
      BY <1>1, <2>3, <3>1, <3>2 DEF Coming, Doing
  <2> QED
    BY <2>2, <2>3
<1>10. ASSUME NEW i \in Clean'
       PROVE  Once(i)'
  <2>1. Once(i) /\ i \in Items
    BY <1>3, <1>10 DEF QueueCore, Clean
  <2>2. CASE i # j
    <3>1. \A g \in Handlers : /\ Doing(g, i)' <=> Doing(g, i)
                              /\ Doing(g, i) => g # h /\ handler'[g] = handler[g]
      BY <1>1, <1>4, <2>2 DEF Doing
    <3>2. \A g \in awaited : g # h => g \in awaited'
      BY <1>2
    <3> QED
      BY <1>3, <1>5, <1>6, <2>1, <2>2, <3>1, <3>2 DEF Once
  <2>3. CASE i = j
    <3>1. Doing(h, i) /\ \A g \in Handlers : Doing(g, i) => g = h
      BY <1>1, <2>1, <2>3 DEF Doing, Once
    <3>2. \A g \in Handlers : Doing(g, i)' => g = h
      BY <1>4, <3>1 DEF Doing
    <3>3. \A n \in DOMAIN due : due[n] # i
      BY <2>1, <3>1 DEF Once
    <3>4. Doing(h, i)' => handler'[h] # Free
      BY DEF Doing
    <3>5. CASE ReadItem(h)
      <4>1. /\ handler[h].step = "read" /\ UNCHANGED <<status, uploads>>
            /\ \/ handler'[h] = Free
               \/ handler'[h].step = "mark" /\ awaited' = awaited
        BY <1>1, <3>5 DEF ReadItem, At, Goes, Answers
      <4>2. h \in awaited /\ uploads[i] = 0
        BY <2>1, <3>1, <4>1 DEF Once
      <4> QED
        BY <1>3, <3>2, <3>3, <3>4, <4>1, <4>2 DEF Once
    <3>6. CASE Mark(h)
      <4>1. /\ handler[h].step = "mark" /\ handler'[h].step = "post" /\ UNCHANGED uploads
            /\ status'[i] = IF Exists(i) THEN "publishing" ELSE status[i]
        BY <1>1, <2>3, <3>6 DEF Mark, Marks, At, Goes, SetStatus, QueueCore, QueueTyped
      <4>2. uploads[i] = 0
        BY <2>1, <3>1, <4>1 DEF Once
      <4>3. status'[i] # "scheduled"
        BY <4>1 DEF Exists, Statuses
      <4> QED
        BY <1>3, <3>2, <3>3, <4>1, <4>2, <4>3 DEF Once
    <3>7. CASE Post(h)
      <4>1. /\ handler[h].step = "post" /\ handler'[h].step \in {"note", "sent"} /\ UNCHANGED status
            /\ uploads'[i] = uploads[i] \/ uploads'[i] = uploads[i] + 1
        BY <1>1, <2>3, <3>7 DEF Post, At, Goes, QueueCore, QueueTyped
      <4>2. status[i] # "scheduled" /\ uploads[i] = 0
        BY <2>1, <3>1, <4>1 DEF Once
      <4> QED
        BY <1>3, <3>2, <3>3, <4>1, <4>2 DEF Once
    <3>8. CASE Note(h)
      <4>1. /\ handler[h].step \in {"note", "sent"} /\ handler'[h] = Free /\ UNCHANGED uploads
            /\ status'[i] \in {status[i], "published", "queued"}
        BY <1>1, <2>3, <3>8 DEF Note, At, Answers, SetStatus, QueueCore, QueueTyped
      <4>2. status[i] # "scheduled"
        BY <2>1, <3>1, <4>1 DEF Once
      <4> QED
        BY <1>3, <2>1, <3>2, <3>3, <3>4, <4>1, <4>2 DEF Once
    <3>9. CASE RequestFails(h)
      <4>1. handler'[h] = Free /\ UNCHANGED <<status, uploads>>
        BY <1>1, <3>9 DEF RequestFails, Answers
      <4> QED
        BY <1>3, <2>1, <3>2, <3>3, <3>4, <4>1 DEF Once
    <3> QED
      BY <3>5, <3>6, <3>7, <3>8, <3>9
  <2> QED
    BY <2>2, <2>3
<1> QED
  BY <1>7, <1>8, <1>9, <1>10 DEF QueueCore

\* The worker goes on without an answer.
LEMMA TimesOutStep ==
  ASSUME QueueCore, WorkerTimesOut
  PROVE  QueueCore' /\ UNCHANGED <<handler, posts, uploads>>
<1> DEFINE Given == {handler[h].of : h \in {g \in awaited : At(g, "read") \/ At(g, "mark")}}
<1>1. Given \subseteq Items
  BY DEF At, Free, QueueCore, QueueTyped
<1>2. /\ awaited' = {} /\ unmarked' = unmarked \cup Given
      /\ UNCHANGED <<status, due, handler, posts, uploads, retried>>
  BY DEF WorkerTimesOut
<1>3. QueueTyped' /\ OneAtATime'
  <2> HIDE DEF Given
  <2> QED
    BY <1>1, <1>2 DEF QueueCore, QueueTyped, OneAtATime
<1>4. ASSUME NEW i \in Clean'
      PROVE  Once(i)'
  <2>1. Once(i) /\ i \notin Given
    <3> HIDE DEF Given
    <3> QED
      BY <1>2, <1>4 DEF QueueCore, Clean
  <2>2. \A g \in Handlers : Doing(g, i) => handler[g].step \notin {"read", "mark"}
    BY <2>1 DEF Once, At, Doing
  <2> QED
    BY <1>2, <2>1, <2>2 DEF Once, Doing
<1> QED
  BY <1>2, <1>3, <1>4 DEF QueueCore

\* A restart of the gateway forgets the requests and leaves the rows.
LEMMA RestartStep ==
  ASSUME QueueCore, Uploaded, GatewayRestarts
  PROVE  QueueCore' /\ Uploaded'
<1>1. PICK S \in SUBSET {h \in Handlers : At(h, "post")} :
        uploads' = [i \in Items |-> uploads[i] + Cardinality({h \in S : handler[h].of = i})]
  BY DEF GatewayRestarts
<1>2. /\ handler' = [h \in Handlers |-> Free] /\ awaited' = {} /\ due' = <<>>
      /\ UNCHANGED <<status, posts, retried, unmarked>>
  BY DEF GatewayRestarts
<1>3. Uploaded' /\ uploads' \in [Items -> Nat]
  BY <1>1, <1>2, RestartUploads DEF QueueCore
<1>4. QueueTyped' /\ OneAtATime'
  BY <1>2, <1>3 DEF QueueCore, QueueTyped, OneAtATime
<1>5. \A h \in Handlers, i \in Items : ~Doing(h, i)'
  BY <1>2 DEF Doing
<1>6. ASSUME NEW i \in Clean'
      PROVE  Once(i)'
  <2> DEFINE T == {h \in S : handler[h].of = i}
  <2>1. Once(i) /\ i \in Items
    BY <1>2, <1>6 DEF QueueCore, Clean
  <2>2. \A h \in T : Doing(h, i) /\ handler[h].step = "post" /\ h \in Handlers
    BY DEF At, Doing, Free
  <2>3. uploads'[i] = uploads[i] + Cardinality(T) /\ uploads[i] \in Nat
    BY <1>1, <2>1 DEF QueueCore, QueueTyped
  <2> HIDE DEF T
  <2>4. CASE T = {}
    <3>1. uploads'[i] = uploads[i]
      BY <2>3, <2>4, FS_EmptySet
    <3> QED
      BY <1>2, <1>5, <2>1, <3>1 DEF Once
  <2>5. CASE T # {}
    <3>1. PICK h : h \in T
      BY <2>5
    <3>2. T = {h}
      BY <2>1, <2>2, <3>1 DEF Once
    <3>3. Cardinality(T) = 1
      BY <3>2, FS_Singleton
    <3>4. uploads[i] = 0 /\ status[i] # "scheduled"
      BY <2>1, <2>2, <3>1 DEF Once
    <3>5. uploads'[i] = 1
      BY <2>3, <3>3, <3>4
    <3>6. status'[i] # "scheduled" /\ DOMAIN due' = {}
      BY <1>2, <3>4
    <3> QED
      BY <1>5, <2>1, <3>5, <3>6 DEF Once
  <2> QED
    BY <2>4, <2>5
<1> QED
  BY <1>3, <1>4, <1>6 DEF QueueCore

\* The inductive invariant of the queue.
LEMMA QueueStep ==
  ASSUME QueueInv, QueueNext \/ UNCHANGED queueVars
  PROVE  QueueInv'
<1>1. QueueCore /\ Uploaded /\ QueueTyped
  BY DEF QueueInv, QueueCore
<1> DEFINE Kept == QueueCore' /\ Uploaded'
<1>2. ASSUME NEW i \in Items, Add(i) \/ DeleteItem(i) \/ \E s \in Statuses : Patch(i, s)
      PROVE  Kept
  BY <1>1, <1>2, PageStep, StillUploaded
<1>3. ASSUME NEW h \in Handlers, WorkerPosts(h) \/ \E i \in Items : PublishByHand(h, i)
      PROVE  Kept
  BY <1>1, <1>3, RequestStep, RequestUploads
<1>4. ASSUME NEW h \in Handlers, ReadItem(h) \/ Mark(h) \/ Note(h) \/ Post(h) \/ RequestFails(h)
      PROVE  Kept
  <2>1. CASE Post(h)
    BY <1>1, <2>1, HandlerStep, PostUploads
  <2>2. CASE ~Post(h)
    BY <1>1, <1>4, <2>2, HandlerStep, GoesOnUploads
  <2> QED
    BY <2>1, <2>2
<1>5. ASSUME Fetch \/ WorkerTimesOut
      PROVE  Kept
  BY <1>1, <1>5, FetchStep, TimesOutStep, StillUploaded
<1>6. ASSUME GatewayRestarts
      PROVE  Kept
  BY <1>1, <1>6, RestartStep
<1>7. ASSUME UNCHANGED queueVars
      PROVE  Kept
  <2>1. QueueTyped' /\ OneAtATime' /\ Uploaded'
    BY <1>1, <1>7, StillUploaded DEF queueVars, QueueCore, QueueTyped, OneAtATime
  <2>2. \A i \in Clean' : Once(i)'
    BY <1>1, <1>7 DEF queueVars, QueueCore, Clean, Once, Doing
  <2> QED
    BY <2>1, <2>2 DEF QueueCore
<1>8. Kept
  <2> HIDE DEF Kept
  <2> QED
    BY <1>2, <1>3, <1>4, <1>5, <1>6, <1>7 DEF QueueNext
<1> QED
  BY <1>8 DEF QueueInv, QueueCore

\* A post has a request of its own, so the number of posts is bounded; and an
\* item the worker handles alone has at most one.
LEMMA QueueImplies == QueueInv => QueueTypeOK /\ WorkerPostsOnce
<1> SUFFICES ASSUME QueueInv PROVE QueueTypeOK /\ WorkerPostsOnce
  OBVIOUS
<1>1. WorkerPostsOnce
  BY DEF QueueInv, Clean, Once, WorkerPostsOnce
<1>2. uploads \in [Items -> 0 .. MaxPosts]
  <2> SUFFICES ASSUME NEW i \in Items PROVE uploads[i] \in 0 .. MaxPosts
    BY DEF QueueInv, QueueTyped
  <2>1. Cardinality(Coming(i)) \in Nat
    BY ComingFinite
  <2> QED
    BY <2>1, QueueAssumption DEF QueueInv, QueueTyped, Uploaded, QueueAssumption
<1> QED
  BY <1>1, <1>2 DEF QueueInv, QueueTyped, QueueTypeOK

----------------------------------------------------------------------------
(* Manual orders.                                                           *)

\* An order is at the bridge, in an answer, with a settle task or on a row,
\* once; and what was answered with a ticket was opened.
OnePlace ==
  /\ \A m \in DOMAIN atBridge : atBridge[m] <= sent
  /\ \A m, n \in DOMAIN atBridge : atBridge[m] = atBridge[n] => m = n
  /\ \A m \in DOMAIN answers :
       /\ answers[m].of <= sent
       /\ answers[m].ok => answers[m].of \in opened
       /\ \A n \in DOMAIN atBridge : atBridge[n] # answers[m].of
       /\ \A n \in DOMAIN answers : answers[m].of = answers[n].of => m = n
  /\ \A s \in settling :
       /\ s.answer.of <= sent
       /\ s.answer.ok => s.answer.of \in opened
       /\ \A n \in DOMAIN atBridge : atBridge[n] # s.answer.of
       /\ \A n \in DOMAIN answers : answers[n].of # s.answer.of
       /\ \A t \in settling : s.answer.of = t.answer.of => s = t
       /\ \A i, j \in s.picked : i = j
  /\ \A i \in DOMAIN rows : rows[i].outcome = "APPROVED" =>
       /\ rows[i].ticket \in Orders /\ rows[i].ticket <= sent /\ rows[i].ticket \in opened
       /\ \A n \in DOMAIN atBridge : atBridge[n] # rows[i].ticket
       /\ \A n \in DOMAIN answers : answers[n].of # rows[i].ticket
       /\ \A s \in settling : s.answer.of # rows[i].ticket

\* Only a row that is shown as a position carries a ticket.
Ticketed == \A i \in DOMAIN rows : rows[i].outcome # "APPROVED" => rows[i].ticket = 0

ManualInv == ManualTypeOK /\ OnePlace /\ Ticketed /\ ManualRowsTrue

\* A set of naturals below a bound has its greatest element.
LEMMA MaxIsThere ==
  ASSUME NEW n \in Nat, NEW S, S \subseteq 1 .. n, S # {}
  PROVE  Max(S) \in S
<1> DEFINE Above(x) == {y \in S : y > x}
           T == {Above(x) : x \in S}
<1>1. IsFiniteSet(S)
  <2>1. IsFiniteSet(1 .. n)
    BY FS_Interval
  <2> QED
    BY <2>1, FS_Subset
<1>2. FiniteSubsetsOf(S) = SUBSET S
  BY <1>1, FS_FiniteSubsetsOfFinite
<1>3. IsWellFoundedOn(StrictSubsetOrdering(S), SUBSET S)
  BY <1>2, FS_StrictSubsetOrderingWellFounded
<1>4. T \subseteq SUBSET S /\ T # {}
  OBVIOUS
<1>5. PICK U \in T : \A V \in T : <<V, U>> \notin StrictSubsetOrdering(S)
  <2> HIDE DEF T
  <2> QED
    BY <1>3, <1>4, WFMin
<1>6. PICK x \in S : U = Above(x)
  OBVIOUS
<1>7. \A y \in S : x >= y
  <2> SUFFICES ASSUME NEW y \in S, y > x PROVE FALSE
    OBVIOUS
  <2>1. Above(y) \subseteq Above(x) /\ y \in Above(x) /\ y \notin Above(y)
    <3>1. x \in Int /\ y \in Int
      OBVIOUS
    <3>2. ASSUME NEW z \in S, z > y PROVE z > x
      <4>1. z \in Int
        OBVIOUS
      <4> QED
        BY <3>1, <3>2, <4>1
    <3>3. Above(y) \subseteq Above(x)
      BY <3>2
    <3>4. y \in Above(x) /\ ~ (y > y)
      BY <3>1
    <3> QED
      BY <3>3, <3>4
  <2>2. Above(y) \in T /\ Above(y) \in SUBSET S /\ Above(x) \in SUBSET S
    OBVIOUS
  <2>3. <<Above(y), U>> \in StrictSubsetOrdering(S)
    <3> HIDE DEF Above
    <3> QED
      BY <1>6, <2>1, <2>2 DEF StrictSubsetOrdering
  <2> QED
    BY <1>5, <2>2, <2>3
<1> QED
  BY <1>7 DEF Max

\* No order has been sent.
LEMMA ManualInitially == ManualInit => ManualInv
<1> SUFFICES ASSUME ManualInit PROVE ManualInv
  OBVIOUS
<1>1. ManualTypeOK
  <2>1. cooling \in BOOLEAN
    BY Zenon DEF ManualInit
  <2>2. /\ sent \in 0 .. MaxOrders /\ unwritten \subseteq Orders /\ opened \subseteq Orders
        /\ atBridge \in Seq(Orders) /\ answers \in Seq(Answer) /\ settling = {}
    BY ManualAssumption, EmptySeq DEF ManualAssumption, ManualInit
  <2>3. rows \in Seq([outcome : {"PENDING", "APPROVED", "REJECTED"}, ticket : 0 .. MaxOrders])
    BY EmptySeq DEF ManualInit
  <2> QED
    BY <2>1, <2>2, <2>3 DEF ManualTypeOK
<1>2. OnePlace /\ Ticketed /\ ManualRowsTrue
  BY EmptySeq DEF ManualInit, OnePlace, Ticketed, ManualRowsTrue
<1> QED
  BY <1>1, <1>2 DEF ManualInv

\* A row of the table.
Row == [outcome : {"PENDING", "APPROVED", "REJECTED"}, ticket : 0 .. MaxOrders]

\* The steps up to the bridge's answer add nothing that is already somewhere.
LEMMA OrderStep ==
  ASSUME ManualInv, Order
  PROVE  ManualInv'
<1> DEFINE n == sent + 1
<1>1. /\ sent \in 0 .. MaxOrders /\ sent < MaxOrders /\ MaxOrders \in Nat /\ sent' = n
      /\ cooling' = TRUE /\ unwritten' = unwritten \cup {n}
      /\ atBridge' \in {atBridge, Append(atBridge, n)}
      /\ UNCHANGED <<rows, opened, answers, settling>>
  BY ManualAssumption DEF Order, ManualAssumption, ManualInv, ManualTypeOK
<1>2. n \in Orders /\ \A m \in 0 .. sent : m # n /\ m <= n
  BY <1>1 DEF Orders
<1>3. /\ atBridge' \in Seq(Orders)
      /\ \A m \in DOMAIN atBridge' : \/ m \in DOMAIN atBridge /\ atBridge'[m] = atBridge[m]
                                     \/ m = Len(atBridge) + 1 /\ atBridge'[m] = n
      /\ DOMAIN atBridge = 1 .. Len(atBridge) /\ Len(atBridge) \in Nat
  <2>1. atBridge \in Seq(Orders)
    BY DEF ManualInv, ManualTypeOK
  <2>2. DOMAIN atBridge = 1 .. Len(atBridge) /\ Len(atBridge) \in Nat
    BY <2>1, LenProperties
  <2>3. CASE atBridge' = Append(atBridge, n)
    BY <1>2, <2>1, <2>2, <2>3, AppendProperties
  <2>4. CASE atBridge' = atBridge
    BY <2>1, <2>2, <2>4
  <2> QED
    BY <1>1, <2>2, <2>3, <2>4
<1>6. /\ \A m \in DOMAIN atBridge : atBridge[m] \in Orders /\ atBridge[m] <= sent
      /\ \A m \in DOMAIN answers : answers[m].of \in Orders /\ answers[m].of <= sent
      /\ \A s \in settling : s.answer.of \in Orders /\ s.answer.of <= sent
  <2>1. atBridge \in Seq(Orders) /\ answers \in Seq(Answer) /\ OnePlace
        /\ \A s \in settling : s.answer \in Answer
    BY DEF ManualInv, ManualTypeOK
  <2>2. \A m \in DOMAIN atBridge : atBridge[m] \in Orders
    BY <2>1, ElementOfSeq, LenProperties
  <2>3. \A m \in DOMAIN answers : answers[m] \in Answer
    BY <2>1, ElementOfSeq, LenProperties
  <2> QED
    BY <2>1, <2>2, <2>3 DEF OnePlace, Answer
<1>4. ManualTypeOK'
  BY <1>1, <1>2, <1>3 DEF ManualInv, ManualTypeOK
<1>5. OnePlace'
  <2> HIDE DEF n
  <2>1. OnePlace
    BY DEF ManualInv
  <2>2. n <= sent' /\ \A m \in Orders : m <= sent => m # n /\ m <= sent'
    BY <1>1, <1>2 DEF Orders
  <2>3. \A m \in DOMAIN atBridge' : atBridge'[m] <= sent'
    BY <1>2, <1>3, <1>6, <2>2, <1>1
  <2>4. ASSUME NEW k \in DOMAIN atBridge', NEW l \in DOMAIN atBridge', atBridge'[k] = atBridge'[l]
        PROVE  k = l
    BY <1>3, <1>6, <2>1, <2>2, <2>4 DEF OnePlace
  <2>5. \A m \in DOMAIN answers' :
          /\ answers'[m].of <= sent'
          /\ answers'[m].ok => answers'[m].of \in opened'
          /\ \A k \in DOMAIN atBridge' : atBridge'[k] # answers'[m].of
          /\ \A k \in DOMAIN answers' : answers'[m].of = answers'[k].of => m = k
    BY <1>1, <1>3, <1>6, <2>1, <2>2 DEF OnePlace
  <2>6. \A s \in settling' :
          /\ s.answer.of <= sent'
          /\ s.answer.ok => s.answer.of \in opened'
          /\ \A k \in DOMAIN atBridge' : atBridge'[k] # s.answer.of
          /\ \A k \in DOMAIN answers' : answers'[k].of # s.answer.of
          /\ \A t \in settling' : s.answer.of = t.answer.of => s = t
          /\ \A i, j \in s.picked : i = j
    BY <1>1, <1>3, <1>6, <2>1, <2>2 DEF OnePlace
  <2>7. \A i \in DOMAIN rows' : rows'[i].outcome = "APPROVED" =>
          /\ rows'[i].ticket \in Orders /\ rows'[i].ticket <= sent' /\ rows'[i].ticket \in opened'
          /\ \A k \in DOMAIN atBridge' : atBridge'[k] # rows'[i].ticket
          /\ \A k \in DOMAIN answers' : answers'[k].of # rows'[i].ticket
          /\ \A s \in settling' : s.answer.of # rows'[i].ticket
    BY <1>1, <1>3, <2>1, <2>2 DEF OnePlace
  <2> QED
    BY <2>3, <2>4, <2>5, <2>6, <2>7 DEF OnePlace
<1> QED
  BY <1>1, <1>4, <1>5 DEF ManualInv, Ticketed, ManualRowsTrue

\* The row of an order is inserted as pending, without a ticket, or not at all.
LEMMA WriteOrderStep ==
  ASSUME ManualInv, NEW o \in Orders, WriteOrder(o)
  PROVE  ManualInv'
<1> DEFINE new == [outcome |-> "PENDING", ticket |-> 0]
<1>1. /\ unwritten' = unwritten \ {o} /\ rows' \in {rows, Append(rows, new)}
      /\ UNCHANGED <<sent, cooling, atBridge, opened, answers, settling>>
  BY DEF WriteOrder
<1>2. new \in Row /\ rows \in Seq(Row)
  BY ManualAssumption DEF ManualAssumption, Row, ManualInv, ManualTypeOK
<1> HIDE DEF new
<1>3. /\ rows' \in Seq(Row) /\ DOMAIN rows \subseteq DOMAIN rows'
      /\ \A i \in DOMAIN rows' : \/ i \in DOMAIN rows /\ rows'[i] = rows[i]
                                 \/ rows'[i] = new
  <2>1. CASE rows' = Append(rows, new)
    BY <1>2, <2>1, AppendProperties, LenProperties
  <2>2. CASE rows' = rows
    BY <1>2, <2>2
  <2> QED
    BY <1>1, <2>1, <2>2
<1>4. new.outcome # "APPROVED" /\ new.ticket = 0
  BY DEF new
<1>5. ManualTypeOK'
  BY <1>1, <1>3 DEF ManualInv, ManualTypeOK, Row
<1>6. OnePlace'
  BY <1>1, <1>3, <1>4 DEF ManualInv, OnePlace
<1>7. Ticketed'
  BY <1>3, <1>4 DEF ManualInv, Ticketed
<1>8. ManualRowsTrue'
  <2> SUFFICES ASSUME NEW i \in DOMAIN rows', NEW j \in DOMAIN rows', rows'[i].outcome = "APPROVED"
               PROVE  /\ rows'[i].ticket \in opened'
                      /\ rows'[j].ticket = rows'[i].ticket => i = j
    BY DEF ManualRowsTrue
  <2>1. i \in DOMAIN rows /\ rows'[i] = rows[i] /\ rows[i].ticket \in Orders
        /\ rows[i].ticket \in opened
    BY <1>3, <1>4 DEF ManualInv, OnePlace
  <2>2. rows[i].ticket # 0
    BY <2>1 DEF Orders
  <2> QED
    BY <1>1, <1>3, <1>4, <2>1, <2>2 DEF ManualInv, ManualRowsTrue
<1> QED
  BY <1>5, <1>6, <1>7, <1>8 DEF ManualInv

\* The bridge answers an order: it is no longer at the bridge.
LEMMA AnswerStep ==
  ASSUME ManualInv, NEW ok \in BOOLEAN, BridgeAnswers(ok)
  PROVE  ManualInv'
<1> DEFINE o == atBridge[1]
           a == [of |-> o, ok |-> ok]
<1>1. /\ atBridge # <<>> /\ atBridge' = Tail(atBridge)
      /\ opened' = (IF ok THEN opened \cup {o} ELSE opened)
      /\ answers' \in {answers, Append(answers, a)}
      /\ UNCHANGED <<sent, cooling, unwritten, rows, settling>>
  BY DEF BridgeAnswers
<1>2. atBridge \in Seq(Orders) /\ answers \in Seq(Answer) /\ OnePlace
  BY DEF ManualInv, ManualTypeOK
<1>3. /\ o \in Orders /\ 1 \in DOMAIN atBridge /\ atBridge' \in Seq(Orders)
      /\ \A m \in DOMAIN atBridge' : /\ m \in Nat /\ m + 1 \in DOMAIN atBridge
                                     /\ atBridge'[m] = atBridge[m + 1] /\ m + 1 # 1
  BY <1>1, <1>2, LenProperties, HeadTailProperties, EmptySeq, ElementOfSeq
<1>4. o <= sent /\ \A m \in DOMAIN atBridge' : atBridge'[m] # o
  BY <1>2, <1>3 DEF OnePlace
<1>5. a \in Answer /\ a.of = o /\ a.ok = ok
  BY <1>3 DEF Answer
<1> HIDE DEF o, a
<1>6. /\ answers' \in Seq(Answer)
      /\ \A m \in DOMAIN answers' : \/ m \in DOMAIN answers /\ answers'[m] = answers[m]
                                    \/ m = Len(answers) + 1 /\ answers'[m] = a
  <2>1. CASE answers' = Append(answers, a)
    BY <1>2, <1>5, <2>1, AppendProperties, LenProperties
  <2>2. CASE answers' = answers
    BY <1>2, <2>2
  <2> QED
    BY <1>1, <2>1, <2>2
<1>7. opened \subseteq opened' /\ opened' \subseteq Orders /\ (ok => o \in opened')
  BY <1>1, <1>3 DEF ManualInv, ManualTypeOK
<1>8. ManualTypeOK'
  BY <1>1, <1>3, <1>6, <1>7 DEF ManualInv, ManualTypeOK
<1>9. OnePlace'
  <2>1. \A m \in DOMAIN atBridge' : atBridge'[m] <= sent'
    BY <1>1, <1>2, <1>3 DEF OnePlace
  <2>2. ASSUME NEW k \in DOMAIN atBridge', NEW l \in DOMAIN atBridge', atBridge'[k] = atBridge'[l]
        PROVE  k = l
    <3>1. k + 1 = l + 1
      BY <1>2, <1>3, <2>2 DEF OnePlace
    <3> QED
      BY <1>3, <3>1
  <2>3. \A n \in DOMAIN answers : answers[n].of # o
    BY <1>2, <1>3 DEF OnePlace, o
  <2>4. ASSUME NEW m \in DOMAIN answers'
        PROVE  /\ answers'[m].of <= sent'
               /\ answers'[m].ok => answers'[m].of \in opened'
               /\ \A n \in DOMAIN atBridge' : atBridge'[n] # answers'[m].of
               /\ \A n \in DOMAIN answers' : answers'[m].of = answers'[n].of => m = n
    BY <1>1, <1>2, <1>3, <1>4, <1>5, <1>6, <1>7, <2>3 DEF OnePlace
  <2>5. ASSUME NEW s \in settling'
        PROVE  /\ s.answer.of <= sent'
               /\ s.answer.ok => s.answer.of \in opened'
               /\ \A n \in DOMAIN atBridge' : atBridge'[n] # s.answer.of
               /\ \A n \in DOMAIN answers' : answers'[n].of # s.answer.of
               /\ \A t \in settling' : s.answer.of = t.answer.of => s = t
               /\ \A i, j \in s.picked : i = j
    <3>1. s.answer.of # o
      BY <1>1, <1>2, <1>3 DEF OnePlace, o
    <3> QED
      BY <1>1, <1>2, <1>3, <1>5, <1>6, <1>7, <3>1 DEF OnePlace
  <2>6. ASSUME NEW i \in DOMAIN rows', rows'[i].outcome = "APPROVED"
        PROVE  /\ rows'[i].ticket \in Orders /\ rows'[i].ticket <= sent' /\ rows'[i].ticket \in opened'
               /\ \A n \in DOMAIN atBridge' : atBridge'[n] # rows'[i].ticket
               /\ \A n \in DOMAIN answers' : answers'[n].of # rows'[i].ticket
               /\ \A s \in settling' : s.answer.of # rows'[i].ticket
    <3>1. rows'[i].ticket # o
      BY <1>1, <1>2, <1>3, <2>6 DEF OnePlace, o
    <3> QED
      BY <1>1, <1>2, <1>3, <1>5, <1>6, <1>7, <2>6, <3>1 DEF OnePlace
  <2> QED
    BY <2>1, <2>2, <2>4, <2>5, <2>6 DEF OnePlace
<1> QED
  BY <1>1, <1>7, <1>8, <1>9 DEF ManualInv, Ticketed, ManualRowsTrue

\* The gateway hears an answer: it moves to a settle task, which has found the
\* newest pending row, if any.
LEMMA HearStep ==
  ASSUME ManualInv, Hear
  PROVE  ManualInv'
<1> DEFINE a == answers[1]
           new == [answer |-> a, picked |-> Picks]
<1>1. /\ answers # <<>> /\ answers' = Tail(answers)
      /\ settling' = settling \cup {new}
      /\ UNCHANGED <<sent, cooling, unwritten, rows, atBridge, opened>>
  BY DEF Hear
<1>2. answers \in Seq(Answer) /\ OnePlace /\ rows \in Seq(Row)
  BY DEF ManualInv, ManualTypeOK, Row
<1>3. /\ a \in Answer /\ 1 \in DOMAIN answers /\ answers' \in Seq(Answer)
      /\ \A m \in DOMAIN answers' : /\ m \in Nat /\ m + 1 \in DOMAIN answers
                                    /\ answers'[m] = answers[m + 1] /\ m + 1 # 1
  BY <1>1, <1>2, LenProperties, HeadTailProperties, EmptySeq, ElementOfSeq
<1>4. Picks \subseteq DOMAIN rows /\ \A i, j \in Picks : i = j
  <2>1. CASE PendingRows = {}
    BY <2>1 DEF Picks
  <2>2. CASE PendingRows # {}
    <3>1. Len(rows) \in Nat /\ DOMAIN rows = 1 .. Len(rows) /\ PendingRows \subseteq DOMAIN rows
      BY <1>2, LenProperties DEF PendingRows
    <3>2. Max(PendingRows) \in PendingRows
      BY <2>2, <3>1, MaxIsThere
    <3> QED
      BY <2>2, <3>1, <3>2 DEF Picks
  <2> QED
    BY <2>1, <2>2
<1>5. new.answer = a /\ new.picked = Picks
  OBVIOUS
<1> HIDE DEF new
<1>6. ManualTypeOK'
  BY <1>1, <1>3, <1>4, <1>5 DEF ManualInv, ManualTypeOK
<1>7. OnePlace'
  <2>1. /\ a.of <= sent /\ (a.ok => a.of \in opened)
        /\ \A n \in DOMAIN atBridge : atBridge[n] # a.of
        /\ \A n \in DOMAIN answers' : answers'[n].of # a.of
        /\ \A t \in settling : t.answer.of # a.of
    BY <1>2, <1>3 DEF OnePlace
  <2>2. \A m \in DOMAIN answers' : \E l \in DOMAIN answers : answers'[m] = answers[l] /\ l = m + 1
    BY <1>3
  <2>3. ASSUME NEW m \in DOMAIN answers'
        PROVE  /\ answers'[m].of <= sent'
               /\ answers'[m].ok => answers'[m].of \in opened'
               /\ \A n \in DOMAIN atBridge' : atBridge'[n] # answers'[m].of
               /\ \A n \in DOMAIN answers' : answers'[m].of = answers'[n].of => m = n
    <3>1. ASSUME NEW n \in DOMAIN answers', answers'[m].of = answers'[n].of PROVE m = n
      <4>1. m + 1 = n + 1
        BY <1>2, <1>3, <3>1 DEF OnePlace
      <4> QED
        BY <1>3, <4>1
    <3> QED
      BY <1>1, <1>2, <1>3, <3>1 DEF OnePlace
  <2>4. ASSUME NEW s \in settling'
        PROVE  /\ s.answer.of <= sent'
               /\ s.answer.ok => s.answer.of \in opened'
               /\ \A n \in DOMAIN atBridge' : atBridge'[n] # s.answer.of
               /\ \A n \in DOMAIN answers' : answers'[n].of # s.answer.of
               /\ \A t \in settling' : s.answer.of = t.answer.of => s = t
               /\ \A i, j \in s.picked : i = j
    <3> HIDE DEF a
    <3>1. CASE s = new
      BY <1>1, <1>4, <1>5, <2>1, <3>1
    <3>2. CASE s \in settling
      BY <1>1, <1>2, <1>5, <2>1, <2>2, <3>2 DEF OnePlace
    <3> QED
      BY <1>1, <3>1, <3>2
  <2>5. ASSUME NEW i \in DOMAIN rows', rows'[i].outcome = "APPROVED"
        PROVE  /\ rows'[i].ticket \in Orders /\ rows'[i].ticket <= sent' /\ rows'[i].ticket \in opened'
               /\ \A n \in DOMAIN atBridge' : atBridge'[n] # rows'[i].ticket
               /\ \A n \in DOMAIN answers' : answers'[n].of # rows'[i].ticket
               /\ \A s \in settling' : s.answer.of # rows'[i].ticket
    BY <1>1, <1>2, <1>3, <1>5, <2>5 DEF OnePlace
  <2> QED
    BY <1>1, <1>2, <2>3, <2>4, <2>5 DEF OnePlace
<1> QED
  BY <1>1, <1>6, <1>7 DEF ManualInv, Ticketed, ManualRowsTrue

\* A settle task writes its answer on the row it found.
LEMMA SettleStep ==
  ASSUME ManualInv, NEW s \in settling, Settle(s)
  PROVE  ManualInv'
<1> DEFINE settled == [outcome |-> IF s.answer.ok THEN "APPROVED" ELSE "REJECTED",
                       ticket  |-> IF s.answer.ok THEN s.answer.of ELSE 0]
<1>1. /\ settling' = settling \ {s}
      /\ rows' = [i \in DOMAIN rows |-> IF i \in s.picked THEN settled ELSE rows[i]]
      /\ UNCHANGED <<sent, cooling, unwritten, atBridge, opened, answers>>
  BY DEF Settle
<1>2. OnePlace /\ rows \in Seq(Row) /\ s.answer \in Answer /\ s.picked \subseteq DOMAIN rows
  BY DEF ManualInv, ManualTypeOK, Row
<1>3. /\ settled \in Row /\ settled.outcome \in {"APPROVED", "REJECTED"}
      /\ settled.outcome = "APPROVED" => s.answer.ok /\ settled.ticket = s.answer.of
      /\ settled.outcome # "APPROVED" => settled.ticket = 0
      /\ s.answer.of \in Orders
  BY <1>2, ManualAssumption DEF ManualAssumption, Answer, Orders, Row
<1> HIDE DEF settled
<1>4. /\ DOMAIN rows' = DOMAIN rows /\ rows' \in Seq(Row)
      /\ \A i \in DOMAIN rows : rows'[i] = IF i \in s.picked THEN settled ELSE rows[i]
  <2>1. DOMAIN rows = 1 .. Len(rows) /\ Len(rows) \in Nat /\ \A i \in DOMAIN rows : rows[i] \in Row
    BY <1>2, LenProperties, ElementOfSeq
  <2> QED
    BY <1>1, <1>3, <2>1
<1>5. ManualTypeOK'
  BY <1>1, <1>4 DEF ManualInv, ManualTypeOK, Row
<1>6. /\ s.answer.of <= sent /\ (s.answer.ok => s.answer.of \in opened)
      /\ \A n \in DOMAIN atBridge : atBridge[n] # s.answer.of
      /\ \A n \in DOMAIN answers : answers[n].of # s.answer.of
      /\ \A t \in settling' : t.answer.of # s.answer.of
      /\ \A i, j \in s.picked : i = j
  BY <1>1, <1>2 DEF OnePlace
<1>7. OnePlace'
  BY <1>1, <1>2, <1>3, <1>4, <1>6 DEF OnePlace
<1>8. Ticketed'
  BY <1>3, <1>4 DEF ManualInv, Ticketed
<1>9. ManualRowsTrue'
  <2> SUFFICES ASSUME NEW i \in DOMAIN rows, NEW j \in DOMAIN rows, rows'[i].outcome = "APPROVED"
               PROVE  /\ rows'[i].ticket \in opened'
                      /\ rows'[j].ticket = rows'[i].ticket => i = j
    BY <1>4 DEF ManualRowsTrue
  <2>1. \A k \in DOMAIN rows : k \notin s.picked => rows[k].ticket # s.answer.of
    BY <1>2, <1>3 DEF OnePlace, ManualInv, Ticketed, Orders
  <2>2. rows'[i].ticket \in Orders /\ 0 \notin Orders
    BY <1>4, <1>7 DEF OnePlace, Orders
  <2>3. CASE i \in s.picked
    BY <1>1, <1>3, <1>4, <1>6, <2>1, <2>2, <2>3
  <2>4. CASE i \notin s.picked
    <3>1. rows'[i] = rows[i]
      BY <1>4, <2>4
    <3>2. CASE j \in s.picked
      BY <1>3, <1>4, <1>1, <2>1, <2>2, <2>4, <3>1, <3>2 DEF ManualInv, ManualRowsTrue
    <3>3. CASE j \notin s.picked
      BY <1>1, <1>4, <3>1, <3>3 DEF ManualInv, ManualRowsTrue
    <3> QED
      BY <3>2, <3>3
  <2> QED
    BY <2>3, <2>4
<1> QED
  BY <1>5, <1>7, <1>8, <1>9 DEF ManualInv

\* The inductive invariant of manual orders.
LEMMA ManualStep ==
  ASSUME ManualInv, ManualNext \/ UNCHANGED manualVars
  PROVE  ManualInv'
<1>1. ASSUME CoolsDown \/ UNCHANGED manualVars
      PROVE  ManualInv'
  <2>1. cooling' \in BOOLEAN
    BY <1>1, Zenon DEF CoolsDown, manualVars, ManualInv, ManualTypeOK
  <2>2. UNCHANGED <<sent, unwritten, rows, atBridge, opened, answers, settling>>
    BY <1>1 DEF CoolsDown, manualVars
  <2>3. ManualTypeOK'
    BY <2>1, <2>2 DEF ManualInv, ManualTypeOK
  <2> QED
    BY <2>2, <2>3 DEF ManualInv, OnePlace, Ticketed, ManualRowsTrue
<1> QED
  BY <1>1, OrderStep, WriteOrderStep, AnswerStep, HearStep, SettleStep DEF ManualNext

\* What is asked of manual orders follows from it.
LEMMA ManualImplies == ManualInv => ManualTypeOK /\ ManualRowsTrue
BY DEF ManualInv

----------------------------------------------------------------------------
(* Operations: every part keeps its invariant, whichever the behaviour      *)
(* follows.                                                                 *)

Parts == {"control", "board", "costs", "sources", "bursts", "queue", "manual", "subs"}

OpsInv ==
  /\ focus \in Parts
  /\ ControlInv /\ BoardTypeOK /\ CostInv /\ SourcesInv
  /\ BurstInv /\ QueueInv /\ ManualInv /\ SubInv

\* All parts start in their invariants.
LEMMA OpsInitially == Init => OpsInv
BY ControlInitially, BoardInitially, CostInitially, SourcesInitially, BurstInitially,
   QueueInitially, ManualInitially, SubInitially DEF Init, OpsInv, Parts

\* A step is a step of one part, and a stutter of the others.
LEMMA OneMoves ==
  ASSUME [Next]_vars
  PROVE  /\ ControlNext \/ UNCHANGED controlVars
         /\ BoardNext \/ UNCHANGED boardVars
         /\ CostNext \/ UNCHANGED costVars
         /\ SourcesNext \/ UNCHANGED sourceVars
         /\ BurstNext \/ UNCHANGED burstVars
         /\ QueueNext \/ UNCHANGED queueVars
         /\ ManualNext \/ UNCHANGED manualVars
         /\ SubNext \/ UNCHANGED subVars
         /\ UNCHANGED focus
<1>1. CASE UNCHANGED vars
  BY <1>1 DEF vars
<1>2. CASE Next
  BY <1>2 DEF Next, Control, Meeting, Costs, Sources, BurstsSeen, Queue, Manual, Paid
<1> QED
  BY <1>1, <1>2

\* A step of one part leaves the others where they are.
LEMMA OpsStep == OpsInv /\ [Next]_vars => OpsInv'
<1> SUFFICES ASSUME OpsInv, [Next]_vars PROVE OpsInv'
  OBVIOUS
<1>1. ControlInv /\ BoardTypeOK /\ CostInv /\ SourcesInv /\ BurstInv /\ QueueInv
      /\ ManualInv /\ SubInv /\ focus \in Parts
  BY DEF OpsInv
<1>2. ControlInv' /\ BoardTypeOK' /\ CostInv' /\ SourcesInv'
  BY <1>1, OneMoves, ControlStep, BoardKeepsType, CostStep, SourcesStep
<1>3. BurstInv' /\ QueueInv' /\ ManualInv' /\ SubInv'
  BY <1>1, OneMoves, BurstStep, QueueStep, ManualStep, SubStep
<1>4. (focus \in Parts)'
  BY <1>1, OneMoves
<1> QED
  BY <1>2, <1>3, <1>4 DEF OpsInv

\* What the theorems below state follows from the invariants of the parts.
LEMMA OpsImplies ==
  OpsInv => /\ TypeOK /\ RiskInBand /\ KernelFollows /\ CostsAccounted /\ HandledOnce
            /\ BurstsSpaced /\ WorkerPostsOnce /\ ManualRowsTrue /\ PaidFor
<1> SUFFICES ASSUME OpsInv
    PROVE  /\ TypeOK /\ RiskInBand /\ KernelFollows /\ CostsAccounted /\ HandledOnce
           /\ BurstsSpaced /\ WorkerPostsOnce /\ ManualRowsTrue /\ PaidFor
  OBVIOUS
<1>1. /\ ControlTypeOK /\ BoardTypeOK /\ CostTypeOK /\ SourcesTypeOK
      /\ BurstTypeOK /\ QueueTypeOK /\ ManualTypeOK /\ SubTypeOK
  BY ControlImplies, QueueImplies, ManualImplies DEF OpsInv, CostInv, SourcesInv, BurstInv, SubInv
<1>2. TypeOK
  BY <1>1 DEF OpsInv, Parts, TypeOK
<1> QED
  BY <1>2, ControlImplies, QueueImplies, ManualImplies
     DEF OpsInv, CostInv, SourcesInv, BurstInv, SubInv

\* The invariant of all parts.
LEMMA OpsAlways == Spec => []OpsInv
<1>1. OpsInv /\ [Next]_vars => OpsInv'
  BY OpsStep
<1> QED
  BY OpsInitially, <1>1, PTL DEF Spec

\* The part a behaviour follows stays in its types, whatever it does.
THEOREM OperationsTyped == Spec => []TypeOK
BY OpsAlways, OpsImplies, PTL

\* No risk the kernel sizes a trade with leaves what the page, Telegram and the
\* breaker can make of MAX_RISK_PCT and the band (between a half of the lower and
\* the boost of the higher), whoever changed it and in whatever order.
THEOREM RiskStaysInBand == Spec => []RiskInBand
BY OpsAlways, OpsImplies, PTL

\* A kernel that hears control and has nothing left to hear runs what was stored
\* last, for any number of pages, restarts and lost connections, but for a value
\* that was lost with the connection or on the way to the database, that Telegram
\* set, or, for the risk, that the breaker halved, boosted or restored.
THEOREM KernelFollowsPage == Spec => []KernelFollows
BY OpsAlways, OpsImplies, PTL

\* Every recorded call is stored, in a flush or buffered, or died with the
\* kernel; what is stored twice was stored by a flush that then failed.
THEOREM CostsAreAccounted == Spec => []CostsAccounted
BY OpsAlways, OpsImplies, PTL

\* The handlers see a signal once, and the mock's at most twice, for any number
\* of signals, symbols and turns of the listener.
THEOREM SignalsHandledOnce == Spec => []HandledOnce
BY OpsAlways, OpsImplies, PTL

\* Bursts of a symbol are a cooldown apart within one run of the kernel, for every
\* window, cooldown and sequence of prices.
THEOREM BurstsAreSpaced == Spec => []BurstsSpaced
BY OpsAlways, OpsImplies, PTL

\* An item that only the worker handles, and did not give up before its row was
\* marked, is uploaded at most once, for any number of items, handlers, timeouts,
\* database failures and restarts of the gateway.
THEOREM WorkerPublishesOnce == Spec => []WorkerPostsOnce
BY OpsAlways, OpsImplies, PTL

\* A row shown as a position carries the ticket of one MT5 opened, and no other
\* row does, for any number of orders and however late or lost the answers are.
THEOREM ManualRowsAreTrue == Spec => []ManualRowsTrue
BY OpsAlways, OpsImplies, PTL

\* No subscriber has more days than a plan they asked for, or an admin by hand,
\* gives, and an approved request has its subscriber, for any number of admins
\* approving at once and half-way failures.
THEOREM MembersPaid == Spec => []PaidFor
BY OpsAlways, OpsImplies, PTL

=============================================================================
