---------------------------- MODULE ContentQueue ----------------------------
(***************************************************************************)
(* The gateway's publishing queue: the rows of content_queue, the worker    *)
(* that posts what is due, and the publish endpoint both it and the page    *)
(* call.  A post takes longer (300 s) than the worker waits for the whole   *)
(* request (120 s), and the request goes on when the worker does.           *)
(***************************************************************************)
EXTENDS Naturals, Sequences, FiniteSets

CONSTANTS
  Items,
  Handlers,     \* requests to the publish endpoint that may run at once
  MaxPosts      \* bound: publish requests

ASSUME QueueAssumption == IsFiniteSet(Items) /\ IsFiniteSet(Handlers) /\ MaxPosts \in Nat

VARIABLES
  status,       \* of each row: "none" before there is one, "gone" when deleted
  due,          \* ids the worker fetched and has not come to
  handler,      \* what each request is doing, with which item
  awaited,      \* the request the worker waits for, in a set
  posts,        \* requests so far
  uploads,      \* history: how often the item went out
  retried,      \* history: published by hand, or scheduled by hand when it was
                \* out or on its way
  unmarked      \* history: given up by the worker before the row was marked

queueVars == <<status, due, handler, awaited, posts, uploads, retried, unmarked>>

Free == [step |-> "free"]
Busy(h) == handler[h] # Free

Statuses == {"queued", "scheduled", "publishing", "published"}

QueueTypeOK ==
  /\ status \in [Items -> Statuses \cup {"none", "gone"}]
  /\ due \in Seq(Items) /\ awaited \subseteq Handlers
  /\ handler \in [Handlers -> {Free} \cup
                    [of : Items, step : {"read", "mark", "post", "note", "sent"}]]
  /\ posts \in 0 .. MaxPosts /\ retried \subseteq Items /\ unmarked \subseteq Items
  /\ uploads \in [Items -> 0 .. MaxPosts]

QueueInit ==
  /\ status = [i \in Items |-> "none"] /\ due = <<>>
  /\ handler = [h \in Handlers |-> Free] /\ awaited = {}
  /\ posts = 0 /\ uploads = [i \in Items |-> 0] /\ retried = {} /\ unmarked = {}

Exists(i) == status[i] \in Statuses

\* An update of a row that was deleted changes nothing.
SetStatus(i, s) == status' = [status EXCEPT ![i] = IF Exists(i) THEN s ELSE @]

\* add_to_queue and _auto_queue_trade_post: the status is the column's default,
\* even when the item comes with a time.
Add(i) ==
  /\ status[i] = "none"
  /\ status' = [status EXCEPT ![i] = "queued"]
  /\ UNCHANGED <<due, handler, awaited, posts, uploads, retried, unmarked>>

\* PATCH: any status whatever the item is doing.
Patch(i, s) ==
  /\ Exists(i)
  /\ SetStatus(i, s)
  /\ retried' = IF s = "scheduled" /\ (uploads[i] > 0 \/ \E h \in Handlers : Busy(h) /\ handler[h].of = i)
                  THEN retried \cup {i} ELSE retried
  /\ UNCHANGED <<due, handler, awaited, posts, uploads, unmarked>>

DeleteItem(i) ==
  /\ Exists(i)
  /\ SetStatus(i, "gone")
  /\ UNCHANGED <<due, handler, awaited, posts, uploads, retried, unmarked>>

----------------------------------------------------------------------------
Request(h, i) ==
  /\ handler[h] = Free /\ posts < MaxPosts
  /\ posts' = posts + 1
  /\ handler' = [handler EXCEPT ![h] = [of |-> i, step |-> "read"]]

PublishByHand(h, i) ==
  /\ Exists(i)
  /\ Request(h, i)
  /\ retried' = retried \cup {i}
  /\ UNCHANGED <<status, due, awaited, uploads, unmarked>>

\* _scheduled_post_worker: fetches scheduled rows whose time has come, ten at the
\* most, so any of them, and posts one after the other.
Fetch ==
  /\ due = <<>> /\ awaited = {}
  /\ LET Scheduled == {i \in Items : status[i] = "scheduled"} IN
       \E n \in 1 .. Cardinality(Scheduled) : \E s \in [1 .. n -> Scheduled] :
         /\ \A k, l \in 1 .. n : s[k] = s[l] => k = l
         /\ due' = s
  /\ UNCHANGED <<status, handler, awaited, posts, uploads, retried, unmarked>>

WorkerPosts(h) ==
  /\ due # <<>> /\ awaited = {}
  /\ Request(h, due[1])
  /\ due' = Tail(due) /\ awaited' = {h}
  /\ UNCHANGED <<status, uploads, retried, unmarked>>

At(h, step) == handler[h].step = step

\* After 120 s the worker goes on, wherever the request is; the request does too.
WorkerTimesOut ==
  /\ awaited # {} /\ awaited' = {}
  /\ unmarked' = unmarked \cup {handler[h].of : h \in {g \in awaited : At(g, "read") \/ At(g, "mark")}}
  /\ UNCHANGED <<status, due, handler, posts, uploads, retried>>

Goes(h, step) == handler' = [handler EXCEPT ![h].step = step]
Answers(h) == handler' = [handler EXCEPT ![h] = Free] /\ awaited' = awaited \ {h}

ReadItem(h) ==
  /\ At(h, "read")
  /\ IF Exists(handler[h].of) THEN Goes(h, "mark") /\ UNCHANGED awaited ELSE Answers(h)
  /\ UNCHANGED <<status, due, posts, uploads, retried, unmarked>>

\* Mutant: the row says nothing until the post is over.
MarksNothing(h) == UNCHANGED status

Marks(h) == SetStatus(handler[h].of, "publishing")

Mark(h) ==
  /\ At(h, "mark")
  /\ Marks(h) /\ Goes(h, "post")
  /\ UNCHANGED <<due, awaited, posts, uploads, retried, unmarked>>

\* The media service uploads, and its answer may be an error all the same.
Post(h) ==
  /\ At(h, "post")
  /\ \/ Goes(h, "sent") /\ uploads' = [uploads EXCEPT ![handler[h].of] = @ + 1]
     \/ Goes(h, "note") /\ uploads' = [uploads EXCEPT ![handler[h].of] = @ + 1]
     \/ Goes(h, "note") /\ UNCHANGED uploads
  /\ UNCHANGED <<status, due, awaited, posts, retried, unmarked>>

Note(h) ==
  /\ \/ At(h, "sent") /\ SetStatus(handler[h].of, "published")
     \/ At(h, "note") /\ SetStatus(handler[h].of, "queued")
  /\ Answers(h)
  /\ UNCHANGED <<due, posts, uploads, retried, unmarked>>

\* The database fails: the request ends with an error and the row stays as it is.
RequestFails(h) ==
  /\ Busy(h) /\ ~At(h, "post")
  /\ Answers(h)
  /\ UNCHANGED <<status, due, posts, uploads, retried, unmarked>>

\* The worker and the endpoint live in one process; the media service may
\* finish what they asked for.
GatewayRestarts ==
  /\ handler' = [h \in Handlers |-> Free] /\ awaited' = {} /\ due' = <<>>
  /\ \E S \in SUBSET {h \in Handlers : At(h, "post")} :
       uploads' = [i \in Items |-> uploads[i] + Cardinality({h \in S : handler[h].of = i})]
  /\ UNCHANGED <<status, posts, retried, unmarked>>

QueueNext ==
  \/ \E i \in Items : \/ Add(i) \/ DeleteItem(i)
                      \/ \E s \in Statuses : Patch(i, s)
                      \/ \E h \in Handlers : PublishByHand(h, i)
  \/ \E h \in Handlers : WorkerPosts(h) \/ ReadItem(h) \/ Mark(h) \/ Post(h) \/ Note(h) \/ RequestFails(h)
  \/ Fetch \/ WorkerTimesOut \/ GatewayRestarts

----------------------------------------------------------------------------
\* An item that only the worker handles goes out at most once: not again when
\* the worker stops waiting for the post and looks at the table a second time,
\* and not when the gateway is restarted or the database fails on the way.  Only
\* a wait that ends before the row is marked leaves it to be fetched again.
WorkerPostsOnce == \A i \in Items \ (retried \cup unmarked) : uploads[i] <= 1

=============================================================================
