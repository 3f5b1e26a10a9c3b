--------------------------- MODULE Subscriptions ---------------------------
(* Subscription bookkeeping: the private tables of each worker's            *)
(* ThreadLocalPubSub (pubsub/manager.rs) and the concurrent maps of the     *)
(* GlobalRegistry they all share (pubsub/registry.rs).                      *)
(*                                                                          *)
(* A worker handles one command at a time, and its own tables are touched   *)
(* by no other thread, so the local part of an iteration takes effect       *)
(* together with the registry call it leads to.  Each registry call is a    *)
(* step of its own.  A removal is two steps: the code releases the map      *)
(* entry before it removes the key, and other workers run in between.       *)
(*                                                                          *)
(* The channel and the pattern versions of every routine have the same      *)
(* text over different maps; a topic is a channel or a pattern, and the     *)
(* maps are indexed by topics.                                              *)
EXTENDS Integers, FiniteSets

CONSTANTS
    Threads,        \* the workers
    Conns,          \* connection slots; a slot is reused after a close
    Channels,
    Patterns,
    None            \* an absent map entry, or no connection, topic or worker

Topics == Channels \cup Patterns

ASSUME TopicsAssumption == Channels \cap Patterns = {}

ASSUME ConnsAssumption == IsFiniteSet(Conns)

ASSUME NoneAssumption ==
    /\ None \notin Threads \cup Conns \cup Topics
    /\ \A S \in SUBSET Threads : S # None
    /\ None \notin Nat

VARIABLES
    home,               \* worker whose connections map holds the connection
    subs,               \* exact_subs / pattern_subs of a worker ({}: no entry)
    connTopics,         \* connection_channels and connection_patterns
    subscription_count, \* Connection.subscription_count
    interest,           \* channel_to_threads / pattern_to_threads
    counts,             \* channel_ / pattern_subscriber_counts
    task                \* the command a worker is in the middle of

localVars == <<home, subs, connTopics, subscription_count>>
vars == <<home, subs, connTopics, subscription_count,
          interest, counts, task>>

PCs == {"idle", "loop", "addInterest", "dropCount", "remInterest",
        "dropInterest"}
Ops == {"none", "subscribe", "unsubscribe", "unsubscribe_all", "drop"}

Task(pc, op, c, todo, x) ==
    [pc |-> pc, op |-> op, conn |-> c, todo |-> todo, topic |-> x]

NoTask == Task("idle", "none", None, {}, None)

At(t, pc) == task[t].pc = pc

GoTo(t, pc) ==
    task' = [task EXCEPT ![t] = Task(pc, @.op, @.conn, @.todo, @.topic)]

(* get_channel_threads and the counts' getters: an absent entry is empty.   *)
Interested(x) == IF interest[x] = None THEN {} ELSE interest[x]
Count(x)      == IF counts[x] = None THEN 0 ELSE counts[x]

(* get_connection_subscription_count *)
SubscriptionCount(c) == Cardinality(connTopics[c])

----------------------------------------------------------------------------

Init ==
    /\ home = [c \in Conns |-> None]
    /\ subs = [t \in Threads |-> [x \in Topics |-> {}]]
    /\ connTopics = [c \in Conns |-> {}]
    /\ subscription_count = [c \in Conns |-> 0]
    /\ interest = [x \in Topics |-> None]
    /\ counts = [x \in Topics |-> None]
    /\ task = [t \in Threads |-> NoTask]

(* The worker's accept loop takes a new connection. *)
Accept(t, c) ==
    /\ At(t, "idle")
    /\ home[c] = None
    /\ home' = [home EXCEPT ![c] = t]
    /\ UNCHANGED <<subs, connTopics, subscription_count, interest, counts,
                   task>>

Begin(t, c, op, topics) ==
    /\ At(t, "idle")
    /\ home[c] = t
    /\ task' = [task EXCEPT ![t] = Task("loop", op, c, topics, None)]

BeginSubscribe(t, c, channels) ==
    /\ channels \subseteq Channels
    /\ Begin(t, c, "subscribe", channels)
    /\ UNCHANGED <<localVars, interest, counts>>

BeginPSubscribe(t, c, patterns) ==
    /\ patterns \subseteq Patterns
    /\ Begin(t, c, "subscribe", patterns)
    /\ UNCHANGED <<localVars, interest, counts>>

BeginUnsubscribe(t, c, channels) ==
    /\ channels \subseteq Channels
    /\ Begin(t, c, "unsubscribe", channels)
    /\ UNCHANGED <<localVars, interest, counts>>

BeginPUnsubscribe(t, c, patterns) ==
    /\ patterns \subseteq Patterns
    /\ Begin(t, c, "unsubscribe", patterns)
    /\ UNCHANGED <<localVars, interest, counts>>

(* Without arguments the connection's list is taken out of its map first,   *)
(* then walked.  An empty or absent list changes nothing.                   *)
TakeList(t, c, op, topics) ==
    /\ Begin(t, c, op, topics)
    /\ connTopics' = [connTopics EXCEPT ![c] = @ \ topics]
    /\ UNCHANGED <<home, subs, subscription_count, interest, counts>>

BeginUnsubscribeAll(t, c) ==
    /\ connTopics[c] \cap Channels # {}
    /\ TakeList(t, c, "unsubscribe_all", connTopics[c] \cap Channels)

BeginPUnsubscribeAll(t, c) ==
    /\ connTopics[c] \cap Patterns # {}
    /\ TakeList(t, c, "unsubscribe_all", connTopics[c] \cap Patterns)

(* Mutation of BeginDrop: punsubscribe(None) is forgotten. *)
DropChannels(t, c) == TakeList(t, c, "drop", connTopics[c] \cap Channels)

(* connection_dropped: unsubscribe(None), then punsubscribe(None). *)
BeginDrop(t, c) == TakeList(t, c, "drop", connTopics[c])

----------------------------------------------------------------------------
(* Steps of a command in progress. *)

(* One iteration of subscribe or psubscribe, with the increment of the      *)
(* global count; the interest is registered next when the topic is new to   *)
(* the worker.                                                              *)
SubscribeTopic(t, x) ==
    LET c == task[t].conn IN
    /\ At(t, "loop")
    /\ task[t].op = "subscribe"
    /\ x \in task[t].todo
    /\ task' = [task EXCEPT ![t] = Task(
                  IF subs[t][x] = {} THEN "addInterest" ELSE "loop",
                  "subscribe", c, task[t].todo \ {x}, x)]
    /\ subs' = [subs EXCEPT ![t][x] = @ \cup {c}]
    /\ connTopics' = [connTopics EXCEPT ![c] = @ \cup {x}]
    /\ counts' = IF c \in subs[t][x] THEN counts
                 ELSE [counts EXCEPT ![x] = Count(x) + 1]
    /\ UNCHANGED <<home, subscription_count, interest>>

(* Mutation of AddInterest: or_default without the insert for a new key. *)
AddInterestLate(t) ==
    LET x == task[t].topic IN
    /\ At(t, "addInterest")
    /\ interest' = IF interest[x] = None THEN [interest EXCEPT ![x] = {}]
                   ELSE [interest EXCEPT ![x] = @ \cup {t}]
    /\ GoTo(t, "loop")
    /\ UNCHANGED <<localVars, counts>>

(* add_channel_interest: entry().or_default().insert() under one lock. *)
AddInterest(t) ==
    LET x == task[t].topic IN
    /\ At(t, "addInterest")
    /\ interest' = [interest EXCEPT ![x] = Interested(x) \cup {t}]
    /\ GoTo(t, "loop")
    /\ UNCHANGED <<localVars, counts>>

(* connection_dropped walks the channels before the patterns. *)
NextInList(t, x) ==
    /\ x \in task[t].todo
    /\ (task[t].op = "drop" /\ x \in Patterns)
            => task[t].todo \cap Channels = {}

(* Mutation of Decremented: it stops at one. *)
DecrementedToOne(x) == IF counts[x] = None THEN None
                       ELSE IF counts[x] > 1 THEN counts[x] - 1 ELSE counts[x]

(* decrement_channel_subscribers up to the release of the entry. *)
Decremented(x) == IF counts[x] = None THEN None
                  ELSE IF counts[x] > 0 THEN counts[x] - 1 ELSE 0

(* One iteration of unsubscribe or punsubscribe up to the first point where *)
(* the registry is unlocked.                                                *)
UnsubscribeTopic(t, x) ==
    LET c    == task[t].conn
        left == subs[t][x] \ {c}
    IN
    /\ At(t, "loop")
    /\ task[t].op \in {"unsubscribe", "unsubscribe_all", "drop"}
    /\ NextInList(t, x)
    /\ subs' = [subs EXCEPT ![t][x] = left]
    /\ connTopics' = [connTopics EXCEPT ![c] = @ \ {x}]
    /\ counts' = IF c \in subs[t][x]
                 THEN [counts EXCEPT ![x] = Decremented(x)]
                 ELSE counts
    /\ task' = [task EXCEPT ![t] = Task(
                  IF c \notin subs[t][x] THEN "loop"
                  ELSE IF Decremented(x) = 0 THEN "dropCount"
                  ELSE IF left = {} THEN "remInterest" ELSE "loop",
                  task[t].op, c, task[t].todo \ {x}, x)]
    /\ UNCHANGED <<home, subscription_count, interest>>

(* Mutations of DropCount: the interest is not withdrawn, and the key with   *)
(* the count zero is kept.                                                  *)
DropCountOnly(t) ==
    /\ At(t, "dropCount")
    /\ counts' = [counts EXCEPT ![task[t].topic] = None]
    /\ GoTo(t, "loop")
    /\ UNCHANGED <<localVars, interest>>

KeepCount(t) ==
    /\ At(t, "dropCount")
    /\ GoTo(t, IF subs[t][task[t].topic] = {} THEN "remInterest" ELSE "loop")
    /\ UNCHANGED <<localVars, interest, counts>>

(* decrement_channel_subscribers after drop(count): the key is removed,     *)
(* whatever its value is by now.                                            *)
DropCount(t) ==
    LET x == task[t].topic IN
    /\ At(t, "dropCount")
    /\ counts' = [counts EXCEPT ![x] = None]
    /\ GoTo(t, IF subs[t][x] = {} THEN "remInterest" ELSE "loop")
    /\ UNCHANGED <<localVars, interest>>

(* remove_channel_interest up to drop(entry). *)
RemInterest(t) ==
    LET x == task[t].topic IN
    /\ At(t, "remInterest")
    /\ interest' = IF interest[x] = None THEN interest
                   ELSE [interest EXCEPT ![x] = @ \ {t}]
    /\ GoTo(t, IF interest[x] # None /\ interest[x] \subseteq {t}
               THEN "dropInterest" ELSE "loop")
    /\ UNCHANGED <<localVars, counts>>

(* remove_channel_interest after drop(entry). *)
DropInterest(t) ==
    LET x == task[t].topic IN
    /\ At(t, "dropInterest")
    /\ interest' = [interest EXCEPT ![x] = None]
    /\ GoTo(t, "loop")
    /\ UNCHANGED <<localVars, counts>>

(* The replies are queued and the connection learns its count from the last *)
(* of them.                                                                 *)
EndCommand(t) ==
    LET c == task[t].conn IN
    /\ At(t, "loop")
    /\ task[t].op # "drop"
    /\ task[t].todo = {}
    /\ subscription_count' = [subscription_count EXCEPT ![c] =
                                 SubscriptionCount(c)]
    /\ task' = [task EXCEPT ![t] = NoTask]
    /\ UNCHANGED <<home, subs, connTopics, interest, counts>>

(* The connection object goes with the close. *)
EndDrop(t) ==
    LET c == task[t].conn IN
    /\ At(t, "loop")
    /\ task[t].op = "drop"
    /\ task[t].todo = {}
    /\ home' = [home EXCEPT ![c] = None]
    /\ subscription_count' = [subscription_count EXCEPT ![c] = 0]
    /\ task' = [task EXCEPT ![t] = NoTask]
    /\ UNCHANGED <<subs, connTopics, interest, counts>>

Step(t) ==
    \/ \E x \in Topics : SubscribeTopic(t, x) \/ UnsubscribeTopic(t, x)
    \/ AddInterest(t)
    \/ DropCount(t)
    \/ RemInterest(t)
    \/ DropInterest(t)
    \/ EndCommand(t)
    \/ EndDrop(t)

(* What the client of a connection does: send a command with at least one   *)
(* argument, or disconnect (or be disconnected by the cleanup of a          *)
(* shutdown).                                                               *)
Request(t, c) ==
    \/ \E channels \in (SUBSET Channels) \ {{}} :
          BeginSubscribe(t, c, channels) \/ BeginUnsubscribe(t, c, channels)
    \/ \E patterns \in (SUBSET Patterns) \ {{}} :
          BeginPSubscribe(t, c, patterns) \/ BeginPUnsubscribe(t, c, patterns)
    \/ BeginUnsubscribeAll(t, c)
    \/ BeginPUnsubscribeAll(t, c)
    \/ BeginDrop(t, c)

Next ==
    \E t \in Threads :
        Step(t) \/ \E c \in Conns : Accept(t, c) \/ Request(t, c)

(* A worker never blocks inside a command: the maps' locks are held for one *)
(* call only, so a command in progress is carried on.                       *)
Fairness == \A t \in Threads : WF_vars(Step(t))

Spec == Init /\ [][Next]_vars /\ Fairness

----------------------------------------------------------------------------

Tasks == [pc: PCs, op: Ops, conn: Conns \cup {None},
          todo: SUBSET Topics, topic: Topics \cup {None}]

(* The shapes of the tables and of the task of a worker. *)
TypeOK ==
    /\ home \in [Conns -> Threads \cup {None}]
    /\ subs \in [Threads -> [Topics -> SUBSET Conns]]
    /\ connTopics \in [Conns -> SUBSET Topics]
    /\ subscription_count \in [Conns -> Nat]
    /\ interest \in [Topics -> {None} \cup SUBSET Threads]
    /\ counts \in [Topics -> Nat \cup {None}]
    /\ task \in [Threads -> Tasks]

(* Connection c still has a subscription to x that the walk of a list taken *)
(* out of its map has yet to remove.                                        *)
Draining(t, c, x) ==
    /\ task[t].conn = c
    /\ task[t].op \in {"unsubscribe_all", "drop"}
    /\ x \in task[t].todo

(* The two directions of a worker's tables agree: a connection is listed    *)
(* under a topic on its own worker only, and the topic is then in the       *)
(* connection's own list, except while the list is being walked.  A         *)
(* subscription missing from connTopics would outlive the connection and    *)
(* get another client's messages (manager.rs: subscribe, unsubscribe,       *)
(* connection_dropped).                                                     *)
MapsAgree ==
    \A t \in Threads, c \in Conns, x \in Topics :
        c \in subs[t][x] <=> /\ home[c] = t
                             /\ x \in connTopics[c] \/ Draining(t, c, x)

(* The registry names a worker for a topic only when the worker has a       *)
(* subscriber for it, or is about to withdraw: no publisher keeps           *)
(* broadcasting to a worker that lost its last subscriber.                  *)
InterestSound ==
    \A t \in Threads, x \in Topics :
        t \in Interested(x) =>
            \/ subs[t][x] # {}
            \/ task[t].topic = x /\ task[t].pc \in {"dropCount", "remInterest"}

Subscribers(x) == {c \in Conns : \E t \in Threads : c \in subs[t][x]}

(* PUBSUB NUMSUB and the reply of PUBLISH never claim more subscribers than *)
(* there are, whatever the interleaving of increments, decrements and key   *)
(* removals (registry.rs: the windows of decrement_channel_subscribers).    *)
CountNeverOverstates ==
    \A x \in Topics : Count(x) <= Cardinality(Subscribers(x))

Removing(x, pc) == \E t \in Threads : At(t, pc) /\ task[t].topic = x

(* An empty set of workers or a zero count stays in the registry only while *)
(* some worker is about to remove the key: PUBSUB CHANNELS and PUBSUB       *)
(* NUMPAT list no channel or pattern that nobody wants, and the maps do not *)
(* grow with dead topics.                                                   *)
NoLeakedEntries ==
    \A x \in Topics :
        /\ interest[x] = {} => Removing(x, "dropInterest")
        /\ counts[x] = 0 => Removing(x, "dropCount")

(* A worker with a subscriber for a topic is registered for it, so that     *)
(* publishers on other workers reach it ("Get all threads interested in     *)
(* this channel", pubsub/handler.rs).                                       *)
InterestComplete ==
    \A t \in Threads, x \in Topics :
        (subs[t][x] # {} /\ At(t, "idle")) => t \in Interested(x)
=============================================================================
