------------------------------- MODULE PubSub -------------------------------
(* PUBLISH, from the command of one connection to the output buffers of the *)
(* subscribers on every worker, over the tables of module Subscriptions.    *)
(*                                                                          *)
(* A publishing worker reads the registry, sends one copy of the message to *)
(* the inbox of each worker it found there (pubsub/handler.rs), and serves  *)
(* its own connections.  Each worker empties its inbox at the top of its    *)
(* event loop (server.rs: run_worker, manager.rs: process_inbox).  The      *)
(* registry reads and the sends are steps of their own: other workers run   *)
(* between them.                                                            *)
EXTENDS Subscriptions, Sequences, SequencesExt

CONSTANTS
    Ways,           \* in how many ways the walk of the pattern trie comes to
                    \* the end of a pattern on a channel
    InboxCap,       \* capacity of a worker's inbox (1024 in registry.rs)
    MaxMsgs,        \* bound on the number of PUBLISH commands
    MaxCommands     \* bound on the number of other commands

(* The trie is module PatternTrie; here a pattern has a node of its own.    *)
ASSUME WaysAssumption == Ways \in [Patterns \X Channels -> Nat]

(* Connection ids come from a counter and are not used again. *)
ASSUME IdsAssumption == Conns = 1 .. Cardinality(Conns)

ASSUME BoundsAssumption ==
    InboxCap \in Nat \ {0} /\ MaxMsgs \in Nat /\ MaxCommands \in Nat

VARIABLES
    inbox,      \* the bounded channel of each worker
    busy,       \* the PUBLISH or the inbox loop a worker is in the middle of
    received,   \* pub/sub messages written to a connection's output buffer
    accepted,   \* number of connections accepted so far
    commands,   \* number of commands other than PUBLISH so far
    log,        \* history: channel and worker of each PUBLISH, and the
                \* workers registered for the channel when it began
    owed,       \* history: <<id, connection>> pairs still to be delivered
    dropped     \* history: <<id, worker>> pairs whose try_send failed

pubVars == <<inbox, busy, received, accepted, commands, log, owed, dropped>>
allVars == <<vars, pubVars>>

Ids == 1 .. MaxMsgs

Busy(pc, id, targets, unread, ptargets) ==
    [pc |-> pc, id |-> id, targets |-> targets, unread |-> unread,
     ptargets |-> ptargets]

NotBusy == Busy("none", 0, {}, {}, {})

Free(t) == At(t, "idle") /\ busy[t] = NotBusy

Broadcast(kind, id, from) == [kind |-> kind, id |-> id, exclude |-> from]

Message(kind, topic, id) == [kind |-> kind, topic |-> topic, id |-> id]

----------------------------------------------------------------------------

(* PatternTrie::find_matches, for one connection of a worker: one pmessage  *)
(* for each way in which the walk comes to one of its patterns.             *)
PatternMessages(t, c, id) ==
    LET ways(p) == 1 .. Ways[<<p, log[id].channel>>]
        found   == SetToSeq(UNION {{p} \X ways(p) :
                                p \in {q \in Patterns : c \in subs[t][q]}})
    IN  [i \in DOMAIN found |-> Message("pmessage", found[i][1], id)]

(* publish_local, for one connection of a worker. *)
LocalMessages(t, c, id) ==
    (IF c \in subs[t][log[id].channel]
     THEN <<Message("message", log[id].channel, id)>> ELSE <<>>)
    \o PatternMessages(t, c, id)

(* The worker finds the connection by its id, queues the message and writes *)
(* it to the output buffer.                                                 *)
DeliverTo(t, messages) ==
    received' = [c \in Conns |->
        IF home[c] = t THEN received[c] \o messages[c] ELSE received[c]]

Settle(t, id) == owed' = {o \in owed : ~ (o[1] = id /\ home[o[2]] = t)}

PubInit ==
    /\ Init
    /\ inbox = [t \in Threads |-> <<>>]
    /\ busy = [t \in Threads |-> NotBusy]
    /\ received = [c \in Conns |-> <<>>]
    /\ accepted = 0
    /\ commands = 0
    /\ log = <<>>
    /\ owed = {}
    /\ dropped = {}

(* The local part of a PUBLISH and get_channel_threads.  A connection with  *)
(* subscriptions may not publish (is_in_pubsub_mode).                       *)
BeginPublish(t, c, ch) ==
    LET id == Len(log) + 1 IN
    /\ Free(t)
    /\ home[c] = t
    /\ subscription_count[c] = 0
    /\ Len(log) < MaxMsgs
    /\ log' = Append(log, [channel |-> ch, from |-> t, workers |-> Interested(ch)])
    /\ owed' = owed \cup {<<id, d>> : d \in
                 {d \in Conns : \E u \in Interested(ch) \cup {t} :
                                    d \in subs[u][ch]}}
    /\ busy' = [busy EXCEPT ![t] =
                  Busy("publish", id, Interested(ch), Patterns, {})]
    /\ UNCHANGED <<vars, inbox, received, accepted, commands, dropped>>

(* get_all_pattern_threads walks the map one entry at a time. *)
ReadPatternThreads(t, p) ==
    /\ busy[t].pc = "publish"
    /\ p \in busy[t].unread
    /\ busy' = [busy EXCEPT ![t].unread = @ \ {p},
                            ![t].ptargets = @ \cup Interested(p)]
    /\ UNCHANGED <<vars, inbox, received, accepted, commands, log, owed, dropped>>

(* Mutation of TrySend: the inbox hands out the latest message first. *)
SendInFront(u, msg) ==
    IF Len(inbox[u]) < InboxCap
    THEN /\ inbox' = [inbox EXCEPT ![u] = <<msg>> \o @]
         /\ UNCHANGED dropped
    ELSE /\ dropped' = dropped \cup {<<msg.id, u>>}
         /\ UNCHANGED inbox

(* try_send: a message for a full inbox is discarded. *)
TrySend(u, msg) ==
    IF Len(inbox[u]) < InboxCap
    THEN /\ inbox' = [inbox EXCEPT ![u] = Append(@, msg)]
         /\ UNCHANGED dropped
    ELSE /\ dropped' = dropped \cup {<<msg.id, u>>}
         /\ UNCHANGED inbox

(* Mutation of SendPublish: the sender's worker ends the loop. *)
SendUntilSelf(t, u) ==
    /\ busy[t].pc = "publish"
    /\ busy[t].unread = {}
    /\ u \in busy[t].targets
    /\ TrySend(u, Broadcast("publish", busy[t].id, t))
    /\ busy' = [busy EXCEPT ![t].targets = IF u = t THEN {} ELSE @ \ {u}]
    /\ UNCHANGED <<vars, received, accepted, commands, log, owed>>

(* broadcast_to_threads for the channel, one worker at a time; the sender's *)
(* own inbox is not skipped.                                                *)
SendPublish(t, u) ==
    /\ busy[t].pc = "publish"
    /\ busy[t].unread = {}
    /\ u \in busy[t].targets
    /\ TrySend(u, Broadcast("publish", busy[t].id, t))
    /\ busy' = [busy EXCEPT ![t].targets = @ \ {u}]
    /\ UNCHANGED <<vars, received, accepted, commands, log, owed>>

(* broadcast_to_threads for the patterns, after the one for the channel. *)
SendPatternPublish(t, u) ==
    /\ busy[t].pc = "publish"
    /\ busy[t].unread = {}
    /\ busy[t].targets = {}
    /\ u \in busy[t].ptargets
    /\ TrySend(u, Broadcast("pattern", busy[t].id, t))
    /\ busy' = [busy EXCEPT ![t].ptargets = @ \ {u}]
    /\ UNCHANGED <<vars, received, accepted, commands, log, owed>>

(* The event loop hands the local deliveries to the worker's connections.   *)
(* They were collected first; nothing on this worker has changed since.     *)
DeliverLocal(t) ==
    /\ busy[t].pc = "publish"
    /\ busy[t].unread = {}
    /\ busy[t].targets = {}
    /\ busy[t].ptargets = {}
    /\ busy' = [busy EXCEPT ![t] = NotBusy]
    /\ DeliverTo(t, [c \in Conns |-> LocalMessages(t, c, busy[t].id)])
    /\ Settle(t, busy[t].id)
    /\ UNCHANGED <<vars, inbox, accepted, commands, log, dropped>>

(* Mutation of BeginInbox: a single message does not wake the worker. *)
BeginFullerInbox(t) ==
    /\ Free(t)
    /\ Len(inbox[t]) > 1
    /\ busy' = [busy EXCEPT ![t] = Busy("inbox", 0, {}, {}, {})]
    /\ UNCHANGED <<vars, inbox, received, accepted, commands, log, owed, dropped>>

(* The top of the event loop, reached at least every 100 ms. *)
BeginInbox(t) ==
    /\ Free(t)
    /\ inbox[t] # <<>>
    /\ busy' = [busy EXCEPT ![t] = Busy("inbox", 0, {}, {}, {})]
    /\ UNCHANGED <<vars, inbox, received, accepted, commands, log, owed, dropped>>

(* exclude_thread: the publisher's worker has served its own connections. *)
IncludesSender(msg, t) == FALSE     \* mutation of Excluded
Excluded(msg, t) == msg.exclude = t

(* One turn of process_inbox. *)
ProcessInbox(t) ==
    LET msg == Head(inbox[t]) IN
    /\ busy[t].pc = "inbox"
    /\ inbox[t] # <<>>
    /\ inbox' = [inbox EXCEPT ![t] = Tail(@)]
    /\ UNCHANGED <<vars, busy, accepted, commands, log, dropped>>
    /\ \/ /\ Excluded(msg, t)
          /\ UNCHANGED <<received, owed>>
       \/ /\ ~ Excluded(msg, t)
          /\ msg.kind = "publish"
          /\ DeliverTo(t, [c \in Conns |-> LocalMessages(t, c, msg.id)])
          /\ Settle(t, msg.id)
       \/ /\ ~ Excluded(msg, t)
          /\ msg.kind = "pattern"
          /\ DeliverTo(t, [c \in Conns |-> PatternMessages(t, c, msg.id)])
          /\ UNCHANGED owed

EndInbox(t) ==
    /\ busy[t].pc = "inbox"
    /\ inbox[t] = <<>>
    /\ busy' = [busy EXCEPT ![t] = NotBusy]
    /\ UNCHANGED <<vars, inbox, received, accepted, commands, log, owed, dropped>>

(* The other commands.  A connection that closes takes its output buffer    *)
(* along; one that unsubscribes is owed nothing more.                       *)
Bookkeeping ==
    /\ received' = [c \in Conns |->
                      IF home'[c] = None THEN <<>> ELSE received[c]]
    /\ owed' = {o \in owed : \E u \in Threads :
                                 o[2] \in subs'[u][log[o[1]].channel]}
    /\ UNCHANGED <<inbox, busy, log, dropped>>

CommandStep(t) ==
    /\ Step(t)
    /\ UNCHANGED <<accepted, commands>>
    /\ Bookkeeping

Connect(t) ==
    /\ busy[t] = NotBusy
    /\ Accept(t, accepted + 1)
    /\ accepted' = accepted + 1
    /\ UNCHANGED commands
    /\ Bookkeeping

Command(t, c) ==
    /\ busy[t] = NotBusy
    /\ commands < MaxCommands
    /\ Request(t, c)
    /\ commands' = commands + 1
    /\ UNCHANGED accepted
    /\ Bookkeeping

InProgress(t) ==
    \/ CommandStep(t)
    \/ \E p \in Patterns : ReadPatternThreads(t, p)
    \/ \E u \in Threads : SendPublish(t, u) \/ SendPatternPublish(t, u)
    \/ DeliverLocal(t)
    \/ ProcessInbox(t)
    \/ EndInbox(t)

PubNext ==
    \E t \in Threads :
        \/ InProgress(t)
        \/ BeginInbox(t)
        \/ accepted + 1 \in Conns /\ Connect(t)
        \/ \E c \in Conns :
              \/ Command(t, c)
              \/ \E ch \in Channels : BeginPublish(t, c, ch)

(* Nothing in a command or in the inbox loop blocks, and the poll at the    *)
(* top of the event loop times out: a worker with no client left to serve   *)
(* comes back to its inbox.                                                 *)
PubFairness ==
    \A t \in Threads : WF_allVars(InProgress(t) \/ BeginInbox(t))

PubSpec == PubInit /\ [][PubNext]_allVars /\ PubFairness
----------------------------------------------------------------------------

Copies(c, kind, topic, id) ==
    Cardinality({i \in DOMAIN received[c] :
                    received[c][i] = Message(kind, topic, id)})

(* A subscriber of a channel gets a message published on it at most once,   *)
(* although the publisher's worker serves its own connections directly and  *)
(* also sends itself a copy through its inbox (exclude_thread).             *)
ExactAtMostOnce ==
    \A c \in Conns, id \in DOMAIN log :
        Copies(c, "message", log[id].channel, id) <= 1

(* A delivery writes a message to a pattern subscriber once for each way in *)
(* which the trie comes to its pattern (twice for "*a*" on "aa"), and there *)
(* is one delivery, or none if a broadcast is lost.  There are two exactly  *)
(* where another worker is sent both broadcasts of handler.rs, as it is     *)
(* registered for the channel too: process_inbox serves the patterns for    *)
(* either.  The publisher's worker, which serves its own connections        *)
(* directly, skips both.                                                    *)
PatternCopies ==
    \A c \in Conns, id \in DOMAIN log, p \in Patterns :
        LET copies == Copies(c, "pmessage", p, id)
            ways   == Ways[<<p, log[id].channel>>]
        IN  \/ copies \in {0, ways}
            \/ /\ copies = 2 * ways
               /\ home[c] \in log[id].workers \ {log[id].from}

(* Messages published on one worker, by one connection or several, reach a  *)
(* subscriber on any worker in the order they were published, with losses   *)
(* but no reordering, whether they come for its channels or its patterns:   *)
(* the direct deliveries and the inboxes keep the order.                    *)
PublisherOrder ==
    \A c \in Conns : \A i, j \in DOMAIN received[c] :
        LET a == received[c][i]
            b == received[c][j]
        IN  (i < j /\ log[a.id].from = log[b.id].from) => a.id <= b.id

InFlight(id, t) ==
    \/ \E i \in DOMAIN inbox[t] :
          /\ inbox[t][i].kind = "publish"
          /\ inbox[t][i].id = id
          /\ inbox[t][i].exclude # t
    \/ \E u \in Threads \ {t} : /\ busy[u].pc = "publish"
                                 /\ busy[u].id = id
                                 /\ t \in busy[u].targets
    \/ busy[t].pc = "publish" /\ busy[t].id = id

(* A message owed to a subscriber (the connection was subscribed to the     *)
(* channel, and its worker registered, when PUBLISH read the registry) is   *)
(* on its way until it arrives or the subscriber leaves.  A full inbox is   *)
(* the only thing that loses it (let _ = try_send, registry.rs).            *)
LostOnlyByFullInbox ==
    \A o \in owed : \E t \in Threads :
        /\ home[o[2]] = t
        /\ InFlight(o[1], t) \/ <<o[1], t>> \in dropped

(* Such a message does arrive, unless the subscriber leaves or the inbox    *)
(* was full, once the clients pause (commands and publishes are bounded).   *)
EventuallyDelivered ==
    \A id \in Ids, c \in Conns :
        <<id, c>> \in owed ~>
            \/ <<id, c>> \notin owed
            \/ \E t \in Threads : <<id, t>> \in dropped
=============================================================================
