# TLA+ models of feox-server

feox-server is a Redis-compatible server in Rust over the embedded store
feoxdb. It runs a fixed number of worker threads. Each worker has its own
event loop, accepts connections from the shared listener and serves them to
the end; nothing moves a connection to another worker. Workers share the
store, the registry of the watched keys, the pub/sub registry and the client
registry, each of them a set of concurrent maps and atomics with no lock over
two accesses. What is hard here is what happens between two such accesses.

## The system

| Part | State | Operations | Shared with |
|---|---|---|---|
| event loop (`server.rs`) | `connections`, `shutdown`, `active_connections` | accept, read, write, close, drain the inbox, deliver, clean up | listener, all registries |
| connection (`network/connection.rs`) | parser buffer, `write_buffer`, `transaction_state`, `queued_commands`, `watched_keys`, `subscription_count` | `process_read`, `process_pubsub_messages`, `set_subscription_count` | private to its worker |
| executor (`protocol/command/executor.rs`) | none of its own | `execute`, `fast_set_bytes`, `fast_get` | store, watch registry |
| watch registry (`watch_registry.rs`) | `GLOBAL_VERSION`, `KEY_VERSIONS` | `notify_key_modified`, `get_key_version`, `check_keys_unchanged` | all workers |
| pub/sub manager (`pubsub/manager.rs`) | `exact_subs`, `pattern_subs`, `connection_channels`, `connection_patterns`, the trie, the inbox's receiver | subscribe, unsubscribe, psubscribe, punsubscribe, `publish_local`, `process_inbox`, `connection_dropped` | private to its worker |
| pub/sub registry (`pubsub/registry.rs`) | workers interested in a topic, subscriber counts, the inboxes' senders | add and remove interest, increment and decrement, broadcast | all workers |
| pub/sub handler (`pubsub/handler.rs`) | none | one pub/sub command | manager, registry, connection |
| pattern trie (`pubsub/pattern.rs`) | trie of patterns | insert, remove, `find_matches` | private to its worker |
| lists (`protocol/command/list.rs`) | a metadata key and one key per item | push, pop, range, index, length | store |
| hashes (`protocol/command/hash.rs`) | one key per field, one per count; counts collected in a table of the process | set, get, delete, increment, scan | store, all workers |
| RESP (`protocol/resp.rs`) | input buffer | `feed`, `parse_next`, `write_resp_value` | private to a connection |
| clients (`client_registry.rs`, `protocol/command/client.rs`) | information on each client | register, update, unregister, CLIENT | all workers |

What makes each part correct:

* manager and registry: the two directions of a worker's tables agree; a
  worker is registered for a topic exactly when it has a subscriber for it;
  the counts are the numbers of subscribers; nothing is left behind by a close;
* PUBLISH: a channel's subscriber gets each message at most once, all get them
  in the publisher's order, and get them unless an inbox was full;
* transactions: a transaction runs only if no watched key changed since WATCH;
* lists: a list behaves like a deque, whatever workers do at the same time;
* hashes: the length is the number of fields, and a length read is not stale;
* connection: one reply per command, in the order of the commands; every byte
  is written as long as the client reads;
* RESP: what is parsed does not depend on how the input is cut into reads;
* commands: what COMMAND tells of a command is what the parser accepts;
* trie: a pattern matches what its glob says, and matches once; PUBLISH counts
  the subscribers that are reached;
* KEYS and SCAN: every key that was there all the time and matches is returned,
  and none twice;
* server: the client registry and the connection counter say what is open,
  whoever waits is accepted, and a shutdown ends.

## The modules

| Module | Models | Checked by | Proved in |
|---|---|---|---|
| `Subscriptions` | `manager.rs`, `registry.rs`: tables, interest, counts | `MCSubscriptions` | `PubSubProofs` |
| `SubscriptionsHistory` | the same, with a history variable | `MCSubscriptions` | `PubSubProofs` |
| `PubSub` (extends `Subscriptions`) | `handler.rs`, `manager.rs`, `server.rs`: PUBLISH | `MCPubSub` | `PubSubProofs` |
| `Transactions` | `connection.rs`, `watch_registry.rs`, `executor.rs` | `MCTransactions` | `TransactionsProofs` |
| `Connection` | `connection.rs`, `server.rs`: reads, replies, writes, readiness | `MCConnection` | `ConnectionProofs` |
| `Lists` | `list.rs` | `MCLists` | `ListsProofs` |
| `Deque` | what a list promises; `Lists` implements it | `MCLists` | `ListsProofs` |
| `Hashes` | `hash.rs` | `MCHashes` | `HashesProofs` |
| `Glob` | the glob matchers of `executor.rs` and `registry.rs` | `MCKeyspace`, `MCPatternTrie` | `KeyspaceProofs` |
| `PatternTrie` (extends `Glob`) | `pattern.rs`, and the count of `registry.rs` | `MCPatternTrie` | |
| `Keyspace` (extends `Glob`) | `executor.rs`: KEYS and SCAN | `MCKeyspace` | `KeyspaceProofs` |
| `Resp` | `resp.rs`: values parsed and written | `MCProtocol` | |
| `Commands` (extends `Resp`) | `parser.rs`, `command_table.rs` | `MCProtocol` | |
| `Protocol` (extends `Commands`) | `resp.rs`: the buffer under reads of any length | `MCProtocol` | |
| `Server` | `server.rs`, `client_registry.rs`: accept, close, failure, shutdown | `MCServer` | `ServerProofs` |

### Subscriptions

A worker handles one command at a time and no other thread touches its own
tables, so what the code does locally in one iteration of a loop takes effect
with the registry access it leads to. Every access to the registry is a step.
`decrement_channel_subscribers` and `remove_channel_interest` are two steps
each: they release the map entry (`drop(count)`, `drop(entry)`) and then
remove the key, and other workers run in between. `task[t]` is the command
worker `t` is in the middle of: which connection, which topics of the list are
left, and at which registry access it is.

The channel and the pattern versions of each routine are the same text over
other maps. A topic is a channel or a pattern, and all maps are indexed by
topics; the order in which a list is walked is left open, except that a close
takes the channels before the patterns. The maps' empty sets and zero counts
are told from absent entries (`None`), because the windows are about them. A
connection slot is used again after a close; the ids in the code are not, so
the model allows more than the code (a stale entry would be somebody else's).

### PubSub

A PUBLISH is: the local matches and `get_channel_threads` (`BeginPublish`),
`get_all_pattern_threads`, which walks the map entry by entry
(`ReadPatternThreads`), one `try_send` for each worker it found, the channel's
before the patterns' (`SendPublish`, `SendPatternPublish`), and the delivery to
the worker's own connections at the end of the event (`DeliverLocal`). The
sender's own inbox is not skipped; `process_inbox` skips the message by its
`exclude_thread`. `find_matches` lists a subscriber once for every way in which
the walk of the trie comes to the pattern's node, twice for `*a*` on `aa`, and
each time is one `pmessage`: the constant `Ways` says how many there are for a
pattern and a channel (`PatternMessages`). It is the same on every worker, as
if each pattern had nodes of its own; that patterns share nodes and take each
other's character class is in `PatternTrie`, where the ways are counted
(`WaysFrom`). The order of a delivery's messages for different patterns is one
fixed order here and that of the walk in the code. Connections have the ids
1, 2, ... in order of acceptance, as in the code.

One command per event is modelled: a client that sends several commands
without waiting for replies is in `Connection`. A
connection in pub/sub mode does not publish.

The histories `log`, `owed` and `dropped` say which messages were published
where, which subscribers are still to get them, and which broadcasts a full
inbox refused. They restrict no action.

### Transactions

Every connection has a worker of its own, which allows all interleavings of
connections that share one. A write is three steps, as in the code: the store,
`fetch_add` on `GLOBAL_VERSION`, the insertion into `KEY_VERSIONS`. WATCH and
EXEC's check read one key's version at a time, in any order (the keys are in a
`HashMap`). The queue then runs one command after the other, with no lock.
MSET, DEL of several keys and a queued transaction are sequences of updates. CAS stands for the
commands that write and do not notify (CAS, JSONPATCH). Errors of the store,
expiry and authentication are left out; commands that only read are left out.

`touched`, `dirty` and `doomed` are histories: keys recorded as modified since
they were last watched, keys set or deleted by others since then, and `touched`
as it was when EXEC arrived. `MissedOnlyInWindow` relates the three: what EXEC overlooks was
recorded after it arrived, or is stored and still to be recorded.

### Connection

One connection, its client, and the kernel between them. The worker handles an
event in stages: `Poll`; `Flush`, the handler of a writable event; `Read`, one
`stream.read`; `process_read` over its commands, stage "process"; the write
after it (`Respond`); `ReadNothing`, the end of the read loop; `EndEvent`,
which closes if `should_close` is set. `Push` is a message delivered to this
connection between two events of its own, from the inbox or from another
connection of the worker. Nothing but the client and the kernel runs at the
same time as a stage, since no other worker touches a connection.

A read takes any non-empty part of the commands under way into `batch`. The
actions of `ProcessCommand` are the branches of the loop in `process_read`, and
their guards exclude each other in the code's order: fast path (`RunFast`),
parsing (`FailToParse`), QUIT, pub/sub mode (`Refuse`), transaction commands
(`Multi`, `NoMulti`, `Discard`, `BeginExec`), queue (`Queue`), pub/sub, put off
into `ops` (`Postpone`), executor (`RunData`). EXEC runs the queue one command
at a time (`DrainQueued` in stage "exec", `EndExec`). When the batch is empty,
`Confirm` and `Query` handle the operations put off, and `EndRead` adds their
`messages` to the buffer. A reply is a record that says which command it
answers and at whose turn it was put into the buffer. A write of several bytes
is abstracted to whole replies: a socket with room for one takes a part of two.
`processed` and `executed` are histories of the commands, `produced` of the
replies.

The poll is edge-triggered, as mio's is: `ready` is set when data arrives or
room is made, is cleared when it is reported, and is looked at afresh when the
registration changes. The commands are kinds: GET and SET, other commands of
the executor, PUBLISH and PUBSUB (`query`), SUBSCRIBE, UNSUBSCRIBE with and
without arguments, MULTI, EXEC, DISCARD, QUIT, and what does not parse. WATCH
and the check of EXEC are in `Transactions`; AUTH, PING and CLIENT SETNAME are
left out. A channel stands for channels and patterns.

### Lists

A list is a metadata entry (head, tail, count) and one entry per item, under
the item's position. Every access to the store is a step: read the metadata,
create it, overwrite it or compare and swap, insert an item, take an item,
delete it. `seen[w]` is the metadata worker `w` last read and `job[w]` the
other locals of its command. LPUSH and RPUSH are one text with a `side`, and so
are LPOP and RPOP. The store is external. As the rest of the code uses it,
`insert` replaces what is there, so the branch of `lpush` for a failed creation
is never taken; `compare_and_swap` compares bytes and reports a mismatch;
`delete` fails on an absent key. Positions count from 0 and not from 10^9.
Nothing deletes a metadata entry. Keys that `from_utf8_lossy` makes equal, and
a key of another type under the same name, are left out: there is one list.

A read that finds no item at a position skips it (`Ascending`, `ItemsBetween`).
`Contents` is the list a client sees and `PoppedBy` what a worker has taken.
With them the commands of one worker refine `Deque`: a push takes effect when
its item is inserted, a pop when the metadata is swapped. The reads are
operators and checked between commands. `returned`, `stored` and `overtaken`
are histories: values replied, values inserted, and values whose position was
passed over as a gap while they were under way. `LostOnlyInGap` asks for a
stored value to be at a position between head and tail (`Listed`), or taken by
a worker.

### Hashes

A field is a key of the store; its value is left out, so HGET, HMGET and
HEXISTS, which read one field, are too, and HKEYS, HVALS and HGETALL, which
read a range of them. The number of fields is that in the store. HSET, HDEL and HINCRBY count what they
create and delete in `GLOBAL_METADATA_TRACKER`, one table behind a lock for the
whole process (`pending`). `MaybeFlush` stands for 100 ms or 1000 entries having
passed, or not, since the last flush. A flush holds the lock from taking the
updates to the last increment, so it is one step for everybody else who wants
the table, and HLEN's read after its own flush is another. The store can
refuse a write: HSET then leaves through `?` (`SetFails`), an increment of a
flush is dropped (`FlushFails`), and HINCRBY has counted a field that is not
there (`StoreFails`). `Restart` loses the table and the commands under way and
keeps the store, as a server with a data path does.

`drift` is a history: by how much the recorded counts differ from the fields
because of one of these causes, or because HINCRBY asked for a field that
another command created or deleted before it was stored. `CountAccounted` says
that nothing else makes a difference. `answered` collects the counts a hash
has had during a HLEN.

### Glob, PatternTrie and Keyspace

Keys, patterns and channels are sequences of bytes. `Glob` has the loops of the
two matchers, which differ in the order of their tests, as recursive functions
on the places a loop can be at (`Places`: the two indices, the last star and
how far it takes the text), next to `Matches`, what a glob means: the pattern
can be laid on the text. A node of the trie is the path that leads to it; the children a
node has are not state, as no node is ever removed, except for the class of a
node: there is one place for it, and the first pattern takes it for good.
`TokensFrom` is the walk of `insert` along a pattern and `WaysFrom` the walk of
`find_matches`, counted: how often it delivers a subscriber. Each match of the
trie is one message.

`Keyspace` has one client that walks the keys with SCAN, always with the cursor
of the last reply and its own MATCH and COUNT, while others set and delete
keys between its calls; one call reads the store once and is one step. The
255 bytes of 0xFF that bound the range are one byte here. KEYS looks at the
first keys of its range only, as many as `KeysLimit` (100000 in the code,
`executor.rs:349`), and SCAN at as many as COUNT and MATCH make it. Keys are
any bytes; a key is matched as `from_utf8_lossy` reads it (`FromUtf8Lossy`,
with U+FFFD for each maximal part that is not UTF-8), and the pattern has been
read so by the parser. Ranges and cursors are about the bytes themselves: the
cursor of SCAN is sent and taken back as it is. `lasting` is the history of the
keys that were there since the walk began.

### Resp, Commands and Protocol

The bytes of the protocol are kept, because their framing is what the module is
about: CR and LF, the digits, and letters that stand for any other contents. A
parse is a function of the bytes there are, with the outcomes value, more,
error, and the end of the worker: an array allocates its items before it has
any, and a length beyond `MaxCapacity` panics or aborts. A bulk string of such
a length is waited for. `Protocol` cuts what the client writes into reads at every place and
compacts the buffer as `parse_next` does. Numbers are not limited to 64 bits;
names are compared as in the code, in upper case.

`Commands` describes each arm of `parse_command` by a record: how many
arguments it takes, which are keys, which are integers, how far it reads them,
from where on they come in pairs; SET and SCAN have options of their own. The
command table has the same commands in another form.

### Server

A worker goes through the stages of its loop; what happens on an open
connection is left to `Connection`, and appears here as hanging up. Accepting
is two steps, since the client is listed before it is counted, and closing is
two steps. All workers wrap the same descriptor of the listener
(`from_raw_fd`), each with a poll of its own, and each closes it when it ends:
that is why `CloseListener` takes the listener away from all. `ready` says
which polls have it to report; an event is reported once (edge-triggered). The
descriptor's number could be used again for a connection; that is left out.

## The runs

| Run | Instance | Shows |
|---|---|---|
| `subscriptions` | 2 workers, 3 connections, a channel and a pattern; unbounded | agreement of the tables, no leak, no overstated count, no stale registration; exactness for a topic used on one worker |
| `interest_lost` | the same | `InterestComplete` fails (finding) |
| `pubsub` | 2 workers, 3 connections, a channel, a pattern with 2 ways to it, inboxes of 2, 2 publishes, 2 other commands | at most once, and for patterns once per way and broadcast served; order, losses only by full inboxes, delivery |
| `transactions` | 2 connections, 2 keys, 3 commands, queues of 2 | comparing versions is exact; a recorded change always aborts; what is missed falls into the two windows |
| `connection` | 3 commands of 10 kinds, room for 1 reply, 1 pushed message | replies: one each, none lost, disorder only within a read; order of execution; pub/sub mode; answers and close happen |
| `lists` | 1 worker, both ends, 5 values, 4 pops of up to 2 | the commands implement `Deque`; LRANGE, LINDEX and LLEN agree with it |
| `lists_queue` | 3 workers, RPUSH and LPOP on an existing list, 3 values, 2 pops | the count is the distance from head to tail; a value goes out once; lost only in the window of a gap |
| `hashes` | 2 workers, 2 hashes, 2 fields, 3 changing commands, 2 HLEN, a refused write, a restart | the count of a hash is its fields, up to the known causes; HLEN is not stale |
| `patterns` | 36 patterns, 20 channels, 2 connections, 2 subscriptions made | the trie finds what patterns mean, once; PUBLISH counts what it delivers |
| `keyspace` | 6 keys, 8 patterns, COUNT 0 to 2, KEYS limited to 3 keys, 2 writes | KEYS finds what matches, up to its limits; a walk with SCAN is complete, up to its own, and repeats nothing |
| `protocol` | every command with 0 to 4 arguments, options, 121 pairs of odd values, broken ends | cutting the input changes nothing; table and parser agree |
| `server` | 2 workers, 3 clients, an error of accept, a failing worker | registry and counter; accepted in the end; a shutdown ends |

Bounds. Two workers are enough for each window: one removes, the other adds.
Three connections let a worker have two subscribers and another one, and let
a closed slot come back. One channel and one pattern exercise both kinds of
topic and the order between them. In `pubsub` an inbox of two fills with the
two broadcasts of one message, so the second message is lost when the reader
is slow; both messages are published in any order relative to subscriptions
and closes. `MaxMsgs` and `MaxCommands` bound the clients, which is why
`pubsub` does not check for deadlock: it ends when the clients stop. In
`transactions` two keys make the check of EXEC several steps, and three
commands allow a transaction of two against one writer, or two writers whose
versions cross. In the list runs `MaxPushes` and `MaxPops` bound the commands,
which is why they end; a command moves up to two values, so that the second
one can fail after the first; two tries (10 in the code) let a command lose
once and succeed, and lose twice and give up. The queue has three workers so
that two consumers race while a producer is between its two writes. In `connection`
three commands are a transaction of one, or a SUBSCRIBE between two others, cut
into reads in every way; with room for one reply the second one is a partial
write, so every pipeline of two meets it. `MaxSent` and `MaxPushes` bound the
client, so the run ends when it has nothing more to send. UNSUBSCRIBE with
arguments is in the module and not in the run, which has it without. `MaxQueue`
bounds a transaction and `MaxCommands` the commands.

In `hashes` three commands of up to two fields let two of them race on a field
while a third has counted and not flushed; `MaxReads`, `MaxFailures` and
`MaxRestarts` bound the rest, and the run ends when they are used up. A trie
with two subscriptions has every pair of the patterns in it, in both orders,
one of them removed or not (`MaxInserts`); three patterns meet in a node no
differently. In `keyspace` six keys are enough for a walk of several calls with
any COUNT up to two, one of them is the key "0", one beyond the bound and one
not UTF-8; KEYS may look at three of them (`KeysLimit`), so that it cuts off up
to three; and two writes (`MaxWrites`) can take away the key of the cursor and bring another;
the run ends with the walk. In `protocol` the values are pairs, so that one may
leave a part of the other in the buffer, and four arguments are one more than
any command with a fixed number takes; arrays have up to six items, and one is
announced with seven (`MaxCapacity`); it ends with the input. `server` has
three clients so that one is listed, one waits and one arrives, and
`MaxErrors` and `MaxFailures` bound the faults; it ends when all have hung up
or the workers have stopped.

Symmetry is used for workers, connections, keys and values where all are
alike, and in no run with a liveness property.

Fairness. `PubFairness` is weak fairness of each worker's command in progress
and of the inbox at the top of its loop. No access blocks (`try_send`,
`try_recv`, locks held for one access), and poll returns after 100 ms at the
latest. It does not say that a worker comes back while a client keeps
it busy: commands are bounded. Nothing is assumed of clients. `Connection` assumes
weak fairness of the worker's stages, for the same reasons, and that a client
that is still there reads what it gets; it need not send anything or hang up.
`Server` assumes weak fairness of each worker's steps without faults, because
its sockets do not block and its poll times out. Nothing is assumed of clients,
of the signal, or of errors: accept may fail, but not again and again.

## The findings

* `interest_lost`: `remove_channel_interest` drops the lock on an emptied set
  and then removes the key, even when another worker has registered meanwhile.
  That worker is not registered as long as it keeps its subscriber.

### Known divergences

The properties of the other runs are stated around what the code is known not
to do, so each of these is visible in one of them as an exception:

* `PatternCopies`: a pattern subscriber gets a message once for each way in
  which the trie comes to its pattern (`pattern.rs:194`), two for `*a*` on
  `aa`. A worker that has a subscriber for the channel and one for a pattern
  gets both broadcasts and serves the pattern for each (`handler.rs:63`, `:71`),
  which doubles the copies, unless it is the publisher's worker.
* `MissedOnlyInWindow`: a write between EXEC's check and its run, or stored and
  not yet recorded, does not abort the transaction (`connection.rs:251`).
  CAS and JSONPATCH never do (`executor.rs:570`).
* `VersionsDetectChanges`, `NoRunWhenDoomed`: "since WATCH" is since the last
  WATCH of the key. A second WATCH replaces the version (`connection.rs:301`),
  so a modification between the two does not abort the transaction.
* `EventuallyAnswered` is about replies: a pushed message that does not fit
  into the socket is written when the client next sends something, and only
  then (`server.rs:177`, `:412`). UNSUBSCRIBE without subscriptions has no
  reply at all (`AnsweredOnce`).
* `PoppedOnce` and `LostOnlyInGap` are about queues on an existing list. Two
  pushes that find no list both create it, and the second one overwrites the
  metadata the first has already advanced (`list.rs:72`); as a stack, a list
  uses positions again that a pop is still at. `LostOnlyInGap` itself follows
  the code's comment that a gap is skipped.
* `CountAccounted`: the causes of `drift`, above.
* `FoundIffMeant`, `FoundOnce`: a node keeps the class of the first pattern
  that brought one; a pattern with several stars delivers a message several
  times, and one with two stars side by side misses the channel that ends
  before them. `CountIsDeliveries`: for classes, escapes and several stars
  PUBLISH replies with another number than it delivers.
* `KeysAnswersMatches`, `ScanComplete`: the bound `prefix~` excludes keys with
  `~` and more, or a byte above it, after the prefix, and the range of a prefix
  those whose text has the prefix (with U+FFFD) and whose bytes have not. KEYS
  answers without the keys after the first 100000 of its range, as if there
  were none (`executor.rs:349`). A key "0" as the cursor ends a walk with SCAN;
  so does a MATCH for which too few of the fetched keys match.
* `ParsedAsSent`: an array announced with a length that cannot be allocated
  ends the worker (`resp.rs:169`).
* `ArityAsAccepted`: the table misses JSONPATCH and CAS, and QUIT takes any
  number of arguments.
* `RegistryExact`, `CountExplained`: a failed worker's clients stay listed and
  counted, and those closed by a shutdown stay counted. `EventuallyAccepted`:
  the first worker to end closes the listener for all, and after an error of
  accept the waiting clients wait for the next one to arrive.

## The proofs

All hold for any number of workers, connections, topics, keys, values and
commands, and any bounds. Assumptions on constants: channels and patterns are
disjoint, connections are finite and, for PUBLISH, numbered; workers are
finitely many where a sum is taken over them (`Hashes`); the ways to a pattern
are a natural number; `None` and `Absent`
are none of the other values; commands are sequences of updates, requests have
a kind; a list starts absent or empty; keys are not empty and have no byte 255, because
that one stands for the end of the range; patterns are what `from_utf8_lossy`
leaves as it is; COUNT and the limit of KEYS are natural numbers. The theorems about a
queue also assume the use as one (`AQueue`: RPUSH and LPOP only, on a list that
is there), and those about the deque a single worker (`Alone`).

`DataLemmas` has the facts about sequences, cardinalities, induction and sums
that several proofs need. Induction is stated for sets instead of predicates (a
set of numbers with 0 and all successors has every number), so the provers can
use it on what a recursive function computes: it says what a sum over workers
becomes when one term changes, and what a matcher's loop decides.

`PubSubProofs`, about `Subscriptions`. `IndInv` is the type invariant, finiteness
of the connections' lists, `TaskInv` (a command in progress holds a connection of
its own worker, so nobody else takes it away) and `MapsAgree`; the last is not
inductive alone, since a walk could change the tables of a connection that
moved. From it follow `TypeCorrect` and `TablesAgree`. `RegistrySound`,
`RegistryKeepsNoEmptyEntry` and `CountsNeverOverstate` are inductive relative
to it. The idea of the last: an increment comes with a new subscriber, a
decrement with one that leaves, and a removal of the key only lowers the count.
`OneWorkerIsExact` is about `SubscriptionsHistory`, whose steps are steps of
`Subscriptions`, so `IndInv` holds there too. Every worker that could still
touch a topic's registry entries is among its users (`UsersKnown`), and a
worker's own tables stay as they are while it removes (`Unneeded`), so that the
check before a removal is still true after it; with one user, count and
subscribers therefore change together.

`TransactionsProofs`. `WatchHasNoABA`: versions in use are below the counter
(`VersionsDrawn`) and a version drawn and not yet recorded is in nobody else's
hands, no watcher's in particular (`PendingFresh`); so recording it makes every
watcher's comparison fail, although a key's version may go down.
`RecordedChangeAborts` adds that, during the check, each key modified before
EXEC is still to be checked (`DoomedAt`): a key that passes has equal versions,
and by the first theorem nothing was recorded for it. `MissesOnlyInWindow`
follows a write of a watched key from the store to the registry: it is recorded
for every watcher, or it is still under way at another connection (`DirtyInv`).

`PubSubProofs`, about `PubSub`. A step of `PubSub` is a step of `Subscriptions` or leaves its
tables alone, so `IndInv` holds here as well. Two layers are on top of it.
`TrafficInv` is about broadcasts: a worker is sent each one once, what a
PUBLISH in progress still has to send is in nobody's inbox, and an inbox holds
the broadcasts of one worker in the order of publication. `DeliveryInv` is about
connections: what one has received is older than what its worker still has in
the inbox or will be sent (`NotAhead`, which makes `OrderIsPublished`
inductive), and the copies received and those on their way are together at most
one delivery for a channel, and for a pattern one or two of as many copies as
there are ways (`CopiesInv`, for `ChannelOnce` and `PatternCopiesAreWays`: to
say "at most once" of the past alone is not inductive, since a second copy may
be in flight). The second one is there only while a worker other than the
publisher's was listed for the channel when the message was published. `LossesAreFullInboxes` adds that who is owed a
message is connected, and on a worker that the message is on its way to.

`ConnectionProofs`. `NothingIsLost` is about the output alone: whatever is
written is a part of what waits, and buffer, position and socket move together
(`Written`, `PutMore`); it needs no bound but that the socket has room for
something. The others follow each command on its way. Its number grows along
the way: what is executed is below what is queued, which is below the batch,
which is below the network (`ExecInv`, for `RunInOrder`); operations put off are
in the order they were sent and belong to the current read (`OpsInv`,
`OrderInv`). A processed command's reply is in exactly one of three places,
produced, among the messages, or still an operation (`OnceInv`, `OwedInv`),
which is `EachAnsweredOnce` when the last two are empty; and the replies of the
current read come in turns (`TurnInv`), which is `DisorderIsWithinRead` once
reads of different times are kept apart. The count of `ModeIsRight` is right
after every single operation, as long as the connection is open (`ModeInv`).

`ListsProofs`. `CountsAgree`: the count is `tail - head` and never below zero.
The invariant `IInv` says the same of the metadata each worker has read, from
which it computes the next metadata, and that a worker about to pop has seen a
positive count; the races in which one worker overwrites another's metadata
write consistent metadata too. `EachValueOnce` and `LossesAreGaps` are about
queues. `QueueInv` says that a position is given to one push before the tail
passes it and to one pop when the head does (`PlacesInv`: on an existing list
the metadata changes by compare and swap only), and that a value waits at one worker, is stored at one position or
is popped by one worker, and is at two of these only while its item is being
deleted (`OnceInv`). The positions cannot run out before the values do, as the
tail moves once for a value. `LossInv` then says that a stored value that was
not overtaken is listed, with a worker, or at the position a worker is about to
take from. The other two theorems are about one worker, with pushes and pops at
either end and a list that is there or not yet: with several the gaps exist and
a list is no deque. `SoloInv` says that what the worker has read is still there
and that the items are exactly at the positions from head to tail, but for the
one that is being pushed or popped. Then each step is a step of `Deque` or
leaves it as it is (`OneWorkerDeque`): a push takes effect when its item is
stored, a pop when head or tail moves, and the contents change at one end by
one element. `ReadsAreRight`: between commands the positions from head to tail
have no gap, so the arithmetic of LRANGE and LINDEX on indices, negative ones
and those beyond both ends included, selects the right elements.

`HashesProofs`. `LenIsFresh`: what HLEN is going to read is a count the hash had
since the call. The invariant `Fresh` follows both the stored and the recorded
count from HLEN's own flush on: any flush by another worker replaces the first
by the second, and every change of the second is added to `answered`; it needs
`Placed`, where each command is and where it continues after the tracker.
`CountIsAccounted`: the recorded count, the changes pending in the table, those
that the workers have not handed over yet and `drift` balance against the
number of fields. Each step changes both sides by the same amount; the part of
the workers is a sum of which a step changes one term. `CountInv` adds to this
that the fields are finitely many and that a command about to look at a field
has not counted anything yet.

`KeyspaceProofs`. `GlobMatcherIsRight`: the loop of the executor's matcher
decides `Matches`, for every pattern and text. At each place it is known what the loop still has
to find (`Remains`): the rest of the pattern fits here, or what follows the last
star fits further on; no step changes whether there is such a thing. That going
back to the last star is enough rests on `LoopInv`: the bytes behind the star
lie on the text one after the other from `mark` on, so a match further on could
also take the star after them from here (`StarRemains`). The loop comes to an
end because star, mark and place, in this order of weight, grow
(`MeasureFalls`); this also shows that there is the function the recursive
definition asks for (`LoopExists`). `RegistryMatcherIsRight`: on a text without
a star the registry's matcher takes the same steps.
`KeysAreMatches` follows, since a text that matches starts with the pattern's
prefix (`MatchesPrefix`), the text of a key is a sequence of bytes again
(`TextType`), and what the limit leaves out has a higher rank than the limit. For SCAN, the order of keys is shown to be total and
ranks to number a finite set in that order. `ReplyIsRight` is about one call:
its keys are those wanted in its range up to the cursor, the first key not
taken. `ScanInv` is about the walk: the client has every key it is due that the
cursor has passed. It is inductive although keys come and go, because a call
looks at everything from the cursor on and a key in `lasting` is always there;
`WalkIsOrdered` and `WalkIsComplete` hold with it. `CutOff` is what
the last call may miss.

`ServerProofs`. `RegistryIsExact`: closing a connection removes the entries of
its client whatever worker they name, so exactness of the registry needs that a
client is in one place only: in the backlog, with one worker (`OneHolder`,
`NotHeld`), or left behind by a failed one (`LeftBehind`); and that a worker
busy with closing a connection still has it (`Busy`). `CountIsExplained` adds
that a client that a stopping worker has closed is nowhere else
(`DroppedApart`), so each step moves one client from one of the four sets that
the counter is the sum of to another, or changes the counter with them.

Only model-checked: liveness (fairness and `ENABLED` are out of the prover's
reach); and the invariants of `PatternTrie` and `Protocol`. They rest on
operators that are recursive in several places at once (the walk of the trie,
the parser of nested arrays), which the provers cannot unfold.

## Mutations

Operators commented "Mutation of" are altered copies of the definition below
them, each as a plausible mistake would alter it. No specification uses them;
with one in place of its original a run finds the property named in
`PROJECT.json` violated.

## Plan

1. `Lists`: a list used as a stack by several workers, where positions come
   back while a pop is still at one.
2. `PatternTrie`: the walk of the trie as a recursive function, and that it
   finds what a pattern means.
3. `Connection`: AUTH and PING.
4. An abstract pub/sub service that `PubSub` implements up to the known
   divergences.

## Not modelled

* INCR, DECR and their fallback, and the TTL commands: which branch runs
  depends on feoxdb's formats and clock, which are not part of the repository.
* HGET, HMGET, HEXISTS, GET, MGET, INFO, CONFIG, COMMAND
  and CLIENT queries: they report and change nothing. CLIENT KILL, PAUSE and
  UNPAUSE have no effect in this version.
* HKEYS, HVALS and HGETALL: one range query of at most 10000 fields
  (`hash.rs:239`), so they cut off a larger hash while HLEN counts all of it.
* The layout of replies, configuration, logging and the start of the binary.
* The store itself: external, modelled from its use.
