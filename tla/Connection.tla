----------------------------- MODULE Connection -----------------------------
(* One client connection and the worker that serves it                      *)
(* (network/connection.rs and the event loop of server.rs).                 *)
(*                                                                          *)
(* A read hands over as many of the commands under way as have arrived.     *)
(* They are processed one after the other, then the pub/sub operations      *)
(* among them, then the write buffer is written to the socket as far as     *)
(* there is room.  Client and kernel run at the same time.  The unit of the *)
(* streams is a command in one direction and a reply or a pushed message in *)
(* the other.  The poll is edge-triggered.                                  *)
EXTENDS Naturals, Sequences, FiniteSets

CONSTANTS
    Requests,       \* what a client may send: records with kind and channel
    Room,           \* capacity of the socket's send buffer
    MaxSent,        \* bound on the number of commands
    MaxPushes       \* bound on the number of messages for this client

(* Commands of kind "fast" are GET and SET without options, "data" the      *)
(* other commands of the executor, "query" PUBLISH and PUBSUB, "broken"     *)
(* those that do not parse.                                                 *)
DataKinds   == {"fast", "data"}
TxKinds     == {"multi", "exec", "discard"}
PubSubKinds == {"subscribe", "unsubscribe", "unsubscribeAll", "query"}
Kinds       == DataKinds \cup TxKinds \cup PubSubKinds \cup {"quit", "broken"}

AllowedInPubSubMode == {"subscribe", "unsubscribe", "unsubscribeAll", "quit"}

ASSUME RequestsAssumption == \A r \in Requests : r.kind \in Kinds

ASSUME BoundsAssumption ==
    Room \in Nat \ {0} /\ MaxSent \in Nat /\ MaxPushes \in Nat

VARIABLES
    network,        \* commands on their way to the server
    hungUp,         \* the client has gone
    socket,         \* what the kernel has to send to the client
    received,       \* what the client has got
    ready,          \* readiness the kernel has to report
    interest,       \* what the connection is registered for
    event,          \* what is left of the event the worker is handling
    stage,          \* "loop" | "event" | "process" | "exec" | "respond" | "end"
    shouldClose,
    open,           \* the connection is in the worker's table
    closed,         \* QUIT was processed
    buffer,         \* write_buffer
    position,       \* write_position
    txState,        \* transaction_state
    queued,         \* queued_commands
    subs,           \* the connection's channels, in the pub/sub manager
    count,          \* subscription_count
    batch,          \* commands of this read still to process
    ops,            \* pubsub_ops
    messages,       \* pending_pubsub_messages
    sent,           \* number of commands sent
    pushes,         \* number of messages for this client
    reads,          \* number of reads so far
    processed,      \* history: commands processed, and in which read
    executed,       \* history: commands the executor has run
    produced        \* history: everything put into the write buffer

client  == <<network, hungUp, received, sent>>
poll    == <<ready, interest>>
output  == <<socket, buffer, position>>
mode    == <<subs, count>>
session == <<closed, txState, queued, mode>>
read    == <<batch, ops, messages, reads>>
history == <<processed, executed, produced>>
vars == <<client, poll, output, session, read, history,
          event, stage, shouldClose, open, pushes>>

Init ==
    /\ network = <<>> /\ hungUp = FALSE /\ received = <<>> /\ sent = 0
    /\ ready = {} /\ interest = {"readable"}
    /\ socket = <<>> /\ buffer = <<>> /\ position = 0
    /\ closed = FALSE /\ txState = "none" /\ queued = <<>>
    /\ subs = {} /\ count = 0
    /\ batch = <<>> /\ ops = <<>> /\ messages = <<>> /\ reads = 0
    /\ processed = {} /\ executed = <<>> /\ produced = <<>>
    /\ event = {} /\ stage = "loop" /\ shouldClose = FALSE /\ open = TRUE
    /\ pushes = 0

----------------------------------------------------------------------------
(* The client. *)

Send(r) ==
    /\ ~ hungUp
    /\ sent < MaxSent
    /\ sent' = sent + 1
    /\ network' = Append(network, [id |-> sent + 1, kind |-> r.kind,
                                   channel |-> r.channel])
    /\ ready' = ready \cup {"readable"}
    /\ UNCHANGED <<hungUp, received, interest, output, session, read,
                   history, event, stage, shouldClose, open, pushes>>

Receive ==
    /\ ~ hungUp
    /\ socket # <<>>
    /\ received' = Append(received, Head(socket))
    /\ socket' = Tail(socket)
    /\ ready' = ready \cup (interest \cap {"writable"})
    /\ UNCHANGED <<network, hungUp, sent, interest, buffer, position, session,
                   read, history, event, stage, shouldClose, open, pushes>>

HangUp ==
    /\ ~ hungUp
    /\ hungUp' = TRUE
    /\ ready' = ready \cup {"readable"}
    /\ UNCHANGED <<network, received, sent, interest, output, session, read,
                   history, event, stage, shouldClose, open, pushes>>

----------------------------------------------------------------------------
(* process_read: the commands of one read, one after the other. *)

(* Who puts a reply into the write buffer, in the order of their turns:     *)
(* process_read, the handler of a PUBLISH or PUBSUB, the pub/sub messages.  *)
Reply(turn, id) == [turn |-> turn, id |-> id]

Put(replies) ==
    /\ buffer' = buffer \o replies
    /\ produced' = produced \o replies

Command == Head(batch)

Processing == stage = "process" /\ batch # <<>>

(* The command is taken from the parser. *)
Done ==
    processed' = processed \cup {[id |-> Command.id, kind |-> Command.kind, read |-> reads]}

GoOn == batch' = Tail(batch) /\ stage' = "process" /\ UNCHANGED closed

Answer == Put(<<Reply("read", Command.id)>>)

Run == executed' = Append(executed, Command.id)

(* What processing a command leaves alone. *)
Apart == <<client, poll, socket, position, mode, messages, reads, event, open, pushes>>

Fast == Command.kind = "fast" /\ txState = "none"

(* The fast path comes before everything else. *)
RunFast ==
    /\ Processing /\ Fast
    /\ Run /\ Answer /\ Done /\ GoOn
    /\ UNCHANGED <<Apart, txState, queued, ops, shouldClose>>

(* A command that does not parse: the pub/sub operations of the read are    *)
(* forgotten with the connection.                                           *)
FailToParse ==
    /\ Processing /\ Command.kind = "broken"
    /\ Done
    /\ batch' = <<>> /\ ops' = <<>>
    /\ stage' = "end" /\ shouldClose' = TRUE
    /\ UNCHANGED <<Apart, txState, queued, closed, buffer, executed, produced>>

(* QUIT comes before the mode, and is the last command of its read. *)
Quit ==
    /\ Processing /\ Command.kind = "quit"
    /\ Answer /\ Done
    /\ closed' = TRUE
    /\ batch' = <<>>
    /\ UNCHANGED <<Apart, txState, queued, ops, stage, shouldClose, executed>>

(* The mode is the one before the read: its own SUBSCRIBEs are still to     *)
(* come.                                                                    *)
Refused == count > 0 /\ Command.kind \notin AllowedInPubSubMode

(* Mutation of Refuse: the command goes on to the executor all the same. *)
RefuseAndRun ==
    /\ Processing /\ ~ Fast /\ Command.kind # "broken" /\ Refused
    /\ Run /\ Done /\ GoOn
    /\ Put(<<Reply("read", Command.id), Reply("read", Command.id)>>)
    /\ UNCHANGED <<Apart, txState, queued, ops, shouldClose>>

Refuse ==
    /\ Processing /\ ~ Fast /\ Command.kind # "broken" /\ Refused
    /\ Answer /\ Done /\ GoOn
    /\ UNCHANGED <<Apart, txState, queued, ops, shouldClose, executed>>

Admitted == Processing /\ ~ Fast /\ Command.kind \notin {"broken", "quit"} /\ ~ Refused

(* A nested MULTI changes nothing. *)
Multi ==
    /\ Admitted /\ Command.kind = "multi"
    /\ txState' = "queuing"
    /\ queued' = IF txState = "none" THEN <<>> ELSE queued
    /\ Answer /\ Done /\ GoOn
    /\ UNCHANGED <<Apart, ops, shouldClose, executed>>

(* EXEC and DISCARD without MULTI. *)
NoMulti ==
    /\ Admitted /\ Command.kind \in {"exec", "discard"} /\ txState = "none"
    /\ Answer /\ Done /\ GoOn
    /\ UNCHANGED <<Apart, txState, queued, ops, shouldClose, executed>>

Discard ==
    /\ Admitted /\ Command.kind = "discard" /\ txState = "queuing"
    /\ txState' = "none" /\ queued' = <<>>
    /\ Answer /\ Done /\ GoOn
    /\ UNCHANGED <<Apart, ops, shouldClose, executed>>

BeginExec ==
    /\ Admitted /\ Command.kind = "exec" /\ txState = "queuing"
    /\ stage' = "exec"
    /\ UNCHANGED <<Apart, txState, queued, batch, ops, closed, shouldClose, buffer, history>>

(* The executor refuses what it does not know, pub/sub commands among them. *)
DrainQueued ==
    /\ stage = "exec" /\ queued # <<>>
    /\ queued' = Tail(queued)
    /\ executed' = IF Head(queued).kind \in DataKinds
                   THEN Append(executed, Head(queued).id) ELSE executed
    /\ UNCHANGED <<Apart, txState, batch, ops, closed, stage, shouldClose, buffer,
                   processed, produced>>

EndExec ==
    /\ stage = "exec" /\ queued = <<>>
    /\ txState' = "none"
    /\ Answer /\ Done /\ GoOn
    /\ UNCHANGED <<Apart, queued, ops, shouldClose, executed>>

(* Mutation of Queue: a queued command is executed at once as well. *)
QueueAndRun ==
    /\ Admitted /\ Command.kind \notin TxKinds /\ txState = "queuing"
    /\ queued' = Append(queued, Command)
    /\ Run /\ Answer /\ Done /\ GoOn
    /\ UNCHANGED <<Apart, txState, ops, shouldClose>>

Queue ==
    /\ Admitted /\ Command.kind \notin TxKinds /\ txState = "queuing"
    /\ queued' = Append(queued, Command)
    /\ Answer /\ Done /\ GoOn
    /\ UNCHANGED <<Apart, txState, ops, shouldClose, executed>>

(* Mutation of Postpone: the last operation is the first. *)
PostponeInFront ==
    /\ Admitted /\ Command.kind \in PubSubKinds /\ txState = "none"
    /\ ops' = <<Command>> \o ops
    /\ Done /\ GoOn
    /\ UNCHANGED <<Apart, txState, queued, shouldClose, buffer, executed, produced>>

(* Pub/sub commands wait for the end of the read. *)
Postpone ==
    /\ Admitted /\ Command.kind \in PubSubKinds /\ txState = "none"
    /\ ops' = Append(ops, Command)
    /\ Done /\ GoOn
    /\ UNCHANGED <<Apart, txState, queued, shouldClose, buffer, executed, produced>>

RunData ==
    /\ Admitted /\ Command.kind = "data" /\ txState = "none"
    /\ Run /\ Answer /\ Done /\ GoOn
    /\ UNCHANGED <<Apart, txState, queued, ops, shouldClose>>

ProcessCommand ==
    \/ RunFast \/ FailToParse \/ Quit \/ Refuse
    \/ Multi \/ NoMulti \/ Discard \/ BeginExec \/ DrainQueued \/ EndExec
    \/ Queue \/ Postpone \/ RunData

----------------------------------------------------------------------------
(* handle_pubsub_operation, when all commands of the read are processed. *)

Operation == Head(ops)

Handling ==
    /\ stage = "process" /\ batch = <<>> /\ ops # <<>>
    /\ ops' = Tail(ops)
    /\ UNCHANGED <<client, poll, socket, position, closed, txState, queued, batch, reads,
                   event, stage, shouldClose, open, pushes, processed, executed>>

(* The channels after the operation. *)
Subscribed(op) ==
    CASE op.kind = "subscribe"      -> subs \cup {op.channel}
      [] op.kind = "unsubscribe"    -> subs \ {op.channel}
      [] op.kind = "unsubscribeAll" -> {}

(* UNSUBSCRIBE without arguments confirms each channel; without channels it *)
(* says nothing.                                                            *)
Confirmations(op) == IF op.kind = "unsubscribeAll" THEN Cardinality(subs) ELSE 1

(* Mutation of Confirm: UNSUBSCRIBE of everything leaves the mode on. *)
ConfirmKeepsMode ==
    /\ Handling /\ Operation.kind # "query"
    /\ subs' = Subscribed(Operation)
    /\ count' = IF Operation.kind = "unsubscribeAll" THEN count ELSE Cardinality(subs')
    /\ messages' = messages \o [i \in 1 .. Confirmations(Operation) |->
                                   Reply("message", Operation.id)]
    /\ UNCHANGED <<buffer, produced>>

(* The count is the one in the last confirmation. *)
Confirm ==
    /\ Handling /\ Operation.kind # "query"
    /\ subs' = Subscribed(Operation)
    /\ count' = IF Confirmations(Operation) = 0 THEN count ELSE Cardinality(subs')
    /\ messages' = messages \o [i \in 1 .. Confirmations(Operation) |->
                                   Reply("message", Operation.id)]
    /\ UNCHANGED <<buffer, produced>>

Query ==
    /\ Handling /\ Operation.kind = "query"
    /\ Put(<<Reply("handler", Operation.id)>>)
    /\ UNCHANGED <<mode, messages>>

Processed == stage = "process" /\ batch = <<>> /\ ops = <<>>

(* process_pubsub_messages. *)
EndRead ==
    /\ Processed
    /\ Put(messages) /\ messages' = <<>>
    /\ stage' = "respond"
    /\ UNCHANGED <<client, poll, socket, position, session, batch, ops, reads, processed,
                   executed, event, shouldClose, open, pushes>>

----------------------------------------------------------------------------
(* The event loop. *)

(* Mutation of BufferKept: the buffer is cleared as soon as a part of it    *)
(* was written.                                                             *)
UnwrittenBuffer == IF position > 0 THEN <<>> ELSE buffer

(* The buffer is cleared when all of it was written. *)
BufferKept == IF position >= Len(buffer) THEN <<>> ELSE buffer

Pending == SubSeq(buffer, position + 1, Len(buffer))

Least(a, b) == IF a < b THEN a ELSE b

Accepted(pending) == Least(Len(pending), Room - Len(socket))

Write(pending, from) ==
    /\ socket' = socket \o SubSeq(pending, 1, Accepted(pending))
    /\ position' = from + Accepted(pending)

(* A write to a client that has gone fails, sooner or later. *)
WriteFails == hungUp /\ Pending # <<>> /\ UNCHANGED <<socket, position>>

AllWritten == position' = Len(buffer)

(* Changing the registration has the kernel look at the socket afresh. *)
Reregister(what) ==
    /\ interest' = what
    /\ ready' = {r \in what : IF r = "readable" THEN network # <<>> \/ hungUp
                              ELSE Len(socket') < Room}

Poll ==
    /\ stage = "loop" /\ open
    /\ ready # {}
    /\ event' = ready
    /\ ready' = {}
    /\ stage' = "event"
    /\ UNCHANGED <<client, interest, output, session, read, history,
                   shouldClose, open, pushes>>

(* "Handle writable event - continue writing pending data". *)
Flush ==
    /\ stage = "event" /\ "writable" \in event
    /\ \/ Write(Pending, position) /\ UNCHANGED shouldClose
       \/ WriteFails /\ shouldClose' = TRUE
    /\ IF AllWritten THEN Reregister({"readable"}) ELSE UNCHANGED poll
    /\ event' = event \ {"writable"}
    /\ stage' = IF event' = {} THEN "end" ELSE "event"
    /\ UNCHANGED <<client, buffer, session, read, history, open, pushes>>

CanRead == stage = "event" /\ event = {"readable"}

Read(n) ==
    /\ CanRead
    /\ n <= Len(network)
    /\ network' = SubSeq(network, n + 1, Len(network))
    /\ batch' = SubSeq(network, 1, n)
    /\ buffer' = BufferKept
    /\ position' = IF BufferKept = <<>> THEN 0 ELSE position
    /\ reads' = reads + 1
    /\ stage' = "process"
    /\ UNCHANGED <<hungUp, received, sent, poll, socket, session, ops, messages, history,
                   event, shouldClose, open, pushes>>

(* Mutation of ReadNothing: an empty read is not the end. *)
ReadAgain ==
    /\ CanRead
    /\ network = <<>>
    /\ event' = {}
    /\ stage' = "end"
    /\ UNCHANGED <<client, poll, output, session, read, history, shouldClose,
                   open, pushes>>

(* Nothing left to read: WouldBlock, or the end of the stream. *)
ReadNothing ==
    /\ CanRead
    /\ network = <<>>
    /\ event' = {}
    /\ stage' = "end"
    /\ shouldClose' = (shouldClose \/ hungUp)
    /\ UNCHANGED <<client, poll, output, session, read, history, open, pushes>>

(* Mutation of Respond: what did not fit is left to the next read. *)
RespondUnarmed ==
    /\ stage = "respond"
    /\ Write(Pending, position)
    /\ shouldClose' = (shouldClose \/ closed)
    /\ stage' = IF closed THEN "end" ELSE "event"
    /\ UNCHANGED <<client, poll, buffer, session, read, history, event, open,
                   pushes>>

(* "Write response immediately"; what does not fit waits for the socket to  *)
(* become writable.                                                         *)
Respond ==
    /\ stage = "respond"
    /\ \/ Write(Pending, position) /\ shouldClose' = (shouldClose \/ closed)
       \/ WriteFails /\ shouldClose' = TRUE
    /\ IF AllWritten THEN UNCHANGED poll
       ELSE Reregister({"readable", "writable"})
    /\ stage' = IF closed THEN "end" ELSE "event"
    /\ UNCHANGED <<client, buffer, session, read, history, event, open, pushes>>

EndEvent ==
    /\ stage = "end"
    /\ stage' = "loop"
    /\ event' = {}
    /\ open' = ~ shouldClose
    /\ subs' = IF shouldClose THEN {} ELSE subs
    /\ UNCHANGED <<client, poll, output, closed, txState, queued, count,
                   read, history, shouldClose, pushes>>

(* A message for the connection, from the inbox or from another connection  *)
(* of the worker.  Errors are ignored, and so is what did not fit.          *)
Push ==
    LET message == Reply("push", 0) IN
    /\ stage = "loop" /\ open
    /\ subs # {}
    /\ pushes < MaxPushes
    /\ pushes' = pushes + 1
    /\ buffer' = Append(buffer, message)
    /\ produced' = Append(produced, message)
    /\ \/ Write(Append(Pending, message), position)
       \/ hungUp /\ UNCHANGED <<socket, position>>
    /\ UNCHANGED <<client, poll, session, read, processed, executed, event,
                   stage, shouldClose, open>>

Serve ==
    \/ Poll
    \/ Flush
    \/ \E n \in 1 .. MaxSent : Read(n)
    \/ ProcessCommand
    \/ Confirm
    \/ Query
    \/ EndRead
    \/ ReadNothing
    \/ Respond
    \/ EndEvent

Next ==
    \/ \E r \in Requests : Send(r)
    \/ Receive
    \/ HangUp
    \/ Serve
    \/ Push

(* The worker does not stop, and a client that is there reads what it gets. *)
Spec == Init /\ [][Next]_vars /\ WF_vars(Serve) /\ WF_vars(Receive)

----------------------------------------------------------------------------

(* The bytes a client gets are the bytes that were put into the buffer, in  *)
(* that order, none twice and none missing, through partial writes, reads   *)
(* while a reply is still waiting, and messages in between.                 *)
NothingLost == produced = received \o socket \o Pending

EndedInError(r) == \E c \in processed : c.read = r /\ c.kind = "broken"

RepliesTo(id) == Cardinality({i \in DOMAIN produced : produced[i].id = id})

(* Each command has one reply when its read is over: commands that are      *)
(* refused, queued, or fail too.  Exceptions are a command that does not    *)
(* parse, for which the connection is closed and the pub/sub commands       *)
(* before it are forgotten, and UNSUBSCRIBE without arguments, which has a  *)
(* reply for each channel.                                                  *)
AnsweredOnce ==
    \A c \in processed :
        IF c.kind = "broken" THEN RepliesTo(c.id) = 0
        ELSE IF \/ stage \in {"process", "exec"} /\ c.read = reads
                \/ c.kind \in PubSubKinds /\ EndedInError(c.read)
        THEN c.kind # "unsubscribeAll" => RepliesTo(c.id) <= 1
        ELSE c.kind # "unsubscribeAll" => RepliesTo(c.id) = 1

(* Commands take effect at most once and in the order in which they were    *)
(* sent, those of transactions included.                                    *)
ExecutedInOrder ==
    \A i, j \in DOMAIN executed : i < j => executed[i] < executed[j]

TurnOf(reply) == CASE reply.turn = "read" -> 1
                   [] reply.turn = "handler" -> 2
                   [] reply.turn = "message" -> 3

(* Replies come in the order of the commands, except within one read, where *)
(* those to pub/sub commands come last: the client can match replies to     *)
(* commands only if it knows what is read together, or waits before and     *)
(* after its pub/sub commands.                                              *)
DisorderOnlyWithinRead ==
    \A i, j \in DOMAIN produced : \A c, d \in processed :
        i < j /\ produced[i].id = c.id /\ produced[j].id = d.id /\ c.id > d.id
            => c.read = d.read /\ TurnOf(produced[i]) < TurnOf(produced[j])

(* The connection is in pub/sub mode exactly when it has subscriptions: the *)
(* copy it keeps of their number is right whenever a read begins.           *)
ModeMatches ==
    open /\ stage \in {"loop", "event"} => count = Cardinality(subs)

Answered(id) ==
    \/ \E i \in DOMAIN received : received[i].id = id
    \/ \E c \in processed : c.id = id /\ c.kind = "unsubscribeAll"

Waiting == \E id \in 1 .. sent : ~ Answered(id)

(* A client that reads what it gets, and at some time stops sending, gets   *)
(* all its answers, although replies may have to wait for room in the       *)
(* socket: the worker is woken for them.                                    *)
EventuallyAnswered == Waiting ~> ~ Waiting \/ ~ open \/ hungUp

(* When the client is gone the worker notices and forgets the connection,   *)
(* also when it has replies that nobody takes any more.                     *)
EventuallyClosed == hungUp ~> ~ open
=============================================================================
