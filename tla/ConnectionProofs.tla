-------------------------- MODULE ConnectionProofs --------------------------
(* Proofs about Connection.tla.  The inductive invariant says where each    *)
(* command is on its way (on the network, in the batch of the read, among   *)
(* the operations put off, queued by MULTI, or done) and that the numbers   *)
(* of the commands grow along that way; and that a command which was        *)
(* processed has its reply in exactly one of three places: written, among   *)
(* the messages that wait for the end of the read, or still an operation.   *)
EXTENDS Connection, DataLemmas

Commands == [id : Nat \ {0}, kind : Kinds, channel : {r.channel : r \in Requests}]

Turns == {"read", "handler", "message", "push"}

Replies == [turn : Turns, id : Nat]

Reading == stage \in {"process", "exec"}

InputType ==
    /\ network \in Seq(Commands) /\ batch \in Seq(Commands)
    /\ ops \in Seq(Commands) /\ queued \in Seq(Commands)
    /\ processed \subseteq [id : Nat \ {0}, kind : Kinds, read : Nat]
    /\ executed \in Seq(Nat)
    /\ sent \in Nat /\ reads \in Nat

OutputType ==
    /\ socket \in Seq(Replies) /\ received \in Seq(Replies)
    /\ buffer \in Seq(Replies) /\ messages \in Seq(Replies)
    /\ produced \in Seq(Replies)
    /\ position \in 0 .. Len(buffer)
    /\ Len(socket) <= Room

ModeType ==
    /\ IsFiniteSet(subs)
    /\ txState \in {"none", "queuing"}
    /\ stage \in {"loop", "event", "process", "exec", "respond", "end"}

TypeOK == InputType /\ OutputType /\ ModeType

(* What a read leaves behind at each stage. *)
StageInv ==
    /\ ~ Reading => batch = <<>> /\ ops = <<>> /\ messages = <<>>
    /\ batch # <<>> => messages = <<>>
    /\ stage = "exec" => batch # <<>> /\ Command.kind = "exec" /\ txState = "queuing"

----------------------------------------------------------------------------
(* What a step may do to the conversation. *)

(* A command is taken and answered at once, and some of the rest of the     *)
(* batch may be dropped with it (QUIT).                                     *)
Replied ==
    /\ Reading /\ batch # <<>> /\ Command.kind # "broken"
    /\ stage' = "process"
    /\ Answer /\ Done
    /\ batch' = Tail(batch) \/ batch' = <<>>
    /\ UNCHANGED <<client, socket, position, mode, ops, messages, reads, open>>

(* A pub/sub command is put off. *)
Postponed ==
    /\ Postpone
    /\ Reading /\ batch # <<>> /\ Command.kind \in PubSubKinds

(* The other steps change neither what is processed nor what is produced.   *)
Still == UNCHANGED <<network, sent, batch, ops, messages, reads, processed, produced>>

LEMMA ProcessSteps ==
    ASSUME TypeOK, StageInv, ProcessCommand
    PROVE  Replied \/ Postponed \/ FailToParse \/ BeginExec \/ DrainQueued
<1>. USE DEF ProcessCommand, Replied, Postponed, Reading, Processing, GoOn, Apart, Admitted,
             Fast, mode, client
<1>1. CASE RunFast
  BY <1>1 DEF RunFast
<1>2. CASE FailToParse
  BY <1>2
<1>3. CASE Quit
  BY <1>3 DEF Quit
<1>4. CASE Refuse
  BY <1>4 DEF Refuse
<1>5. CASE Multi
  BY <1>5 DEF Multi
<1>6. CASE NoMulti
  BY <1>6 DEF NoMulti
<1>7. CASE Discard
  BY <1>7 DEF Discard
<1>8. CASE BeginExec \/ DrainQueued
  BY <1>8
<1>9. CASE EndExec
  BY <1>9 DEF EndExec, StageInv
<1>10. CASE Queue
  BY <1>10 DEF Queue
<1>11. CASE Postpone
  BY <1>11 DEF Postpone
<1>12. CASE RunData
  BY <1>12 DEF RunData
<1>. QED BY <1>1, <1>2, <1>3, <1>4, <1>5, <1>6, <1>7, <1>8, <1>9, <1>10, <1>11, <1>12

----------------------------------------------------------------------------
(* The output: buffer, position, socket. *)

LEMMA AcceptedRange ==
    ASSUME BoundsAssumption, OutputType, NEW p \in Seq(Replies)
    PROVE  /\ Accepted(p) \in 0 .. Len(p)
           /\ Accepted(p) <= Room - Len(socket)
BY LenProperties DEF BoundsAssumption, OutputType, Accepted, Least

(* What is written is a part of what waits, and the position moves past it. *)
LEMMA Written ==
    ASSUME BoundsAssumption, OutputType, NEW b \in Seq(Replies),
           position \in 0 .. Len(b),
           Write(SubSeq(b, position + 1, Len(b)), position)
    PROVE  /\ socket' \in Seq(Replies) /\ Len(socket') <= Room
           /\ position' \in 0 .. Len(b)
           /\ socket' \o SubSeq(b, position' + 1, Len(b))
                = socket \o SubSeq(b, position + 1, Len(b))
<1>1. PICK k \in 0 .. Len(b) : k = position
  OBVIOUS
<1>2. PICK p \in Seq(Replies) : p = SubSeq(b, k + 1, Len(b)) /\ Len(p) = Len(b) - k
  BY Rest
<1>3. PICK n \in 0 .. Len(p) : n = Accepted(p) /\ n <= Room - Len(socket)
  BY AcceptedRange
<1>4. socket' = socket \o SubSeq(p, 1, n)
  BY <1>1, <1>2, <1>3 DEF Write
<1>5. position' = k + n
  BY <1>1, <1>2, <1>3 DEF Write
<1>6. n \in 0 .. Len(b) - k
  BY <1>2
<1>7. socket \in Seq(Replies)
  BY DEF OutputType
<1>8. /\ socket' \in Seq(Replies) /\ Len(socket') = Len(socket) + n
      /\ socket' \o SubSeq(b, k + n + 1, Len(b)) = socket \o SubSeq(b, k + 1, Len(b))
  <2>1. /\ Joined(socket, Leading(Left(b, k), n)) \in Seq(Replies)
        /\ Len(Joined(socket, Leading(Left(b, k), n))) = Len(socket) + n
        /\ Joined(Joined(socket, Leading(Left(b, k), n)), Left(b, k + n))
               = Joined(socket, Left(b, k))
    BY <1>6, <1>7, RestMoved
  <2>2. socket' = Joined(socket, Leading(Left(b, k), n))
    BY <1>2, <1>4, Zenon DEF Joined, Left, Leading
  <2>3. /\ socket' \in Seq(Replies) /\ Len(socket') = Len(socket) + n
        /\ Joined(socket', Left(b, k + n)) = Joined(socket, Left(b, k))
    BY <2>1, <2>2, Zenon
  <2>. QED BY <2>3, Zenon DEF Joined, Left
<1>9. Len(b) \in Nat /\ Len(socket) \in Nat /\ Room \in Nat
  BY <1>7, LenProperties DEF BoundsAssumption
<1>10. Len(socket') <= Room
  BY <1>3, <1>8, <1>9
<1>11. position' \in 0 .. Len(b)
  BY <1>5, <1>6, <1>9
<1>. QED BY <1>1, <1>5, <1>8, <1>10, <1>11

OutputInv == OutputType /\ NothingLost

LEMMA PendingType ==
    ASSUME OutputType
    PROVE  Pending \in Seq(Replies)
BY Rest DEF OutputType, Pending

(* More replies wait. *)
LEMMA PutMore ==
    ASSUME OutputInv, NEW m \in Seq(Replies), Put(m),
           UNCHANGED <<received, socket, position>>
    PROVE  /\ produced' \in Seq(Replies) /\ buffer' \in Seq(Replies)
           /\ position' \in 0 .. Len(buffer')
           /\ NothingLost'
<1>1. /\ buffer \in Seq(Replies) /\ produced \in Seq(Replies)
      /\ received \in Seq(Replies) /\ socket \in Seq(Replies)
      /\ position \in 0 .. Len(buffer)
  BY DEF OutputInv, OutputType
<1>2. buffer' = buffer \o m /\ produced' = produced \o m
  BY DEF Put
<1>3. /\ produced' \in Seq(Replies) /\ buffer' \in Seq(Replies)
      /\ Len(buffer') = Len(buffer) + Len(m)
  BY <1>1, <1>2, ConcatProperties
<1>4. position' \in 0 .. Len(buffer')
  BY <1>1, <1>3, LenProperties
<1>5. SubSeq(buffer', position + 1, Len(buffer')) = Pending \o m
  BY <1>1, <1>2, RestOfConcatenation DEF Pending
<1>6. Pending' = Pending \o m
  BY <1>5 DEF Pending
<1>7. PICK p \in Seq(Replies), d \in Seq(Replies) : p = Pending /\ d = received \o socket
  BY <1>1, Rest, ConcatProperties DEF Pending
<1>8. produced' = (d \o p) \o m
  BY <1>2, <1>7 DEF OutputInv, NothingLost
<1>9. (d \o p) \o m = d \o (p \o m)
  BY ConcatAssociative
<1>10. NothingLost'
  BY <1>6, <1>7, <1>8, <1>9 DEF NothingLost
<1>. QED BY <1>3, <1>4, <1>10

(* The worker writes what waits, or fails to. *)
LEMMA WriteMore ==
    ASSUME BoundsAssumption, OutputInv,
           Write(Pending, position) \/ UNCHANGED <<socket, position>>,
           UNCHANGED <<received, buffer, messages, produced>>
    PROVE  OutputInv'
<1>1. /\ buffer \in Seq(Replies) /\ position \in 0 .. Len(buffer)
      /\ received \in Seq(Replies) /\ socket \in Seq(Replies)
      /\ OutputType
  BY DEF OutputInv, OutputType
<1>2. CASE Write(Pending, position)
  <2>1. /\ socket' \in Seq(Replies) /\ Len(socket') <= Room
        /\ position' \in 0 .. Len(buffer)
        /\ socket' \o SubSeq(buffer, position' + 1, Len(buffer)) = socket \o Pending
    BY <1>1, <1>2, Written DEF Pending
  <2>2. OutputType'
    BY <2>1 DEF OutputInv, OutputType
  <2>3. Pending \in Seq(Replies) /\ SubSeq(buffer, position' + 1, Len(buffer)) \in Seq(Replies)
    BY <1>1, <2>1, PendingType, Rest
  <2>4. (received \o socket) \o Pending
            = (received \o socket') \o SubSeq(buffer, position' + 1, Len(buffer))
    <3>1. Joined(socket, Pending) = Joined(socket', SubSeq(buffer, position' + 1, Len(buffer)))
      BY <2>1 DEF Joined
    <3>2. PICK r \in Seq(Replies), s \in Seq(Replies), p \in Seq(Replies),
               t \in Seq(Replies), q \in Seq(Replies) :
              /\ r = received /\ s = socket /\ p = Pending
              /\ t = socket' /\ q = SubSeq(buffer, position' + 1, Len(buffer))
      BY <1>1, <2>1, <2>3, Zenon
    <3>3. Joined(s, p) = Joined(t, q)
      BY <3>1, <3>2, Zenon
    <3>4. Joined(Joined(r, s), p) = Joined(Joined(r, t), q)
      BY <3>3, MovedBehind
    <3>. QED BY <3>2, <3>4, Zenon DEF Joined
  <2>5. Pending' = SubSeq(buffer, position' + 1, Len(buffer))
    BY DEF Pending
  <2>6. NothingLost'
    BY <2>4, <2>5 DEF OutputInv, NothingLost
  <2>. QED BY <2>2, <2>6 DEF OutputInv
<1>3. CASE UNCHANGED <<socket, position>>
  BY <1>3 DEF OutputInv, OutputType, NothingLost, Pending
<1>. QED BY <1>2, <1>3

(* A reply more waits, and the worker writes at once. *)
LEMMA WriteOneMore ==
    ASSUME BoundsAssumption, OutputInv, NEW e \in Replies,
           buffer' = Append(buffer, e), produced' = Append(produced, e),
           Write(Append(Pending, e), position) \/ UNCHANGED <<socket, position>>,
           UNCHANGED <<received, messages>>
    PROVE  OutputInv'
<1>1. /\ OutputType
      /\ buffer \in Seq(Replies) /\ produced \in Seq(Replies)
      /\ received \in Seq(Replies) /\ socket \in Seq(Replies)
      /\ position \in 0 .. Len(buffer) /\ Pending \in Seq(Replies)
  BY PendingType DEF OutputInv, OutputType
<1>2. /\ buffer' \in Seq(Replies) /\ position \in 0 .. Len(buffer')
      /\ SubSeq(buffer', position + 1, Len(buffer')) = Append(Pending, e)
  <2>b. PICK b \in Seq(Replies) : b = buffer
    BY <1>1
  <2>1. PICK k \in 0 .. Len(b) : k = position
    BY <1>1, <2>b
  <2>2. /\ Append(b, e) \in Seq(Replies) /\ k \in 0 .. Len(Append(b, e))
        /\ Left(Append(b, e), k) = Append(Left(b, k), e)
    BY RestOfAppended
  <2>. QED BY <2>b, <2>1, <2>2, Zenon DEF Pending, Left
<1>3. /\ socket' \in Seq(Replies) /\ Len(socket') <= Room
      /\ position' \in 0 .. Len(buffer')
      /\ socket' \o SubSeq(buffer', position' + 1, Len(buffer')) = socket \o Append(Pending, e)
  <2>1. CASE Write(Append(Pending, e), position)
    <3>1. Write(SubSeq(buffer', position + 1, Len(buffer')), position)
      BY <1>2, <2>1
    <3>. QED BY <1>1, <1>2, <3>1, Written
  <2>2. CASE UNCHANGED <<socket, position>>
    BY <1>1, <1>2, <2>2 DEF OutputType
  <2>. QED BY <2>1, <2>2
<1>4. PICK d \in Seq(Replies) : d = received \o socket
  BY <1>1, ConcatProperties
<1>5. produced' = (received \o socket) \o Append(Pending, e)
  <2>1. PICK p \in Seq(Replies) : p = Pending
    BY <1>1
  <2>2. Joined(d, Append(p, e)) = Append(Joined(d, p), e)
    BY AppendedToJoined
  <2>. QED BY <1>4, <2>1, <2>2, Zenon DEF OutputInv, NothingLost, Joined
<1>6. /\ Append(Pending, e) \in Seq(Replies)
      /\ SubSeq(buffer', position' + 1, Len(buffer')) \in Seq(Replies)
      /\ produced' \in Seq(Replies)
  BY <1>1, <1>2, <1>3, Rest, AppendProperties
<1>7. (received \o socket) \o Append(Pending, e)
          = (received \o socket') \o SubSeq(buffer', position' + 1, Len(buffer'))
  <2>1. Joined(socket, Append(Pending, e))
            = Joined(socket', SubSeq(buffer', position' + 1, Len(buffer')))
    BY <1>3 DEF Joined
  <2>2. PICK r \in Seq(Replies), s \in Seq(Replies), p \in Seq(Replies),
             t \in Seq(Replies), q \in Seq(Replies) :
            /\ r = received /\ s = socket /\ p = Append(Pending, e)
            /\ t = socket' /\ q = SubSeq(buffer', position' + 1, Len(buffer'))
    BY <1>1, <1>3, <1>6, Zenon
  <2>3. Joined(s, p) = Joined(t, q)
    BY <2>1, <2>2, Zenon
  <2>4. Joined(Joined(r, s), p) = Joined(Joined(r, t), q)
    BY <2>3, MovedBehind
  <2>. QED BY <2>2, <2>4, Zenon DEF Joined
<1>8. Pending' = SubSeq(buffer', position' + 1, Len(buffer'))
  BY DEF Pending
<1>9. NothingLost'
  BY <1>5, <1>7, <1>8 DEF NothingLost
<1>10. OutputType'
  BY <1>1, <1>2, <1>3, <1>6 DEF OutputType
<1>. QED BY <1>9, <1>10 DEF OutputInv

LEMMA OneReply ==
    ASSUME NEW turn \in Turns, NEW id \in Nat
    PROVE  <<Reply(turn, id)>> \in Seq(Replies)
<1>1. Reply(turn, id) \in Replies
  BY DEF Reply, Replies
<1>. QED BY <1>1

LEMMA OutputStep ==
    ASSUME TypeOK, StageInv, NothingLost, [Next]_vars
    PROVE  OutputType' /\ NothingLost'
<1>. USE DEF TypeOK
<1>b. BoundsAssumption
  BY BoundsAssumption
<1>i. OutputInv
  BY DEF OutputInv
<1>s. ASSUME UNCHANGED <<received, socket, buffer, position, messages, produced>>
      PROVE  OutputInv'
  BY <1>s, <1>i DEF OutputInv, OutputType, NothingLost, Pending
<1>p. ASSUME NEW turn \in Turns, NEW id \in Nat, Put(<<Reply(turn, id)>>),
             UNCHANGED <<received, socket, position, messages>>
      PROVE  OutputInv'
  <2>1. <<Reply(turn, id)>> \in Seq(Replies)
    BY OneReply
  <2>2. /\ produced' \in Seq(Replies) /\ buffer' \in Seq(Replies)
        /\ position' \in 0 .. Len(buffer')
        /\ NothingLost'
    BY <2>1, <1>p, <1>i, PutMore
  <2>. QED BY <2>2, <1>p, <1>i DEF OutputInv, OutputType
<1>1. ASSUME ProcessCommand PROVE OutputInv'
  <2>1. CASE Replied
    <3>1. Command \in Commands
      BY <2>1, Shifted DEF InputType, Replied, Command
    <3>2. Command.id \in Nat /\ "read" \in Turns
      BY <3>1 DEF Commands, Turns
    <3>. QED BY <2>1, <3>2, <1>p DEF Replied, Answer, client
  <2>2. CASE Postponed \/ FailToParse \/ BeginExec \/ DrainQueued
    BY <2>2, <1>s DEF Postponed, Postpone, FailToParse, BeginExec, DrainQueued, Apart,
                      client, history
  <2>. QED BY <1>1, <2>1, <2>2, ProcessSteps
<1>o. ASSUME Handling PROVE Operation \in Commands
  BY <1>o, Shifted DEF InputType, Handling, Operation
<1>2. ASSUME Confirm PROVE OutputInv'
  <2>1. Operation.id \in Nat /\ "message" \in Turns
    BY <1>2, <1>o DEF Confirm, Commands, Turns
  <2>2. Reply("message", Operation.id) \in Replies
    BY <2>1 DEF Reply, Replies
  <2>3. Confirmations(Operation) \in Nat
    BY FS_CardinalityType DEF ModeType, Confirmations
  <2>4. [i \in 1 .. Confirmations(Operation) |-> Reply("message", Operation.id)]
          \in Seq(Replies)
    BY <2>2, <2>3
  <2>5. messages' \in Seq(Replies)
    BY <1>2, <2>4, ConcatProperties DEF OutputType, Confirm
  <2>6. UNCHANGED <<received, socket, buffer, position, produced>>
    BY <1>2 DEF Confirm, Handling, client
  <2>. QED BY <2>5, <2>6 DEF OutputInv, OutputType, NothingLost, Pending
<1>3. ASSUME Query PROVE OutputInv'
  <2>1. Operation.id \in Nat /\ "handler" \in Turns
    BY <1>3, <1>o DEF Query, Commands, Turns
  <2>. QED BY <1>3, <2>1, <1>p DEF Query, Handling, client
<1>4. ASSUME EndRead PROVE OutputInv'
  <2>1. /\ messages \in Seq(Replies) /\ Put(messages) /\ messages' = <<>>
        /\ UNCHANGED <<received, socket, position>>
    BY <1>4 DEF EndRead, client, OutputType
  <2>2. /\ produced' \in Seq(Replies) /\ buffer' \in Seq(Replies)
        /\ position' \in 0 .. Len(buffer')
        /\ NothingLost'
    BY <2>1, <1>i, PutMore
  <2>3. messages' \in Seq(Replies)
    BY <2>1, EmptySeq
  <2>. QED BY <2>1, <2>2, <2>3, <1>i DEF OutputInv, OutputType
<1>5. ASSUME NEW r \in Requests, Send(r) PROVE OutputInv'
  BY <1>5, <1>s DEF Send, output, history, read
<1>6. ASSUME HangUp \/ Poll \/ ReadNothing \/ EndEvent PROVE OutputInv'
  BY <1>6, <1>s DEF HangUp, Poll, ReadNothing, EndEvent, output, history, read, client
<1>7. ASSUME Receive PROVE OutputInv'
  <2>1. /\ socket \in Seq(Replies) /\ received \in Seq(Replies) /\ socket # <<>>
        /\ received' = Append(received, Head(socket)) /\ socket' = Tail(socket)
        /\ UNCHANGED <<buffer, position, messages, produced>>
    BY <1>7 DEF Receive, OutputType, history, read
  <2>2. received' \o socket' = received \o socket
    BY <2>1, HeadMoved
  <2>3. /\ socket' \in Seq(Replies) /\ Len(socket') = Len(socket) - 1
        /\ received' \in Seq(Replies)
    BY <2>1, HeadTailProperties, AppendProperties
  <2>4. Len(socket') <= Room
    BY <2>1, <2>3, <1>b, LenProperties DEF OutputType, BoundsAssumption
  <2>5. OutputType'
    BY <2>1, <2>3, <2>4 DEF OutputType
  <2>6. NothingLost'
    BY <2>1, <2>2 DEF NothingLost, Pending
  <2>. QED BY <2>5, <2>6 DEF OutputInv
<1>8. ASSUME Flush PROVE OutputInv'
  <2>1. /\ Write(Pending, position) \/ UNCHANGED <<socket, position>>
        /\ UNCHANGED <<received, buffer, messages, produced>>
    BY <1>8 DEF Flush, WriteFails, client, read, history
  <2>. QED BY <2>1, <1>b, <1>i, WriteMore
<1>9. ASSUME Respond PROVE OutputInv'
  <2>1. /\ Write(Pending, position) \/ UNCHANGED <<socket, position>>
        /\ UNCHANGED <<received, buffer, messages, produced>>
    BY <1>9 DEF Respond, WriteFails, client, read, history
  <2>. QED BY <2>1, <1>b, <1>i, WriteMore
<1>10. ASSUME NEW n \in 1 .. MaxSent, Read(n) PROVE OutputInv'
  <2>1. /\ buffer' = BufferKept
        /\ position' = IF BufferKept = <<>> THEN 0 ELSE position
        /\ UNCHANGED <<received, socket, messages, produced>>
    BY <1>10 DEF Read, history
  <2>2. buffer \in Seq(Replies) /\ position \in 0 .. Len(buffer) /\ Len(buffer) \in Nat
    BY LenProperties DEF OutputType
  <2>3. CASE position >= Len(buffer)
    <3>1. buffer' = <<>> /\ position' = 0
      BY <2>1, <2>3 DEF BufferKept
    <3>2. <<>> \in Seq(Replies) /\ Len(<<>>) = 0
      BY EmptySeq
    <3>3. OutputType'
      BY <2>1, <3>1, <3>2 DEF OutputType
    <3>4. Pending = <<>> /\ Pending' = <<>>
      <4>1. position + 1 \in Int /\ Len(buffer) \in Int /\ Len(buffer) < position + 1
        BY <2>2, <2>3
      <4>2. SubSeq(buffer, position + 1, Len(buffer)) = <<>>
        BY <4>1, SubSeqEmpty
      <4>3. SubSeq(<<>>, 0 + 1, 0) = <<>>
        BY SubSeqEmpty
      <4>. QED BY <3>1, <3>2, <4>2, <4>3 DEF Pending
    <3>. QED BY <2>1, <3>3, <3>4 DEF OutputInv, NothingLost
  <2>4. CASE ~ (position >= Len(buffer))
    <3>1. BufferKept = buffer /\ buffer # <<>>
      BY <2>2, <2>4, EmptySeq DEF BufferKept
    <3>2. UNCHANGED <<buffer, position>>
      BY <2>1, <3>1
    <3>. QED BY <2>1, <3>2, <1>s
  <2>. QED BY <2>3, <2>4
<1>11. ASSUME Push PROVE OutputInv'
  <2>. DEFINE message == Reply("push", 0)
  <2>1. /\ buffer' = Append(buffer, message) /\ produced' = Append(produced, message)
        /\ \/ Write(Append(Pending, message), position)
           \/ UNCHANGED <<socket, position>>
        /\ UNCHANGED <<received, messages>>
    BY <1>11 DEF Push, client, read
  <2>2. message \in Replies
    BY DEF Reply, Replies, Turns
  <2>. HIDE DEF message
  <2>. QED BY <2>1, <2>2, <1>b, <1>i, WriteOneMore
<1>12. ASSUME UNCHANGED vars PROVE OutputInv'
  BY <1>12, <1>s DEF vars, client, output, history, read
<1>13. OutputInv'
  BY <1>1, <1>2, <1>3, <1>4, <1>5, <1>6, <1>7, <1>8, <1>9, <1>10, <1>11, <1>12
     DEF Next, Serve
<1>. QED BY <1>13 DEF OutputInv

----------------------------------------------------------------------------
(* The commands on their way, and the stages of a read. *)

(* The command being processed. *)
LEMMA Taken ==
    ASSUME InputType, batch # <<>>
    PROVE  /\ Command \in Commands /\ Command = batch[1] /\ 1 \in DOMAIN batch
           /\ Command.id \in Nat \ {0} /\ Command.kind \in Kinds
           /\ Tail(batch) \in Seq(Commands) /\ <<>> \in Seq(Commands)
           /\ \A i \in DOMAIN Tail(batch) : i + 1 \in DOMAIN batch
                                            /\ Tail(batch)[i] = batch[i + 1]
<1>1. /\ Command \in Commands /\ Command = batch[1] /\ 1 \in DOMAIN batch
      /\ Tail(batch) \in Seq(Commands)
      /\ \A i \in DOMAIN Tail(batch) : i + 1 \in DOMAIN batch
                                       /\ Tail(batch)[i] = batch[i + 1]
  BY Shifted DEF InputType, Command
<1>2. <<>> \in Seq(Commands)
  BY EmptySeq
<1>. QED BY <1>1, <1>2 DEF Commands

Record == [id |-> Command.id, kind |-> Command.kind, read |-> reads]

LEMMA DoneType ==
    ASSUME InputType, batch # <<>>, Done
    PROVE  /\ processed' = processed \cup {Record}
           /\ Record \in [id : Nat \ {0}, kind : Kinds, read : Nat]
           /\ processed' \subseteq [id : Nat \ {0}, kind : Kinds, read : Nat]
<1>1. Command.id \in Nat \ {0} /\ Command.kind \in Kinds
  BY Taken
<1>. QED BY <1>1 DEF Done, Record, InputType

LEMMA InputStep ==
    ASSUME TypeOK, StageInv, [Next]_vars
    PROVE  InputType'
<1>i. InputType
  BY DEF TypeOK
<1>s. ASSUME UNCHANGED <<network, batch, ops, queued, processed, executed, sent, reads>>
      PROVE  InputType'
  BY <1>s, <1>i DEF InputType
<1>1. ASSUME ProcessCommand PROVE InputType'
  <2>1. CASE batch # <<>>
    <3>1. /\ Command \in Commands /\ Command.id \in Nat
          /\ Tail(batch) \in Seq(Commands) /\ <<>> \in Seq(Commands)
      BY <2>1, <1>i, Taken
    <3>2. /\ batch \in Seq(Commands) /\ ops \in Seq(Commands) /\ queued \in Seq(Commands)
          /\ executed \in Seq(Nat)
      BY <1>i DEF InputType
    <3>3. UNCHANGED <<network, sent, reads>>
      BY <1>1 DEF ProcessCommand, RunFast, FailToParse, Quit, Refuse, Multi, NoMulti, Discard,
                  BeginExec, DrainQueued, EndExec, Queue, Postpone, RunData, Apart, client
    <3>4. batch' \in Seq(Commands)
      BY <1>1, <3>1, <3>2 DEF ProcessCommand, RunFast, FailToParse, Quit, Refuse, Multi,
                  NoMulti, Discard, BeginExec, DrainQueued, EndExec, Queue, Postpone, RunData,
                  GoOn
    <3>5. processed' \subseteq [id : Nat \ {0}, kind : Kinds, read : Nat]
      <4>1. Done \/ UNCHANGED processed
        BY <1>1 DEF ProcessCommand, RunFast, FailToParse, Quit, Refuse, Multi,
                  NoMulti, Discard, BeginExec, DrainQueued, EndExec, Queue, Postpone, RunData,
                  history
      <4>. QED BY <4>1, <2>1, <1>i, DoneType DEF InputType
    <3>6. ops' \in Seq(Commands)
      <4>1. Append(ops, Command) \in Seq(Commands)
        BY <3>1, <3>2, AppendProperties
      <4>. QED BY <4>1, <1>1, <3>1, <3>2 DEF ProcessCommand, RunFast, FailToParse, Quit,
                  Refuse, Multi, NoMulti, Discard, BeginExec, DrainQueued, EndExec, Queue,
                  Postpone, RunData
    <3>7. queued' \in Seq(Commands)
      <4>1. Append(queued, Command) \in Seq(Commands)
        BY <3>1, <3>2, AppendProperties
      <4>2. queued # <<>> => Tail(queued) \in Seq(Commands)
        BY <3>2, HeadTailProperties
      <4>. QED BY <4>1, <4>2, <1>1, <3>1, <3>2 DEF ProcessCommand, RunFast, FailToParse, Quit,
                  Refuse, Multi, NoMulti, Discard, BeginExec, DrainQueued, EndExec, Queue,
                  Postpone, RunData
    <3>8. executed' \in Seq(Nat)
      <4>1. Append(executed, Command.id) \in Seq(Nat)
        BY <3>1, <3>2, AppendProperties
      <4>2. CASE DrainQueued
        <5>1. queued # <<>>
          BY <4>2 DEF DrainQueued
        <5>2. Head(queued) \in Commands
          BY <5>1, <3>2, HeadTailProperties
        <5>3. Append(executed, Head(queued).id) \in Seq(Nat)
          BY <5>2, <3>2, AppendProperties DEF Commands
        <5>. QED BY <4>2, <5>3, <3>2 DEF DrainQueued
      <4>. QED BY <4>1, <4>2, <1>1, <3>2 DEF ProcessCommand, RunFast, FailToParse, Quit,
                  Refuse, Multi, NoMulti, Discard, BeginExec, EndExec, Queue,
                  Postpone, RunData, Run, history
    <3>. QED BY <3>3, <3>4, <3>5, <3>6, <3>7, <3>8, <1>i DEF InputType
  <2>2. batch # <<>>
    BY <1>1 DEF ProcessCommand, RunFast, FailToParse, Quit, Refuse, Multi, NoMulti, Discard,
                BeginExec, DrainQueued, EndExec, Queue, Postpone, RunData, Processing,
                Admitted, StageInv
  <2>. QED BY <2>1, <2>2
<1>2. ASSUME Confirm \/ Query PROVE InputType'
  <2>1. ops # <<>> /\ ops' = Tail(ops)
    BY <1>2 DEF Confirm, Query, Handling
  <2>2. ops' \in Seq(Commands)
    BY <2>1, <1>i, HeadTailProperties DEF InputType
  <2>. QED BY <1>2, <2>2, <1>i DEF InputType, Confirm, Query, Handling, client
<1>3. ASSUME NEW r \in Requests, Send(r) PROVE InputType'
  <2>. DEFINE c == [id |-> sent + 1, kind |-> r.kind, channel |-> r.channel]
  <2>1. c \in Commands
    BY <1>i, RequestsAssumption DEF InputType, Commands
  <2>2. network' = Append(network, c)
    BY <1>3 DEF Send
  <2>. HIDE DEF c
  <2>3. network' \in Seq(Commands)
    BY <2>1, <2>2, <1>i, AppendProperties DEF InputType
  <2>. QED BY <1>3, <2>3, <1>i DEF InputType, Send, read, session, history
<1>4. ASSUME NEW n \in 1 .. MaxSent, Read(n) PROVE InputType'
  <2>1. /\ network \in Seq(Commands) /\ Len(network) \in Nat /\ n \in 0 .. Len(network)
        /\ n \in 1 .. Len(network)
    BY <1>4, <1>i, LenProperties DEF InputType, Read
  <2>2. SubSeq(network, n + 1, Len(network)) \in Seq(Commands)
    BY <2>1, Rest
  <2>3. SubSeq(network, 1, n) \in Seq(Commands)
    <3>1. \A i \in 1 .. n : network[i] \in Commands
      BY <2>1, ElementOfSeq
    <3>2. 1 \in Int /\ n \in Int
      BY <2>1
    <3>. QED BY <3>1, <3>2, SubSeqProperties
  <2>. QED BY <1>4, <2>2, <2>3, <1>i DEF InputType, Read, session, history
<1>5. ASSUME EndRead \/ Receive \/ HangUp \/ Poll \/ ReadNothing \/ EndEvent \/ Flush
             \/ Respond \/ Push \/ UNCHANGED vars
      PROVE  InputType'
  BY <1>5, <1>s DEF EndRead, Receive, HangUp, Poll, ReadNothing, EndEvent, Flush, Respond,
                    Push, vars, client, read, session, history
<1>. QED BY <1>1, <1>2, <1>3, <1>4, <1>5 DEF Next, Serve

(* Only pub/sub commands are put off. *)
OpsInv == \A i \in DOMAIN ops : ops[i].kind \in PubSubKinds

LEMMA OpsStep ==
    ASSUME InputType, StageInv, OpsInv, [Next]_vars
    PROVE  OpsInv'
<1>1. CASE UNCHANGED ops \/ ops' = <<>>
  BY <1>1 DEF OpsInv
<1>2. CASE Postpone
  <2>1. batch # <<>> /\ Command.kind \in PubSubKinds /\ ops' = Append(ops, Command)
    BY <1>2 DEF Postpone, Admitted, Processing
  <2>2. Command \in Commands /\ ops \in Seq(Commands)
    BY <2>1, Taken DEF InputType
  <2>3. /\ DOMAIN ops' = DOMAIN ops \cup {Len(ops) + 1}
        /\ ops'[Len(ops) + 1] = Command
        /\ \A i \in DOMAIN ops : ops'[i] = ops[i]
    BY <2>1, <2>2, Appended
  <2>. QED BY <2>1, <2>3 DEF OpsInv
<1>3. CASE Handling
  <2>1. ops' = Tail(ops) /\ ops # <<>> /\ ops \in Seq(Commands)
    BY <1>3 DEF Handling, InputType
  <2>2. \A i \in DOMAIN ops' : i + 1 \in DOMAIN ops /\ ops'[i] = ops[i + 1]
    BY <2>1, Shifted
  <2>. QED BY <2>2 DEF OpsInv
<1>4. Postpone \/ Handling \/ UNCHANGED ops \/ ops' = <<>>
  BY DEF Next, Serve, Confirm, Query, ProcessCommand, RunFast, FailToParse, Quit, Refuse,
         Multi, NoMulti, Discard, BeginExec, DrainQueued, EndExec, Queue, RunData, EndRead,
         Receive, HangUp, Poll, ReadNothing, Flush, Respond, Push, Send, Read, EndEvent, vars,
         read
<1>. QED BY <1>1, <1>2, <1>3, <1>4

(* The copy of the number of channels is right at every stage, until the    *)
(* connection is removed with its subscriptions, at the end of an event.    *)
ModeInv ==
    /\ open => count = Cardinality(subs)
    /\ stage # "loop" => open

LEMMA ModeStep ==
    ASSUME TypeOK, OpsInv, ModeInv, [Next]_vars
    PROVE  ModeType' /\ ModeInv'
<1>i. ModeType
  BY DEF TypeOK
<1>1. ASSUME ProcessCommand PROVE ModeType' /\ ModeInv'
  <2>1. UNCHANGED <<mode, open>>
    BY <1>1 DEF ProcessCommand, RunFast, FailToParse, Quit, Refuse, Multi, NoMulti, Discard,
                BeginExec, DrainQueued, EndExec, Queue, Postpone, RunData, Apart
  <2>2. txState' \in {"none", "queuing"}
    BY <1>1, <1>i DEF ProcessCommand, RunFast, FailToParse, Quit, Refuse, Multi, NoMulti,
                Discard, BeginExec, DrainQueued, EndExec, Queue, Postpone, RunData, ModeType
  <2>3. stage' \in {"loop", "event", "process", "exec", "respond", "end"}
    BY <1>1, <1>i DEF ProcessCommand, RunFast, FailToParse, Quit, Refuse, Multi, NoMulti,
                Discard, BeginExec, DrainQueued, EndExec, Queue, Postpone, RunData, ModeType,
                GoOn
  <2>4. stage # "loop"
    BY <1>1 DEF ProcessCommand, RunFast, FailToParse, Quit, Refuse, Multi, NoMulti, Discard,
                BeginExec, DrainQueued, EndExec, Queue, Postpone, RunData, Processing, Admitted
  <2>. QED BY <2>1, <2>2, <2>3, <2>4, <1>i DEF ModeType, ModeInv, mode
<1>2. ASSUME Confirm PROVE ModeType' /\ ModeInv'
  <2>1. /\ subs' = Subscribed(Operation)
        /\ count' = IF Confirmations(Operation) = 0 THEN count ELSE Cardinality(subs')
        /\ UNCHANGED <<open, txState, stage>> /\ stage = "process"
        /\ Operation.kind # "query" /\ Operation.kind \in PubSubKinds
    <3>1. 1 \in DOMAIN ops /\ Operation = ops[1]
      BY <1>2, Shifted DEF TypeOK, InputType, Confirm, Handling, Operation
    <3>2. Operation.kind \in PubSubKinds
      BY <3>1 DEF OpsInv
    <3>. QED BY <1>2, <3>2 DEF Confirm, Handling
  <2>2. /\ IsFiniteSet(subs \cup {Operation.channel})
        /\ IsFiniteSet(subs \ {Operation.channel})
        /\ IsFiniteSet({}) /\ Cardinality({}) = 0
    <3>1. IsFiniteSet(subs)
      BY <1>i DEF ModeType
    <3>. QED BY <3>1, FS_AddElement, FS_RemoveElement, FS_EmptySet
  <2>3. Confirmations(Operation) = 0 => /\ Operation.kind = "unsubscribeAll"
                                        /\ Cardinality(subs) = 0
    BY DEF Confirmations
  <2>4. CASE Operation.kind \in {"subscribe", "unsubscribe", "unsubscribeAll"}
    <3>1. subs' = subs \cup {Operation.channel} \/ subs' = subs \ {Operation.channel}
          \/ subs' = {}
      BY <2>1, <2>4 DEF Subscribed
    <3>2. IsFiniteSet(subs')
      BY <2>2, <3>1
    <3>3. ModeInv'
      <4>1. CASE Confirmations(Operation) = 0
        <5>1. subs' = {}
          BY <2>1, <2>3, <4>1 DEF Subscribed
        <5>2. Cardinality(subs') = 0
          BY <5>1, <2>2
        <5>. QED BY <2>1, <2>3, <4>1, <5>2 DEF ModeInv
      <4>2. CASE Confirmations(Operation) # 0
        BY <2>1, <4>2 DEF ModeInv
      <4>. QED BY <4>1, <4>2
    <3>. QED BY <2>1, <3>2, <3>3, <1>i DEF ModeType
  <2>5. Operation.kind \in {"subscribe", "unsubscribe", "unsubscribeAll"}
    BY <2>1 DEF PubSubKinds
  <2>. QED BY <2>4, <2>5
<1>3. ASSUME EndEvent PROVE ModeType' /\ ModeInv'
  BY <1>3, <1>i, FS_EmptySet DEF EndEvent, ModeType, ModeInv
<1>4. ASSUME \/ Query \/ EndRead \/ Receive \/ HangUp \/ Poll \/ ReadNothing \/ Flush
             \/ Respond \/ Push \/ UNCHANGED vars \/ (\E r \in Requests : Send(r))
             \/ \E n \in 1 .. MaxSent : Read(n)
      PROVE  ModeType' /\ ModeInv'
  <2>1. UNCHANGED <<subs, txState, count, open>>
    BY <1>4 DEF Query, Handling, EndRead, Receive, HangUp, Poll, ReadNothing, Flush,
                Respond, Push, Send, Read, vars, session, mode
  <2>2. stage' \in {"loop", "event", "process", "exec", "respond", "end"}
    BY <1>4, <1>i DEF Query, Handling, EndRead, Receive, HangUp, Poll, ReadNothing, Flush,
                Respond, Push, Send, Read, vars, ModeType
  <2>3. stage' # "loop" => stage # "loop" \/ open
    BY <1>4 DEF Query, Handling, EndRead, Receive, HangUp, Poll, ReadNothing, Flush,
                Respond, Push, Send, Read, CanRead, Processed, vars
  <2>. QED BY <2>1, <2>2, <2>3, <1>i DEF ModeType, ModeInv
<1>. QED BY <1>1, <1>2, <1>3, <1>4 DEF Next, Serve

LEMMA StageStep ==
    ASSUME TypeOK, StageInv, [Next]_vars
    PROVE  StageInv'
<1>1. ASSUME ProcessCommand PROVE StageInv'
  <2>1. CASE Replied \/ Postponed
    <3>1. stage' = "process" /\ batch # <<>> /\ UNCHANGED messages
      BY <2>1 DEF Replied, Postponed, Postpone, GoOn, Apart
    <3>. QED BY <3>1 DEF StageInv, Reading
  <2>2. CASE FailToParse
    BY <2>2 DEF FailToParse, StageInv, Reading, Processing, Apart
  <2>3. CASE BeginExec
    BY <2>3 DEF BeginExec, StageInv, Reading, Apart, Admitted, Processing, Command
  <2>4. CASE DrainQueued
    BY <2>4 DEF DrainQueued, StageInv, Reading, Apart, Command
  <2>. QED BY <1>1, <2>1, <2>2, <2>3, <2>4, ProcessSteps
<1>2. ASSUME Confirm \/ Query PROVE StageInv'
  BY <1>2 DEF Confirm, Query, Handling, StageInv, Reading
<1>3. ASSUME EndRead PROVE StageInv'
  BY <1>3 DEF EndRead, Processed, StageInv, Reading
<1>4. ASSUME NEW n \in 1 .. MaxSent, Read(n) PROVE StageInv'
  BY <1>4 DEF Read, CanRead, StageInv, Reading
<1>5. ASSUME \/ Receive \/ HangUp \/ Poll \/ ReadNothing \/ Flush \/ EndEvent
             \/ Respond \/ Push \/ UNCHANGED vars \/ (\E r \in Requests : Send(r))
      PROVE  StageInv'
  <2>1. UNCHANGED <<batch, ops, messages, txState>>
    BY <1>5 DEF Receive, HangUp, Poll, ReadNothing, Flush, EndEvent, Respond, Push, Send,
                vars, read, session
  <2>2. UNCHANGED stage \/ (stage' \in {"loop", "event", "end"} /\ ~ Reading)
    BY <1>5 DEF Receive, HangUp, Poll, ReadNothing, Flush, EndEvent, Respond, Push, Send,
                CanRead, vars, Reading
  <2>. QED BY <2>1, <2>2 DEF StageInv, Reading, Command
<1>. QED BY <1>1, <1>2, <1>3, <1>4, <1>5 DEF Next, Serve

----------------------------------------------------------------------------
(* The numbers of the commands grow along their way. *)

OrderInv ==
    /\ \A c, d \in processed : c.id = d.id => c = d
    /\ \A c, d \in processed : c.id < d.id => c.read <= d.read
    /\ \A c \in processed : c.read <= reads /\ c.id <= sent
    /\ \A i \in DOMAIN batch : /\ batch[i].id <= sent
                               /\ \A c \in processed : c.id < batch[i].id
    /\ \A i \in DOMAIN network : /\ network[i].id <= sent
                                 /\ \A c \in processed : c.id < network[i].id
    /\ \A i, j \in DOMAIN batch : i < j => batch[i].id < batch[j].id
    /\ \A i, j \in DOMAIN network : i < j => network[i].id < network[j].id
    /\ \A i \in DOMAIN batch, j \in DOMAIN network : batch[i].id < network[j].id

TakeOne ==
    /\ batch # <<>>
    /\ Done
    /\ batch' = Tail(batch) \/ batch' = <<>>
    /\ UNCHANGED <<network, sent, reads>>

LEMMA CommandsHaveNumbers ==
    ASSUME InputType
    PROVE  /\ \A i \in DOMAIN batch : batch[i].id \in Nat
           /\ \A i \in DOMAIN network : network[i].id \in Nat
           /\ \A i \in DOMAIN ops : ops[i].id \in Nat
           /\ \A i \in DOMAIN queued : queued[i].id \in Nat
<1>1. ASSUME NEW s \in Seq(Commands), NEW i \in DOMAIN s PROVE s[i].id \in Nat
  <2>1. i \in 1 .. Len(s)
    BY LenProperties
  <2>2. s[i] \in Commands
    BY <2>1, ElementOfSeq
  <2>. QED BY <2>2 DEF Commands
<1>. QED BY <1>1 DEF InputType

(* A command that is taken is in the batch and not yet among those          *)
(* processed.                                                               *)
LEMMA CommandIsNew ==
    ASSUME InputType, OrderInv, batch # <<>>
    PROVE  /\ \A c \in processed : c.id < Command.id /\ c.id # Command.id /\ c.read <= reads
           /\ Command.id <= sent
           /\ Record.id = Command.id /\ Record.kind = Command.kind /\ Record.read = reads
<1>1. Command = batch[1] /\ 1 \in DOMAIN batch /\ Command.id \in Nat
  BY Taken
<1>2. \A c \in processed : c.id \in Nat
  BY DEF InputType
<1>. QED BY <1>1, <1>2 DEF OrderInv, Record

LEMMA OrderStep ==
    ASSUME TypeOK, StageInv, OrderInv, [Next]_vars
    PROVE  OrderInv'
<1>i. /\ InputType /\ sent \in Nat /\ reads \in Nat
      /\ \A c \in processed : c.id \in Nat /\ c.read \in Nat
  BY DEF TypeOK, InputType
<1>t. /\ \A i \in DOMAIN batch : batch[i].id \in Nat
      /\ \A i \in DOMAIN network : network[i].id \in Nat
  BY <1>i, CommandsHaveNumbers
<1>1. CASE TakeOne
  <2>1. /\ Command = batch[1] /\ 1 \in DOMAIN batch /\ Command.id \in Nat
        /\ \A i \in DOMAIN Tail(batch) : i + 1 \in DOMAIN batch
                                         /\ Tail(batch)[i] = batch[i + 1]
        /\ DOMAIN batch \subseteq Nat /\ DOMAIN Tail(batch) \subseteq Nat \ {0}
    <3>1. DOMAIN batch \subseteq Nat /\ DOMAIN Tail(batch) \subseteq Nat \ {0}
      BY <1>1, <1>i, LenProperties, Taken DEF TakeOne, InputType
    <3>. QED BY <1>1, <1>i, <3>1, Taken DEF TakeOne
  <2>2. /\ processed' = processed \cup {Record}
        /\ Record.id = Command.id /\ Record.read = reads
        /\ \A c \in processed : c.id < Command.id
        /\ Command.id <= sent
    BY <1>1, <1>i, DoneType, CommandIsNew DEF TakeOne
  <2>3. UNCHANGED <<network, sent, reads>>
    BY <1>1 DEF TakeOne
  <2>4. \A c, d \in processed' : c.id = d.id => c = d
    BY <1>i, <2>1, <2>2 DEF OrderInv
  <2>5. \A c, d \in processed' : c.id < d.id => c.read <= d.read
    BY <1>i, <2>1, <2>2 DEF OrderInv
  <2>6. \A c \in processed' : c.read <= reads' /\ c.id <= sent'
    BY <1>i, <2>2, <2>3 DEF OrderInv
  <2>7. \A i \in DOMAIN batch' : \E k \in DOMAIN batch :
            /\ k = i + 1 /\ k # 1 /\ batch'[i] = batch[k]
            /\ batch[1].id < batch[k].id
    <3>1. \A i \in DOMAIN batch' : /\ i \in DOMAIN Tail(batch) /\ i + 1 \in DOMAIN batch
                                   /\ batch'[i] = batch[i + 1]
      BY <1>1, <2>1 DEF TakeOne
    <3>2. \A i \in DOMAIN Tail(batch) : 1 < i + 1 /\ i + 1 # 1
      BY <2>1
    <3>. QED BY <2>1, <3>1, <3>2 DEF OrderInv
  <2>8. \A i \in DOMAIN batch' : /\ batch'[i].id <= sent'
                                 /\ \A c \in processed' : c.id < batch'[i].id
    <3>. SUFFICES ASSUME NEW i \in DOMAIN batch'
                  PROVE  batch'[i].id <= sent' /\ \A c \in processed' : c.id < batch'[i].id
      OBVIOUS
    <3>1. PICK k \in DOMAIN batch : batch'[i] = batch[k] /\ batch[1].id < batch[k].id
      BY <2>7
    <3>. QED BY <2>1, <2>2, <2>3, <3>1 DEF OrderInv
  <2>9. \A i, j \in DOMAIN batch' : i < j => batch'[i].id < batch'[j].id
    <3>. SUFFICES ASSUME NEW i \in DOMAIN batch', NEW j \in DOMAIN batch', i < j
                  PROVE  batch'[i].id < batch'[j].id
      OBVIOUS
    <3>1. PICK k \in DOMAIN batch : k = i + 1 /\ batch'[i] = batch[k]
      BY <2>7
    <3>2. PICK l \in DOMAIN batch : l = j + 1 /\ batch'[j] = batch[l]
      BY <2>7
    <3>3. k < l
      <4>1. DOMAIN batch' \subseteq Nat
        BY <1>1, <2>1 DEF TakeOne
      <4>. QED BY <3>1, <3>2, <4>1
    <3>. QED BY <3>1, <3>2, <3>3 DEF OrderInv
  <2>10. \A i \in DOMAIN batch', j \in DOMAIN network' : batch'[i].id < network'[j].id
    BY <2>3, <2>7 DEF OrderInv
  <2>11. \A i \in DOMAIN network' : /\ network'[i].id <= sent'
                                    /\ \A c \in processed' : c.id < network'[i].id
    BY <2>1, <2>2, <2>3 DEF OrderInv
  <2>12. \A i, j \in DOMAIN network' : i < j => network'[i].id < network'[j].id
    BY <2>3 DEF OrderInv
  <2>. QED BY <2>4, <2>5, <2>6, <2>8, <2>9, <2>10, <2>11, <2>12 DEF OrderInv
<1>2. ASSUME NEW r \in Requests, Send(r) PROVE OrderInv'
  <2>. DEFINE e == [id |-> sent + 1, kind |-> r.kind, channel |-> r.channel]
  <2>1. e \in Commands /\ e.id = sent + 1
    BY <1>i, RequestsAssumption DEF Commands
  <2>2. /\ network' = Append(network, e) /\ sent' = sent + 1
        /\ UNCHANGED <<batch, processed, reads>>
    BY <1>2 DEF Send, read, history
  <2>. HIDE DEF e
  <2>3. /\ DOMAIN network' = DOMAIN network \cup {Len(network) + 1}
        /\ network'[Len(network) + 1] = e
        /\ \A i \in DOMAIN network : network'[i] = network[i] /\ i < Len(network) + 1
    BY <2>1, <2>2, <1>i, Appended DEF InputType
  <2>4. DOMAIN network \subseteq Nat /\ Len(network) + 1 \in Nat
    BY <1>i, LenProperties DEF InputType
  <2>5. \A i \in DOMAIN network' : /\ network'[i].id <= sent'
                                   /\ \A c \in processed' : c.id < network'[i].id
    BY <1>i, <1>t, <2>1, <2>2, <2>3 DEF OrderInv
  <2>6. \A i, j \in DOMAIN network' : i < j => network'[i].id < network'[j].id
    <3>1. \A i \in DOMAIN network : network[i].id < e.id
      BY <1>i, <1>t, <2>1 DEF OrderInv
    <3>2. \A i \in DOMAIN network' : i <= Len(network) + 1
      BY <2>3, <2>4
    <3>3. ASSUME NEW i \in DOMAIN network', NEW j \in DOMAIN network', i < j
          PROVE  network'[i].id < network'[j].id
      <4>1. i # Len(network) + 1 /\ i \in DOMAIN network
        BY <2>3, <2>4, <3>2, <3>3
      <4>2. CASE j \in DOMAIN network
        BY <2>3, <3>3, <4>1, <4>2 DEF OrderInv
      <4>3. CASE j = Len(network) + 1
        BY <2>3, <3>1, <4>1, <4>3
      <4>. QED BY <2>3, <4>2, <4>3
    <3>. QED BY <3>3
  <2>7. \A i \in DOMAIN batch', j \in DOMAIN network' : batch'[i].id < network'[j].id
    BY <1>i, <1>t, <2>1, <2>2, <2>3 DEF OrderInv
  <2>8. \A i \in DOMAIN batch' : /\ batch'[i].id <= sent'
                                 /\ \A c \in processed' : c.id < batch'[i].id
    BY <1>i, <1>t, <2>2 DEF OrderInv
  <2>9. \A c \in processed' : c.read <= reads' /\ c.id <= sent'
    BY <1>i, <2>2 DEF OrderInv
  <2>. QED BY <2>2, <2>5, <2>6, <2>7, <2>8, <2>9 DEF OrderInv
<1>3. ASSUME NEW n \in 1 .. MaxSent, Read(n) PROVE OrderInv'
  <2>1. /\ network' = SubSeq(network, n + 1, Len(network))
        /\ batch' = SubSeq(network, 1, n)
        /\ reads' = reads + 1
        /\ UNCHANGED <<sent, processed>>
    BY <1>3 DEF Read, history
  <2>2. network \in Seq(Commands) /\ Len(network) \in Nat /\ n \in 0 .. Len(network)
        /\ DOMAIN network = 1 .. Len(network)
    BY <1>3, <1>i, LenProperties DEF InputType, Read
  <2>3. /\ DOMAIN network' = 1 .. Len(network) - n
        /\ \A i \in DOMAIN network' : n + i \in DOMAIN network /\ network'[i] = network[n + i]
    <3>1. /\ network' \in Seq(Commands) /\ Len(network') = Len(network) - n
          /\ \A i \in 1 .. Len(network) - n : network'[i] = network[n + i]
      BY <2>1, <2>2, Rest
    <3>2. DOMAIN network' = 1 .. Len(network) - n
      BY <3>1, LenProperties
    <3>. QED BY <2>2, <3>1, <3>2
  <2>4. /\ DOMAIN batch' = 1 .. n
        /\ \A i \in DOMAIN batch' : i \in DOMAIN network /\ batch'[i] = network[i]
    <3>1. \A i \in 1 .. n : network[i] \in Commands
      BY <2>2, ElementOfSeq
    <3>2. 1 \in Int /\ n \in Int
      BY <2>2
    <3>3. /\ batch' \in Seq(Commands)
          /\ Len(batch') = IF 1 <= n THEN n - 1 + 1 ELSE 0
          /\ \A i \in 1 .. n - 1 + 1 : batch'[i] = network[1 + i - 1]
      BY <2>1, <3>1, <3>2, SubSeqProperties
    <3>4. DOMAIN batch' = 1 .. n /\ \A i \in 1 .. n : batch'[i] = network[i]
      BY <2>2, <3>3, LenProperties
    <3>. QED BY <2>2, <3>4
  <2>5. \A i \in DOMAIN network' : /\ network'[i].id <= sent'
                                   /\ \A c \in processed' : c.id < network'[i].id
    BY <2>1, <2>3 DEF OrderInv
  <2>6. \A i \in DOMAIN batch' : /\ batch'[i].id <= sent'
                                 /\ \A c \in processed' : c.id < batch'[i].id
    BY <2>1, <2>4 DEF OrderInv
  <2>7. \A i, j \in DOMAIN network' : i < j => network'[i].id < network'[j].id
    <3>1. \A i, j \in DOMAIN network' : i < j => n + i < n + j
      BY <2>2, <2>3
    <3>. QED BY <2>3, <3>1 DEF OrderInv
  <2>8. \A i, j \in DOMAIN batch' : i < j => batch'[i].id < batch'[j].id
    BY <2>4 DEF OrderInv
  <2>9. \A i \in DOMAIN batch', j \in DOMAIN network' : batch'[i].id < network'[j].id
    <3>1. \A i \in DOMAIN batch', j \in DOMAIN network' : i < n + j
      BY <2>2, <2>3, <2>4
    <3>. QED BY <2>3, <2>4, <3>1 DEF OrderInv
  <2>10. \A c \in processed' : c.read <= reads' /\ c.id <= sent'
    BY <1>i, <2>1 DEF OrderInv
  <2>. QED BY <2>1, <2>5, <2>6, <2>7, <2>8, <2>9, <2>10 DEF OrderInv
<1>4. CASE UNCHANGED <<processed, batch, network, sent, reads>>
  BY <1>4 DEF OrderInv
<1>5. ASSUME ProcessCommand
      PROVE  TakeOne \/ UNCHANGED <<processed, batch, network, sent, reads>>
  <2>1. CASE Replied \/ Postponed \/ FailToParse
    BY <2>1 DEF Replied, Postponed, Postpone, FailToParse, TakeOne, GoOn, Apart, client,
                Processing
  <2>2. CASE BeginExec \/ DrainQueued
    BY <2>2 DEF BeginExec, DrainQueued, Apart, client, history
  <2>. QED BY <1>5, <2>1, <2>2, ProcessSteps
<1>6. ASSUME \/ Confirm \/ Query \/ EndRead \/ Receive \/ HangUp \/ Poll \/ ReadNothing
             \/ Flush \/ EndEvent \/ Respond \/ Push \/ UNCHANGED vars
      PROVE  UNCHANGED <<processed, batch, network, sent, reads>>
  BY <1>6 DEF Confirm, Query, Handling, EndRead, Receive, HangUp, Poll, ReadNothing, Flush,
              EndEvent, Respond, Push, vars, client, read, history
<1>. QED BY <1>1, <1>2, <1>3, <1>4, <1>5, <1>6 DEF Next, Serve

----------------------------------------------------------------------------
(* What was executed, and what is queued behind it. *)

ExecInv ==
    /\ \A i \in DOMAIN executed : \E c \in processed : c.id = executed[i]
    /\ \A i \in DOMAIN queued : \E c \in processed : c.id = queued[i].id
    /\ ExecutedInOrder
    /\ \A i, j \in DOMAIN queued : i < j => queued[i].id < queued[j].id
    /\ \A i \in DOMAIN executed, j \in DOMAIN queued : executed[i] < queued[j].id
    /\ txState = "none" => queued = <<>>

LEMMA ExecStep ==
    ASSUME TypeOK, StageInv, OrderInv, ExecInv, [Next]_vars
    PROVE  ExecInv'
<1>i. /\ InputType
      /\ queued \in Seq(Commands) /\ executed \in Seq(Nat)
      /\ \A i \in DOMAIN queued : queued[i].id \in Nat
      /\ DOMAIN queued \subseteq Nat /\ DOMAIN executed \subseteq Nat
      /\ Len(queued) \in Nat /\ Len(executed) \in Nat
      /\ \A i \in DOMAIN queued : i < Len(queued) + 1
      /\ \A i \in DOMAIN executed : i < Len(executed) + 1
      /\ \A i \in DOMAIN executed : executed[i] \in Nat
  <2>1. queued \in Seq(Commands) /\ executed \in Seq(Nat) /\ InputType
    BY DEF TypeOK, InputType
  <2>. QED BY <2>1, LenProperties, ElementOfSeq, CommandsHaveNumbers
<1>d. ASSUME Done, batch # <<>>
      PROVE  /\ processed \subseteq processed'
             /\ Command \in Commands /\ Command.id \in Nat
             /\ \E c \in processed' : c.id = Command.id
             /\ \A i \in DOMAIN executed : executed[i] < Command.id
             /\ \A i \in DOMAIN queued : queued[i].id < Command.id
  <2>1. /\ processed' = processed \cup {Record} /\ Record.id = Command.id
        /\ \A c \in processed : c.id < Command.id
        /\ Command \in Commands /\ Command.id \in Nat
    BY <1>d, <1>i, DoneType, CommandIsNew, Taken
  <2>. QED BY <2>1 DEF ExecInv
<1>1. ASSUME Run, Done, batch # <<>>, txState = "none", UNCHANGED <<txState, queued>>
      PROVE  ExecInv'
  <2>1. queued' = <<>> /\ executed' = Append(executed, Command.id)
    BY <1>1 DEF ExecInv, Run
  <2>2. /\ DOMAIN executed' = DOMAIN executed \cup {Len(executed) + 1}
        /\ executed'[Len(executed) + 1] = Command.id
        /\ \A i \in DOMAIN executed : executed'[i] = executed[i]
    BY <2>1, <1>i, <1>d, <1>1, Appended
  <2>3. \A i \in DOMAIN executed' : \E c \in processed' : c.id = executed'[i]
    BY <2>2, <1>d, <1>1 DEF ExecInv
  <2>4. ASSUME NEW i \in DOMAIN executed', NEW j \in DOMAIN executed', i < j
        PROVE  executed'[i] < executed'[j]
    <3>1. i # Len(executed) + 1 /\ i \in DOMAIN executed
      BY <2>2, <2>4, <1>i
    <3>2. CASE j \in DOMAIN executed
      BY <2>2, <2>4, <3>1, <3>2 DEF ExecInv, ExecutedInOrder
    <3>3. CASE j = Len(executed) + 1
      BY <2>2, <3>1, <3>3, <1>d, <1>1
    <3>. QED BY <2>2, <3>2, <3>3
  <2>5. DOMAIN queued' = {}
    BY <2>1
  <2>. QED BY <2>1, <2>3, <2>4, <2>5 DEF ExecInv, ExecutedInOrder
<1>2. ASSUME Done, batch # <<>>, queued' = Append(queued, Command),
             txState = "queuing", UNCHANGED <<txState, executed>>
      PROVE  ExecInv'
  <2>2. /\ DOMAIN queued' = DOMAIN queued \cup {Len(queued) + 1}
        /\ queued'[Len(queued) + 1] = Command
        /\ \A i \in DOMAIN queued : queued'[i] = queued[i]
    BY <1>2, <1>i, <1>d, Appended
  <2>3. \A i \in DOMAIN queued' : \E c \in processed' : c.id = queued'[i].id
    BY <2>2, <1>d, <1>2 DEF ExecInv
  <2>4. ASSUME NEW i \in DOMAIN queued', NEW j \in DOMAIN queued', i < j
        PROVE  queued'[i].id < queued'[j].id
    <3>1. i # Len(queued) + 1 /\ i \in DOMAIN queued
      BY <2>2, <2>4, <1>i
    <3>2. CASE j \in DOMAIN queued
      BY <2>2, <2>4, <3>1, <3>2 DEF ExecInv
    <3>3. CASE j = Len(queued) + 1
      BY <2>2, <3>1, <3>3, <1>d, <1>2
    <3>. QED BY <2>2, <3>2, <3>3
  <2>5. \A i \in DOMAIN executed', j \in DOMAIN queued' : executed'[i] < queued'[j].id
    BY <2>2, <1>d, <1>2 DEF ExecInv
  <2>6. \A i \in DOMAIN executed' : \E c \in processed' : c.id = executed'[i]
    BY <1>d, <1>2 DEF ExecInv
  <2>7. ExecutedInOrder' /\ txState' # "none"
    BY <1>2 DEF ExecInv, ExecutedInOrder
  <2>. QED BY <2>3, <2>4, <2>5, <2>6, <2>7 DEF ExecInv
<1>3. ASSUME processed \subseteq processed', UNCHANGED executed,
             UNCHANGED queued \/ queued' = <<>>,
             txState' = "none" => queued' = <<>>
      PROVE  ExecInv'
  <2>1. CASE UNCHANGED queued
    <3>1. /\ \A i \in DOMAIN executed' : \E c \in processed' : c.id = executed'[i]
          /\ \A i \in DOMAIN queued' : \E c \in processed' : c.id = queued'[i].id
      BY <1>3, <2>1 DEF ExecInv
    <3>. QED BY <1>3, <2>1, <3>1 DEF ExecInv, ExecutedInOrder
  <2>2. CASE queued' = <<>>
    <3>1. DOMAIN queued' = {}
      BY <2>2
    <3>2. \A i \in DOMAIN executed' : \E c \in processed' : c.id = executed'[i]
      BY <1>3 DEF ExecInv
    <3>. QED BY <1>3, <2>2, <3>1, <3>2 DEF ExecInv, ExecutedInOrder
  <2>. QED BY <1>3, <2>1, <2>2
<1>4. ASSUME DrainQueued PROVE ExecInv'
  <2>1. /\ queued # <<>> /\ queued' = Tail(queued) /\ UNCHANGED <<processed, txState>>
        /\ executed' = Append(executed, Head(queued).id) \/ UNCHANGED executed
        /\ txState = "queuing"
    BY <1>4 DEF DrainQueued, StageInv
  <2>2. /\ 1 \in DOMAIN queued /\ Head(queued) = queued[1] /\ Head(queued) \in Commands
        /\ \A i \in DOMAIN queued' : /\ i + 1 \in DOMAIN queued
                                     /\ queued'[i] = queued[i + 1]
        /\ queued' \in Seq(Commands)
    BY <2>1, <1>i, Shifted
  <2>3. DOMAIN queued' \subseteq Nat \ {0}
    BY <2>2, LenProperties
  <2>4. \A i \in DOMAIN queued' : queued[1].id < queued'[i].id
    <3>1. \A i \in DOMAIN queued' : 1 < i + 1
      BY <2>3
    <3>. QED BY <2>2, <3>1 DEF ExecInv
  <2>5. \A i, j \in DOMAIN queued' : i < j => queued'[i].id < queued'[j].id
    <3>1. \A i, j \in DOMAIN queued' : i < j => i + 1 < j + 1
      BY <2>3
    <3>. QED BY <2>2, <3>1 DEF ExecInv
  <2>6. \A i \in DOMAIN queued' : \E c \in processed' : c.id = queued'[i].id
    BY <2>1, <2>2 DEF ExecInv
  <2>7. CASE UNCHANGED executed
    <3>1. \A i \in DOMAIN executed', j \in DOMAIN queued' : executed'[i] < queued'[j].id
      BY <2>2, <2>7 DEF ExecInv
    <3>. QED BY <2>1, <2>5, <2>6, <2>7, <3>1 DEF ExecInv, ExecutedInOrder
  <2>8. CASE executed' = Append(executed, Head(queued).id)
    <3>1. /\ DOMAIN executed' = DOMAIN executed \cup {Len(executed) + 1}
          /\ executed'[Len(executed) + 1] = queued[1].id
          /\ \A i \in DOMAIN executed : executed'[i] = executed[i]
      BY <2>2, <2>8, <1>i, Appended
    <3>2. \A i \in DOMAIN executed', j \in DOMAIN queued' : executed'[i] < queued'[j].id
      BY <2>2, <2>4, <3>1 DEF ExecInv
    <3>3. \A i \in DOMAIN executed' : \E c \in processed' : c.id = executed'[i]
      BY <2>1, <2>2, <3>1 DEF ExecInv
    <3>4. ASSUME NEW i \in DOMAIN executed', NEW j \in DOMAIN executed', i < j
          PROVE  executed'[i] < executed'[j]
      <4>1. i # Len(executed) + 1 /\ i \in DOMAIN executed
        BY <3>1, <3>4, <1>i
      <4>2. CASE j \in DOMAIN executed
        BY <3>1, <3>4, <4>1, <4>2 DEF ExecInv, ExecutedInOrder
      <4>3. CASE j = Len(executed) + 1
        BY <2>2, <3>1, <4>1, <4>3 DEF ExecInv
      <4>. QED BY <3>1, <4>2, <4>3
    <3>. QED BY <2>1, <2>5, <2>6, <3>2, <3>3, <3>4 DEF ExecInv, ExecutedInOrder
  <2>. QED BY <2>1, <2>7, <2>8
<1>5. ASSUME ProcessCommand PROVE ExecInv'
  <2>. USE DEF Processing, Admitted, Fast, GoOn
  <2>1. CASE RunFast \/ RunData
    BY <2>1, <1>1 DEF RunFast, RunData
  <2>2. CASE Queue
    <3>1. batch # <<>>
      BY <2>2 DEF Queue
    <3>. QED BY <2>2, <3>1, <1>2 DEF Queue
  <2>3. CASE DrainQueued
    BY <2>3, <1>4
  <2>4. CASE FailToParse \/ Quit \/ Refuse \/ Multi \/ NoMulti \/ Discard \/ Postpone
             \/ BeginExec \/ EndExec
    <3>1. processed \subseteq processed'
      BY <2>4 DEF FailToParse, Quit, Refuse, Multi, NoMulti, Discard, Postpone, BeginExec,
                  EndExec, Done, history
    <3>2. UNCHANGED executed
      BY <2>4 DEF FailToParse, Quit, Refuse, Multi, NoMulti, Discard, Postpone, BeginExec,
                  EndExec, history
    <3>3. UNCHANGED queued \/ queued' = <<>>
      BY <2>4 DEF FailToParse, Quit, Refuse, Multi, NoMulti, Discard, Postpone, BeginExec,
                  EndExec
    <3>4. txState' = "none" => queued' = <<>>
      BY <2>4 DEF FailToParse, Quit, Refuse, Multi, NoMulti, Discard, Postpone, BeginExec,
                  EndExec, ExecInv
    <3>. QED BY <3>1, <3>2, <3>3, <3>4, <1>3
  <2>. QED BY <1>5, <2>1, <2>2, <2>3, <2>4 DEF ProcessCommand
<1>6. ASSUME \/ Confirm \/ Query \/ EndRead \/ Receive \/ HangUp \/ Poll \/ ReadNothing
             \/ Flush \/ EndEvent \/ Respond \/ Push \/ UNCHANGED vars
             \/ (\E r \in Requests : Send(r)) \/ (\E n \in 1 .. MaxSent : Read(n))
      PROVE  ExecInv'
  <2>1. UNCHANGED <<processed, executed, queued, txState>>
    BY <1>6 DEF Confirm, Query, Handling, EndRead, Receive, HangUp, Poll, ReadNothing, Flush,
                EndEvent, Respond, Push, Send, Read, vars, session, history
  <2>. QED BY <2>1 DEF ExecInv, ExecutedInOrder
<1>. QED BY <1>5, <1>6 DEF Next, Serve

----------------------------------------------------------------------------
(* Every command has its reply, in exactly one place. *)

OfAll(id) == \E c \in processed : c.id = id /\ c.kind = "unsubscribeAll"

(* Replies, messages that wait for the end of the read, and operations that *)
(* wait for the commands to be processed: each is for a command.            *)
ForCommands ==
    /\ \A i \in DOMAIN produced : produced[i].id # 0 =>
           \E c \in processed : c.id = produced[i].id /\ c.kind # "broken"
    /\ \A i \in DOMAIN messages :
           /\ messages[i].turn = "message"
           /\ \E c \in processed :
                  c.id = messages[i].id /\ c.kind \in PubSubKinds /\ c.read = reads
    /\ \A i \in DOMAIN ops :
           \E c \in processed : /\ c.id = ops[i].id /\ c.kind = ops[i].kind
                                /\ c.kind \in PubSubKinds /\ c.read = reads

(* They are in order, the messages before the operations. *)
InTurn ==
    /\ \A i, j \in DOMAIN ops : i < j => ops[i].id < ops[j].id
    /\ \A i, j \in DOMAIN messages : i < j => messages[i].id <= messages[j].id
    /\ \A i \in DOMAIN messages, j \in DOMAIN ops : messages[i].id < ops[j].id

(* No command has two of them, but for UNSUBSCRIBE of everything. *)
OnceInv ==
    /\ \A i, j \in DOMAIN produced :
           produced[i].id = produced[j].id => i = j \/ produced[i].id = 0 \/ OfAll(produced[i].id)
    /\ \A i, j \in DOMAIN messages :
           messages[i].id = messages[j].id => i = j \/ OfAll(messages[i].id)
    /\ \A i \in DOMAIN produced, j \in DOMAIN messages : produced[i].id # messages[j].id
    /\ \A i \in DOMAIN produced, j \in DOMAIN ops : produced[i].id # ops[j].id

Owed(id) ==
    \/ \E i \in DOMAIN produced : produced[i].id = id
    \/ \E i \in DOMAIN messages : messages[i].id = id
    \/ \E i \in DOMAIN ops : ops[i].id = id

(* Every command has one. *)
OwedInv ==
    \A c \in processed :
        \/ c.kind \in {"broken", "unsubscribeAll"}
        \/ Owed(c.id)
        \/ c.kind \in PubSubKinds /\ EndedInError(c.read)

(* No message of this read is written before its end, and the handler       *)
(* answers in the order of the operations.                                  *)
TurnInv ==
    /\ DisorderOnlyWithinRead
    /\ Reading => \A i \in DOMAIN produced, c \in processed :
           produced[i].id = c.id /\ c.read = reads => produced[i].turn \in {"read", "handler"}
    /\ \A i \in DOMAIN produced, j \in DOMAIN ops :
           produced[i].turn = "handler" => produced[i].id < ops[j].id

AnswerInv == ForCommands /\ InTurn /\ OnceInv /\ OwedInv /\ TurnInv

(* The numbers in all these places. *)
LEMMA Numbers ==
    ASSUME TypeOK
    PROVE  /\ \A c \in processed : c.id \in Nat \ {0} /\ c.read \in Nat
           /\ \A i \in DOMAIN produced : produced[i].id \in Nat
           /\ \A i \in DOMAIN messages : messages[i].id \in Nat
           /\ \A i \in DOMAIN ops : ops[i].id \in Nat
           /\ reads \in Nat
           /\ DOMAIN produced \subseteq Nat /\ DOMAIN messages \subseteq Nat
           /\ DOMAIN ops \subseteq Nat
           /\ Len(produced) \in Nat /\ Len(messages) \in Nat /\ Len(ops) \in Nat
           /\ \A i \in DOMAIN produced : i < Len(produced) + 1
           /\ \A i \in DOMAIN ops : i < Len(ops) + 1
           /\ \A i \in DOMAIN messages : i < Len(messages) + 1
<1>1. ASSUME NEW s \in Seq(Replies), NEW i \in DOMAIN s PROVE s[i].id \in Nat
  <2>1. i \in 1 .. Len(s)
    BY LenProperties
  <2>2. s[i] \in Replies
    BY <2>1, ElementOfSeq
  <2>. QED BY <2>2 DEF Replies
<1>2. /\ \A i \in DOMAIN produced : produced[i].id \in Nat
      /\ \A i \in DOMAIN messages : messages[i].id \in Nat
      /\ \A i \in DOMAIN ops : ops[i].id \in Nat
  BY <1>1, CommandsHaveNumbers DEF TypeOK, OutputType
<1>3. \A c \in processed : c.id \in Nat \ {0} /\ c.read \in Nat
  BY DEF TypeOK, InputType
<1>4. /\ produced \in Seq(Replies) /\ messages \in Seq(Replies) /\ ops \in Seq(Commands)
      /\ reads \in Nat
  BY DEF TypeOK, InputType, OutputType
<1>5. /\ Len(produced) \in Nat /\ Len(messages) \in Nat /\ Len(ops) \in Nat
      /\ DOMAIN produced = 1 .. Len(produced) /\ DOMAIN messages = 1 .. Len(messages)
      /\ DOMAIN ops = 1 .. Len(ops)
  BY <1>4, LenProperties
<1>. QED BY <1>2, <1>3, <1>4, <1>5

(* A command that is taken has no reply yet. *)
LEMMA CommandHasNone ==
    ASSUME TypeOK, OrderInv, ForCommands, batch # <<>>, Done
    PROVE  /\ processed' = processed \cup {Record}
           /\ Record.id = Command.id /\ Record.kind = Command.kind /\ Record.read = reads
           /\ Command.id \in Nat \ {0} /\ Command \in Commands
           /\ \A c \in processed : c.id < Command.id /\ c.id # Command.id
           /\ \A i \in DOMAIN produced : /\ produced[i].id < Command.id
                                         /\ produced[i].id # Command.id
           /\ \A i \in DOMAIN ops : ops[i].id < Command.id /\ ops[i].id # Command.id
<1>1. /\ processed' = processed \cup {Record}
      /\ Record.id = Command.id /\ Record.kind = Command.kind /\ Record.read = reads
      /\ Command.id \in Nat \ {0} /\ Command \in Commands
      /\ \A c \in processed : c.id < Command.id /\ c.id # Command.id
  BY DoneType, CommandIsNew, Taken DEF TypeOK
<1>2. \A i \in DOMAIN ops : ops[i].id < Command.id /\ ops[i].id # Command.id
  BY <1>1 DEF ForCommands
<1>3. ASSUME NEW i \in DOMAIN produced
      PROVE  produced[i].id < Command.id /\ produced[i].id # Command.id
  <2>1. CASE produced[i].id = 0
    BY <1>1, <2>1
  <2>2. CASE produced[i].id # 0
    BY <1>1, <2>2 DEF ForCommands
  <2>. QED BY <2>1, <2>2
<1>. QED BY <1>1, <1>2, <1>3

LEMMA RepliedStep ==
    ASSUME TypeOK, StageInv, OrderInv, AnswerInv, Replied
    PROVE  AnswerInv'
<1>. DEFINE r == Reply("read", Command.id)
<1>1. /\ batch # <<>> /\ Done /\ Command.kind # "broken"
      /\ produced' = produced \o <<r>> /\ messages = <<>>
      /\ UNCHANGED <<ops, messages, reads>> /\ Reading
  BY DEF Replied, Answer, Put, StageInv
<1>2. /\ processed' = processed \cup {Record}
      /\ Record.id = Command.id /\ Record.kind = Command.kind /\ Record.read = reads
      /\ Command.id \in Nat \ {0} /\ Command \in Commands
      /\ \A c \in processed : c.id < Command.id /\ c.id # Command.id
      /\ \A i \in DOMAIN produced : produced[i].id < Command.id /\ produced[i].id # Command.id
      /\ \A i \in DOMAIN ops : ops[i].id < Command.id /\ ops[i].id # Command.id
  BY <1>1, CommandHasNone DEF AnswerInv
<1>3. r \in Replies /\ r.id = Command.id /\ r.turn = "read"
  BY <1>2 DEF Reply, Replies, Turns
<1>. HIDE DEF r
<1>4. produced \in Seq(Replies)
  BY DEF TypeOK, OutputType
<1>5. /\ DOMAIN produced' = DOMAIN produced \cup {Len(produced) + 1}
      /\ produced'[Len(produced) + 1] = r
      /\ \A i \in DOMAIN produced : produced'[i] = produced[i] /\ i < Len(produced) + 1
      /\ Len(produced) + 1 \notin DOMAIN produced
  BY <1>1, <1>3, <1>4, AppendIsConcat, Appended
<1>6. DOMAIN messages' = {}
  BY <1>1
<1>7. ForCommands'
  BY <1>1, <1>2, <1>3, <1>5, <1>6 DEF AnswerInv, ForCommands
<1>8. InTurn'
  BY <1>1, <1>6 DEF AnswerInv, InTurn
<1>9. OnceInv'
  BY <1>1, <1>2, <1>3, <1>5, <1>6 DEF AnswerInv, OnceInv, OfAll
<1>10. OwedInv'
  BY <1>1, <1>2, <1>3, <1>5, <1>6 DEF AnswerInv, OwedInv, Owed, EndedInError
<1>11. DisorderOnlyWithinRead'
  <2>. SUFFICES ASSUME NEW i \in DOMAIN produced', NEW j \in DOMAIN produced',
                       NEW c \in processed', NEW d \in processed', i < j,
                       produced'[i].id = c.id, produced'[j].id = d.id, c.id > d.id
                PROVE  c.read = d.read /\ TurnOf(produced'[i]) < TurnOf(produced'[j])
    BY DEF DisorderOnlyWithinRead, TurnOf
  <2>1. i # Len(produced) + 1 /\ i \in DOMAIN produced
    <3>1. i \in Nat /\ j \in Nat /\ j <= Len(produced) + 1
      BY <1>5, Numbers
    <3>. QED BY <1>5, <3>1
  <2>2. c \in processed /\ c.id < Command.id /\ c.id \in Nat
    BY <1>2, <1>5, <2>1, Numbers
  <2>3. j \in DOMAIN produced
    BY <1>2, <1>3, <1>5, <2>2
  <2>4. d \in processed
    BY <1>2, <1>5, <2>3
  <2>. QED BY <1>5, <2>1, <2>2, <2>3, <2>4 DEF AnswerInv, TurnInv, DisorderOnlyWithinRead
<1>12. TurnInv'
  BY <1>1, <1>2, <1>3, <1>5, <1>11 DEF AnswerInv, TurnInv
<1>. QED BY <1>7, <1>8, <1>9, <1>10, <1>12 DEF AnswerInv

(* What is to be shown of the order after a step. *)
LEMMA OrderNext ==
    ASSUME \A i, j \in DOMAIN produced' : \A c, d \in processed' :
               i < j /\ produced'[i].id = c.id /\ produced'[j].id = d.id /\ c.id > d.id
                   => c.read = d.read /\ TurnOf(produced'[i]) < TurnOf(produced'[j])
    PROVE  DisorderOnlyWithinRead'
BY DEF DisorderOnlyWithinRead, TurnOf

(* The replies there are stay in order when a command is taken that has     *)
(* none yet.                                                                *)
LEMMA TakenInOrder ==
    ASSUME TypeOK, OrderInv, AnswerInv, batch # <<>>, Done, UNCHANGED produced
    PROVE  DisorderOnlyWithinRead'
<1>1. /\ processed' = processed \cup {Record} /\ Record.id = Command.id
      /\ \A i \in DOMAIN produced : produced[i].id # Command.id
  BY CommandHasNone DEF AnswerInv
<1>. SUFFICES ASSUME NEW i \in DOMAIN produced', NEW j \in DOMAIN produced',
                     NEW c \in processed', NEW d \in processed', i < j,
                     produced'[i].id = c.id, produced'[j].id = d.id, c.id > d.id
              PROVE  c.read = d.read /\ TurnOf(produced'[i]) < TurnOf(produced'[j])
  BY OrderNext
<1>2. c \in processed /\ d \in processed
  BY <1>1
<1>. QED BY <1>2 DEF AnswerInv, TurnInv, DisorderOnlyWithinRead

LEMMA SameOrder ==
    ASSUME DisorderOnlyWithinRead, UNCHANGED produced, processed' \subseteq processed
    PROVE  DisorderOnlyWithinRead'
<1>. SUFFICES ASSUME NEW i \in DOMAIN produced', NEW j \in DOMAIN produced',
                     NEW c \in processed', NEW d \in processed', i < j,
                     produced'[i].id = c.id, produced'[j].id = d.id, c.id > d.id
              PROVE  c.read = d.read /\ TurnOf(produced'[i]) < TurnOf(produced'[j])
  BY OrderNext
<1>. QED BY DEF DisorderOnlyWithinRead

LEMMA PostponedStep ==
    ASSUME TypeOK, StageInv, OrderInv, AnswerInv, Postponed
    PROVE  AnswerInv'
<1>1. /\ batch # <<>> /\ Done /\ Command.kind \in PubSubKinds
      /\ ops' = Append(ops, Command) /\ messages = <<>>
      /\ UNCHANGED <<produced, messages, reads>> /\ Reading
  BY DEF Postponed, Postpone, Apart, StageInv
<1>2. /\ processed' = processed \cup {Record}
      /\ Record.id = Command.id /\ Record.kind = Command.kind /\ Record.read = reads
      /\ Command.id \in Nat \ {0} /\ Command \in Commands
      /\ \A c \in processed : c.id < Command.id /\ c.id # Command.id
      /\ \A i \in DOMAIN produced : produced[i].id < Command.id /\ produced[i].id # Command.id
      /\ \A i \in DOMAIN ops : ops[i].id < Command.id /\ ops[i].id # Command.id
  BY <1>1, CommandHasNone DEF AnswerInv
<1>3. ops \in Seq(Commands)
  BY DEF TypeOK, InputType
<1>4. /\ DOMAIN ops' = DOMAIN ops \cup {Len(ops) + 1}
      /\ ops'[Len(ops) + 1] = Command
      /\ \A i \in DOMAIN ops : ops'[i] = ops[i] /\ i < Len(ops) + 1
      /\ Len(ops) + 1 \notin DOMAIN ops
  BY <1>1, <1>2, <1>3, Appended
<1>5. DOMAIN messages' = {}
  BY <1>1
<1>6. ForCommands'
  BY <1>1, <1>2, <1>4, <1>5 DEF AnswerInv, ForCommands
<1>7. InTurn'
  <2>1. ASSUME NEW i \in DOMAIN ops', NEW j \in DOMAIN ops', i < j
        PROVE  ops'[i].id < ops'[j].id
    <3>1. i # Len(ops) + 1 /\ i \in DOMAIN ops
      <4>1. i \in Nat /\ j \in Nat /\ j <= Len(ops) + 1
        BY <1>4, Numbers
      <4>. QED BY <1>4, <2>1, <4>1
    <3>2. CASE j \in DOMAIN ops
      BY <1>4, <2>1, <3>1, <3>2 DEF AnswerInv, InTurn
    <3>3. CASE j = Len(ops) + 1
      BY <1>2, <1>4, <3>1, <3>3
    <3>. QED BY <1>4, <3>2, <3>3
  <2>. QED BY <1>5, <2>1 DEF InTurn
<1>8. OnceInv'
  BY <1>1, <1>2, <1>4, <1>5 DEF AnswerInv, OnceInv, OfAll
<1>9. OwedInv'
  BY <1>1, <1>2, <1>4, <1>5 DEF AnswerInv, OwedInv, Owed, EndedInError
<1>10. DisorderOnlyWithinRead'
  BY <1>1, TakenInOrder
<1>11. TurnInv'
  BY <1>1, <1>2, <1>4, <1>10 DEF AnswerInv, TurnInv
<1>. QED BY <1>6, <1>7, <1>8, <1>9, <1>11 DEF AnswerInv

LEMMA FailedStep ==
    ASSUME TypeOK, StageInv, OrderInv, AnswerInv, FailToParse
    PROVE  AnswerInv'
<1>1. /\ batch # <<>> /\ Done /\ Command.kind = "broken"
      /\ ops' = <<>> /\ messages = <<>>
      /\ UNCHANGED <<produced, messages, reads>> /\ stage' = "end"
  BY DEF FailToParse, Processing, Apart, StageInv
<1>2. /\ processed' = processed \cup {Record}
      /\ Record.id = Command.id /\ Record.kind = Command.kind /\ Record.read = reads
      /\ Command.id \in Nat \ {0}
      /\ \A c \in processed : c.id < Command.id /\ c.id # Command.id
      /\ \A i \in DOMAIN produced : produced[i].id < Command.id /\ produced[i].id # Command.id
  BY <1>1, CommandHasNone DEF AnswerInv
<1>3. DOMAIN messages' = {} /\ DOMAIN ops' = {} /\ DOMAIN messages = {}
  BY <1>1
<1>4. ForCommands'
  BY <1>1, <1>2, <1>3 DEF AnswerInv, ForCommands
<1>5. InTurn'
  BY <1>3 DEF InTurn
<1>6. OnceInv'
  BY <1>1, <1>2, <1>3 DEF AnswerInv, OnceInv, OfAll
<1>7. OwedInv'
  <2>. SUFFICES ASSUME NEW c \in processed', c.kind \notin {"broken", "unsubscribeAll"}
                PROVE  Owed(c.id)' \/ (c.kind \in PubSubKinds /\ EndedInError(c.read)')
    BY DEF OwedInv, Owed, EndedInError
  <2>1. c \in processed
    BY <1>1, <1>2
  <2>2. EndedInError(reads)' /\ (EndedInError(c.read) => EndedInError(c.read)')
    BY <1>1, <1>2 DEF EndedInError
  <2>3. CASE \E i \in DOMAIN produced : produced[i].id = c.id
    BY <1>1, <2>3 DEF Owed
  <2>4. CASE \E i \in DOMAIN ops : ops[i].id = c.id
    <3>1. \E d \in processed : d.id = c.id /\ d.kind \in PubSubKinds /\ d.read = reads
      BY <2>4 DEF AnswerInv, ForCommands
    <3>2. c.kind \in PubSubKinds /\ c.read = reads
      BY <2>1, <3>1 DEF OrderInv
    <3>. QED BY <1>1, <2>2, <3>2 DEF EndedInError
  <2>5. CASE c.kind \in PubSubKinds /\ EndedInError(c.read)
    BY <2>2, <2>5
  <2>. QED BY <1>3, <2>1, <2>3, <2>4, <2>5 DEF AnswerInv, OwedInv, Owed
<1>8. DisorderOnlyWithinRead'
  BY <1>1, TakenInOrder
<1>9. TurnInv'
  BY <1>1, <1>3, <1>8 DEF TurnInv, Reading
<1>. QED BY <1>4, <1>5, <1>6, <1>7, <1>9 DEF AnswerInv

(* The operation that is handled comes before the others. *)
LEMMA OperationIsFirst ==
    ASSUME TypeOK, OrderInv, AnswerInv, Handling
    PROVE  /\ Operation \in Commands /\ Operation.id \in Nat \ {0}
           /\ 1 \in DOMAIN ops /\ Operation = ops[1]
           /\ \A j \in DOMAIN ops' : /\ j + 1 \in DOMAIN ops /\ ops'[j] = ops[j + 1]
                                     /\ j \in Nat /\ Operation.id < ops'[j].id
           /\ \A i \in DOMAIN ops : \/ ops[i] = Operation
                                    \/ \E j \in DOMAIN ops' : ops'[j] = ops[i]
           /\ \E c \in processed : /\ c.id = Operation.id /\ c.kind = Operation.kind
                                   /\ c.kind \in PubSubKinds /\ c.read = reads
           /\ UNCHANGED <<processed, reads>> /\ stage' = stage /\ stage = "process"
<1>1. ops \in Seq(Commands) /\ ops # <<>> /\ ops' = Tail(ops)
  BY DEF TypeOK, InputType, Handling
<1>2. /\ Operation \in Commands
      /\ 1 \in DOMAIN ops /\ Operation = ops[1] /\ ops' \in Seq(Commands)
      /\ \A j \in DOMAIN ops' : j + 1 \in DOMAIN ops /\ ops'[j] = ops[j + 1]
      /\ \A i \in DOMAIN ops : i = 1 \/ /\ i - 1 \in DOMAIN ops'
                                        /\ ops'[i - 1] = ops[i]
  BY <1>1, Shifted DEF Operation
<1>3. \A j \in DOMAIN ops' : j \in Nat \ {0}
  BY <1>2, LenProperties
<1>4. \A j \in DOMAIN ops' : Operation.id < ops'[j].id
  <2>1. \A j \in DOMAIN ops' : 1 < j + 1
    BY <1>3
  <2>. QED BY <1>2, <2>1 DEF AnswerInv, InTurn
<1>5. \E c \in processed : /\ c.id = Operation.id /\ c.kind = Operation.kind
                           /\ c.kind \in PubSubKinds /\ c.read = reads
  BY <1>2 DEF AnswerInv, ForCommands
<1>6. UNCHANGED <<processed, reads>> /\ stage' = stage /\ stage = "process"
  BY DEF Handling
<1>7. Operation.id \in Nat \ {0}
  BY <1>2 DEF Commands
<1>. QED BY <1>2, <1>3, <1>4, <1>5, <1>6, <1>7

LEMMA QueryStep ==
    ASSUME TypeOK, StageInv, OrderInv, AnswerInv, Query
    PROVE  AnswerInv'
<1>. DEFINE r == Reply("handler", Operation.id)
<1>1. Handling /\ produced' = produced \o <<r>> /\ UNCHANGED messages
  BY DEF Query, Put
<1>2. /\ Operation.id \in Nat \ {0}
      /\ 1 \in DOMAIN ops /\ Operation = ops[1]
      /\ \A j \in DOMAIN ops' : /\ j + 1 \in DOMAIN ops /\ ops'[j] = ops[j + 1]
                                /\ j \in Nat /\ Operation.id < ops'[j].id
      /\ \A i \in DOMAIN ops : \/ ops[i] = Operation
                               \/ \E j \in DOMAIN ops' : ops'[j] = ops[i]
      /\ UNCHANGED <<processed, reads>> /\ stage' = stage /\ stage = "process"
  BY <1>1, OperationIsFirst
<1>c. PICK p \in processed : /\ p.id = Operation.id /\ p.kind = Operation.kind
                             /\ p.kind \in PubSubKinds /\ p.read = reads
  BY <1>1, OperationIsFirst
<1>3. r \in Replies /\ r.id = Operation.id /\ r.turn = "handler"
  BY <1>2 DEF Reply, Replies, Turns
<1>. HIDE DEF r
<1>4. produced \in Seq(Replies)
  BY DEF TypeOK, OutputType
<1>5. /\ DOMAIN produced' = DOMAIN produced \cup {Len(produced) + 1}
      /\ produced'[Len(produced) + 1] = r
      /\ \A i \in DOMAIN produced : produced'[i] = produced[i] /\ i < Len(produced) + 1
      /\ Len(produced) + 1 \notin DOMAIN produced
  BY <1>1, <1>3, <1>4, AppendIsConcat, Appended
<1>6. \A j \in DOMAIN ops' : \E k \in DOMAIN ops : k = j + 1 /\ ops'[j] = ops[k]
  BY <1>2
<1>7. /\ \A i \in DOMAIN produced : produced[i].id # Operation.id
      /\ \A i \in DOMAIN messages : messages[i].id # Operation.id
  BY <1>2, Numbers DEF AnswerInv, OnceInv, InTurn
<1>8. ForCommands'
  <2>1. p.kind # "broken"
    BY <1>c DEF PubSubKinds
  <2>2. \A i \in DOMAIN produced' : produced'[i].id # 0 =>
            \E c \in processed' : c.id = produced'[i].id /\ c.kind # "broken"
    BY <1>2, <1>3, <1>5, <1>c, <2>1 DEF AnswerInv, ForCommands
  <2>. QED BY <1>1, <1>2, <1>6, <2>2 DEF AnswerInv, ForCommands
<1>9. InTurn'
  <2>1. \A i, j \in DOMAIN ops' : i < j => ops'[i].id < ops'[j].id
    <3>1. \A i, j \in DOMAIN ops' : i < j => i + 1 < j + 1
      BY <1>2
    <3>. QED BY <1>2, <3>1 DEF AnswerInv, InTurn
  <2>. QED BY <1>1, <1>2, <1>6, <2>1 DEF AnswerInv, InTurn
<1>10. OnceInv'
  <2>2. \A i, j \in DOMAIN produced' : produced'[i].id = produced'[j].id =>
            i = j \/ produced'[i].id = 0 \/ OfAll(produced'[i].id)
    BY <1>3, <1>5, <1>7 DEF AnswerInv, OnceInv
  <2>3. \A i \in DOMAIN produced', j \in DOMAIN messages' : produced'[i].id # messages'[j].id
    BY <1>1, <1>3, <1>5, <1>7 DEF AnswerInv, OnceInv
  <2>4. \A i \in DOMAIN produced', j \in DOMAIN ops' : produced'[i].id # ops'[j].id
    <3>1. \A j \in DOMAIN ops' : ops'[j].id # Operation.id
      BY <1>2, <1>6, Numbers
    <3>. QED BY <1>3, <1>5, <1>6, <3>1 DEF AnswerInv, OnceInv
  <2>. QED BY <1>1, <1>2, <2>2, <2>3, <2>4 DEF AnswerInv, OnceInv, OfAll
<1>11. OwedInv'
  <2>1. ASSUME NEW id, Owed(id) PROVE Owed(id)'
    <3>1. CASE \E i \in DOMAIN produced : produced[i].id = id
      BY <1>5, <3>1 DEF Owed
    <3>2. CASE \E i \in DOMAIN messages : messages[i].id = id
      BY <1>1, <3>2 DEF Owed
    <3>3. CASE \E i \in DOMAIN ops : ops[i].id = id
      <4>1. id = Operation.id \/ \E j \in DOMAIN ops' : ops'[j].id = id
        BY <1>2, <3>3
      <4>2. CASE id = Operation.id
        BY <1>3, <1>5, <4>2 DEF Owed
      <4>. QED BY <4>1, <4>2 DEF Owed
    <3>. QED BY <2>1, <3>1, <3>2, <3>3 DEF Owed
  <2>. QED BY <1>2, <2>1 DEF AnswerInv, OwedInv, EndedInError
<1>12. DisorderOnlyWithinRead'
  <2>. SUFFICES ASSUME NEW i \in DOMAIN produced', NEW j \in DOMAIN produced',
                       NEW c \in processed', NEW d \in processed', i < j,
                       produced'[i].id = c.id, produced'[j].id = d.id, c.id > d.id
                PROVE  c.read = d.read /\ TurnOf(produced'[i]) < TurnOf(produced'[j])
    BY DEF DisorderOnlyWithinRead, TurnOf
  <2>1. i # Len(produced) + 1 /\ i \in DOMAIN produced /\ produced'[i] = produced[i]
    <3>1. i \in Nat /\ j \in Nat /\ j <= Len(produced) + 1
      BY <1>5, Numbers
    <3>. QED BY <1>5, <3>1
  <2>2. CASE j \in DOMAIN produced
    BY <1>2, <1>5, <2>1, <2>2 DEF AnswerInv, TurnInv, DisorderOnlyWithinRead
  <2>3. CASE j = Len(produced) + 1
    <3>1. d.id = p.id
      BY <1>3, <1>5, <1>c, <2>3
    <3>2. d.read = reads
      BY <1>2, <1>c, <3>1 DEF OrderInv
    <3>3. c.read = reads
      <4>1. d.id < c.id /\ c \in processed /\ d \in processed
        BY <1>2, Numbers
      <4>2. reads <= c.read /\ c.read <= reads
        BY <3>2, <4>1 DEF OrderInv
      <4>. QED BY <4>1, <4>2, Numbers
    <3>4. produced[i].turn \in {"read", "handler"}
      BY <1>2, <2>1, <3>3 DEF AnswerInv, TurnInv, Reading
    <3>5. produced[i].turn # "handler"
      <4>1. ~ (produced[i].id < ops[1].id)
        BY <1>2, <1>c, <2>1, <3>1, Numbers
      <4>. QED BY <1>2, <2>1, <4>1 DEF AnswerInv, TurnInv
    <3>. QED BY <1>3, <1>5, <2>1, <2>3, <3>2, <3>3, <3>4, <3>5 DEF TurnOf
  <2>. QED BY <1>5, <2>2, <2>3
<1>13. TurnInv'
  <2>1. \A i \in DOMAIN produced', c \in processed' :
            produced'[i].id = c.id /\ c.read = reads'
                => produced'[i].turn \in {"read", "handler"}
    BY <1>2, <1>3, <1>5 DEF AnswerInv, TurnInv, Reading
  <2>2. \A i \in DOMAIN produced', j \in DOMAIN ops' :
            produced'[i].turn = "handler" => produced'[i].id < ops'[j].id
    BY <1>2, <1>3, <1>5, <1>6 DEF AnswerInv, TurnInv
  <2>. QED BY <1>12, <2>1, <2>2 DEF TurnInv
<1>. QED BY <1>8, <1>9, <1>10, <1>11, <1>13 DEF AnswerInv

LEMMA ConfirmStep ==
    ASSUME TypeOK, StageInv, OrderInv, AnswerInv, Confirm
    PROVE  AnswerInv'
<1>. DEFINE r == Reply("message", Operation.id)
            n == Confirmations(Operation)
            m == [i \in 1 .. n |-> r]
<1>1. Handling /\ messages' = messages \o m /\ UNCHANGED produced
  BY DEF Confirm
<1>2. /\ Operation.id \in Nat \ {0}
      /\ 1 \in DOMAIN ops /\ Operation = ops[1]
      /\ \A j \in DOMAIN ops' : /\ j + 1 \in DOMAIN ops /\ ops'[j] = ops[j + 1]
                                /\ j \in Nat /\ Operation.id < ops'[j].id
      /\ \A i \in DOMAIN ops : \/ ops[i] = Operation
                               \/ \E j \in DOMAIN ops' : ops'[j] = ops[i]
      /\ UNCHANGED <<processed, reads>> /\ stage' = stage /\ stage = "process"
  BY <1>1, OperationIsFirst
<1>c. PICK p \in processed : /\ p.id = Operation.id /\ p.kind = Operation.kind
                             /\ p.kind \in PubSubKinds /\ p.read = reads
  BY <1>1, OperationIsFirst
<1>3. r \in Replies /\ r.id = Operation.id /\ r.turn = "message"
  BY <1>2 DEF Reply, Replies, Turns
<1>n. n \in Nat /\ (n = 1 \/ OfAll(Operation.id))
  <2>1. n \in Nat
    BY FS_CardinalityType DEF TypeOK, ModeType, Confirmations
  <2>2. n = 1 \/ Operation.kind = "unsubscribeAll"
    BY DEF Confirmations
  <2>. QED BY <2>1, <2>2, <1>c DEF OfAll
<1>. HIDE DEF r, n
<1>4. m \in Seq(Replies) /\ DOMAIN m = 1 .. n /\ \A i \in DOMAIN m : m[i] = r
  BY <1>3, <1>n
<1>. HIDE DEF m
<1>5. messages \in Seq(Replies) /\ DOMAIN messages = 1 .. Len(messages) /\ Len(messages) \in Nat
  BY LenProperties DEF TypeOK, OutputType
<1>6. \A i \in DOMAIN messages' :
         \/ i \in DOMAIN messages /\ messages'[i] = messages[i]
         \/ i > Len(messages) /\ i - Len(messages) \in DOMAIN m /\ messages'[i] = r
  <2>1. \A i \in DOMAIN (messages \o m) :
            \/ i \in DOMAIN messages /\ (messages \o m)[i] = messages[i]
            \/ /\ i > Len(messages) /\ i - Len(messages) \in DOMAIN m
               /\ (messages \o m)[i] = m[i - Len(messages)]
    BY <1>4, <1>5, Concatenated
  <2>. QED BY <1>1, <1>4, <2>1
<1>7. /\ \A i \in DOMAIN messages : i \in DOMAIN messages' /\ messages'[i] = messages[i]
      /\ \A j \in DOMAIN m : /\ Len(messages) + j \in DOMAIN messages'
                             /\ messages'[Len(messages) + j] = r
  <2>1. PICK s \in Seq(Replies), t \in Seq(Replies) : s = messages /\ t = m
    BY <1>4, <1>5
  <2>2. /\ \A i \in DOMAIN s : i \in DOMAIN (s \o t) /\ (s \o t)[i] = s[i]
        /\ \A j \in DOMAIN t : /\ Len(s) + j \in DOMAIN (s \o t)
                               /\ (s \o t)[Len(s) + j] = t[j]
    BY ConcatenationKeeps
  <2>. QED BY <1>1, <1>4, <2>1, <2>2
<1>8. \A j \in DOMAIN ops' : \E k \in DOMAIN ops : k = j + 1 /\ ops'[j] = ops[k]
  BY <1>2
<1>9. /\ \A i \in DOMAIN produced : produced[i].id # Operation.id
      /\ \A i \in DOMAIN messages : /\ messages[i].id < Operation.id
                                    /\ messages[i].id # Operation.id
  BY <1>2, Numbers DEF AnswerInv, OnceInv, InTurn
<1>10. ForCommands'
  <2>1. \A i \in DOMAIN messages' :
            /\ messages'[i].turn = "message"
            /\ \E c \in processed' :
                  c.id = messages'[i].id /\ c.kind \in PubSubKinds /\ c.read = reads'
    BY <1>2, <1>3, <1>6, <1>c DEF AnswerInv, ForCommands
  <2>. QED BY <1>1, <1>2, <1>8, <2>1 DEF AnswerInv, ForCommands
<1>11. InTurn'
  <2>1. \A i, j \in DOMAIN ops' : i < j => ops'[i].id < ops'[j].id
    <3>1. \A i, j \in DOMAIN ops' : i < j => i + 1 < j + 1
      BY <1>2
    <3>. QED BY <1>2, <3>1 DEF AnswerInv, InTurn
  <2>2. ASSUME NEW i \in DOMAIN messages', NEW j \in DOMAIN messages', i < j
        PROVE  messages'[i].id <= messages'[j].id
    <3>1. CASE j \in DOMAIN messages /\ messages'[j] = messages[j]
      <4>1. i \in DOMAIN messages /\ messages'[i] = messages[i]
        BY <1>5, <1>6, <2>2, <3>1
      <4>. QED BY <2>2, <3>1, <4>1 DEF AnswerInv, InTurn
    <3>2. CASE messages'[j] = r
      BY <1>2, <1>3, <1>6, <1>9, <3>2, Numbers
    <3>. QED BY <1>6, <3>1, <3>2
  <2>3. \A i \in DOMAIN messages', j \in DOMAIN ops' : messages'[i].id < ops'[j].id
    BY <1>2, <1>3, <1>6, <1>8 DEF AnswerInv, InTurn
  <2>. QED BY <2>1, <2>2, <2>3 DEF InTurn
<1>12. OnceInv'
  <2>1. ASSUME NEW i \in DOMAIN messages', NEW j \in DOMAIN messages',
               messages'[i].id = messages'[j].id
        PROVE  i = j \/ OfAll(messages'[i].id)
    <3>1. CASE messages'[i] = r /\ messages'[j] = r
      <4>1. CASE OfAll(Operation.id)
        BY <1>3, <3>1, <4>1
      <4>2. CASE n = 1
        <5>1. /\ i > Len(messages) /\ i - Len(messages) \in DOMAIN m
              /\ j > Len(messages) /\ j - Len(messages) \in DOMAIN m
          BY <1>3, <1>6, <1>9, <3>1
        <5>2. i - Len(messages) = 1 /\ j - Len(messages) = 1
          BY <1>4, <4>2, <5>1
        <5>3. i \in Nat /\ j \in Nat
          <6>1. messages' \in Seq(Replies)
            BY <1>1, <1>4, <1>5, ConcatProperties
          <6>. QED BY <6>1, LenProperties
        <5>. QED BY <1>5, <5>2, <5>3
      <4>. QED BY <1>n, <4>1, <4>2
    <3>2. CASE \/ i \in DOMAIN messages /\ messages'[i] = messages[i]
               \/ j \in DOMAIN messages /\ messages'[j] = messages[j]
      <4>1. /\ i \in DOMAIN messages /\ messages'[i] = messages[i]
            /\ j \in DOMAIN messages /\ messages'[j] = messages[j]
        BY <1>3, <1>6, <1>9, <2>1, <3>2
      <4>. QED BY <2>1, <4>1 DEF AnswerInv, OnceInv
    <3>. QED BY <1>6, <3>1, <3>2
  <2>2. \A i \in DOMAIN produced', j \in DOMAIN messages' : produced'[i].id # messages'[j].id
    BY <1>1, <1>3, <1>6, <1>9 DEF AnswerInv, OnceInv
  <2>3. \A i \in DOMAIN produced', j \in DOMAIN ops' : produced'[i].id # ops'[j].id
    BY <1>1, <1>8 DEF AnswerInv, OnceInv
  <2>4. \A i, j \in DOMAIN produced' : produced'[i].id = produced'[j].id =>
            i = j \/ produced'[i].id = 0 \/ OfAll(produced'[i].id)
    BY <1>1 DEF AnswerInv, OnceInv
  <2>. QED BY <1>2, <2>1, <2>2, <2>3, <2>4 DEF OnceInv, OfAll
<1>13. OwedInv'
  <2>. SUFFICES ASSUME NEW c \in processed', c.kind \notin {"broken", "unsubscribeAll"}
                PROVE  Owed(c.id)' \/ (c.kind \in PubSubKinds /\ EndedInError(c.read)')
    BY DEF OwedInv, Owed, EndedInError
  <2>1. CASE \E i \in DOMAIN produced : produced[i].id = c.id
    BY <1>1, <2>1 DEF Owed
  <2>2. CASE \E i \in DOMAIN messages : messages[i].id = c.id
    BY <1>7, <2>2 DEF Owed
  <2>3. CASE \E i \in DOMAIN ops : ops[i].id = c.id
    <3>1. c.id = Operation.id \/ \E j \in DOMAIN ops' : ops'[j].id = c.id
      BY <1>2, <2>3
    <3>2. CASE c.id = Operation.id
      <4>1. ~ OfAll(Operation.id)
        BY <1>2, <3>2 DEF OfAll, OrderInv
      <4>2. 1 \in DOMAIN m
        BY <1>4, <1>n, <4>1
      <4>. QED BY <1>3, <1>7, <3>2, <4>2 DEF Owed
    <3>. QED BY <3>1, <3>2 DEF Owed
  <2>4. CASE c.kind \in PubSubKinds /\ EndedInError(c.read)
    BY <1>2, <2>4 DEF EndedInError
  <2>. QED BY <1>2, <2>1, <2>2, <2>3, <2>4 DEF AnswerInv, OwedInv, Owed
<1>14. TurnInv'
  <2>1. DisorderOnlyWithinRead'
    BY <1>1, <1>2, SameOrder DEF AnswerInv, TurnInv
  <2>. QED BY <1>1, <1>2, <1>8, <2>1 DEF AnswerInv, TurnInv, Reading
<1>. QED BY <1>10, <1>11, <1>12, <1>13, <1>14 DEF AnswerInv

(* The messages are written at the end of the read. *)
LEMMA EndReadStep ==
    ASSUME TypeOK, StageInv, OrderInv, AnswerInv, EndRead
    PROVE  AnswerInv'
<1>1. /\ produced' = produced \o messages /\ messages' = <<>>
      /\ ops = <<>> /\ ops' = <<>> /\ UNCHANGED <<processed, reads>>
      /\ stage = "process" /\ stage' = "respond"
  BY DEF EndRead, Processed, Put
<1>2. DOMAIN messages' = {} /\ DOMAIN ops' = {} /\ DOMAIN ops = {} /\ ~ Reading' /\ Reading
  BY <1>1 DEF Reading
<1>3. PICK s \in Seq(Replies), t \in Seq(Replies) : s = produced /\ t = messages
  BY DEF TypeOK, OutputType
<1>4. \A i \in DOMAIN (s \o t) :
         \/ i \in DOMAIN s /\ (s \o t)[i] = s[i]
         \/ i > Len(s) /\ i - Len(s) \in DOMAIN t /\ (s \o t)[i] = t[i - Len(s)]
  BY Concatenated
<1>5. /\ \A i \in DOMAIN s : i \in DOMAIN (s \o t) /\ (s \o t)[i] = s[i]
      /\ \A j \in DOMAIN t : /\ Len(s) + j \in DOMAIN (s \o t)
                             /\ (s \o t)[Len(s) + j] = t[j]
  BY ConcatenationKeeps
<1>6. \A i \in DOMAIN produced' :
         \/ i \in DOMAIN produced /\ produced'[i] = produced[i]
         \/ \E k \in DOMAIN messages : i = Len(produced) + k /\ produced'[i] = messages[k]
  <2>1. ASSUME NEW i \in DOMAIN (s \o t), i - Len(s) \in DOMAIN t
        PROVE  i = Len(s) + (i - Len(s))
    <3>1. i \in Nat /\ Len(s) \in Nat
      BY ConcatProperties, LenProperties
    <3>. QED BY <3>1
  <2>. QED BY <1>1, <1>3, <1>4, <2>1
<1>7. /\ \A i \in DOMAIN produced : i \in DOMAIN produced' /\ produced'[i] = produced[i]
      /\ \A j \in DOMAIN messages : \E i \in DOMAIN produced' : produced'[i] = messages[j]
  BY <1>1, <1>3, <1>5
<1>8. ForCommands'
  <2>1. \A c \in processed : c.kind \in PubSubKinds => c.kind # "broken"
    BY DEF PubSubKinds
  <2>. QED BY <1>1, <1>2, <1>6, <2>1 DEF AnswerInv, ForCommands
<1>9. InTurn'
  BY <1>2 DEF InTurn
<1>10. OnceInv'
  <2>1. ASSUME NEW i \in DOMAIN produced', NEW j \in DOMAIN produced',
               produced'[i].id = produced'[j].id
        PROVE  i = j \/ produced'[i].id = 0 \/ OfAll(produced'[i].id)
    <3>1. CASE /\ i \in DOMAIN produced /\ produced'[i] = produced[i]
               /\ j \in DOMAIN produced /\ produced'[j] = produced[j]
      BY <2>1, <3>1 DEF AnswerInv, OnceInv
    <3>2. CASE \E k, l \in DOMAIN messages :
                   /\ i = Len(produced) + k /\ produced'[i] = messages[k]
                   /\ j = Len(produced) + l /\ produced'[j] = messages[l]
      BY <2>1, <3>2 DEF AnswerInv, OnceInv
    <3>. QED BY <1>6, <2>1, <3>1, <3>2 DEF AnswerInv, OnceInv
  <2>. QED BY <1>1, <1>2, <2>1 DEF OnceInv, OfAll
<1>11. OwedInv'
  <2>1. ASSUME NEW id, Owed(id) PROVE Owed(id)'
    BY <1>2, <1>7, <2>1 DEF Owed
  <2>. QED BY <1>1, <2>1 DEF AnswerInv, OwedInv, EndedInError
<1>12. DisorderOnlyWithinRead'
  <2>. SUFFICES ASSUME NEW i \in DOMAIN produced', NEW j \in DOMAIN produced',
                       NEW c \in processed', NEW d \in processed', i < j,
                       produced'[i].id = c.id, produced'[j].id = d.id, c.id > d.id
                PROVE  c.read = d.read /\ TurnOf(produced'[i]) < TurnOf(produced'[j])
    BY DEF DisorderOnlyWithinRead, TurnOf
  <2>1. CASE j \in DOMAIN produced /\ produced'[j] = produced[j]
    <3>1. i \in DOMAIN produced /\ produced'[i] = produced[i]
      <4>1. \A k \in DOMAIN messages : i # Len(produced) + k
        <5>1. DOMAIN messages = 1 .. Len(messages) /\ j < Len(produced) + 1
              /\ Len(produced) \in Nat /\ j \in Nat
          BY <1>3, <2>1, LenProperties, Numbers
        <5>. QED BY <5>1
      <4>. QED BY <1>6, <4>1
    <3>. QED BY <1>1, <2>1, <3>1 DEF AnswerInv, TurnInv, DisorderOnlyWithinRead
  <2>2. ASSUME NEW l \in DOMAIN messages, j = Len(produced) + l, produced'[j] = messages[l]
        PROVE  c.read = d.read /\ TurnOf(produced'[i]) < TurnOf(produced'[j])
    <3>1. c \in processed /\ d \in processed /\ messages[l].id = d.id
      BY <1>1, <2>2
    <3>2. messages[l].turn = "message" /\ d.read = reads
      BY <3>1 DEF AnswerInv, ForCommands, OrderInv
    <3>3. CASE i \in DOMAIN produced /\ produced'[i] = produced[i]
      <4>1. c.read = reads
        <5>1. d.id < c.id
          BY <3>1, Numbers
        <5>2. reads <= c.read /\ c.read <= reads
          BY <3>1, <3>2, <5>1 DEF OrderInv
        <5>. QED BY <3>1, <5>2, Numbers
      <4>2. produced[i].turn \in {"read", "handler"}
        BY <1>2, <3>1, <3>3, <4>1 DEF AnswerInv, TurnInv
      <4>. QED BY <2>2, <3>2, <3>3, <4>1, <4>2 DEF TurnOf
    <3>4. ASSUME NEW k \in DOMAIN messages, i = Len(produced) + k, produced'[i] = messages[k]
          PROVE  FALSE
      <4>1. k < l
        BY <2>2, <3>4, Numbers
      <4>2. messages[k].id <= messages[l].id
        BY <4>1 DEF AnswerInv, InTurn
      <4>. QED BY <3>1, <3>4, <4>2, Numbers
    <3>. QED BY <1>6, <3>3, <3>4
  <2>. QED BY <1>6, <2>1, <2>2
<1>13. TurnInv'
  BY <1>2, <1>12 DEF TurnInv
<1>. QED BY <1>8, <1>9, <1>10, <1>11, <1>13 DEF AnswerInv

(* A message pushed answers no command. *)
LEMMA PushStep ==
    ASSUME TypeOK, StageInv, OrderInv, AnswerInv, Push
    PROVE  AnswerInv'
<1>. DEFINE r == Reply("push", 0)
<1>1. /\ produced' = Append(produced, r) /\ ~ Reading /\ ~ Reading'
      /\ UNCHANGED <<processed, ops, messages, reads>>
  BY DEF Push, read, Reading
<1>2. r \in Replies /\ r.id = 0 /\ r.turn = "push"
  BY DEF Reply, Replies, Turns
<1>. HIDE DEF r
<1>3. produced \in Seq(Replies)
  BY DEF TypeOK, OutputType
<1>4. /\ DOMAIN produced' = DOMAIN produced \cup {Len(produced) + 1}
      /\ produced'[Len(produced) + 1] = r
      /\ \A i \in DOMAIN produced : produced'[i] = produced[i]
  BY <1>1, <1>2, <1>3, Appended
<1>5. /\ DOMAIN ops = {} /\ DOMAIN messages = {}
      /\ DOMAIN ops' = {} /\ DOMAIN messages' = {}
  BY <1>1 DEF StageInv
<1>6. ForCommands'
  BY <1>1, <1>2, <1>4, <1>5 DEF AnswerInv, ForCommands
<1>7. InTurn'
  BY <1>5 DEF InTurn
<1>8. OnceInv'
  <2>1. \A i, j \in DOMAIN produced' : produced'[i].id = produced'[j].id =>
            i = j \/ produced'[i].id = 0 \/ OfAll(produced'[i].id)
    BY <1>2, <1>4 DEF AnswerInv, OnceInv
  <2>. QED BY <1>1, <1>5, <2>1 DEF OnceInv, OfAll
<1>9. OwedInv'
  <2>1. ASSUME NEW id, Owed(id) PROVE Owed(id)'
    BY <1>1, <1>4, <2>1 DEF Owed
  <2>. QED BY <1>1, <2>1 DEF AnswerInv, OwedInv, EndedInError
<1>10. DisorderOnlyWithinRead'
  <2>. SUFFICES ASSUME NEW i \in DOMAIN produced', NEW j \in DOMAIN produced',
                       NEW c \in processed', NEW d \in processed', i < j,
                       produced'[i].id = c.id, produced'[j].id = d.id, c.id > d.id
                PROVE  c.read = d.read /\ TurnOf(produced'[i]) < TurnOf(produced'[j])
    BY DEF DisorderOnlyWithinRead, TurnOf
  <2>1. c.id # 0 /\ d.id # 0
    BY <1>1, Numbers
  <2>2. i \in DOMAIN produced /\ j \in DOMAIN produced
    BY <1>2, <1>4, <2>1
  <2>. QED BY <1>1, <1>4, <2>2 DEF AnswerInv, TurnInv, DisorderOnlyWithinRead
<1>11. TurnInv'
  BY <1>1, <1>5, <1>10 DEF TurnInv
<1>. QED BY <1>6, <1>7, <1>8, <1>9, <1>11 DEF AnswerInv

(* A new read begins when nothing is left of the one before. *)
LEMMA ReadStep ==
    ASSUME TypeOK, StageInv, OrderInv, AnswerInv, NEW n \in 1 .. MaxSent, Read(n)
    PROVE  AnswerInv'
<1>1. /\ reads' = reads + 1 /\ ~ Reading
      /\ UNCHANGED <<processed, produced, ops, messages>>
  BY DEF Read, CanRead, history, Reading
<1>2. /\ DOMAIN ops = {} /\ DOMAIN messages = {}
      /\ DOMAIN ops' = {} /\ DOMAIN messages' = {}
  BY <1>1 DEF StageInv
<1>3. \A c \in processed : c.read # reads'
  BY <1>1, Numbers DEF OrderInv
<1>4. ForCommands'
  BY <1>1, <1>2 DEF AnswerInv, ForCommands
<1>5. InTurn' /\ OnceInv'
  BY <1>1, <1>2 DEF AnswerInv, InTurn, OnceInv, OfAll
<1>6. OwedInv'
  BY <1>1 DEF AnswerInv, OwedInv, Owed, EndedInError
<1>7. DisorderOnlyWithinRead'
  BY <1>1, SameOrder DEF AnswerInv, TurnInv
<1>8. TurnInv'
  BY <1>1, <1>2, <1>3, <1>7 DEF TurnInv
<1>. QED BY <1>4, <1>5, <1>6, <1>8 DEF AnswerInv

LEMMA AnswerStep ==
    ASSUME TypeOK, StageInv, OrderInv, AnswerInv, [Next]_vars
    PROVE  AnswerInv'
<1>1. ASSUME UNCHANGED <<processed, produced, ops, messages, reads>>, Reading' => Reading
      PROVE  AnswerInv'
  <2>1. DisorderOnlyWithinRead'
    BY <1>1, SameOrder DEF AnswerInv, TurnInv
  <2>2. TurnInv'
    BY <1>1, <2>1 DEF AnswerInv, TurnInv
  <2>3. ForCommands' /\ InTurn' /\ OnceInv'
    BY <1>1 DEF AnswerInv, ForCommands, InTurn, OnceInv, OfAll
  <2>4. OwedInv'
    BY <1>1 DEF AnswerInv, OwedInv, Owed, EndedInError
  <2>. QED BY <2>2, <2>3, <2>4 DEF AnswerInv
<1>2. ASSUME ProcessCommand PROVE AnswerInv'
  <2>1. CASE BeginExec \/ DrainQueued
    BY <2>1, <1>1 DEF BeginExec, DrainQueued, Admitted, Processing, Apart, history, Reading
  <2>. QED BY <1>2, <2>1, ProcessSteps, RepliedStep, PostponedStep, FailedStep
<1>3. ASSUME \/ Receive \/ HangUp \/ Poll \/ ReadNothing \/ Flush \/ EndEvent
             \/ Respond \/ UNCHANGED vars \/ (\E r \in Requests : Send(r))
      PROVE  AnswerInv'
  <2>1. UNCHANGED <<processed, produced, ops, messages, reads>>
    BY <1>3 DEF Receive, HangUp, Poll, ReadNothing, Flush, EndEvent, Respond, Send, vars,
                read, history
  <2>2. Reading' => Reading
    BY <1>3 DEF Receive, HangUp, Poll, ReadNothing, Flush, EndEvent, Respond, Send, vars,
                Reading
  <2>. QED BY <2>1, <2>2, <1>1
<1>. QED BY <1>2, <1>3, ConfirmStep, QueryStep, EndReadStep, PushStep, ReadStep
         DEF Next, Serve

----------------------------------------------------------------------------
(* The theorems. *)

Inv ==
    /\ TypeOK /\ StageInv /\ OpsInv /\ ModeInv
    /\ OrderInv /\ ExecInv /\ AnswerInv /\ NothingLost

LEMMA InvInit == Init => Inv
<1>. SUFFICES ASSUME Init PROVE Inv
  OBVIOUS
<1>1. /\ <<>> \in Seq(Commands) /\ <<>> \in Seq(Replies) /\ <<>> \in Seq(Nat)
      /\ Len(<<>>) = 0 /\ DOMAIN <<>> = {}
  BY EmptySeq
<1>2. IsFiniteSet({}) /\ Cardinality({}) = 0
  BY FS_EmptySet
<1>3. TypeOK
  BY <1>1, <1>2, BoundsAssumption
     DEF Init, TypeOK, InputType, OutputType, ModeType, BoundsAssumption
<1>4. StageInv /\ OpsInv /\ ModeInv
  BY <1>1, <1>2 DEF Init, StageInv, OpsInv, ModeInv, Reading
<1>5. OrderInv /\ ExecInv
  BY <1>1 DEF Init, OrderInv, ExecInv, ExecutedInOrder
<1>6. AnswerInv
  BY <1>1 DEF Init, AnswerInv, ForCommands, InTurn, OnceInv, OwedInv, TurnInv, Reading,
              DisorderOnlyWithinRead
<1>7. NothingLost
  <2>1. SubSeq(<<>>, 0 + 1, 0) = <<>>
    BY SubSeqEmpty
  <2>2. <<>> = (<<>> \o <<>>) \o <<>>
    BY <1>1, ConcatEmptySeq
  <2>. QED BY <1>1, <2>1, <2>2 DEF Init, NothingLost, Pending
<1>. QED BY <1>3, <1>4, <1>5, <1>6, <1>7 DEF Inv

LEMMA InvStep == Inv /\ [Next]_vars => Inv'
<1>. SUFFICES ASSUME Inv, [Next]_vars PROVE Inv'
  OBVIOUS
<1>1. /\ TypeOK /\ InputType /\ StageInv /\ OpsInv /\ ModeInv
      /\ OrderInv /\ ExecInv /\ AnswerInv /\ NothingLost
  BY DEF Inv, TypeOK
<1>2. InputType'
  BY <1>1, InputStep
<1>3. OutputType' /\ NothingLost'
  BY <1>1, OutputStep
<1>4. ModeType' /\ ModeInv'
  BY <1>1, ModeStep
<1>5. StageInv'
  BY <1>1, StageStep
<1>6. OpsInv'
  BY <1>1, OpsStep
<1>7. OrderInv'
  BY <1>1, OrderStep
<1>8. ExecInv'
  BY <1>1, ExecStep
<1>9. AnswerInv'
  BY <1>1, AnswerStep
<1>. QED BY <1>2, <1>3, <1>4, <1>5, <1>6, <1>7, <1>8, <1>9 DEF Inv, TypeOK

LEMMA Invariant == Spec => []Inv
BY InvInit, InvStep, PTL DEF Spec

(* What the client has got, what the kernel holds and what is left in the   *)
(* buffer are together what was put into it, in that order: partial writes, *)
(* buffers kept over a read and messages pushed in between (write_position, *)
(* connection.rs) lose and repeat nothing.                                  *)
THEOREM NothingIsLost == Spec => []NothingLost
<1>1. Inv => NothingLost
  BY DEF Inv
<1>. QED BY <1>1, Invariant, PTL

(* At the beginning of each read the connection's copy of the number of its *)
(* subscriptions is the number the pub/sub manager has, so the mode in      *)
(* which process_read refuses commands is the right one.                    *)
THEOREM ModeIsRight == Spec => []ModeMatches
<1>1. Inv => ModeMatches
  BY DEF Inv, ModeInv, ModeMatches
<1>. QED BY <1>1, Invariant, PTL

(* The executor runs no command twice and none before one that was sent     *)
(* earlier, whether process_read runs it at once or EXEC takes it from the  *)
(* queue.                                                                   *)
THEOREM RunInOrder == Spec => []ExecutedInOrder
<1>1. Inv => ExecutedInOrder
  BY DEF Inv, ExecInv
<1>. QED BY <1>1, Invariant, PTL

(* Replies leave the order of their commands only within one read, and only *)
(* because the handler of pub/sub operations and then their messages come   *)
(* after process_read.                                                      *)
THEOREM DisorderIsWithinRead == Spec => []DisorderOnlyWithinRead
<1>1. Inv => DisorderOnlyWithinRead
  BY DEF Inv, AnswerInv, TurnInv
<1>. QED BY <1>1, Invariant, PTL

LEMMA OneReplyEach ==
    ASSUME Inv
    PROVE  AnsweredOnce
<1>. USE DEF Inv
<1>. DEFINE At(id) == {i \in DOMAIN produced : produced[i].id = id}
<1>1. ASSUME NEW c \in processed, c.kind = "broken" PROVE RepliesTo(c.id) = 0
  <2>1. At(c.id) = {}
    <3>1. c.id # 0
      BY Numbers
    <3>. QED BY <1>1, <3>1 DEF AnswerInv, ForCommands, OrderInv
  <2>. QED BY <2>1, FS_EmptySet DEF RepliesTo
<1>2. ASSUME NEW c \in processed, c.kind # "unsubscribeAll"
      PROVE  IsFiniteSet(At(c.id)) /\ RepliesTo(c.id) <= 1
  <2>1. c.id # 0 /\ ~ OfAll(c.id)
    BY <1>2, Numbers DEF OrderInv, OfAll
  <2>2. \A i, j \in At(c.id) : i = j
    BY <2>1 DEF AnswerInv, OnceInv
  <2>3. IsFiniteSet(At(c.id)) /\ Cardinality(At(c.id)) <= 1
    BY <2>2, AtMostOne
  <2>. QED BY <2>3 DEF RepliesTo
<1>3. ASSUME NEW c \in processed, c.kind \notin {"broken", "unsubscribeAll"},
             ~ (stage \in {"process", "exec"} /\ c.read = reads),
             ~ (c.kind \in PubSubKinds /\ EndedInError(c.read))
      PROVE  RepliesTo(c.id) = 1
  <2>1. Owed(c.id)
    BY <1>3 DEF AnswerInv, OwedInv
  <2>2. \/ c.read = reads /\ (ops # <<>> \/ messages # <<>>)
        \/ At(c.id) # {}
    <3>1. \A i \in DOMAIN ops : ops[i].id = c.id => c.read = reads
      BY DEF AnswerInv, ForCommands, OrderInv
    <3>2. \A i \in DOMAIN messages : messages[i].id = c.id => c.read = reads
      BY DEF AnswerInv, ForCommands, OrderInv
    <3>3. ops = <<>> => DOMAIN ops = {}
      OBVIOUS
    <3>4. messages = <<>> => DOMAIN messages = {}
      OBVIOUS
    <3>. QED BY <2>1, <3>1, <3>2, <3>3, <3>4 DEF Owed
  <2>3. At(c.id) # {}
    BY <1>3, <2>2 DEF StageInv, Reading
  <2>4. IsFiniteSet(At(c.id)) /\ Cardinality(At(c.id)) <= 1
    BY <1>2, <1>3 DEF RepliesTo
  <2>5. Cardinality(At(c.id)) \in Nat /\ Cardinality(At(c.id)) # 0
    BY <2>3, <2>4, FS_CardinalityType, FS_EmptySet
  <2>. QED BY <2>4, <2>5 DEF RepliesTo
<1>. HIDE DEF Inv
<1>4. ASSUME NEW c \in processed, c.kind # "broken"
      PROVE  IF \/ stage \in {"process", "exec"} /\ c.read = reads
                \/ c.kind \in PubSubKinds /\ EndedInError(c.read)
             THEN c.kind # "unsubscribeAll" => RepliesTo(c.id) <= 1
             ELSE c.kind # "unsubscribeAll" => RepliesTo(c.id) = 1
  BY <1>2, <1>3, <1>4
<1>. QED BY <1>1, <1>4 DEF AnsweredOnce

(* When its read is over a command has exactly one reply, whichever way it  *)
(* took (refused, run, queued, put off until the end of the read), unless a *)
(* command that does not parse ended the connection before its turn.        *)
THEOREM EachAnsweredOnce == Spec => []AnsweredOnce
<1>1. Inv => AnsweredOnce
  BY OneReplyEach
<1>. QED BY <1>1, Invariant, PTL
=============================================================================
