---------------------------- MODULE PubSubProofs ----------------------------
(* Proofs about modules Subscriptions, SubscriptionsHistory and PubSub: the *)
(* tables and the registry under concurrent commands, then what becomes of  *)
(* a message between PUBLISH and the output buffers, for any number of      *)
(* workers, connections, channels and patterns and inboxes of any capacity. *)
EXTENDS PubSub, SubscriptionsHistory, FiniteSetTheorems, TLAPS, DataLemmas

(* What the task of a worker says about its connection.  A command works on *)
(* a connection of its own worker; a dropped connection has handed over its *)
(* lists, and a closed one has none; the interest about to be registered is *)
(* that of a topic with a subscriber.                                       *)
TaskInv ==
    /\ \A t \in Threads :
          /\ task[t].pc = "idle" => task[t] = NoTask
          /\ task[t].pc # "idle" =>
                /\ task[t].op # "none"
                /\ task[t].conn \in Conns
                /\ home[task[t].conn] = t
          /\ task[t].pc \notin {"idle", "loop"} => task[t].topic \in Topics
          /\ task[t].pc = "addInterest" => subs[t][task[t].topic] # {}
          /\ task[t].op = "drop" => connTopics[task[t].conn] = {}
    /\ \A c \in Conns : home[c] = None => connTopics[c] = {}

FiniteInv == \A c \in Conns : IsFiniteSet(connTopics[c])

IndInv == TypeOK /\ FiniteInv /\ TaskInv /\ MapsAgree

(* Building and advancing a task keeps its shape. *)
LEMMA TaskType ==
  ASSUME NEW pc \in PCs, NEW op \in Ops, NEW c \in Conns \cup {None},
         NEW todo \in SUBSET Topics, NEW x \in Topics \cup {None}
  PROVE  Task(pc, op, c, todo, x) \in Tasks
  BY DEF Task, Tasks

(* The fields of a task have the types of its record. *)
LEMMA TaskFields ==
  ASSUME NEW t \in Threads, task \in [Threads -> Tasks]
  PROVE  /\ task[t].pc \in PCs
         /\ task[t].op \in Ops
         /\ task[t].conn \in Conns \cup {None}
         /\ task[t].todo \in SUBSET Topics
         /\ task[t].topic \in Topics \cup {None}
  BY DEF Tasks

(* Moving to another program counter keeps the task's type. *)
LEMMA GoToType ==
  ASSUME NEW t \in Threads, NEW pc \in PCs,
         task \in [Threads -> Tasks], GoTo(t, pc)
  PROVE  task' \in [Threads -> Tasks]
  BY TaskType, TaskFields DEF GoTo

(* A resting worker has a task too. *)
LEMMA NoTaskType == NoTask \in Tasks
  BY TaskType DEF NoTask, PCs, Ops

(* A request is of one of two forms: it only starts a command, or it also   *)
(* takes the connection's list.                                             *)
Starts(t, c, op, topics) ==
    /\ op \in {"subscribe", "unsubscribe"}
    /\ topics \in SUBSET Topics
    /\ Begin(t, c, op, topics)
    /\ UNCHANGED <<localVars, interest, counts>>

Takes(t, c, op, topics) ==
    /\ op \in {"unsubscribe_all", "drop"}
    /\ topics \in SUBSET connTopics[c]
    /\ op = "drop" => topics = connTopics[c]
    /\ TakeList(t, c, op, topics)

LEMMA RequestForms ==
  ASSUME NEW t \in Threads, NEW c \in Conns, Request(t, c)
  PROVE  \E op, topics : Starts(t, c, op, topics) \/ Takes(t, c, op, topics)
<1>1. ASSUME NEW channels \in SUBSET Channels,
             BeginSubscribe(t, c, channels) \/ BeginUnsubscribe(t, c, channels)
      PROVE  \E op, topics : Starts(t, c, op, topics)
  BY <1>1 DEF BeginSubscribe, BeginUnsubscribe, Starts, Topics
<1>2. ASSUME NEW patterns \in SUBSET Patterns,
             BeginPSubscribe(t, c, patterns) \/ BeginPUnsubscribe(t, c, patterns)
      PROVE  \E op, topics : Starts(t, c, op, topics)
  BY <1>2 DEF BeginPSubscribe, BeginPUnsubscribe, Starts, Topics
<1>3. CASE BeginUnsubscribeAll(t, c)
  BY <1>3 DEF BeginUnsubscribeAll, Takes
<1>4. CASE BeginPUnsubscribeAll(t, c)
  BY <1>4 DEF BeginPUnsubscribeAll, Takes
<1>5. CASE BeginDrop(t, c)
  BY <1>5 DEF BeginDrop, Takes
<1> QED
  BY <1>1, <1>2, <1>3, <1>4, <1>5 DEF Request

(* The types survive every step: the only arithmetic is on the counts, and  *)
(* the decrement stops at zero.                                             *)
LEMMA TypeStep ==
  ASSUME TypeOK, FiniteInv, TaskInv, Next
  PROVE  TypeOK'
<1> USE DEF TypeOK, localVars, At
<1>1. ASSUME NEW t \in Threads, NEW c \in Conns, Accept(t, c)
      PROVE  TypeOK'
  BY <1>1 DEF Accept
<1>2. ASSUME NEW t \in Threads, NEW c \in Conns, Request(t, c)
      PROVE  TypeOK'
  <2>1. PICK op, topics : Starts(t, c, op, topics) \/ Takes(t, c, op, topics)
    BY <1>2, RequestForms
  <2>2. op \in Ops /\ topics \in SUBSET Topics /\ Begin(t, c, op, topics)
    BY <2>1 DEF Starts, Takes, TakeList, Ops
  <2>3. Task("loop", op, c, topics, None) \in Tasks
    BY <2>2, TaskType DEF PCs
  <2>4. task' \in [Threads -> Tasks]
    BY <2>2, <2>3 DEF Begin
  <2> QED
    BY <2>1, <2>4 DEF Starts, Takes, TakeList
<1>3. ASSUME NEW t \in Threads, Step(t)
      PROVE  TypeOK'
  <2> DEFINE c == task[t].conn
  <2>0. At(t, "idle") \/ c \in Conns
    BY DEF TaskInv
  <2>1. ASSUME NEW y \in Topics, SubscribeTopic(t, y)
        PROVE  TypeOK'
    <3> DEFINE pc == IF subs[t][y] = {} THEN "addInterest" ELSE "loop"
    <3>1. Task(pc, "subscribe", c, task[t].todo \ {y}, y) \in Tasks
      BY TaskType, TaskFields DEF PCs, Ops
    <3> QED
      BY <2>0, <2>1, <3>1 DEF SubscribeTopic, Count
  <2>2. ASSUME NEW y \in Topics, UnsubscribeTopic(t, y)
        PROVE  TypeOK'
    <3> DEFINE pc == IF c \notin subs[t][y] THEN "loop"
                     ELSE IF Decremented(y) = 0 THEN "dropCount"
                     ELSE IF subs[t][y] \ {c} = {} THEN "remInterest" ELSE "loop"
    <3>1. Decremented(y) \in Nat \cup {None}
      BY DEF Decremented
    <3>2. Task(pc, task[t].op, c, task[t].todo \ {y}, y) \in Tasks
      BY TaskType, TaskFields DEF PCs
    <3> QED
      BY <2>0, <2>2, <3>1, <3>2 DEF UnsubscribeTopic
  <2>3. CASE AddInterest(t)
    BY <2>3, GoToType DEF AddInterest, Interested, TaskInv, PCs
  <2>4. CASE DropCount(t)
    BY <2>4, GoToType DEF DropCount, PCs
  <2>5. CASE RemInterest(t)
    BY <2>5, GoToType DEF RemInterest, PCs
  <2>6. CASE DropInterest(t)
    BY <2>6, GoToType DEF DropInterest, PCs
  <2>7. CASE EndCommand(t)
    <3>1. SubscriptionCount(c) \in Nat
      BY <2>0, <2>7, FS_CardinalityType DEF EndCommand, SubscriptionCount, FiniteInv
    <3> QED
      BY <2>0, <2>7, <3>1, NoTaskType DEF EndCommand
  <2>8. CASE EndDrop(t)
    BY <2>8, NoTaskType DEF EndDrop
  <2> QED
    BY <1>3, <2>1, <2>2, <2>3, <2>4, <2>5, <2>6, <2>7, <2>8 DEF Step
<1> QED
  BY <1>1, <1>2, <1>3 DEF Next

(* The steps by the tables they touch: every step but these leaves the      *)
(* connection lists and the homes of the connections alone.                 *)
LEMMA FiniteStep ==
  ASSUME TypeOK, TaskInv, FiniteInv, Next
  PROVE  FiniteInv'
<1> USE DEF TypeOK, FiniteInv, localVars, At
<1>1. ASSUME NEW t \in Threads, NEW c \in Conns, Accept(t, c)
      PROVE  FiniteInv'
  BY <1>1 DEF Accept
<1>2. ASSUME NEW t \in Threads, NEW c \in Conns, Request(t, c)
      PROVE  FiniteInv'
  <2>1. PICK op, topics : Starts(t, c, op, topics) \/ Takes(t, c, op, topics)
    BY <1>2, RequestForms
  <2>2. IsFiniteSet(connTopics[c] \ topics)
    BY FS_Subset
  <2> QED
    BY <2>1, <2>2 DEF Starts, Takes, TakeList
<1>3. ASSUME NEW t \in Threads, Step(t)
      PROVE  FiniteInv'
  <2> DEFINE c == task[t].conn
  <2>0. At(t, "idle") \/ c \in Conns
    BY DEF TaskInv
  <2>1. ASSUME NEW y \in Topics, SubscribeTopic(t, y)
        PROVE  FiniteInv'
    <3>1. connTopics' = [connTopics EXCEPT ![c] = connTopics[c] \cup {y}]
      BY <2>1 DEF SubscribeTopic
    <3>2. c \in Conns
      BY <2>0, <2>1 DEF SubscribeTopic
    <3>3. IsFiniteSet(connTopics[c] \cup {y})
      BY <3>2, FS_AddElement
    <3> QED
      BY <3>1, <3>2, <3>3
  <2>2. ASSUME NEW y \in Topics, UnsubscribeTopic(t, y)
        PROVE  FiniteInv'
    <3>1. connTopics' = [connTopics EXCEPT ![c] = connTopics[c] \ {y}]
      BY <2>2 DEF UnsubscribeTopic
    <3>2. c \in Conns
      BY <2>0, <2>2 DEF UnsubscribeTopic
    <3>3. IsFiniteSet(connTopics[c] \ {y})
      BY <3>2, FS_Subset
    <3> QED
      BY <3>1, <3>2, <3>3
  <2> QED
    BY <1>3, <2>1, <2>2
    DEF Step, AddInterest, DropCount, RemInterest, DropInterest, EndCommand,
        EndDrop
<1> QED
  BY <1>1, <1>2, <1>3 DEF Next

(* A command keeps hold of a connection of its own worker until it ends.    *)
LEMMA TaskStep ==
  ASSUME TypeOK, TaskInv, Next
  PROVE  TaskInv'
<1> USE NoneAssumption, TaskFields DEF TypeOK, TaskInv, Task, NoTask, At
<1>1. ASSUME NEW t \in Threads, NEW c \in Conns, Accept(t, c)
      PROVE  TaskInv'
  BY <1>1 DEF Accept
<1>2. ASSUME NEW t \in Threads, NEW c \in Conns, Request(t, c)
      PROVE  TaskInv'
  <2>1. PICK op, topics : Starts(t, c, op, topics) \/ Takes(t, c, op, topics)
    BY <1>2, RequestForms
  <2>2. CASE Starts(t, c, op, topics)
    BY <2>2 DEF Starts, Begin, localVars
  <2>3. CASE Takes(t, c, op, topics)
    BY <2>3 DEF Takes, TakeList, Begin
  <2> QED
    BY <2>1, <2>2, <2>3
<1>3. ASSUME NEW t \in Threads, Step(t)
      PROVE  TaskInv'
  <2>1. ASSUME NEW y \in Topics, SubscribeTopic(t, y)
        PROVE  TaskInv'
    BY <2>1 DEF SubscribeTopic
  <2>2. ASSUME NEW y \in Topics, UnsubscribeTopic(t, y)
        PROVE  TaskInv'
    BY <2>2 DEF UnsubscribeTopic
  <2>3. CASE AddInterest(t)
    BY <2>3 DEF AddInterest, GoTo, localVars
  <2>4. CASE DropCount(t)
    BY <2>4 DEF DropCount, GoTo, localVars
  <2>5. CASE RemInterest(t)
    BY <2>5 DEF RemInterest, GoTo, localVars
  <2>6. CASE DropInterest(t)
    BY <2>6 DEF DropInterest, GoTo, localVars
  <2>7. CASE EndCommand(t)
    BY <2>7 DEF EndCommand
  <2>8. CASE EndDrop(t)
    BY <2>8 DEF EndDrop
  <2> QED
    BY <1>3, <2>1, <2>2, <2>3, <2>4, <2>5, <2>6, <2>7, <2>8 DEF Step
<1> QED
  BY <1>1, <1>2, <1>3 DEF Next

(* The two directions of the tables agree after every step.                 *)
LEMMA MapsStep ==
  ASSUME TypeOK, TaskInv, MapsAgree, Next
  PROVE  MapsAgree'
<1> USE NoneAssumption, TaskFields
    DEF TypeOK, TaskInv, MapsAgree, Draining, Task, NoTask, At
<1>1. ASSUME NEW t \in Threads, NEW c \in Conns, Accept(t, c)
      PROVE  MapsAgree'
  BY <1>1 DEF Accept
<1>2. ASSUME NEW t \in Threads, NEW c \in Conns, Request(t, c)
      PROVE  MapsAgree'
  <2>1. PICK op, topics : Starts(t, c, op, topics) \/ Takes(t, c, op, topics)
    BY <1>2, RequestForms
  <2>2. CASE Starts(t, c, op, topics)
    BY <2>2 DEF Starts, Begin, localVars
  <2>3. CASE Takes(t, c, op, topics)
    BY <2>3 DEF Takes, TakeList, Begin
  <2> QED
    BY <2>1, <2>2, <2>3
<1>3. ASSUME NEW t \in Threads, Step(t)
      PROVE  MapsAgree'
  <2>1. ASSUME NEW y \in Topics, SubscribeTopic(t, y)
        PROVE  MapsAgree'
    BY <2>1 DEF SubscribeTopic
  <2>2. ASSUME NEW y \in Topics, UnsubscribeTopic(t, y)
        PROVE  MapsAgree'
    BY <2>2 DEF UnsubscribeTopic
  <2>3. CASE AddInterest(t)
    BY <2>3 DEF AddInterest, GoTo, localVars
  <2>4. CASE DropCount(t)
    BY <2>4 DEF DropCount, GoTo, localVars
  <2>5. CASE RemInterest(t)
    BY <2>5 DEF RemInterest, GoTo, localVars
  <2>6. CASE DropInterest(t)
    BY <2>6 DEF DropInterest, GoTo, localVars
  <2>7. CASE EndCommand(t)
    BY <2>7 DEF EndCommand
  <2>8. CASE EndDrop(t)
    BY <2>8 DEF EndDrop
  <2> QED
    BY <1>3, <2>1, <2>2, <2>3, <2>4, <2>5, <2>6, <2>7, <2>8 DEF Step
<1> QED
  BY <1>1, <1>2, <1>3 DEF Next

(* The empty tables satisfy the invariant. *)
LEMMA InitIndInv == Init => IndInv
<1> SUFFICES ASSUME Init PROVE IndInv
  OBVIOUS
<1>1. TypeOK
  BY NoTaskType DEF Init, TypeOK
<1>2. FiniteInv
  BY FS_EmptySet DEF Init, FiniteInv
<1>3. TaskInv /\ MapsAgree
  BY NoneAssumption DEF Init, TaskInv, MapsAgree, Draining, NoTask, Task
<1> QED
  BY <1>1, <1>2, <1>3 DEF IndInv

(* Types, finiteness, tasks and tables together are inductive. *)
LEMMA IndStep == IndInv /\ [Next]_vars => IndInv'
<1>1. CASE Next
  BY <1>1, TypeStep, FiniteStep, TaskStep, MapsStep DEF IndInv
<1>2. CASE UNCHANGED vars
  BY <1>2 DEF vars, IndInv, TypeOK, FiniteInv, TaskInv, MapsAgree, Draining,
              At, NoTask, Task
<1> QED
  BY <1>1, <1>2

LEMMA IndInvariant == Spec => []IndInv
  BY InitIndInv, IndStep, PTL DEF Spec

(* The shapes of all tables, in particular that no count goes below zero    *)
(* (decrement_channel_subscribers, registry.rs).                            *)
THEOREM TypeCorrect == Spec => []TypeOK
  BY IndInvariant, PTL DEF IndInv

(* A worker's tables agree in both directions (subscribe, unsubscribe,      *)
(* connection_dropped, manager.rs): no subscription outlives its            *)
(* connection, and none is lost while its connection is open.               *)
THEOREM TablesAgree == Spec => []MapsAgree
  BY IndInvariant, PTL DEF IndInv

----------------------------------------------------------------------------
(* The registry of interested workers. *)

(* A worker registers after its first subscriber is in its table and
   withdraws after the last one has left it. *)
LEMMA SoundStep ==
  ASSUME TypeOK, TaskInv, InterestSound, Next
  PROVE  InterestSound'
<1> USE NoneAssumption, TaskFields
    DEF TypeOK, TaskInv, InterestSound, Interested, Task, NoTask, At
<1>1. ASSUME NEW t \in Threads, NEW c \in Conns, Accept(t, c)
      PROVE  InterestSound'
  BY <1>1 DEF Accept
<1>2. ASSUME NEW t \in Threads, NEW c \in Conns, Request(t, c)
      PROVE  InterestSound'
  <2>1. PICK op, topics : Starts(t, c, op, topics) \/ Takes(t, c, op, topics)
    BY <1>2, RequestForms
  <2>2. /\ UNCHANGED <<subs, interest, counts>>
        /\ task[t].pc = "idle"
        /\ \A u \in Threads \ {t} : task'[u] = task[u]
    BY <2>1 DEF Starts, Takes, TakeList, Begin, localVars
  <2> QED
    BY <2>2
<1>3. ASSUME NEW t \in Threads, Step(t)
      PROVE  InterestSound'
  <2>1. ASSUME NEW y \in Topics, SubscribeTopic(t, y)
        PROVE  InterestSound'
    BY <2>1 DEF SubscribeTopic
  <2>2. ASSUME NEW y \in Topics, UnsubscribeTopic(t, y)
        PROVE  InterestSound'
    BY <2>2 DEF UnsubscribeTopic
  <2>3. CASE AddInterest(t)
    BY <2>3 DEF AddInterest, GoTo, localVars
  <2>4. CASE DropCount(t)
    BY <2>4 DEF DropCount, GoTo, localVars
  <2>5. CASE RemInterest(t)
    BY <2>5 DEF RemInterest, GoTo, localVars
  <2>6. CASE DropInterest(t)
    BY <2>6 DEF DropInterest, GoTo, localVars
  <2>7. CASE EndCommand(t) \/ EndDrop(t)
    BY <2>7 DEF EndCommand, EndDrop
  <2> QED
    BY <1>3, <2>1, <2>2, <2>3, <2>4, <2>5, <2>6, <2>7 DEF Step
<1> QED
  BY <1>1, <1>2, <1>3 DEF Next

(* However adds and removals of several workers interleave, a worker is     *)
(* registered only for topics it has subscribers for, or is about to        *)
(* withdraw from (add_ and remove_channel_interest, registry.rs).           *)
THEOREM RegistrySound == Spec => []InterestSound
<1>1. Init => InterestSound
  BY NoneAssumption DEF Init, InterestSound, Interested
<1>2. InterestSound /\ IndInv /\ [Next]_vars => InterestSound'
  <2>1. CASE Next
    BY <2>1, SoundStep DEF IndInv
  <2>2. CASE UNCHANGED vars
    BY <2>2 DEF vars, InterestSound, Interested
  <2> QED
    BY <2>1, <2>2
<1> QED
  BY <1>1, <1>2, IndInvariant, PTL DEF Spec

(* A pending removal is withdrawn by nobody but the worker that makes it.   *)
LEMMA RemovingKept ==
  ASSUME NEW t \in Threads, NEW x \in Topics, NEW pc, Removing(x, pc),
         \A u \in Threads \ {t} : task'[u] = task[u],
         task[t].pc # pc \/ task[t].topic # x
  PROVE  Removing(x, pc)'
  BY DEF Removing, At

(* Every step changes the task of one worker.                               *)
LEMMA OneTask ==
  ASSUME NEW t \in Threads, task \in [Threads -> Tasks],
         Step(t) \/ \E c \in Conns : Accept(t, c) \/ Request(t, c)
  PROVE  \A u \in Threads \ {t} : task'[u] = task[u]
<1>1. ASSUME NEW c \in Conns, Request(t, c)
      PROVE  \A u \in Threads \ {t} : task'[u] = task[u]
  <2>1. PICK op, topics : Starts(t, c, op, topics) \/ Takes(t, c, op, topics)
    BY <1>1, RequestForms
  <2> QED
    BY <2>1 DEF Starts, Takes, TakeList, Begin
<1>2. ASSUME Step(t)
      PROVE  \A u \in Threads \ {t} : task'[u] = task[u]
  BY <1>2
  DEF Step, SubscribeTopic, UnsubscribeTopic, AddInterest, DropCount,
      RemInterest, DropInterest, EndCommand, EndDrop, GoTo
<1> QED
  BY <1>1, <1>2 DEF Accept

(* Whoever empties an entry is the one that goes on to remove its key. *)
LEMMA LeakStep ==
  ASSUME TypeOK, NoLeakedEntries, Next
  PROVE  NoLeakedEntries'
<1> USE NoneAssumption DEF TypeOK, NoLeakedEntries, At
<1>1. PICK t \in Threads :
          Step(t) \/ \E c \in Conns : Accept(t, c) \/ Request(t, c)
  BY DEF Next
<1>2. \A u \in Threads \ {t} : task'[u] = task[u]
  BY <1>1, OneTask
<1>3. ASSUME NEW x \in Topics, NEW pc \in PCs, Removing(x, pc),
             task[t].pc # pc \/ task[t].topic # x
      PROVE  Removing(x, pc)'
  BY <1>2, <1>3, RemovingKept
<1>4. ASSUME UNCHANGED <<interest, counts>>,
             task[t].pc \notin {"dropInterest", "dropCount"}
      PROVE  NoLeakedEntries'
  BY <1>3, <1>4 DEF PCs
<1>5. ASSUME NEW c \in Conns, Accept(t, c) \/ Request(t, c)
      PROVE  NoLeakedEntries'
  <2>1. CASE Accept(t, c)
    BY <1>4, <2>1 DEF Accept
  <2>2. CASE Request(t, c)
    <3>1. PICK op, topics : Starts(t, c, op, topics) \/ Takes(t, c, op, topics)
      BY <2>2, RequestForms
    <3> QED
      BY <1>4, <3>1 DEF Starts, Takes, TakeList, Begin
  <2> QED
    BY <1>5, <2>1, <2>2
<1>6. ASSUME Step(t)
      PROVE  NoLeakedEntries'
  <2>1. ASSUME NEW y \in Topics, SubscribeTopic(t, y)
        PROVE  NoLeakedEntries'
    <3>1. /\ task[t].pc = "loop"
          /\ UNCHANGED interest
          /\ \A x \in Topics : counts'[x] = 0 => counts[x] = 0
      BY <2>1 DEF SubscribeTopic, Count
    <3> QED
      BY <1>3, <3>1 DEF PCs
  <2>2. ASSUME NEW y \in Topics, UnsubscribeTopic(t, y)
        PROVE  NoLeakedEntries'
    <3>1. /\ task[t].pc = "loop"
          /\ UNCHANGED interest
          /\ \A x \in Topics \ {y} : counts'[x] = counts[x]
      BY <2>2 DEF UnsubscribeTopic
    <3>2. counts'[y] = 0 /\ counts[y] # 0 => Removing(y, "dropCount")'
      BY <2>2 DEF UnsubscribeTopic, Removing, Task
    <3> QED
      BY <1>3, <3>1, <3>2 DEF PCs
  <2>3. CASE AddInterest(t)
    <3>1. /\ task[t].pc = "addInterest"
          /\ UNCHANGED counts
          /\ \A x \in Topics : interest'[x] = {} => interest[x] = {}
      BY <2>3 DEF AddInterest
    <3> QED
      BY <1>3, <3>1 DEF PCs
  <2>4. CASE DropCount(t)
    <3>1. /\ task[t].pc = "dropCount"
          /\ UNCHANGED interest
          /\ \A x \in Topics :
                counts'[x] = 0 => counts[x] = 0 /\ task[t].topic # x
      BY <2>4 DEF DropCount
    <3> QED
      BY <1>3, <3>1 DEF PCs
  <2>5. CASE RemInterest(t)
    <3>1. task[t].pc = "remInterest" /\ UNCHANGED counts
      BY <2>5 DEF RemInterest
    <3>2. ASSUME NEW x \in Topics, interest'[x] = {}
          PROVE  Removing(x, "dropInterest")'
      <4>1. CASE x = task[t].topic
        BY <2>5, <3>2, <4>1 DEF RemInterest, Removing, GoTo, Task
      <4>2. CASE x # task[t].topic
        <5>1. interest[x] = {}
          BY <2>5, <3>2, <4>2 DEF RemInterest
        <5> QED
          BY <1>3, <4>2, <5>1 DEF PCs
      <4> QED
        BY <4>1, <4>2
    <3>3. ASSUME NEW x \in Topics, counts'[x] = 0
          PROVE  Removing(x, "dropCount")'
      BY <1>3, <3>1, <3>3 DEF PCs
    <3> QED
      BY <3>2, <3>3
  <2>6. CASE DropInterest(t)
    <3>1. /\ task[t].pc = "dropInterest"
          /\ UNCHANGED counts
          /\ \A x \in Topics :
                interest'[x] = {} => interest[x] = {} /\ task[t].topic # x
      BY <2>6 DEF DropInterest
    <3> QED
      BY <1>3, <3>1 DEF PCs
  <2>7. CASE EndCommand(t) \/ EndDrop(t)
    BY <1>4, <2>7 DEF EndCommand, EndDrop
  <2> QED
    BY <1>6, <2>1, <2>2, <2>3, <2>4, <2>5, <2>6, <2>7 DEF Step
<1> QED
  BY <1>1, <1>5, <1>6

(* An empty entry stays in the registry no longer than its removal takes,   *)
(* whatever other workers do between the two halves of a removal            *)
(* (drop(entry); remove(channel), registry.rs).                             *)
THEOREM RegistryKeepsNoEmptyEntry == Spec => []NoLeakedEntries
<1>1. Init => NoLeakedEntries
  BY NoneAssumption DEF Init, NoLeakedEntries
<1>2. NoLeakedEntries /\ IndInv /\ [Next]_vars => NoLeakedEntries'
  <2>1. CASE Next
    BY <2>1, LeakStep DEF IndInv
  <2>2. CASE UNCHANGED vars
    BY <2>2 DEF vars, NoLeakedEntries, Removing, At
  <2> QED
    BY <2>1, <2>2
<1> QED
  BY <1>1, <1>2, IndInvariant, PTL DEF Spec

----------------------------------------------------------------------------
(* The subscriber counts. *)

(* A topic has finitely many subscribers: they are connections. *)
LEMMA SubscribersFinite ==
  ASSUME NEW x \in Topics
  PROVE  IsFiniteSet(Subscribers(x)) /\ Cardinality(Subscribers(x)) \in Nat
<1>1. Subscribers(x) \subseteq Conns
  BY DEF Subscribers
<1> QED
  BY <1>1, ConnsAssumption, FS_Subset, FS_CardinalityType

(* What a removal does to the number of subscribers. *)
LEMMA RemoveOne ==
  ASSUME NEW S, IsFiniteSet(S), NEW e \in S
  PROVE  /\ Cardinality(S) \in Nat \ {0}
         /\ Cardinality(S \ {e}) = Cardinality(S) - 1
<1>1. Cardinality(S) \in Nat
  BY FS_CardinalityType
<1>2. Cardinality(S) # 0
  BY FS_EmptySet
<1>3. Cardinality(S \ {e}) = Cardinality(S) - 1
  BY FS_RemoveElement
<1> QED
  BY <1>1, <1>2, <1>3

(* A count goes up together with a new subscriber, and down or away before
   or together with one that leaves. *)
LEMMA CountStep ==
  ASSUME TypeOK, TaskInv, MapsAgree, CountNeverOverstates, Next
  PROVE  CountNeverOverstates'
<1> USE NoneAssumption DEF TypeOK, At
<1>1. PICK t \in Threads :
          Step(t) \/ \E c \in Conns : Accept(t, c) \/ Request(t, c)
  BY DEF Next
<1> DEFINE c == task[t].conn
<1>2. ASSUME UNCHANGED <<subs, counts>>
      PROVE  CountNeverOverstates'
  BY <1>2 DEF CountNeverOverstates, Count, Subscribers
<1>3. ASSUME NEW x \in Topics, \A u \in Threads : subs'[u][x] = subs[u][x],
             counts'[x] = counts[x]
      PROVE  (Count(x) <= Cardinality(Subscribers(x)))'
  BY <1>3 DEF CountNeverOverstates, Count, Subscribers
<1>4. ASSUME NEW d \in Conns, Accept(t, d) \/ Request(t, d)
      PROVE  UNCHANGED <<subs, counts>>
  <2>1. CASE Accept(t, d)
    BY <2>1 DEF Accept
  <2>2. CASE Request(t, d)
    <3>1. PICK op, topics : Starts(t, d, op, topics) \/ Takes(t, d, op, topics)
      BY <2>2, RequestForms
    <3> QED
      BY <3>1 DEF Starts, Takes, TakeList, localVars
  <2> QED
    BY <1>4, <2>1, <2>2
<1>5. ASSUME NEW y \in Topics, SubscribeTopic(t, y)
      PROVE  CountNeverOverstates'
  <2>1. c \in Conns /\ home[c] = t
    BY <1>5 DEF SubscribeTopic, TaskInv
  <2>2. CASE c \in subs[t][y]
    <3>1. UNCHANGED counts /\ subs' = subs
      BY <1>5, <2>2 DEF SubscribeTopic
    <3> QED
      BY <1>2, <3>1
  <2>3. CASE c \notin subs[t][y]
    <3>1. c \notin Subscribers(y)
      BY <2>1, <2>3 DEF Subscribers, MapsAgree
    <3>2. Subscribers(y)' = Subscribers(y) \cup {c}
      BY <1>5, <2>1 DEF SubscribeTopic, Subscribers
    <3>3. Cardinality(Subscribers(y)') = Cardinality(Subscribers(y)) + 1
      BY <3>1, <3>2, SubscribersFinite, FS_AddElement
    <3>4. counts'[y] = Count(y) + 1
      BY <1>5, <2>3 DEF SubscribeTopic
    <3>5. Count(y) \in Nat
      BY DEF Count
    <3>6. (Count(y) <= Cardinality(Subscribers(y)))'
      BY <3>3, <3>4, <3>5, SubscribersFinite DEF CountNeverOverstates, Count
    <3>7. \A x \in Topics \ {y} : /\ \A u \in Threads : subs'[u][x] = subs[u][x]
                                  /\ counts'[x] = counts[x]
      BY <1>5 DEF SubscribeTopic
    <3> QED
      BY <1>3, <3>6, <3>7 DEF CountNeverOverstates
  <2> QED
    BY <2>2, <2>3
<1>6. ASSUME NEW y \in Topics, UnsubscribeTopic(t, y)
      PROVE  CountNeverOverstates'
  <2>1. c \in Conns /\ home[c] = t
    BY <1>6 DEF UnsubscribeTopic, TaskInv
  <2>2. CASE c \notin subs[t][y]
    <3>1. UNCHANGED counts /\ subs' = subs
      BY <1>6, <2>2 DEF UnsubscribeTopic
    <3> QED
      BY <1>2, <3>1
  <2>3. CASE c \in subs[t][y]
    <3>1. \A u \in Threads \ {t} : c \notin subs[u][y]
      BY <2>1 DEF MapsAgree
    <3>2. c \in Subscribers(y)
      BY <2>1, <2>3 DEF Subscribers
    <3>3. Subscribers(y)' = Subscribers(y) \ {c}
      BY <1>6, <2>1, <3>1 DEF UnsubscribeTopic, Subscribers
    <3>4. Cardinality(Subscribers(y)') = Cardinality(Subscribers(y)) - 1
      BY <3>2, <3>3, SubscribersFinite, RemoveOne
    <3>5. Cardinality(Subscribers(y)) \in Nat \ {0}
      BY <3>2, SubscribersFinite, RemoveOne
    <3>6. counts'[y] = Decremented(y)
      BY <1>6, <2>3 DEF UnsubscribeTopic
    <3>7. Count(y)' <= Cardinality(Subscribers(y)) - 1
      <4>1. Count(y) <= Cardinality(Subscribers(y))
        BY DEF CountNeverOverstates
      <4>2. CASE counts[y] = None \/ counts[y] = 0
        <5>1. Count(y)' = 0
          BY <3>6, <4>2 DEF Count, Decremented
        <5> QED
          BY <3>5, <5>1
      <4>3. CASE counts[y] \in Nat \ {0}
        <5>1. Count(y) = counts[y]
          BY <4>3 DEF Count
        <5>2. Count(y)' = counts[y] - 1
          BY <3>6, <4>3 DEF Count, Decremented
        <5> QED
          BY <3>5, <4>1, <4>3, <5>1, <5>2
      <4> QED
        BY <4>2, <4>3
    <3>8. \A x \in Topics \ {y} : /\ \A u \in Threads : subs'[u][x] = subs[u][x]
                                  /\ counts'[x] = counts[x]
      BY <1>6 DEF UnsubscribeTopic
    <3> QED
      BY <1>3, <3>4, <3>7, <3>8 DEF CountNeverOverstates
  <2> QED
    BY <2>2, <2>3
<1>7. ASSUME DropCount(t)
      PROVE  CountNeverOverstates'
  <2>1. UNCHANGED subs
    BY <1>7 DEF DropCount, localVars
  <2>2. \A x \in Topics : counts'[x] = counts[x] \/ counts'[x] = None
    BY <1>7 DEF DropCount
  <2>3. \A x \in Topics : Subscribers(x)' = Subscribers(x)
    BY <2>1 DEF Subscribers
  <2> QED
    BY <2>2, <2>3, SubscribersFinite DEF CountNeverOverstates, Count
<1>8. ASSUME AddInterest(t) \/ RemInterest(t) \/ DropInterest(t)
                \/ EndCommand(t) \/ EndDrop(t)
      PROVE  UNCHANGED <<subs, counts>>
  BY <1>8 DEF AddInterest, RemInterest, DropInterest, EndCommand, EndDrop,
              localVars
<1> QED
  BY <1>1, <1>2, <1>4, <1>5, <1>6, <1>7, <1>8 DEF Step

(* However increments, decrements and key removals of several workers       *)
(* interleave, a count never exceeds the number of subscribers: what the    *)
(* windows of decrement_channel_subscribers lose is never claimed back.     *)
THEOREM CountsNeverOverstate == Spec => []CountNeverOverstates
<1>1. Init => CountNeverOverstates
  BY SubscribersFinite DEF Init, CountNeverOverstates, Count
<1>2. CountNeverOverstates /\ IndInv /\ [Next]_vars => CountNeverOverstates'
  <2>1. CASE Next
    BY <2>1, CountStep DEF IndInv
  <2>2. CASE UNCHANGED vars
    BY <2>2 DEF vars, CountNeverOverstates, Count, Subscribers
  <2> QED
    BY <2>1, <2>2
<1> QED
  BY <1>1, <1>2, IndInvariant, PTL DEF Spec

----------------------------------------------------------------------------
(* A topic used by one worker. *)

Touches(t, x) == task[t].pc \notin {"idle", "loop"} /\ task[t].topic = x

(* The history has every worker that could still change the registry's      *)
(* entries for a topic.                                                     *)
UsersKnown ==
    \A t \in Threads, x \in Topics :
        subs[t][x] # {} \/ Touches(t, x) => t \in usedBy[x]

(* What a worker is about to remove is not needed by itself; its own tables *)
(* do not change meanwhile.                                                 *)
Unneeded(t) ==
    task[t].pc \in {"remInterest", "dropInterest"} => subs[t][task[t].topic] = {}

ExactInv ==
    /\ usedBy = [x \in Topics |-> usedBy[x]]
    /\ UsersKnown
    /\ \A t \in Threads : Unneeded(t)
    /\ \A t \in Threads, x \in Topics :
          (usedBy[x] \subseteq {t} /\ At(t, "dropCount") /\ task[t].topic = x) => Count(x) = 0
    /\ ExactForOneWorker

(* What each step changes of the tables of a topic. *)
UntouchedTopic(x) ==
    /\ \A t \in Threads : subs'[t][x] = subs[t][x]
    /\ interest'[x] = interest[x] /\ counts'[x] = counts[x]

(* A worker takes a step, by what it does to the tables. *)
Acts(t) ==
    /\ \A u \in Threads \ {t} : task'[u] = task[u] /\ subs'[u] = subs[u]
    /\ \/ \E x \in Topics : SubscribeTopic(t, x) \/ UnsubscribeTopic(t, x)
       \/ AddInterest(t) \/ DropCount(t) \/ RemInterest(t) \/ DropInterest(t)
       \/ /\ UNCHANGED <<subs, interest, counts>>
          /\ task'[t].pc \in {"idle", "loop"}
          /\ task[t].pc \in {"idle", "loop"}

LEMMA SomebodyActs ==
  ASSUME TypeOK, TaskInv, Next
  PROVE  \E t \in Threads : Acts(t)
<1>1. PICK t \in Threads : Step(t) \/ \E c \in Conns : Accept(t, c) \/ Request(t, c)
  BY DEF Next
<1>2. \A u \in Threads \ {t} : task'[u] = task[u]
  BY <1>1, OneTask DEF TypeOK
<1>3. ASSUME NEW c \in Conns, Accept(t, c) \/ Request(t, c)
      PROVE  /\ UNCHANGED <<subs, interest, counts>>
             /\ task'[t].pc \in {"idle", "loop"} /\ task[t].pc \in {"idle", "loop"}
  <2>1. CASE Accept(t, c)
    BY <2>1 DEF Accept, At
  <2>2. CASE Request(t, c)
    <3>1. PICK op, topics : Starts(t, c, op, topics) \/ Takes(t, c, op, topics)
      BY <2>2, RequestForms
    <3>. QED BY <3>1 DEF Starts, Takes, TakeList, Begin, At, Task, localVars, TypeOK
  <2>. QED BY <1>3, <2>1, <2>2
<1>4. ASSUME EndCommand(t) \/ EndDrop(t)
      PROVE  /\ UNCHANGED <<subs, interest, counts>>
             /\ task'[t].pc \in {"idle", "loop"} /\ task[t].pc \in {"idle", "loop"}
  BY <1>4 DEF EndCommand, EndDrop, At, NoTask, Task, TypeOK
<1>5. ASSUME NEW x \in Topics, SubscribeTopic(t, x) \/ UnsubscribeTopic(t, x)
      PROVE  \A u \in Threads \ {t} : subs'[u] = subs[u]
  BY <1>5 DEF SubscribeTopic, UnsubscribeTopic, TypeOK
<1>6. ASSUME AddInterest(t) \/ DropCount(t) \/ RemInterest(t) \/ DropInterest(t)
      PROVE  UNCHANGED subs
  BY <1>6 DEF AddInterest, DropCount, RemInterest, DropInterest, localVars
<1>. QED BY <1>1, <1>2, <1>3, <1>4, <1>5, <1>6 DEF Step, Acts

LEMMA UsersStep ==
  ASSUME IndInv, ExactInv, Next,
         usedBy' = [x \in Topics |-> usedBy[x] \cup {t \in Threads : subs'[t][x] # {}}]
  PROVE  UsersKnown' /\ \A t \in Threads : Unneeded(t)'
<1>. USE DEF At, Task, Acts
<1>i. TypeOK /\ TaskInv
  BY DEF IndInv
<1>1. PICK t \in Threads : Acts(t)
  BY <1>i, SomebodyActs
<1>2. \A u \in Threads, x \in Topics : /\ usedBy[x] \subseteq usedBy'[x]
                                       /\ subs'[u][x] # {} => u \in usedBy'[x]
  OBVIOUS
<1>3. \A u \in Threads \ {t}, x \in Topics : Touches(u, x)' => u \in usedBy'[x]
  BY <1>1, <1>2 DEF Touches, ExactInv, UsersKnown
<1>4. \A u \in Threads \ {t} : Unneeded(u)'
  BY <1>1 DEF Unneeded, ExactInv
<1>5. (\A x \in Topics : Touches(t, x)' => t \in usedBy'[x]) /\ Unneeded(t)'
  <2>1. CASE \E y \in Topics : SubscribeTopic(t, y)
    <3>1. PICK y \in Topics : SubscribeTopic(t, y)
      BY <2>1
    <3>2. /\ task'[t].pc \in {"addInterest", "loop"} /\ task'[t].topic = y
          /\ subs'[t][y] # {}
      BY <3>1, <1>i DEF SubscribeTopic, TypeOK
    <3>. QED BY <3>2, <1>2 DEF Touches, Unneeded
  <2>2. CASE \E y \in Topics : UnsubscribeTopic(t, y)
    <3>1. PICK y \in Topics : UnsubscribeTopic(t, y)
      BY <2>2
    <3>2. /\ task'[t].topic = y
          /\ task'[t].pc \in {"dropCount", "remInterest", "loop"}
          /\ task'[t].pc # "loop" => subs[t][y] # {}
          /\ task'[t].pc = "remInterest" => subs'[t][y] = {}
      BY <3>1, <1>i DEF UnsubscribeTopic, TypeOK
    <3>3. task'[t].pc # "loop" => t \in usedBy[y]
      BY <3>2 DEF ExactInv, UsersKnown
    <3>. QED BY <3>2, <3>3, <1>2 DEF Touches, Unneeded
  <2>3. CASE AddInterest(t) \/ DropCount(t) \/ RemInterest(t) \/ DropInterest(t)
    <3>1. /\ task[t].pc \notin {"idle", "loop"} /\ UNCHANGED subs
          /\ task'[t].topic = task[t].topic
          /\ task'[t].pc = "remInterest" => subs[t][task[t].topic] = {}
          /\ task'[t].pc = "dropInterest" => task[t].pc = "remInterest"
          /\ task'[t].pc \in {"remInterest", "dropInterest", "loop"}
      BY <2>3, <1>i DEF AddInterest, DropCount, RemInterest, DropInterest, GoTo, TypeOK,
                        localVars
    <3>. QED BY <3>1, <1>2 DEF Touches, Unneeded, ExactInv, UsersKnown
  <2>4. CASE task'[t].pc \in {"idle", "loop"}
    BY <2>4 DEF Touches, Unneeded
  <2>. QED BY <1>1, <2>1, <2>2, <2>3, <2>4
<1>. QED BY <1>2, <1>3, <1>4, <1>5 DEF UsersKnown

(* A worker other than the only user leaves the topic alone; the user's own *)
(* steps change count and subscribers together.                             *)
LEMMA ExactStep ==
  ASSUME IndInv, ExactInv, Next,
         usedBy' = [x \in Topics |-> usedBy[x] \cup {t \in Threads : subs'[t][x] # {}}]
  PROVE  ExactInv'
<1>. USE DEF At, Task, Acts
<1>i. TypeOK /\ TaskInv /\ MapsAgree
  BY DEF IndInv
<1>1. UsersKnown' /\ \A u \in Threads : Unneeded(u)'
  BY UsersStep
<1>2. PICK t \in Threads : Acts(t)
  BY <1>i, SomebodyActs
<1> DEFINE Good(u, x) ==
              /\ Count(x) = Cardinality(Subscribers(x))
              /\ subs[u][x] # {} => \/ u \in Interested(x)
                                    \/ At(u, "addInterest") /\ task[u].topic = x
              /\ At(u, "dropCount") /\ task[u].topic = x => Count(x) = 0
<1>g. \A u \in Threads, x \in Topics : usedBy[x] \subseteq {u} => Good(u, x)
  BY DEF ExactInv, ExactForOneWorker
<1>h. SUFFICES ASSUME NEW u \in Threads, NEW x \in Topics, usedBy'[x] \subseteq {u}
               PROVE  Good(u, x)'
  BY <1>1 DEF ExactInv, ExactForOneWorker
<1>3. usedBy[x] \subseteq {u} /\ Good(u, x)
  BY <1>h, <1>g
<1>4. \A v \in Threads \ {u} : subs[v][x] = {} /\ ~ Touches(v, x) /\ subs'[v][x] = {}
  BY <1>3, <1>h DEF ExactInv, UsersKnown
<1>5. ASSUME UntouchedTopic(x),
             task'[u] = task[u] \/ (~ Touches(u, x) /\ ~ Touches(u, x)')
      PROVE  Good(u, x)'
  <2>1. Subscribers(x)' = Subscribers(x) /\ Count(x)' = Count(x) /\ Interested(x)' = Interested(x)
    BY <1>5 DEF UntouchedTopic, Subscribers, Count, Interested
  <2>2. (subs[u][x] # {})' <=> subs[u][x] # {}
    BY <1>5 DEF UntouchedTopic
  <2>3. CASE task'[u] = task[u]
    BY <1>3, <2>1, <2>2, <2>3
  <2>4. CASE ~ Touches(u, x) /\ ~ Touches(u, x)'
    BY <1>3, <2>1, <2>2, <2>4 DEF Touches
  <2>. QED BY <1>5, <2>3, <2>4
<1>s. Subscribers(x) = subs[u][x] /\ subs[u][x] \subseteq Conns
  BY <1>4, <1>i DEF Subscribers, TypeOK
<1>t. Subscribers(x)' = subs'[u][x]
  <2>1. TypeOK'
    BY TypeStep DEF IndInv
  <2>2. subs'[u][x] \subseteq Conns
    BY <2>1 DEF TypeOK
  <2>. QED BY <2>2, <1>4 DEF Subscribers
<1>6. ASSUME NEW y \in Topics, SubscribeTopic(t, y) PROVE Good(u, x)'
  <2> DEFINE c == task[t].conn
  <2>1. /\ At(t, "loop") /\ c \in Conns
        /\ subs' = [subs EXCEPT ![t][y] = @ \cup {c}]
        /\ interest' = interest
        /\ counts' = IF c \in subs[t][y] THEN counts
                     ELSE [counts EXCEPT ![y] = Count(y) + 1]
        /\ task'[t].topic = y
        /\ task'[t].pc = IF subs[t][y] = {} THEN "addInterest" ELSE "loop"
    BY <1>6, <1>i DEF SubscribeTopic, TypeOK, TaskInv
  <2>2. CASE y # x
    <3>1. \A v \in Threads : subs'[v][x] = subs[v][x]
      BY <2>1, <2>2, <1>2, <1>i DEF TypeOK
    <3>2. UntouchedTopic(x)
      BY <2>1, <2>2, <3>1, <1>i DEF UntouchedTopic, TypeOK
    <3>. QED BY <2>1, <2>2, <3>2, <1>2, <1>5 DEF Touches
  <2>3. CASE y = x
    <3>1. t = u
      BY <2>1, <2>3, <1>4, <1>i DEF TypeOK
    <3>2. CASE c \in subs[u][x]
      <4>1. subs'[u][x] = subs[u][x]
        BY <2>1, <2>3, <3>1, <3>2, <1>i DEF TypeOK
      <4>2. UntouchedTopic(x)
        BY <2>1, <2>3, <3>1, <3>2, <4>1, <1>2 DEF UntouchedTopic
      <4>3. ~ Touches(u, x) /\ ~ Touches(u, x)'
        BY <2>1, <2>3, <3>1, <3>2 DEF Touches
      <4>. QED BY <4>2, <4>3, <1>5
    <3>3. CASE c \notin subs[u][x]
      <4>1. Subscribers(x)' = Subscribers(x) \cup {c} /\ c \notin Subscribers(x)
        BY <2>1, <2>3, <3>1, <3>3, <1>s, <1>t, <1>i DEF TypeOK
      <4>2. Cardinality(Subscribers(x)') = Cardinality(Subscribers(x)) + 1
        BY <4>1, SubscribersFinite, FS_AddElement
      <4>3. counts'[x] = Count(x) + 1 /\ Count(x) \in Nat
        BY <2>1, <2>3, <3>1, <3>3, <1>i DEF Count, TypeOK
      <4>4. Count(x)' = Count(x) + 1
        BY <4>3, NoneAssumption DEF Count
      <4>5. subs[u][x] # {} => u \in Interested(x)
        BY <2>1, <3>1, <1>3
      <4>. QED BY <2>1, <2>3, <3>1, <4>2, <4>4, <4>5, <1>3 DEF Interested
    <3>. QED BY <3>2, <3>3
  <2>. QED BY <2>2, <2>3
<1>7. ASSUME NEW y \in Topics, UnsubscribeTopic(t, y) PROVE Good(u, x)'
  <2> DEFINE c == task[t].conn
  <2>1. /\ At(t, "loop")
        /\ subs' = [subs EXCEPT ![t][y] = @ \ {c}]
        /\ interest' = interest
        /\ counts' = IF c \in subs[t][y] THEN [counts EXCEPT ![y] = Decremented(y)]
                     ELSE counts
        /\ task'[t].topic = y
        /\ c \notin subs[t][y] => task'[t].pc = "loop"
        /\ task'[t].pc = "dropCount" => Decremented(y) = 0
        /\ task'[t].pc # "addInterest"
    BY <1>7, <1>i DEF UnsubscribeTopic, TypeOK
  <2>2. CASE y # x
    <3>1. \A v \in Threads : subs'[v][x] = subs[v][x]
      BY <2>1, <2>2, <1>2, <1>i DEF TypeOK
    <3>2. UntouchedTopic(x)
      BY <2>1, <2>2, <3>1, <1>i DEF UntouchedTopic, TypeOK
    <3>. QED BY <2>1, <2>2, <3>2, <1>2, <1>5 DEF Touches
  <2>3. CASE y = x /\ c \notin subs[t][x]
    <3>1. \A v \in Threads : subs'[v][x] = subs[v][x]
      <4>1. subs'[t][x] = subs[t][x]
        BY <2>1, <2>3, <1>i DEF TypeOK
      <4>. QED BY <4>1, <1>2
    <3>2. UntouchedTopic(x)
      BY <2>1, <2>3, <3>1 DEF UntouchedTopic
    <3>3. task'[t].pc = "loop" /\ task[t].pc = "loop"
      BY <2>1, <2>3
    <3>. QED BY <3>2, <3>3, <1>2, <1>5 DEF Touches
  <2>4. CASE y = x /\ c \in subs[t][x]
    <3>1. t = u
      BY <2>4, <1>4
    <3>2. Subscribers(x)' = Subscribers(x) \ {c} /\ c \in Subscribers(x)
      BY <2>1, <2>4, <3>1, <1>s, <1>t, <1>i DEF TypeOK
    <3>3. /\ Cardinality(Subscribers(x)') = Cardinality(Subscribers(x)) - 1
          /\ Cardinality(Subscribers(x)) \in Nat \ {0}
      BY <3>2, SubscribersFinite, RemoveOne
    <3>4. counts'[x] = Decremented(x)
      BY <2>1, <2>4, <3>1, <1>i DEF TypeOK
    <3>5. counts[x] \in Nat \ {0} /\ Count(x) = counts[x]
      BY <3>3, <1>3, <1>i DEF Count, TypeOK
    <3>6. counts'[x] = Count(x) - 1 /\ counts'[x] \in Nat
      BY <3>4, <3>5, NoneAssumption DEF Decremented
    <3>7. Count(x)' = Count(x) - 1
      BY <3>6, NoneAssumption DEF Count
    <3>8. task'[u].pc = "dropCount" => Count(x)' = 0
      BY <2>1, <2>4, <3>1, <3>4, <3>6, <3>7
    <3>9. subs'[u][x] # {} => u \in Interested(x)
      BY <2>1, <2>4, <3>1, <1>3
    <3>. QED BY <2>1, <2>4, <3>1, <3>3, <3>7, <3>8, <3>9, <1>3 DEF Interested
  <2>. QED BY <2>2, <2>3, <2>4
<1>8. ASSUME AddInterest(t) \/ DropCount(t) \/ RemInterest(t) \/ DropInterest(t)
      PROVE Good(u, x)'
  <2> DEFINE y == task[t].topic
  <2>1. /\ task[t].pc \notin {"idle", "loop"} /\ subs' = subs /\ y \in Topics
        /\ task'[t].topic = y /\ task'[t].pc \notin {"addInterest", "dropCount"}
        /\ \A z \in Topics \ {y} : interest'[z] = interest[z] /\ counts'[z] = counts[z]
    BY <1>8, <1>i DEF AddInterest, DropCount, RemInterest, DropInterest, GoTo, TypeOK,
                      TaskInv, localVars
  <2>2. CASE y # x
    BY <2>1, <2>2, <1>2, <1>5 DEF UntouchedTopic, Touches
  <2>3. CASE y = x
    <3>1. t = u
      BY <2>1, <2>3, <1>4 DEF Touches
    <3>2. Subscribers(x)' = Subscribers(x)
      BY <2>1 DEF Subscribers
    <3>3. Count(x)' = Count(x)
      <4>1. CASE DropCount(t)
        <5>1. counts'[x] = None /\ Count(x) = 0
          BY <4>1, <2>3, <3>1, <1>3, <1>i DEF DropCount, TypeOK
        <5>. QED BY <5>1 DEF Count
      <4>2. CASE AddInterest(t) \/ RemInterest(t) \/ DropInterest(t)
        BY <4>2 DEF AddInterest, RemInterest, DropInterest, Count
      <4>. QED BY <1>8, <4>1, <4>2
    <3>4. subs[u][x] # {} => u \in Interested(x)'
      <4>1. CASE AddInterest(t)
        <5>1. interest'[x] = Interested(x) \cup {u}
          BY <4>1, <2>3, <3>1, <1>i DEF AddInterest, TypeOK
        <5>2. interest'[x] # None
          BY <5>1, <1>i, NoneAssumption DEF Interested, TypeOK
        <5>. QED BY <5>1, <5>2 DEF Interested
      <4>2. CASE DropCount(t)
        BY <4>2, <3>1, <1>3 DEF DropCount, Interested
      <4>3. CASE RemInterest(t) \/ DropInterest(t)
        BY <4>3, <2>3, <3>1 DEF RemInterest, DropInterest, ExactInv, Unneeded
      <4>. QED BY <1>8, <4>1, <4>2, <4>3
    <3>. QED BY <2>1, <3>1, <3>2, <3>3, <3>4, <1>3
  <2>. QED BY <2>2, <2>3
<1>9. ASSUME UNCHANGED <<subs, interest, counts>>, task'[t].pc \in {"idle", "loop"},
             task[t].pc \in {"idle", "loop"}
      PROVE  Good(u, x)'
  <2>1. UntouchedTopic(x)
    BY <1>9 DEF UntouchedTopic
  <2>. QED BY <1>2, <1>5, <1>9, <2>1 DEF Touches
<1>. QED BY <1>2, <1>6, <1>7, <1>8, <1>9

(* As long as only one worker has had subscribers for a topic, the topic's  *)
(* count is exact and the worker is registered whenever a subscription is   *)
(* complete: only topics shared by workers meet the windows of              *)
(* decrement_channel_subscribers and remove_channel_interest (registry.rs). *)
THEOREM OneWorkerIsExact == HistorySpec => []ExactForOneWorker
<1>1. HistoryInit => Init /\ ExactInv
  <2>. SUFFICES ASSUME HistoryInit PROVE ExactInv
    BY DEF HistoryInit
  <2>1. \A x \in Topics : Subscribers(x) = {}
    BY DEF HistoryInit, Init, Subscribers
  <2>2. /\ \A t \in Threads : task[t].pc = "idle" /\ \A x \in Topics : subs[t][x] = {}
        /\ usedBy = [x \in Topics |-> usedBy[x]]
    BY DEF HistoryInit, Init, NoTask, Task
  <2>3. \A x \in Topics : Count(x) = 0 /\ Cardinality(Subscribers(x)) = 0
    BY <2>1, FS_EmptySet DEF HistoryInit, Init, Count
  <2>4. UsersKnown /\ \A t \in Threads : Unneeded(t)
    BY <2>2 DEF UsersKnown, Unneeded, Touches
  <2>5. ExactForOneWorker
    BY <2>2, <2>3 DEF ExactForOneWorker
  <2>. QED BY <2>2, <2>4, <2>5 DEF ExactInv, At
<1>2. IndInv /\ ExactInv /\ [HistoryNext]_historyVars => ExactInv'
  <2>1. CASE HistoryNext
    BY <2>1, ExactStep DEF HistoryNext
  <2>2. ASSUME IndInv, ExactInv, UNCHANGED historyVars PROVE ExactInv'
    <3>1. UNCHANGED <<subs, interest, counts, task, usedBy>>
      BY <2>2 DEF historyVars, vars
    <3>2. UsersKnown' /\ \A t \in Threads : Unneeded(t)'
      BY <2>2, <3>1 DEF ExactInv, UsersKnown, Unneeded, Touches
    <3>3. /\ \A x : Count(x)' = Count(x) /\ Subscribers(x)' = Subscribers(x)
                    /\ Interested(x)' = Interested(x)
          /\ \A t, pc : At(t, pc)' <=> At(t, pc)
      BY <3>1 DEF Count, Subscribers, Interested, At
    <3>4. ExactForOneWorker'
      BY <2>2, <3>1, <3>3 DEF ExactInv, ExactForOneWorker
    <3>. QED BY <2>2, <3>1, <3>2, <3>3, <3>4 DEF ExactInv
  <2>. QED BY <2>1, <2>2
<1>3. [HistoryNext]_historyVars => [Next]_vars
  BY DEF HistoryNext, historyVars
<1>4. ExactInv => ExactForOneWorker
  BY DEF ExactInv
<1>. QED BY <1>1, <1>2, <1>3, <1>4, InitIndInv, IndStep, PTL DEF HistorySpec

----------------------------------------------------------------------------
(* Module PubSub. *)

Broadcasts == [kind : {"publish", "pattern"}, id : Nat, exclude : Threads]

Messages == [kind : {"message"}, topic : Channels, id : Nat]
                \cup [kind : {"pmessage"}, topic : Patterns, id : Nat]

Publications == [channel : Channels, from : Threads, workers : SUBSET Threads]

BusyStates == [pc : {"none", "publish", "inbox"}, id : Nat,
               targets : SUBSET Threads, unread : SUBSET Patterns,
               ptargets : SUBSET Threads]

PubTypeOK ==
    /\ inbox \in [Threads -> Seq(Broadcasts)]
    /\ busy \in [Threads -> BusyStates]
    /\ received \in [Conns -> Seq(Messages)]
    /\ accepted \in Nat
    /\ log \in Seq(Publications)
    /\ owed \subseteq Nat \X Conns
    /\ dropped \subseteq Nat \X Threads

(* A list that a command walks is finite, as the one it was taken from.     *)
ListsFinite ==
    \A t \in Threads : task[t].op \in {"unsubscribe_all", "drop"}
                           => IsFiniteSet(task[t].todo)

Publishes(t, id) == busy[t].pc = "publish" /\ busy[t].id = id

(* A broadcast and a PUBLISH in progress belong to the log, and the         *)
(* broadcast for the channel goes to the workers registered for it.         *)
Sent == \A u \in Threads : \A i \in DOMAIN inbox[u] :
            /\ inbox[u][i].id \in DOMAIN log
            /\ inbox[u][i].exclude = log[inbox[u][i].id].from
            /\ inbox[u][i].kind = "publish" => u \in log[inbox[u][i].id].workers

Publishing == \A t \in Threads : busy[t].pc = "publish" =>
                  /\ busy[t].id \in DOMAIN log /\ log[busy[t].id].from = t
                  /\ busy[t].targets \subseteq log[busy[t].id].workers

(* A worker is sent a broadcast once. *)
InboxOnce == \A u \in Threads : \A i, j \in DOMAIN inbox[u] :
                 inbox[u][i] = inbox[u][j] => i = j

Unsent == \A t, u \in Threads : \A i \in DOMAIN inbox[u] :
              Publishes(t, inbox[u][i].id) =>
                  /\ inbox[u][i].kind = "publish" => u \notin busy[t].targets
                  /\ inbox[u][i].kind = "pattern" =>
                         u \notin busy[t].ptargets /\ busy[t].unread = {}

(* An inbox holds the broadcasts of a worker in the order of publication.   *)
InboxOrdered ==
    /\ \A u \in Threads : \A i, j \in DOMAIN inbox[u] :
          (i < j /\ inbox[u][i].exclude = inbox[u][j].exclude)
              => inbox[u][i].id <= inbox[u][j].id
    /\ \A t, u \in Threads : \A i \in DOMAIN inbox[u] :
          (busy[t].pc = "publish" /\ inbox[u][i].exclude = t)
              => inbox[u][i].id <= busy[t].id

TrafficInv == PubTypeOK /\ Sent /\ Publishing /\ InboxOnce /\ Unsent /\ InboxOrdered

(* What a connection has received belongs to the log. *)
Known == \A c \in Conns : /\ home[c] = None => received[c] = <<>>
                          /\ \A i \in DOMAIN received[c] :
                                received[c][i].id \in DOMAIN log

(* It is older than what is on its way. *)
NotAhead ==
    \A c \in Conns, from \in Threads : \A i \in DOMAIN received[c] :
        log[received[c][i].id].from = from =>
            /\ busy[from].pc = "publish" => received[c][i].id <= busy[from].id
            /\ \A t \in Threads \ {from} : \A j \in DOMAIN inbox[t] :
                  (home[c] = t /\ inbox[t][j].exclude = from)
                      => received[c][i].id <= inbox[t][j].id

(* The broadcast for the patterns is on its way to a worker. *)
PatternInFlight(id, t) ==
    \/ \E i \in DOMAIN inbox[t] :
          /\ inbox[t][i].kind = "pattern"
          /\ inbox[t][i].id = id
          /\ inbox[t][i].exclude # t
    \/ \E u \in Threads \ {t} : /\ Publishes(u, id)
                                /\ t \in busy[u].ptargets \/ busy[u].unread # {}

(* How often a message stands in a sequence: as often as one delivery       *)
(* writes it, or twice that often.                                          *)
Places(s, x)   == {i \in DOMAIN s : s[i] = x}
Number(s, x)   == Cardinality(Places(s, x))
Absent(s, x)   == \A i \in DOMAIN s : s[i] # x
Once(s, x, w)  == Number(s, x) \in {0, w}
Twice(s, x, w) == Number(s, x) \in {0, w, 2 * w}

(* How often one delivery writes a message. *)
Weight(x) == IF x.kind = "message" THEN 1
             ELSE Ways[<<x.topic, log[x.id].channel>>]

(* Another worker than the publisher's, which is sent both broadcasts. *)
Both(id, t) == t \in log[id].workers /\ t # log[id].from

(* The copies of a message that a connection has, and those still to come.  *)
Copied(c, x, t) ==
    /\ x.kind = "message" =>
          /\ Once(received[c], x, Weight(x))
          /\ InFlight(x.id, t) => Absent(received[c], x)
    /\ x.kind = "pmessage" =>
          /\ Twice(received[c], x, Weight(x))
          /\ InFlight(x.id, t) \/ PatternInFlight(x.id, t) \/ ~ Both(x.id, t)
                 => Once(received[c], x, Weight(x))
          /\ InFlight(x.id, t) /\ PatternInFlight(x.id, t) => Absent(received[c], x)
          /\ InFlight(x.id, t) \/ PatternInFlight(x.id, t)
                 => Both(x.id, t) \/ Absent(received[c], x)

CopiesInv == \A c \in Conns, x \in Messages, t \in Threads :
                 (home[c] = t /\ x.id \in DOMAIN log) => Copied(c, x, t)

DeliveryInv == Known /\ NotAhead /\ PublisherOrder /\ CopiesInv

PubInv == IndInv /\ ListsFinite /\ TrafficInv /\ DeliveryInv

----------------------------------------------------------------------------
(* SetToSeq lists every element of a finite set, once. *)
LEMMA Listing ==
    ASSUME NEW S, IsFiniteSet(S)
    PROVE  /\ SetToSeq(S) \in Seq(S)
           /\ \A i, j \in DOMAIN SetToSeq(S) :
                  SetToSeq(S)[i] = SetToSeq(S)[j] => i = j
           /\ \A x \in S : \E i \in DOMAIN SetToSeq(S) : SetToSeq(S)[i] = x
<1>1. Cardinality(S) \in Nat /\ ExistsBijection(1 .. Cardinality(S), S)
  BY FS_CardinalityType
<1>2. \E f \in [1 .. Cardinality(S) -> S] : IsInjective(f)
  BY <1>1 DEF ExistsBijection, Bijection, Injection
<1>3. /\ SetToSeq(S) \in [1 .. Cardinality(S) -> S]
      /\ IsInjective(SetToSeq(S))
  BY <1>2 DEF SetToSeq
<1>4. SetToSeq(S) \in Injection(1 .. Cardinality(S), S)
  BY <1>3 DEF Injection
<1>5. IsFiniteSet(1 .. Cardinality(S))
      /\ Cardinality(1 .. Cardinality(S)) = Cardinality(S)
  BY <1>1, FS_Interval
<1>6. SetToSeq(S) \in Surjection(1 .. Cardinality(S), S)
  BY <1>4, <1>5, FS_Injection
<1>. QED BY <1>1, <1>3, <1>6 DEF IsInjective, Surjection

(* Of pairs whose second part counts from 1 to W[p], the list has as many   *)
(* for each p.                                                              *)
Pairs(P, W) == UNION {{p} \X (1 .. W[p]) : p \in P}

LEMMA PairsListed ==
    ASSUME NEW P, IsFiniteSet(P), NEW W, \A p \in P : W[p] \in Nat,
           NEW found, found = SetToSeq(Pairs(P, W))
    PROVE  /\ found \in Seq(Pairs(P, W))
           /\ \A i \in DOMAIN found : found[i][1] \in P
           /\ \A p \in P : Cardinality({i \in DOMAIN found : found[i][1] = p}) = W[p]
<1>. DEFINE S == Pairs(P, W)
<1>1. /\ \A e \in S : /\ e[1] \in P /\ e[2] \in 1 .. W[e[1]]
                      /\ e = <<e[1], e[2]>>
      /\ \A p \in P : \A k \in 1 .. W[p] : <<p, k>> \in S
  BY DEF Pairs
<1>2. IsFiniteSet(S)
  <2>. DEFINE F == {{p} \X (1 .. W[p]) : p \in P}
              f == [p \in P |-> {p} \X (1 .. W[p])]
  <2>1. f \in Surjection(P, F)
    BY DEF Surjection
  <2>2. ASSUME NEW p \in P PROVE IsFiniteSet({p} \X (1 .. W[p]))
    <3>1. IsFiniteSet({p}) /\ IsFiniteSet(1 .. W[p])
      <4>1. W[p] \in Int /\ 1 \in Int
        OBVIOUS
      <4>. QED BY <4>1, FS_Singleton, FS_Interval
    <3>. QED BY <3>1, FS_Product
  <2>3. \A T \in F : IsFiniteSet(T)
    BY <2>2
  <2>. HIDE DEF f, F
  <2>4. IsFiniteSet(UNION F)
    BY <2>1, <2>3, FS_Surjection, FS_UNION
  <2>. QED BY <2>4 DEF F, Pairs
<1>. HIDE DEF S
<1>3. /\ found \in Seq(S)
      /\ \A i, j \in DOMAIN found : found[i] = found[j] => i = j
      /\ \A e \in S : \E i \in DOMAIN found : found[i] = e
  BY <1>2, Listing DEF S
<1>4. /\ \A i \in DOMAIN found : found[i] \in S
      /\ IsFiniteSet(DOMAIN found)
  <2>1. DOMAIN found = 1 .. Len(found) /\ Len(found) \in Nat
    BY <1>3, LenProperties
  <2>2. IsFiniteSet(1 .. Len(found))
    BY <2>1, FS_Interval
  <2>. QED BY <1>3, <2>1, <2>2, ElementOfSeq
<1>5. ASSUME NEW p \in P
      PROVE  Cardinality({i \in DOMAIN found : found[i][1] = p}) = W[p]
  <2>. DEFINE I == {i \in DOMAIN found : found[i][1] = p}
              b == [i \in I |-> found[i][2]]
  <2>1. IsFiniteSet(I)
    BY <1>4, FS_Subset
  <2>2. b \in [I -> 1 .. W[p]]
    BY <1>1, <1>4
  <2>3. ASSUME NEW i \in I, NEW j \in I, b[i] = b[j] PROVE i = j
    <3>1. found[i] = <<p, b[i]>> /\ found[j] = <<p, b[j]>>
      BY <1>1, <1>4
    <3>. QED BY <1>3, <2>3, <3>1
  <2>4. \A k \in 1 .. W[p] : \E i \in I : b[i] = k
    <3>1. ASSUME NEW k \in 1 .. W[p] PROVE \E i \in I : b[i] = k
      <4>1. PICK i \in DOMAIN found : found[i] = <<p, k>>
        BY <1>1, <1>3
      <4>2. <<p, k>>[1] = p /\ <<p, k>>[2] = k
        OBVIOUS
      <4>3. i \in I /\ b[i] = k
        BY <4>1, <4>2
      <4>. QED BY <4>3
    <3>. QED BY <3>1
  <2>5. b \in Bijection(I, 1 .. W[p])
    BY <2>2, <2>3, <2>4 DEF Bijection, Injection, Surjection, IsInjective
  <2>. HIDE DEF b, I
  <2>6. Cardinality(1 .. W[p]) = Cardinality(I)
    BY <2>1, <2>5, FS_Bijection DEF ExistsBijection
  <2>7. Cardinality(1 .. W[p]) = W[p]
    BY FS_Interval
  <2>. QED BY <2>6, <2>7 DEF I
<1>. QED BY <1>1, <1>3, <1>4, <1>5 DEF S

(* Places are counted in numbers; what is joined counts as its parts do. *)
LEMMA NumberType ==
    ASSUME NEW S, NEW s \in Seq(S), NEW x
    PROVE  /\ IsFiniteSet(Places(s, x)) /\ Number(s, x) \in Nat
           /\ Absent(s, x) <=> Number(s, x) = 0
<1>1. IsFiniteSet(DOMAIN s)
  BY LenProperties, FS_Interval
<1>2. IsFiniteSet(Places(s, x))
  BY <1>1, FS_Subset DEF Places
<1>3. Number(s, x) = 0 <=> Places(s, x) = {}
  BY <1>2, FS_EmptySet DEF Number
<1>. QED BY <1>2, <1>3, FS_CardinalityType DEF Number, Absent, Places

LEMMA NumberAdds ==
    ASSUME NEW S, NEW s \in Seq(S), NEW m \in Seq(S), NEW x
    PROVE  Number(s \o m, x) = Number(s, x) + Number(m, x)
<1>. DEFINE A == Places(s, x)
            B == Places(m, x)
            C == {i \in DOMAIN (s \o m) : i > Len(s) /\ (s \o m)[i] = x}
            b == [i \in B |-> Len(s) + i]
<1>1. /\ s \o m \in Seq(S) /\ Len(s \o m) = Len(s) + Len(m)
      /\ \A i \in 1 .. Len(s) + Len(m) : (s \o m)[i] =
             IF i <= Len(s) THEN s[i] ELSE m[i - Len(s)]
  BY ConcatProperties
<1>2. /\ DOMAIN s = 1 .. Len(s) /\ DOMAIN m = 1 .. Len(m)
      /\ DOMAIN (s \o m) = 1 .. Len(s) + Len(m)
      /\ Len(s) \in Nat /\ Len(m) \in Nat
  BY <1>1, LenProperties
<1>3. Places(s \o m, x) = A \cup C /\ A \cap C = {}
  BY <1>1, <1>2 DEF Places
<1>4. b \in Bijection(B, C)
  <2>1. b \in [B -> C]
    BY <1>1, <1>2 DEF Places
  <2>2. \A i, j \in B : b[i] = b[j] => i = j
    BY <1>2 DEF Places
  <2>3. ASSUME NEW k \in C PROVE \E i \in B : b[i] = k
    <3>1. k - Len(s) \in B /\ Len(s) + (k - Len(s)) = k
      BY <1>1, <1>2 DEF Places
    <3>. QED BY <3>1
  <2>. QED BY <2>1, <2>2, <2>3 DEF Bijection, Injection, Surjection, IsInjective
<1>. HIDE DEF A, B, C, b
<1>5. IsFiniteSet(A) /\ IsFiniteSet(B)
  BY NumberType DEF A, B
<1>6. IsFiniteSet(C) /\ Cardinality(C) = Cardinality(B)
  BY <1>4, <1>5, FS_Bijection DEF ExistsBijection
<1>7. Cardinality(A \cup C) = Cardinality(A) + Cardinality(C) - Cardinality(A \cap C)
  BY <1>5, <1>6, FS_Union
<1>8. Cardinality(A) \in Nat /\ Cardinality(B) \in Nat /\ Cardinality(A \cap C) = 0
  BY <1>3, <1>5, FS_CardinalityType, FS_EmptySet
<1>. QED BY <1>3, <1>6, <1>7, <1>8 DEF Number, A, B

----------------------------------------------------------------------------
(* The tables of module Subscriptions. *)

(* The steps that are commands other than PUBLISH.                          *)
Other == Next /\ Bookkeeping

LEMMA OtherSteps ==
    ASSUME NEW t \in Threads,
           \/ CommandStep(t)
           \/ accepted + 1 \in Conns /\ Connect(t)
           \/ \E c \in Conns : Command(t, c)
    PROVE  Other /\ accepted' \in {accepted, accepted + 1}
BY DEF CommandStep, Connect, Command, Other, Next

(* The other steps leave the tables alone. *)
Sends == \/ \E t \in Threads, p \in Patterns : ReadPatternThreads(t, p)
         \/ \E t, u \in Threads : SendPublish(t, u) \/ SendPatternPublish(t, u)

LEMMA PubNextForms ==
    ASSUME PubNext
    PROVE  \/ Other /\ accepted' \in {accepted, accepted + 1}
           \/ /\ UNCHANGED <<vars, accepted>>
              /\ \/ Sends
                 \/ \E t \in Threads :
                       \/ DeliverLocal(t) \/ BeginInbox(t) \/ ProcessInbox(t)
                       \/ EndInbox(t)
                       \/ \E c \in Conns, ch \in Channels : BeginPublish(t, c, ch)
<1>1. PICK t \in Threads :
          \/ InProgress(t)
          \/ BeginInbox(t)
          \/ accepted + 1 \in Conns /\ Connect(t)
          \/ \E c \in Conns :
                \/ Command(t, c)
                \/ \E ch \in Channels : BeginPublish(t, c, ch)
  BY DEF PubNext
<1>2. CASE \/ CommandStep(t)
           \/ accepted + 1 \in Conns /\ Connect(t)
           \/ \E c \in Conns : Command(t, c)
  BY <1>2, OtherSteps
<1>3. CASE (\E p \in Patterns : ReadPatternThreads(t, p))
           \/ \E u \in Threads : SendPublish(t, u) \/ SendPatternPublish(t, u)
  BY <1>3 DEF Sends, ReadPatternThreads, SendPublish, SendPatternPublish
<1>4. CASE DeliverLocal(t) \/ BeginInbox(t) \/ ProcessInbox(t) \/ EndInbox(t)
  BY <1>4 DEF DeliverLocal, BeginInbox, ProcessInbox, EndInbox
<1>5. CASE \E c \in Conns, ch \in Channels : BeginPublish(t, c, ch)
  BY <1>5 DEF BeginPublish
<1>. QED BY <1>1, <1>2, <1>3, <1>4, <1>5 DEF InProgress

(* PUBLISH and the inboxes implement module Subscriptions, so that what is  *)
(* proved of the tables holds here.                                         *)
LEMMA TablesStep == IndInv /\ [PubNext]_allVars => IndInv'
<1>1. PubNext => [Next]_vars
  BY PubNextForms DEF Other
<1>2. UNCHANGED allVars => UNCHANGED vars
  BY DEF allVars
<1>. QED BY <1>1, <1>2, IndStep

(* A connection does not move from one worker to another. *)
LEMMA HomesKept ==
    ASSUME IndInv, Next, NEW c \in Conns
    PROVE  home'[c] = home[c] \/ home[c] = None \/ home'[c] = None
<1>. USE DEF IndInv, TypeOK, localVars
<1>1. ASSUME NEW t \in Threads, NEW d \in Conns, Accept(t, d)
      PROVE  home'[c] = home[c] \/ home[c] = None
  BY <1>1 DEF Accept
<1>2. ASSUME NEW t \in Threads, NEW d \in Conns, Request(t, d)
      PROVE  home' = home
  BY <1>2, RequestForms DEF Starts, Takes, TakeList
<1>3. ASSUME NEW t \in Threads, Step(t), ~ EndDrop(t)
      PROVE  home' = home
  BY <1>3 DEF Step, SubscribeTopic, UnsubscribeTopic, AddInterest, DropCount,
              RemInterest, DropInterest, EndCommand
<1>4. ASSUME NEW t \in Threads, EndDrop(t)
      PROVE  home'[c] = home[c] \/ home'[c] = None
  BY <1>4 DEF EndDrop
<1>. QED BY <1>1, <1>2, <1>3, <1>4 DEF Next

(* The lists that are walked stay finite. *)
LEMMA ListsStep == IndInv /\ ListsFinite /\ [Next]_vars => ListsFinite'
<1>. SUFFICES ASSUME IndInv, ListsFinite, [Next]_vars PROVE ListsFinite'
  OBVIOUS
<1>. USE DEF IndInv, TypeOK, ListsFinite, Task
<1>1. ASSUME NEW t \in Threads, NEW c \in Conns, Accept(t, c)
      PROVE  ListsFinite'
  BY <1>1 DEF Accept
<1>2. ASSUME NEW t \in Threads, NEW c \in Conns, Request(t, c)
      PROVE  ListsFinite'
  <2>1. PICK op, topics : Starts(t, c, op, topics) \/ Takes(t, c, op, topics)
    BY <1>2, RequestForms
  <2>2. CASE Starts(t, c, op, topics)
    BY <2>2 DEF Starts, Begin
  <2>3. CASE Takes(t, c, op, topics)
    <3>1. IsFiniteSet(topics)
      BY <2>3, FS_Subset DEF Takes, FiniteInv
    <3>. QED BY <2>3, <3>1 DEF Takes, TakeList, Begin
  <2>. QED BY <2>1, <2>2, <2>3
<1>3. ASSUME NEW t \in Threads, Step(t)
      PROVE  ListsFinite'
  <2>1. ASSUME NEW x \in Topics, SubscribeTopic(t, x) PROVE ListsFinite'
    BY <2>1 DEF SubscribeTopic
  <2>2. ASSUME NEW x \in Topics, UnsubscribeTopic(t, x) PROVE ListsFinite'
    <3>1. task[t].op \in {"unsubscribe_all", "drop"}
              => IsFiniteSet(task[t].todo \ {x})
      BY FS_Subset
    <3>. QED BY <2>2, <3>1 DEF UnsubscribeTopic
  <2>3. CASE AddInterest(t) \/ DropCount(t) \/ RemInterest(t) \/ DropInterest(t)
    BY <2>3 DEF AddInterest, DropCount, RemInterest, DropInterest, GoTo
  <2>4. CASE EndCommand(t) \/ EndDrop(t)
    BY <2>4 DEF EndCommand, EndDrop, NoTask
  <2>. QED BY <1>3, <2>1, <2>2, <2>3, <2>4 DEF Step
<1>4. CASE UNCHANGED vars
  BY <1>4 DEF vars
<1>. QED BY <1>1, <1>2, <1>3, <1>4 DEF Next

(* Whom a worker lists it has. *)
LEMMA ListedAtHome ==
    ASSUME IndInv, NEW t \in Threads, NEW c \in Conns, NEW x \in Topics,
           c \in subs[t][x]
    PROVE  home[c] = t
BY DEF IndInv, MapsAgree

(* A connection has finitely many patterns. *)
LEMMA PatternsFinite ==
    ASSUME IndInv, ListsFinite, NEW t \in Threads, NEW c \in Conns
    PROVE  IsFiniteSet({p \in Patterns : c \in subs[t][p]})
<1>1. IsFiniteSet(connTopics[c])
  BY DEF IndInv, FiniteInv
<1>2. CASE task[t].op \in {"unsubscribe_all", "drop"}
  <2>1. IsFiniteSet(connTopics[c] \cup task[t].todo)
    BY <1>1, <1>2, FS_Union DEF ListsFinite
  <2>2. {p \in Patterns : c \in subs[t][p]} \subseteq connTopics[c] \cup task[t].todo
    BY DEF IndInv, MapsAgree, Draining, Topics
  <2>. QED BY <2>1, <2>2, FS_Subset
<1>3. CASE task[t].op \notin {"unsubscribe_all", "drop"}
  <2>1. {p \in Patterns : c \in subs[t][p]} \subseteq connTopics[c]
    BY <1>3 DEF IndInv, MapsAgree, Draining, Topics
  <2>. QED BY <1>1, <2>1, FS_Subset
<1>. QED BY <1>2, <1>3

----------------------------------------------------------------------------
(* What a worker hands to its connections. *)

(* The copies handed over of one message.                                   *)
Handed(m, id) ==
    /\ m \in Seq(Messages)
    /\ \A i \in DOMAIN m : m[i].id = id
    /\ \A x \in Messages : x.id = id => Once(m, x, Weight(x))

LEMMA LogTypes ==
    ASSUME PubTypeOK, NEW id \in DOMAIN log
    PROVE  /\ id \in Nat /\ log[id] \in Publications /\ log[id].channel \in Channels
           /\ \A x \in Messages : x.id = id => Weight(x) \in Nat
<1>1. log \in Seq(Publications) /\ id \in 1 .. Len(log) /\ Len(log) \in Nat
  BY LenProperties DEF PubTypeOK
<1>2. log[id] \in Publications
  BY <1>1, ElementOfSeq
<1>3. log[id].channel \in Channels
  BY <1>2 DEF Publications
<1>4. ASSUME NEW x \in Messages, x.id = id PROVE Weight(x) \in Nat
  BY <1>3, <1>4, WaysAssumption DEF Messages, Weight
<1>. QED BY <1>1, <1>2, <1>3, <1>4

LEMMA PatternMessagesHanded ==
    ASSUME IndInv, ListsFinite, PubTypeOK, NEW t \in Threads, NEW c \in Conns,
           NEW id \in DOMAIN log
    PROVE  /\ Handed(PatternMessages(t, c, id), id)
           /\ \A i \in DOMAIN PatternMessages(t, c, id) :
                  PatternMessages(t, c, id)[i].kind = "pmessage"
<1>. DEFINE ch    == log[id].channel
            P     == {p \in Patterns : c \in subs[t][p]}
            W     == [p \in P |-> Ways[<<p, ch>>]]
            found == SetToSeq(Pairs(P, W))
            m     == PatternMessages(t, c, id)
<1>1. id \in Nat /\ ch \in Channels
  BY LogTypes
<1>2. \A p \in P : W[p] \in Nat /\ W[p] = Ways[<<p, ch>>]
  BY <1>1, WaysAssumption
<1>3. Pairs(P, W) = UNION {{p} \X (1 .. Ways[<<p, ch>>]) : p \in P}
  BY <1>2 DEF Pairs
<1>4. m = [i \in DOMAIN found |-> Message("pmessage", found[i][1], id)]
  BY <1>3 DEF PatternMessages
<1>5. P \subseteq Patterns /\ IsFiniteSet(P)
  BY PatternsFinite
<1>. HIDE DEF W, P, m
<1>6. /\ DOMAIN found = 1 .. Len(found) /\ Len(found) \in Nat
      /\ \A i \in DOMAIN found : found[i][1] \in P
      /\ \A p \in P : Cardinality({i \in DOMAIN found : found[i][1] = p}) = W[p]
  <2>1. /\ found \in Seq(Pairs(P, W))
        /\ \A i \in DOMAIN found : found[i][1] \in P
        /\ \A p \in P : Cardinality({i \in DOMAIN found : found[i][1] = p}) = W[p]
    <3>1. (\A p \in P : W[p] \in Nat) /\ IsFiniteSet(P)
      BY <1>2, <1>5
    <3>. QED BY <3>1, PairsListed
  <2>. QED BY <2>1, LenProperties
<1>. HIDE DEF found
<1>7. m \in [1 .. Len(found) -> Messages]
  BY <1>1, <1>4, <1>5, <1>6 DEF Message, Messages
<1>8. m \in Seq(Messages)
  BY <1>6, <1>7, SeqDef
<1>9. \A i \in DOMAIN m : m[i].id = id /\ m[i].kind = "pmessage"
  BY <1>4 DEF Message
<1>10. ASSUME NEW x \in Messages, x.id = id PROVE Once(m, x, Weight(x))
  <2>1. CASE x.kind = "message" \/ x.topic \notin P
    <3>1. Absent(m, x)
      BY <1>4, <1>6, <2>1 DEF Absent, Message
    <3>. QED BY <1>8, <3>1, NumberType DEF Once
  <2>2. CASE x.kind = "pmessage" /\ x.topic \in P
    <3>1. x = Message("pmessage", x.topic, id)
      BY <1>10, <2>2 DEF Messages, Message
    <3>2. \A i \in DOMAIN found : m[i] = x <=> found[i][1] = x.topic
      BY <1>4, <3>1 DEF Message
    <3>3. Places(m, x) = {i \in DOMAIN found : found[i][1] = x.topic}
      BY <1>4, <3>2 DEF Places
    <3>4. Number(m, x) = W[x.topic]
      BY <1>6, <2>2, <3>3 DEF Number
    <3>5. W[x.topic] = Weight(x)
      BY <1>2, <1>10, <2>2 DEF Weight
    <3>. QED BY <3>4, <3>5 DEF Once
  <2>3. x.kind \in {"message", "pmessage"}
    BY DEF Messages
  <2>. QED BY <2>1, <2>2, <2>3
<1>. QED BY <1>8, <1>9, <1>10 DEF Handed, m

LEMMA LocalMessagesHanded ==
    ASSUME IndInv, ListsFinite, PubTypeOK, NEW t \in Threads, NEW c \in Conns,
           NEW id \in DOMAIN log
    PROVE  Handed(LocalMessages(t, c, id), id)
<1>. DEFINE ch == log[id].channel
            y  == Message("message", ch, id)
            f  == IF c \in subs[t][ch] THEN <<y>> ELSE <<>>
            m  == PatternMessages(t, c, id)
<1>1. id \in Nat /\ ch \in Channels
  BY LogTypes
<1>2. y \in Messages /\ y.id = id /\ y.kind = "message"
  BY <1>1 DEF Message, Messages
<1>. HIDE DEF y
<1>3. /\ f \in Seq(Messages)
      /\ \A i \in DOMAIN f : f[i] = y
      /\ DOMAIN f \subseteq {1}
  BY <1>2
<1>4. Handed(m, id) /\ \A i \in DOMAIN m : m[i].kind = "pmessage"
  BY PatternMessagesHanded
<1>5. LocalMessages(t, c, id) = f \o m
  BY DEF LocalMessages, y
<1>. HIDE DEF f, m
<1>6. ASSUME NEW x \in Messages, x.id = id PROVE Once(f \o m, x, Weight(x))
  <2>1. /\ Number(f \o m, x) = Number(f, x) + Number(m, x)
        /\ Number(f, x) \in Nat /\ Number(m, x) \in Nat
        /\ Absent(f, x) => Number(f, x) = 0
        /\ Absent(m, x) => Number(m, x) = 0
    BY <1>3, <1>4, NumberAdds, NumberType DEF Handed
  <2>2. CASE x.kind = "pmessage"
    <3>1. Absent(f, x)
      BY <1>2, <1>3, <2>2 DEF Absent
    <3>2. Number(m, x) \in {0, Weight(x)}
      BY <1>4, <1>6 DEF Handed, Once
    <3>. QED BY <2>1, <3>1, <3>2 DEF Once
  <2>3. CASE x.kind = "message"
    <3>1. Absent(m, x)
      BY <1>4, <2>3 DEF Absent
    <3>2. Places(f, x) = {} \/ Places(f, x) = {1}
      BY <1>3 DEF Places
    <3>3. Number(f, x) \in {0, 1}
      BY <3>2, FS_EmptySet, FS_Singleton DEF Number
    <3>. QED BY <2>1, <2>3, <3>1, <3>3 DEF Once, Weight
  <2>4. x.kind \in {"message", "pmessage"}
    BY DEF Messages
  <2>. QED BY <2>2, <2>3, <2>4
<1>7. /\ f \o m \in Seq(Messages)
      /\ \A i \in DOMAIN (f \o m) :
            \/ i \in DOMAIN f /\ (f \o m)[i] = f[i]
            \/ i - Len(f) \in DOMAIN m /\ (f \o m)[i] = m[i - Len(f)]
  BY <1>3, <1>4, Concatenated DEF Handed
<1>8. \A i \in DOMAIN (f \o m) : (f \o m)[i].id = id
  BY <1>2, <1>3, <1>4, <1>7 DEF Handed
<1>. QED BY <1>5, <1>6, <1>7, <1>8 DEF Handed

(* A delivery appends what is handed over, at one worker. *)
LEMMA Delivered ==
    ASSUME PubTypeOK, NEW t \in Threads, NEW messages \in [Conns -> Seq(Messages)],
           DeliverTo(t, messages)
    PROVE  /\ received' \in [Conns -> Seq(Messages)]
           /\ \A c \in Conns : home[c] # t => received'[c] = received[c]
           /\ \A c \in Conns : home[c] = t =>
                  received'[c] = received[c] \o messages[c]
BY ConcatProperties DEF DeliverTo, PubTypeOK

----------------------------------------------------------------------------
(* The steps on the way of a message, by what they do to it. *)

(* What try_send does to the inboxes.                                       *)
LEMMA SentOff ==
    ASSUME PubTypeOK, NEW u \in Threads, NEW msg \in Broadcasts, TrySend(u, msg)
    PROVE  /\ inbox' \in [Threads -> Seq(Broadcasts)]
           /\ \A v \in Threads : \A i \in DOMAIN inbox[v] :
                  i \in DOMAIN inbox'[v] /\ inbox'[v][i] = inbox[v][i]
           /\ \A v \in Threads : \A i \in DOMAIN inbox'[v] :
                  \/ i \in DOMAIN inbox[v] /\ inbox'[v][i] = inbox[v][i]
                  \/ /\ v = u /\ inbox'[v][i] = msg /\ i \notin DOMAIN inbox[v]
                     /\ \A j \in DOMAIN inbox[v] : j < i
                     /\ \A j \in DOMAIN inbox'[v] : j # i => j \in DOMAIN inbox[v]
           /\ \/ \E i \in DOMAIN inbox'[u] : inbox'[u][i] = msg
              \/ dropped' = dropped \cup {<<msg.id, u>>}
           /\ dropped \subseteq dropped' /\ dropped' \subseteq dropped \cup {<<msg.id, u>>}
<1>1. inbox \in [Threads -> Seq(Broadcasts)]
  BY DEF PubTypeOK
<1>2. CASE Len(inbox[u]) < InboxCap
  <2>1. inbox' = [inbox EXCEPT ![u] = Append(inbox[u], msg)] /\ dropped' = dropped
    BY <1>2 DEF TrySend
  <2>2. /\ Append(inbox[u], msg) \in Seq(Broadcasts)
        /\ DOMAIN Append(inbox[u], msg) = DOMAIN inbox[u] \cup {Len(inbox[u]) + 1}
        /\ Append(inbox[u], msg)[Len(inbox[u]) + 1] = msg
        /\ \A i \in DOMAIN inbox[u] :
               Append(inbox[u], msg)[i] = inbox[u][i] /\ i < Len(inbox[u]) + 1
        /\ Len(inbox[u]) + 1 \notin DOMAIN inbox[u]
    BY <1>1, Appended
  <2>3. inbox'[u] = Append(inbox[u], msg) /\ \A v \in Threads \ {u} : inbox'[v] = inbox[v]
    BY <1>1, <2>1
  <2>. QED BY <1>1, <2>1, <2>2, <2>3
<1>3. CASE ~ (Len(inbox[u]) < InboxCap)
  BY <1>1, <1>3 DEF TrySend
<1>. QED BY <1>2, <1>3

(* One worker's PUBLISH gets on with its loops. *)
Advances(t, targets, unread, ptargets) ==
    /\ busy[t].pc = "publish"
    /\ busy' \in [Threads -> BusyStates]
    /\ \A u \in Threads \ {t} : busy'[u] = busy[u]
    /\ busy'[t] = Busy("publish", busy[t].id, targets, unread, ptargets)
    /\ UNCHANGED <<vars, received, accepted, log, owed>>

LEMMA BusyAdvances ==
    ASSUME NEW t \in Threads, busy \in [Threads -> BusyStates],
           NEW targets \in SUBSET Threads, NEW unread \in SUBSET Patterns,
           NEW ptargets \in SUBSET Threads, busy[t].pc = "publish",
           busy' = [busy EXCEPT ![t].targets = targets, ![t].unread = unread,
                                ![t].ptargets = ptargets],
           UNCHANGED <<vars, received, accepted, log, owed>>
    PROVE  Advances(t, targets, unread, ptargets)
<1>1. busy[t] = Busy("publish", busy[t].id, busy[t].targets, busy[t].unread,
                     busy[t].ptargets)
  BY DEF BusyStates, Busy
<1>2. busy'[t] = Busy("publish", busy[t].id, targets, unread, ptargets)
  BY <1>1 DEF Busy
<1>3. busy' = [busy EXCEPT ![t] =
                  Busy("publish", busy[t].id, targets, unread, ptargets)]
  BY <1>2
<1>4. Busy("publish", busy[t].id, targets, unread, ptargets) \in BusyStates
  BY DEF BusyStates, Busy
<1>. QED BY <1>3, <1>4 DEF Advances

LEMMA ReadAdvances ==
    ASSUME IndInv, PubTypeOK, NEW t \in Threads, NEW p \in Patterns,
           ReadPatternThreads(t, p)
    PROVE  /\ Advances(t, busy[t].targets, busy[t].unread \ {p},
                       busy[t].ptargets \cup Interested(p))
           /\ p \in busy[t].unread /\ UNCHANGED <<inbox, dropped>>
<1>1. Interested(p) \in SUBSET Threads
  BY DEF IndInv, TypeOK, Interested, Topics
<1>2. busy[t] \in BusyStates
  BY DEF PubTypeOK
<1>3. busy' = [busy EXCEPT ![t].targets = busy[t].targets,
                           ![t].unread = busy[t].unread \ {p},
                           ![t].ptargets = busy[t].ptargets \cup Interested(p)]
  BY <1>2 DEF PubTypeOK, BusyStates, ReadPatternThreads
<1>. QED BY <1>1, <1>2, <1>3, BusyAdvances
         DEF PubTypeOK, ReadPatternThreads, BusyStates

LEMMA SendAdvances ==
    ASSUME PubTypeOK, NEW t \in Threads, NEW u \in Threads, SendPublish(t, u)
    PROVE  /\ Advances(t, busy[t].targets \ {u}, {}, busy[t].ptargets)
           /\ Broadcast("publish", busy[t].id, t) \in Broadcasts
           /\ TrySend(u, Broadcast("publish", busy[t].id, t))
           /\ u \in busy[t].targets /\ busy[t].unread = {}
<1>1. Broadcast("publish", busy[t].id, t) \in Broadcasts
  BY DEF PubTypeOK, Broadcast, Broadcasts, BusyStates
<1>2. busy[t] \in BusyStates
  BY DEF PubTypeOK
<1>3. busy' = [busy EXCEPT ![t].targets = busy[t].targets \ {u},
                           ![t].unread = {},
                           ![t].ptargets = busy[t].ptargets]
  BY <1>2 DEF PubTypeOK, BusyStates, SendPublish
<1>. QED BY <1>1, <1>2, <1>3, BusyAdvances DEF PubTypeOK, SendPublish, BusyStates

LEMMA SendPatternAdvances ==
    ASSUME PubTypeOK, NEW t \in Threads, NEW u \in Threads, SendPatternPublish(t, u)
    PROVE  /\ Advances(t, {}, {}, busy[t].ptargets \ {u})
           /\ Broadcast("pattern", busy[t].id, t) \in Broadcasts
           /\ TrySend(u, Broadcast("pattern", busy[t].id, t))
           /\ u \in busy[t].ptargets /\ busy[t].unread = {} /\ busy[t].targets = {}
<1>1. Broadcast("pattern", busy[t].id, t) \in Broadcasts
  BY DEF PubTypeOK, Broadcast, Broadcasts, BusyStates
<1>2. busy[t] \in BusyStates
  BY DEF PubTypeOK
<1>3. busy' = [busy EXCEPT ![t].targets = {}, ![t].unread = {},
                           ![t].ptargets = busy[t].ptargets \ {u}]
  BY <1>2 DEF PubTypeOK, BusyStates, SendPatternPublish
<1>. QED BY <1>1, <1>2, <1>3, BusyAdvances DEF PubTypeOK, SendPatternPublish, BusyStates

(* PUBLISH begins: the message is the latest of the log. *)
LEMMA PublishBegins ==
    ASSUME IndInv, PubTypeOK, NEW t \in Threads, NEW c \in Conns, NEW ch \in Channels,
           BeginPublish(t, c, ch)
    PROVE  /\ log' \in Seq(Publications)
           /\ DOMAIN log' = DOMAIN log \cup {Len(log) + 1}
           /\ Len(log) + 1 \notin DOMAIN log
           /\ \A i \in DOMAIN log : i < Len(log) + 1 /\ log'[i] = log[i]
           /\ log'[Len(log) + 1] = [channel |-> ch, from |-> t, workers |-> Interested(ch)]
           /\ Len(log) + 1 \in Nat /\ DOMAIN log \subseteq Nat
           /\ busy' \in [Threads -> BusyStates]
           /\ busy[t].pc = "none" /\ task[t].pc = "idle"
           /\ busy'[t] = Busy("publish", Len(log) + 1, Interested(ch), Patterns, {})
           /\ \A u \in Threads \ {t} : busy'[u] = busy[u]
           /\ owed' \subseteq Nat \X Conns
<1>1. [channel |-> ch, from |-> t, workers |-> Interested(ch)] \in Publications
  BY DEF Publications, IndInv, TypeOK, Interested, Topics
<1>2. log' = Append(log, [channel |-> ch, from |-> t, workers |-> Interested(ch)])
  BY DEF BeginPublish
<1>3. DOMAIN log = 1 .. Len(log) /\ Len(log) \in Nat
  BY LenProperties DEF PubTypeOK
<1>4. Interested(ch) \in SUBSET Threads
  BY DEF IndInv, TypeOK, Interested, Topics
<1>5. Busy("publish", Len(log) + 1, Interested(ch), Patterns, {}) \in BusyStates
  BY <1>3, <1>4 DEF Busy, BusyStates
<1>6. busy' = [busy EXCEPT ![t] =
                  Busy("publish", Len(log) + 1, Interested(ch), Patterns, {})]
  BY DEF BeginPublish
<1>7. /\ log' \in Seq(Publications) /\ DOMAIN log' = DOMAIN log \cup {Len(log) + 1}
      /\ Len(log) + 1 \notin DOMAIN log
      /\ \A i \in DOMAIN log : i < Len(log) + 1 /\ log'[i] = log[i]
      /\ log'[Len(log) + 1] = [channel |-> ch, from |-> t, workers |-> Interested(ch)]
  BY <1>1, <1>2, Appended DEF PubTypeOK
<1>8. busy[t].pc = "none" /\ task[t].pc = "idle"
  BY DEF BeginPublish, Free, NotBusy, Busy, At
<1>9. owed' \subseteq Nat \X Conns
  BY <1>3 DEF BeginPublish, PubTypeOK
<1>. QED BY <1>3, <1>5, <1>6, <1>7, <1>8, <1>9 DEF PubTypeOK

(* The inbox of a worker that takes a message out of it. *)
LEMMA TakenOut ==
    ASSUME PubTypeOK, NEW t \in Threads, ProcessInbox(t)
    PROVE  /\ inbox' \in [Threads -> Seq(Broadcasts)]
           /\ 1 \in DOMAIN inbox[t] /\ Head(inbox[t]) = inbox[t][1]
           /\ Head(inbox[t]) \in Broadcasts
           /\ \A u \in Threads \ {t} : inbox'[u] = inbox[u]
           /\ \A i \in DOMAIN inbox'[t] : /\ i \in Nat \ {0} /\ i + 1 \in DOMAIN inbox[t]
                                          /\ inbox'[t][i] = inbox[t][i + 1]
           /\ \A i \in DOMAIN inbox[t] : i = 1 \/ /\ i - 1 \in DOMAIN inbox'[t]
                                                  /\ inbox'[t][i - 1] = inbox[t][i]
           /\ busy[t].pc = "inbox" /\ UNCHANGED <<vars, busy, accepted, log, dropped>>
<1>1. inbox[t] \in Seq(Broadcasts) /\ inbox[t] # <<>>
  BY DEF PubTypeOK, ProcessInbox
<1>2. inbox' = [inbox EXCEPT ![t] = Tail(inbox[t])]
  BY DEF ProcessInbox
<1>3. /\ Tail(inbox[t]) \in Seq(Broadcasts) /\ Head(inbox[t]) \in Broadcasts
      /\ 1 \in DOMAIN inbox[t] /\ Head(inbox[t]) = inbox[t][1]
      /\ \A i \in DOMAIN Tail(inbox[t]) : /\ i + 1 \in DOMAIN inbox[t]
                                          /\ Tail(inbox[t])[i] = inbox[t][i + 1]
      /\ \A i \in DOMAIN inbox[t] : i = 1 \/ /\ i - 1 \in DOMAIN Tail(inbox[t])
                                             /\ Tail(inbox[t])[i - 1] = inbox[t][i]
  BY <1>1, Shifted
<1>4. DOMAIN Tail(inbox[t]) \subseteq Nat \ {0}
  BY <1>3, LenProperties
<1>5. inbox'[t] = Tail(inbox[t]) /\ \A u \in Threads \ {t} : inbox'[u] = inbox[u]
  BY <1>2 DEF PubTypeOK
<1>. QED BY <1>2, <1>3, <1>4, <1>5 DEF PubTypeOK, ProcessInbox

(* Steps that send nothing and begin nothing. *)
Rests ==
    /\ UNCHANGED <<inbox, log, dropped>>
    /\ busy' \in [Threads -> BusyStates]
    /\ \A t \in Threads : busy'[t] = busy[t] \/ busy'[t].pc # "publish"

LEMMA BoxSteps ==
    ASSUME PubTypeOK, NEW t \in Threads,
           BeginInbox(t) \/ EndInbox(t) \/ DeliverLocal(t)
    PROVE  Rests
<1>1. /\ NotBusy \in BusyStates /\ Busy("inbox", 0, {}, {}, {}) \in BusyStates
      /\ NotBusy.pc = "none" /\ Busy("inbox", 0, {}, {}, {}).pc = "inbox"
  BY DEF Busy, NotBusy, BusyStates
<1>2. PICK b \in {NotBusy, Busy("inbox", 0, {}, {}, {})} : busy' = [busy EXCEPT ![t] = b]
  BY DEF BeginInbox, EndInbox, DeliverLocal
<1>3. UNCHANGED <<inbox, log, dropped>>
  BY DEF BeginInbox, EndInbox, DeliverLocal
<1>. QED BY <1>1, <1>2, <1>3 DEF PubTypeOK, Rests

----------------------------------------------------------------------------
(* Types. *)

LEMMA PubTypeStep ==
    ASSUME IndInv, ListsFinite, PubTypeOK, Sent, Publishing, PubNext
    PROVE  PubTypeOK'
<1>1. CASE Other /\ accepted' \in {accepted, accepted + 1}
  <2>1. \A c \in Conns : received'[c] \in Seq(Messages)
    BY <1>1 DEF Other, Bookkeeping, PubTypeOK
  <2>2. received' \in [Conns -> Seq(Messages)]
    BY <1>1, <2>1 DEF Other, Bookkeeping
  <2>. QED BY <1>1, <2>2 DEF Other, Bookkeeping, PubTypeOK
<1>2. ASSUME UNCHANGED <<vars, accepted>>, Sends PROVE PubTypeOK'
  <2>1. ASSUME NEW t \in Threads, NEW p \in Patterns, ReadPatternThreads(t, p)
        PROVE  PubTypeOK'
    BY <2>1, ReadAdvances DEF Advances, PubTypeOK
  <2>2. ASSUME NEW t \in Threads, NEW u \in Threads, NEW msg \in Broadcasts,
               NEW targets, NEW ptargets,
               Advances(t, targets, {}, ptargets), TrySend(u, msg)
        PROVE  PubTypeOK'
    <3>1. msg.id \in Nat
      BY DEF Broadcasts
    <3>2. inbox' \in [Threads -> Seq(Broadcasts)] /\ dropped' \subseteq dropped \cup {<<msg.id, u>>}
      BY <2>2, SentOff
    <3>. QED BY <2>2, <3>1, <3>2 DEF Advances, PubTypeOK
  <2>. QED BY <1>2, <2>1, <2>2, SendAdvances, SendPatternAdvances DEF Sends
<1>3. ASSUME NEW t \in Threads, DeliverLocal(t) PROVE PubTypeOK'
  <2>1. busy[t].id \in DOMAIN log
    BY <1>3 DEF DeliverLocal, Publishing
  <2>2. [c \in Conns |-> LocalMessages(t, c, busy[t].id)] \in [Conns -> Seq(Messages)]
    BY <2>1, LocalMessagesHanded DEF Handed
  <2>3. received' \in [Conns -> Seq(Messages)]
    BY <1>3, <2>2, Delivered DEF DeliverLocal
  <2>4. owed' \subseteq owed
    BY <1>3 DEF DeliverLocal, Settle
  <2>. QED BY <1>3, <2>3, <2>4, BoxSteps DEF DeliverLocal, Rests, PubTypeOK
<1>4. ASSUME NEW t \in Threads, BeginInbox(t) \/ EndInbox(t) PROVE PubTypeOK'
  BY <1>4, BoxSteps DEF BeginInbox, EndInbox, Rests, PubTypeOK
<1>5. ASSUME NEW t \in Threads, ProcessInbox(t) PROVE PubTypeOK'
  <2>. DEFINE id == Head(inbox[t]).id
  <2>1. id \in DOMAIN log /\ id \in Nat
    BY <1>5, TakenOut DEF Sent, Broadcasts
  <2>2. /\ [c \in Conns |-> LocalMessages(t, c, id)] \in [Conns -> Seq(Messages)]
        /\ [c \in Conns |-> PatternMessages(t, c, id)] \in [Conns -> Seq(Messages)]
    BY <2>1, LocalMessagesHanded, PatternMessagesHanded DEF Handed
  <2>3. \/ UNCHANGED received
        \/ DeliverTo(t, [c \in Conns |-> LocalMessages(t, c, id)])
        \/ DeliverTo(t, [c \in Conns |-> PatternMessages(t, c, id)])
    BY <1>5 DEF ProcessInbox
  <2>4. received' \in [Conns -> Seq(Messages)]
    BY <2>2, <2>3, Delivered DEF PubTypeOK
  <2>5. owed' \subseteq owed
    BY <1>5 DEF ProcessInbox, Settle
  <2>. QED BY <1>5, <2>4, <2>5, TakenOut DEF PubTypeOK
<1>6. ASSUME NEW t \in Threads, NEW c \in Conns, NEW ch \in Channels,
             BeginPublish(t, c, ch)
      PROVE  PubTypeOK'
  BY <1>6, PublishBegins DEF BeginPublish, PubTypeOK
<1>. QED BY <1>1, <1>2, <1>3, <1>4, <1>5, <1>6, PubNextForms

----------------------------------------------------------------------------
(* The broadcasts. *)

TrafficKept == Sent' /\ Publishing' /\ InboxOnce' /\ Unsent' /\ InboxOrdered'

LEMMA RestsKeepTraffic ==
    ASSUME TrafficInv, Rests
    PROVE  TrafficKept
<1>. USE DEF TrafficInv, Rests
<1>1. Sent' /\ Publishing' /\ InboxOnce'
  BY DEF Sent, Publishing, InboxOnce
<1>2. Unsent'
  BY DEF Unsent, Publishes
<1>3. InboxOrdered'
  BY DEF InboxOrdered
<1>. QED BY <1>1, <1>2, <1>3 DEF TrafficKept

LEMMA BeginKeepsTraffic ==
    ASSUME IndInv, TrafficInv, NEW t \in Threads, NEW c \in Conns, NEW ch \in Channels,
           BeginPublish(t, c, ch)
    PROVE  TrafficKept
<1>. DEFINE id == Len(log) + 1
<1>1. /\ DOMAIN log' = DOMAIN log \cup {id}
      /\ id \notin DOMAIN log /\ \A i \in DOMAIN log : i < id /\ log'[i] = log[i]
      /\ log'[id].from = t /\ id \in Nat /\ DOMAIN log \subseteq Nat
      /\ busy'[t].targets \subseteq log'[id].workers
      /\ busy[t].pc = "none" /\ busy'[t].pc = "publish" /\ busy'[t].id = id
      /\ \A u \in Threads \ {t} : busy'[u] = busy[u]
  <2>1. PubTypeOK
    BY DEF TrafficInv
  <2>2. /\ log'[id] = [channel |-> ch, from |-> t, workers |-> Interested(ch)]
        /\ busy'[t] = Busy("publish", id, Interested(ch), Patterns, {})
    BY <2>1, PublishBegins
  <2>3. /\ log'[id].from = t /\ busy'[t].pc = "publish" /\ busy'[t].id = id
        /\ busy'[t].targets = Interested(ch) /\ log'[id].workers = Interested(ch)
    BY <2>2 DEF Busy
  <2>. QED BY <2>1, <2>3, PublishBegins
<1>2. inbox' = inbox
  BY DEF BeginPublish
<1>. USE DEF TrafficInv
<1>. HIDE DEF id
<1>3. Sent'
  BY <1>1, <1>2 DEF Sent
<1>4. Publishing'
  BY <1>1 DEF Publishing
<1>5. InboxOnce'
  BY <1>2 DEF InboxOnce
<1>6. Unsent'
  BY <1>1, <1>2 DEF Unsent, Publishes, Sent
<1>7. \A u \in Threads : \A i \in DOMAIN inbox[u] : inbox[u][i].id <= id
  BY <1>1 DEF Sent
<1>8. InboxOrdered'
  BY <1>1, <1>2, <1>7 DEF InboxOrdered
<1>. QED BY <1>3, <1>4, <1>5, <1>6, <1>8 DEF TrafficKept

LEMMA ReadKeepsTraffic ==
    ASSUME IndInv, TrafficInv, NEW t \in Threads, NEW p \in Patterns,
           ReadPatternThreads(t, p)
    PROVE  TrafficKept
<1>1. /\ busy[t].pc = "publish" /\ busy[t].unread # {}
      /\ \A u \in Threads \ {t} : busy'[u] = busy[u]
      /\ busy'[t].pc = "publish" /\ busy'[t].id = busy[t].id
      /\ busy'[t].targets = busy[t].targets
      /\ UNCHANGED <<inbox, log>>
  <2>1. /\ Advances(t, busy[t].targets, busy[t].unread \ {p},
                    busy[t].ptargets \cup Interested(p))
        /\ p \in busy[t].unread /\ UNCHANGED <<inbox, dropped>>
    BY ReadAdvances DEF TrafficInv
  <2>. QED BY <2>1 DEF Advances, Busy
<1>. USE DEF TrafficInv
<1>2. Sent' /\ Publishing' /\ InboxOnce'
  BY <1>1 DEF Sent, Publishing, InboxOnce
<1>3. Unsent'
  <2>1. \A u \in Threads : \A i \in DOMAIN inbox[u] :
            Publishes(t, inbox[u][i].id) =>
                /\ inbox[u][i].kind = "publish" => u \notin busy[t].targets
                /\ inbox[u][i].kind # "pattern"
    BY <1>1 DEF Unsent
  <2>. QED BY <1>1, <2>1 DEF Unsent, Publishes
<1>4. InboxOrdered'
  BY <1>1 DEF InboxOrdered
<1>. QED BY <1>2, <1>3, <1>4 DEF TrafficKept

LEMMA SendKeepsTraffic ==
    ASSUME TrafficInv, NEW t \in Threads, NEW u \in Threads,
           NEW kind \in {"publish", "pattern"},
           NEW targets, NEW ptargets,
           Advances(t, targets, {}, ptargets),
           targets \subseteq busy[t].targets, ptargets \subseteq busy[t].ptargets,
           busy[t].unread = {},
           kind = "publish" => u \in busy[t].targets \ targets,
           kind = "pattern" => u \in busy[t].ptargets \ ptargets,
           Broadcast(kind, busy[t].id, t) \in Broadcasts,
           TrySend(u, Broadcast(kind, busy[t].id, t))
    PROVE  TrafficKept
<1>. DEFINE msg == Broadcast(kind, busy[t].id, t)
<1>1. /\ busy[t].pc = "publish" /\ log' = log
      /\ \A v \in Threads \ {t} : busy'[v] = busy[v]
      /\ busy'[t].pc = "publish" /\ busy'[t].id = busy[t].id
      /\ busy'[t].targets = targets /\ busy'[t].ptargets = ptargets
      /\ busy'[t].unread = {}
  BY DEF Advances, Busy
<1>2. \A v \in Threads : \A i \in DOMAIN inbox'[v] :
          \/ i \in DOMAIN inbox[v] /\ inbox'[v][i] = inbox[v][i]
          \/ /\ v = u /\ inbox'[v][i] = msg /\ i \notin DOMAIN inbox[v]
             /\ \A j \in DOMAIN inbox[v] : j < i
             /\ \A j \in DOMAIN inbox'[v] : j # i => j \in DOMAIN inbox[v]
  BY SentOff DEF TrafficInv
<1>3. msg.kind = kind /\ msg.id = busy[t].id /\ msg.exclude = t
  BY DEF Broadcast
<1>4. /\ busy[t].id \in DOMAIN log /\ log[busy[t].id].from = t /\ DOMAIN log \subseteq Nat
      /\ kind = "publish" => u \in log[busy[t].id].workers
  BY <1>1, LenProperties DEF TrafficInv, Publishing, PubTypeOK
<1>5. \A i \in DOMAIN inbox[u] : inbox[u][i] # msg
  BY <1>1, <1>3 DEF TrafficInv, Unsent, Publishes
<1>6. \A i \in DOMAIN inbox[u] : inbox[u][i].exclude = t => inbox[u][i].id <= busy[t].id
  BY <1>1 DEF TrafficInv, InboxOrdered
<1>7. \A v \in Threads : DOMAIN inbox[v] \subseteq Nat /\ DOMAIN inbox'[v] \subseteq Nat
  BY SentOff, LenProperties DEF TrafficInv, PubTypeOK
<1>. HIDE DEF msg
<1>. USE DEF TrafficInv
<1>8. Sent'
  BY <1>1, <1>2, <1>3, <1>4 DEF Sent
<1>9. Publishing'
  BY <1>1 DEF Publishing
<1>10. InboxOnce'
  BY <1>2, <1>5 DEF InboxOnce
<1>11. Unsent'
  <2>1. ASSUME NEW v \in Threads, NEW w \in Threads, NEW i \in DOMAIN inbox'[w],
               busy'[v].pc = "publish", busy'[v].id = inbox'[w][i].id
        PROVE  /\ inbox'[w][i].kind = "publish" => w \notin busy'[v].targets
               /\ inbox'[w][i].kind = "pattern" =>
                      w \notin busy'[v].ptargets /\ busy'[v].unread = {}
    <3>1. CASE i \in DOMAIN inbox[w] /\ inbox'[w][i] = inbox[w][i]
      <4>1. Publishes(v, inbox[w][i].id)
        BY <1>1, <2>1, <3>1 DEF Publishes
      <4>2. /\ inbox[w][i].kind = "publish" => w \notin busy[v].targets
            /\ inbox[w][i].kind = "pattern" =>
                   w \notin busy[v].ptargets /\ busy[v].unread = {}
        BY <3>1, <4>1 DEF Unsent
      <4>. QED BY <1>1, <3>1, <4>2
    <3>2. CASE w = u /\ inbox'[w][i] = msg
      <4>1. v = t
        BY <1>1, <1>3, <1>4, <2>1, <3>2 DEF Publishing
      <4>. QED BY <1>1, <1>3, <3>2, <4>1
    <3>. QED BY <1>2, <3>1, <3>2
  <2>. QED BY <2>1 DEF Unsent, Publishes
<1>12. InboxOrdered'
  <2>1. \A v \in Threads : \A i, j \in DOMAIN inbox'[v] :
            (i < j /\ inbox'[v][i].exclude = inbox'[v][j].exclude)
                => inbox'[v][i].id <= inbox'[v][j].id
    BY <1>2, <1>3, <1>6, <1>7 DEF InboxOrdered
  <2>2. \A v, w \in Threads : \A i \in DOMAIN inbox'[w] :
            (busy'[v].pc = "publish" /\ inbox'[w][i].exclude = v)
                => inbox'[w][i].id <= busy'[v].id
    BY <1>1, <1>2, <1>3, <1>4 DEF InboxOrdered
  <2>. QED BY <2>1, <2>2 DEF InboxOrdered
<1>. QED BY <1>8, <1>9, <1>10, <1>11, <1>12 DEF TrafficKept

LEMMA TakeKeepsTraffic ==
    ASSUME TrafficInv, NEW t \in Threads, ProcessInbox(t)
    PROVE  TrafficKept
<1>1. /\ \A u \in Threads \ {t} : inbox'[u] = inbox[u]
      /\ \A i \in DOMAIN inbox'[t] : /\ i \in Nat \ {0} /\ i + 1 \in DOMAIN inbox[t]
                                     /\ inbox'[t][i] = inbox[t][i + 1]
      /\ UNCHANGED <<busy, log>>
  BY TakenOut DEF TrafficInv
<1>. USE DEF TrafficInv
<1>2. Sent' /\ Publishing'
  BY <1>1 DEF Sent, Publishing
<1>3. InboxOnce'
  BY <1>1 DEF InboxOnce
<1>4. Unsent'
  BY <1>1 DEF Unsent, Publishes
<1>5. InboxOrdered'
  BY <1>1 DEF InboxOrdered
<1>. QED BY <1>2, <1>3, <1>4, <1>5 DEF TrafficKept

LEMMA TrafficStep ==
    ASSUME IndInv, ListsFinite, TrafficInv, PubNext
    PROVE  TrafficInv'
<1>1. PubTypeOK'
  BY PubTypeStep DEF TrafficInv
<1>2. ASSUME Other PROVE TrafficKept
  <2>1. Rests
    BY <1>2 DEF Other, Bookkeeping, Rests, TrafficInv, PubTypeOK
  <2>. QED BY <2>1, RestsKeepTraffic
<1>3. ASSUME NEW t \in Threads, NEW u \in Threads, SendPublish(t, u)
      PROVE  TrafficKept
  <2>1. /\ Advances(t, busy[t].targets \ {u}, {}, busy[t].ptargets)
        /\ Broadcast("publish", busy[t].id, t) \in Broadcasts
        /\ TrySend(u, Broadcast("publish", busy[t].id, t))
        /\ u \in busy[t].targets /\ busy[t].unread = {}
    BY <1>3, SendAdvances DEF TrafficInv
  <2>. QED BY <2>1, SendKeepsTraffic
<1>4. ASSUME NEW t \in Threads, NEW u \in Threads, SendPatternPublish(t, u)
      PROVE  TrafficKept
  <2>1. /\ Advances(t, {}, {}, busy[t].ptargets \ {u})
        /\ Broadcast("pattern", busy[t].id, t) \in Broadcasts
        /\ TrySend(u, Broadcast("pattern", busy[t].id, t))
        /\ u \in busy[t].ptargets /\ busy[t].unread = {}
    BY <1>4, SendPatternAdvances DEF TrafficInv
  <2>. QED BY <2>1, SendKeepsTraffic
<1>5. ASSUME Sends PROVE TrafficKept
  BY <1>3, <1>4, <1>5, ReadKeepsTraffic DEF Sends
<1>6. ASSUME NEW t \in Threads,
             BeginInbox(t) \/ EndInbox(t) \/ DeliverLocal(t)
      PROVE  TrafficKept
  BY <1>6, BoxSteps, RestsKeepTraffic DEF TrafficInv
<1>7. TrafficKept
  BY <1>2, <1>5, <1>6, TakeKeepsTraffic, BeginKeepsTraffic, PubNextForms
<1>. QED BY <1>1, <1>7 DEF TrafficInv, TrafficKept

----------------------------------------------------------------------------
(* What is in flight. *)

(* Nothing old is in flight that was not. *)
Landing == \A u \in Threads, j \in DOMAIN log :
               /\ InFlight(j, u)' => InFlight(j, u)
               /\ PatternInFlight(j, u)' => PatternInFlight(j, u)
               /\ log'[j] = log[j]

LEMMA RestsLand == ASSUME Rests PROVE Landing
BY DEF Rests, Landing, InFlight, PatternInFlight, Publishes

LEMMA BeginLands ==
    ASSUME IndInv, TrafficInv, NEW t \in Threads, NEW c \in Conns, NEW ch \in Channels,
           BeginPublish(t, c, ch)
    PROVE  Landing
<1>. DEFINE id == Len(log) + 1
<1>1. /\ id \notin DOMAIN log /\ \A u \in Threads \ {t} : busy'[u] = busy[u]
      /\ \A j \in DOMAIN log : log'[j] = log[j]
  <2>1. PubTypeOK
    BY DEF TrafficInv
  <2>. QED BY <2>1, PublishBegins
<1>2. busy'[t].id = id
  <2>1. busy'[t] = Busy("publish", id, Interested(ch), Patterns, {})
    BY DEF BeginPublish, TrafficInv, PubTypeOK
  <2>. QED BY <2>1 DEF Busy
<1>. HIDE DEF id
<1>3. inbox' = inbox
  BY DEF BeginPublish
<1>4. \A u \in Threads, j \in DOMAIN log :
          (busy'[u].pc = "publish" /\ busy'[u].id = j) => busy'[u] = busy[u]
  <2>1. \A j \in DOMAIN log : busy'[t].id # j
    BY <1>1, <1>2
  <2>. QED BY <1>1, <2>1
<1>5. \A u \in Threads, j \in DOMAIN log : InFlight(j, u)' => InFlight(j, u)
  BY <1>3, <1>4 DEF InFlight
<1>6. \A u \in Threads, j \in DOMAIN log :
          PatternInFlight(j, u)' => PatternInFlight(j, u)
  BY <1>3, <1>4 DEF PatternInFlight, Publishes
<1>. QED BY <1>1, <1>5, <1>6 DEF Landing

LEMMA ReadLands ==
    ASSUME IndInv, TrafficInv, NEW t \in Threads, NEW p \in Patterns,
           ReadPatternThreads(t, p)
    PROVE  Landing
<1>1. /\ Advances(t, busy[t].targets, busy[t].unread \ {p},
                  busy[t].ptargets \cup Interested(p))
      /\ p \in busy[t].unread /\ UNCHANGED <<inbox, dropped>>
  BY ReadAdvances DEF TrafficInv
<1>2. /\ busy[t].pc = "publish" /\ busy[t].unread # {}
      /\ \A u \in Threads \ {t} : busy'[u] = busy[u]
      /\ busy'[t].pc = "publish" /\ busy'[t].id = busy[t].id
      /\ busy'[t].targets = busy[t].targets /\ UNCHANGED <<inbox, log>>
  BY <1>1 DEF Advances, Busy
<1>. QED BY <1>2 DEF Landing, InFlight, PatternInFlight, Publishes

LEMMA SendLands ==
    ASSUME TrafficInv, NEW t \in Threads, NEW u \in Threads,
           NEW kind \in {"publish", "pattern"},
           NEW targets, NEW ptargets,
           Advances(t, targets, {}, ptargets),
           targets \subseteq busy[t].targets, ptargets \subseteq busy[t].ptargets,
           kind = "publish" => u \in busy[t].targets,
           kind = "pattern" => u \in busy[t].ptargets,
           Broadcast(kind, busy[t].id, t) \in Broadcasts,
           TrySend(u, Broadcast(kind, busy[t].id, t))
    PROVE  Landing
<1>. DEFINE msg == Broadcast(kind, busy[t].id, t)
<1>1. /\ busy[t].pc = "publish" /\ log' = log
      /\ \A v \in Threads \ {t} : busy'[v] = busy[v]
      /\ busy'[t].pc = "publish" /\ busy'[t].id = busy[t].id
      /\ busy'[t].targets = targets /\ busy'[t].ptargets = ptargets
      /\ busy'[t].unread = {}
  BY DEF Advances, Busy
<1>2. \A v \in Threads : \A i \in DOMAIN inbox'[v] :
          \/ i \in DOMAIN inbox[v] /\ inbox'[v][i] = inbox[v][i]
          \/ v = u /\ inbox'[v][i] = msg
  BY SentOff DEF TrafficInv
<1>3. msg.kind = kind /\ msg.id = busy[t].id /\ msg.exclude = t
  BY DEF Broadcast
<1>. HIDE DEF msg
<1>4. ASSUME NEW v \in Threads, NEW j \in DOMAIN log, InFlight(j, v)'
      PROVE  InFlight(j, v)
  <2>1. CASE \E i \in DOMAIN inbox'[v] : /\ inbox'[v][i].kind = "publish"
                                         /\ inbox'[v][i].id = j
                                         /\ inbox'[v][i].exclude # v
    <3>1. PICK i \in DOMAIN inbox'[v] : /\ inbox'[v][i].kind = "publish"
                                        /\ inbox'[v][i].id = j
                                        /\ inbox'[v][i].exclude # v
      BY <2>1
    <3>. QED BY <1>1, <1>2, <1>3, <3>1 DEF InFlight
  <2>2. CASE ~ \E i \in DOMAIN inbox'[v] : /\ inbox'[v][i].kind = "publish"
                                           /\ inbox'[v][i].id = j
                                           /\ inbox'[v][i].exclude # v
    BY <1>1, <1>4, <2>2 DEF InFlight
  <2>. QED BY <2>1, <2>2
<1>5. ASSUME NEW v \in Threads, NEW j \in DOMAIN log, PatternInFlight(j, v)'
      PROVE  PatternInFlight(j, v)
  <2>1. CASE \E i \in DOMAIN inbox'[v] : /\ inbox'[v][i].kind = "pattern"
                                         /\ inbox'[v][i].id = j
                                         /\ inbox'[v][i].exclude # v
    <3>1. PICK i \in DOMAIN inbox'[v] : /\ inbox'[v][i].kind = "pattern"
                                        /\ inbox'[v][i].id = j
                                        /\ inbox'[v][i].exclude # v
      BY <2>1
    <3>. QED BY <1>1, <1>2, <1>3, <3>1 DEF PatternInFlight, Publishes
  <2>2. CASE ~ \E i \in DOMAIN inbox'[v] : /\ inbox'[v][i].kind = "pattern"
                                           /\ inbox'[v][i].id = j
                                           /\ inbox'[v][i].exclude # v
    BY <1>1, <1>5, <2>2 DEF PatternInFlight, Publishes
  <2>. QED BY <2>1, <2>2
<1>. QED BY <1>1, <1>4, <1>5 DEF Landing

LEMMA TakeLands ==
    ASSUME TrafficInv, NEW t \in Threads, ProcessInbox(t)
    PROVE  Landing
<1>1. /\ \A u \in Threads \ {t} : inbox'[u] = inbox[u]
      /\ \A i \in DOMAIN inbox'[t] : /\ i + 1 \in DOMAIN inbox[t]
                                     /\ inbox'[t][i] = inbox[t][i + 1]
      /\ UNCHANGED <<busy, log>>
  BY TakenOut DEF TrafficInv
<1>. QED BY <1>1 DEF Landing, InFlight, PatternInFlight, Publishes

(* What is handed over is not in flight any more. *)
LEMMA LocalLands ==
    ASSUME TrafficInv, NEW t \in Threads, DeliverLocal(t)
    PROVE  /\ busy[t].id \in DOMAIN log /\ log[busy[t].id].from = t
           /\ InFlight(busy[t].id, t)
           /\ \A id \in {busy[t].id} : ~ InFlight(id, t)'
<1>1. busy[t].pc = "publish" /\ Rests /\ busy'[t].pc # "publish"
  BY BoxSteps DEF DeliverLocal, TrafficInv, PubTypeOK, NotBusy, Busy
<1>2. busy[t].id \in DOMAIN log /\ log[busy[t].id].from = t
  BY <1>1 DEF TrafficInv, Publishing
<1>3. InFlight(busy[t].id, t)
  BY <1>1 DEF InFlight
<1>4. ASSUME NEW id, id = busy[t].id PROVE ~ InFlight(id, t)'
  BY <1>1, <1>2, <1>4 DEF InFlight, TrafficInv, Sent, Publishing, Rests
<1>. QED BY <1>2, <1>3, <1>4

LEMMA InboxLands ==
    ASSUME TrafficInv, NEW t \in Threads, ProcessInbox(t),
           NEW msg, msg = Head(inbox[t]), msg.exclude # t
    PROVE  /\ msg.id \in DOMAIN log /\ msg.exclude = log[msg.id].from
           /\ msg.exclude \in Threads
           /\ msg.kind = "publish" => InFlight(msg.id, t) /\ ~ InFlight(msg.id, t)'
           /\ msg.kind = "pattern" =>
                  PatternInFlight(msg.id, t) /\ ~ PatternInFlight(msg.id, t)'
<1>1. /\ 1 \in DOMAIN inbox[t] /\ msg = inbox[t][1] /\ msg \in Broadcasts
      /\ \A i \in DOMAIN inbox'[t] : /\ i \in Nat \ {0} /\ i + 1 \in DOMAIN inbox[t]
                                     /\ inbox'[t][i] = inbox[t][i + 1]
      /\ busy' = busy /\ busy[t].pc = "inbox"
  BY TakenOut DEF TrafficInv
<1>2. msg.id \in DOMAIN log /\ msg.exclude = log[msg.id].from /\ msg.exclude \in Threads
  BY <1>1 DEF TrafficInv, Sent, Broadcasts
<1>3. ASSUME NEW i \in DOMAIN inbox'[t], inbox'[t][i].kind = msg.kind,
             inbox'[t][i].id = msg.id
      PROVE  FALSE
  <2>1. i + 1 \in DOMAIN inbox[t] /\ inbox[t][i + 1] = inbox'[t][i] /\ i + 1 # 1
    BY <1>1
  <2>2. inbox[t][i + 1] \in Broadcasts /\ inbox[t][i + 1].exclude = msg.exclude
    BY <1>2, <1>3, <2>1 DEF TrafficInv, PubTypeOK, Sent
  <2>3. inbox[t][i + 1] = msg
    BY <1>1, <1>3, <2>1, <2>2 DEF Broadcasts
  <2>. QED BY <1>1, <2>1, <2>3 DEF TrafficInv, InboxOnce
<1>4. \A u \in Threads : Publishes(u, msg.id) =>
          /\ msg.kind = "publish" => t \notin busy[u].targets
          /\ msg.kind = "pattern" => t \notin busy[u].ptargets /\ busy[u].unread = {}
  BY <1>1 DEF TrafficInv, Unsent
<1>5. msg.kind = "publish" => InFlight(msg.id, t) /\ ~ InFlight(msg.id, t)'
  BY <1>1, <1>3, <1>4 DEF InFlight, Publishes
<1>6. msg.kind = "pattern" => PatternInFlight(msg.id, t) /\ ~ PatternInFlight(msg.id, t)'
  BY <1>1, <1>3, <1>4 DEF PatternInFlight, Publishes
<1>. QED BY <1>2, <1>5, <1>6

----------------------------------------------------------------------------
(* Deliveries. *)

(* Only a worker that is sent both broadcasts waits for both. *)
LEMMA WaitsForBoth ==
    ASSUME TrafficInv, NEW id, NEW t \in Threads,
           InFlight(id, t), PatternInFlight(id, t)
    PROVE  Both(id, t)
<1>1. t # log[id].from
  BY DEF PatternInFlight, Publishes, TrafficInv, Sent, Publishing
<1>2. t \in log[id].workers
  BY <1>1 DEF InFlight, TrafficInv, Sent, Publishing
<1>. QED BY <1>1, <1>2 DEF Both

(* What appending does to the number of copies. *)
LEMMA CopiesAppended ==
    ASSUME NEW s \in Seq(Messages), NEW m \in Seq(Messages), NEW x, NEW w \in Nat
    PROVE  /\ Absent(m, x) =>
                 /\ Absent(s, x) => Absent(s \o m, x)
                 /\ Once(s, x, w) => Once(s \o m, x, w)
                 /\ Twice(s, x, w) => Twice(s \o m, x, w)
           /\ Once(m, x, w) =>
                 /\ Absent(s, x) => Once(s \o m, x, w)
                 /\ Once(s, x, w) => Twice(s \o m, x, w)
<1>1. s \o m \in Seq(Messages)
  BY ConcatProperties
<1>2. PICK a \in Nat : a = Number(s, x)
  BY NumberType
<1>3. PICK b \in Nat : b = Number(m, x)
  BY NumberType
<1>4. Number(s \o m, x) = a + b
  BY <1>2, <1>3, NumberAdds
<1>5. /\ Absent(s, x) <=> a = 0
      /\ Absent(m, x) <=> b = 0
      /\ Absent(s \o m, x) <=> a + b = 0
  BY <1>1, <1>2, <1>3, <1>4, NumberType
<1>6. /\ Once(s, x, w) <=> a \in {0, w}
      /\ Once(m, x, w) <=> b \in {0, w}
      /\ Once(s \o m, x, w) <=> a + b \in {0, w}
      /\ Twice(s, x, w) <=> a \in {0, w, 2 * w}
      /\ Twice(s \o m, x, w) <=> a + b \in {0, w, 2 * w}
  BY <1>2, <1>3, <1>4 DEF Once, Twice
<1>. QED BY <1>5, <1>6

(* None is as few as any number of deliveries. *)
LEMMA AbsentIsFew ==
    ASSUME NEW s \in Seq(Messages), NEW x, NEW w, Absent(s, x)
    PROVE  Once(s, x, w) /\ Twice(s, x, w)
BY NumberType DEF Once, Twice

(* Nothing is received by a step that lands what is in flight. *)
LEMMA LandingKeepsCopies ==
    ASSUME PubTypeOK, Known, CopiesInv, Landing, UNCHANGED <<home, received>>
    PROVE  CopiesInv'
<1>. SUFFICES ASSUME NEW c \in Conns, NEW x \in Messages, NEW t \in Threads,
                     home[c] = t
              PROVE  Copied(c, x, t)'
  BY DEF CopiesInv
<1>1. CASE x.id \in DOMAIN log
  <2>1. Weight(x)' = Weight(x) /\ (Both(x.id, t)' <=> Both(x.id, t))
    BY <1>1 DEF Landing, Weight, Both
  <2>2. Copied(c, x, t)
    BY <1>1 DEF CopiesInv
  <2>3. /\ InFlight(x.id, t)' => InFlight(x.id, t)
        /\ PatternInFlight(x.id, t)' => PatternInFlight(x.id, t)
    BY <1>1 DEF Landing
  <2>. QED BY <2>1, <2>2, <2>3 DEF Copied
<1>2. CASE x.id \notin DOMAIN log
  <2>1. Absent(received[c], x)
    BY <1>2 DEF Known, Absent
  <2>2. /\ Once(received[c], x, Weight(x)')
        /\ Twice(received[c], x, Weight(x)')
    BY <2>1, AbsentIsFew DEF PubTypeOK
  <2>. QED BY <2>1, <2>2 DEF Copied
<1>. QED BY <1>1, <1>2

(* A delivery: one message, in flight before and not afterwards.            *)
DeliversOne(t, messages, id) ==
    /\ messages \in [Conns -> Seq(Messages)]
    /\ \A c \in Conns : Handed(messages[c], id)
    /\ DeliverTo(t, messages)
    /\ id \in DOMAIN log
    /\ UNCHANGED <<vars, log>>

LEMMA DeliveryKeepsCopies ==
    ASSUME TrafficInv, CopiesInv, Landing, NEW t \in Threads,
           NEW messages, NEW id, DeliversOne(t, messages, id),
           \/ InFlight(id, t) /\ ~ InFlight(id, t)'
           \/ /\ PatternInFlight(id, t) /\ ~ PatternInFlight(id, t)'
              /\ \A c \in Conns : \A i \in DOMAIN messages[c] :
                     messages[c][i].kind = "pmessage"
    PROVE  CopiesInv'
<1>1. /\ \A c \in Conns : home[c] # t => received'[c] = received[c]
      /\ \A c \in Conns : home[c] = t => received'[c] = received[c] \o messages[c]
      /\ UNCHANGED <<home, log>>
  BY Delivered DEF DeliversOne, vars, TrafficInv
<1>. SUFFICES ASSUME NEW c \in Conns, NEW x \in Messages, NEW u \in Threads,
                     home[c] = u, x.id \in DOMAIN log
              PROVE  Copied(c, x, u)'
  BY <1>1 DEF CopiesInv
<1>2. /\ InFlight(x.id, u)' => InFlight(x.id, u)
      /\ PatternInFlight(x.id, u)' => PatternInFlight(x.id, u)
  BY DEF Landing
<1>3. Copied(c, x, u)
  BY DEF CopiesInv
<1>4. Weight(x)' = Weight(x) /\ (Both(x.id, u)' <=> Both(x.id, u))
  BY <1>1 DEF Weight, Both
<1>5. CASE u # t
  BY <1>1, <1>2, <1>3, <1>4, <1>5 DEF Copied
<1>6. CASE u = t
  <2>. DEFINE s == received[c]
              m == messages[c]
              w == Weight(x)
  <2>1. s \in Seq(Messages) /\ m \in Seq(Messages) /\ received'[c] = s \o m
    BY <1>1, <1>6 DEF TrafficInv, PubTypeOK, DeliversOne
  <2>2. w \in Nat
    BY LogTypes DEF TrafficInv
  <2>3. /\ Absent(s, x) => Once(s, x, w)
        /\ x.id = id => Once(m, x, w)
    BY <2>1, AbsentIsFew DEF DeliversOne, Handed
  <2>4. /\ Absent(m, x) =>
              /\ Absent(s, x) => Absent(s \o m, x)
              /\ Once(s, x, w) => Once(s \o m, x, w)
              /\ Twice(s, x, w) => Twice(s \o m, x, w)
        /\ Once(m, x, w) =>
              /\ Absent(s, x) => Once(s \o m, x, w)
              /\ Once(s, x, w) => Twice(s \o m, x, w)
    BY <2>1, <2>2, CopiesAppended
  <2>5. InFlight(id, t) /\ PatternInFlight(id, t) => Both(id, t)
    BY WaitsForBoth
  <2>6. x.kind \in {"message", "pmessage"}
    BY DEF Messages
  <2>. HIDE DEF s, m, w
  <2>7. CASE Absent(m, x)
    BY <1>2, <1>3, <1>4, <1>6, <2>1, <2>4, <2>7 DEF Copied, s, w
  <2>8. CASE ~ Absent(m, x)
    <3>1. x.id = id
      BY <2>8 DEF DeliversOne, Handed, Absent, m
    <3>2. CASE x.kind = "message"
      <4>1. InFlight(id, t) /\ ~ InFlight(id, t)'
        BY <2>8, <3>2 DEF Absent, m
      <4>. QED BY <1>3, <1>4, <1>6, <2>1, <2>3, <2>4, <3>1, <3>2, <4>1
               DEF Copied, s, w
    <3>3. CASE x.kind = "pmessage"
      <4>1. /\ Twice(s \o m, x, w)
            /\ PatternInFlight(id, t)' \/ InFlight(id, t)' \/ ~ Both(id, t)
                   => Once(s \o m, x, w)
            /\ ~ (InFlight(id, t)' /\ PatternInFlight(id, t)')
            /\ ~ Both(id, t) => ~ (InFlight(id, t)' \/ PatternInFlight(id, t)')
        BY <1>2, <1>3, <1>6, <2>3, <2>4, <2>5, <3>1, <3>3 DEF Copied, s, w
      <4>. QED BY <1>4, <1>6, <2>1, <3>1, <3>3, <4>1 DEF Copied, w
    <3>. QED BY <2>6, <3>2, <3>3
  <2>. QED BY <2>7, <2>8
<1>. QED BY <1>5, <1>6

(* Order: what is handed over is the latest of its publisher's worker.      *)
LEMMA DeliveryKeepsOrder ==
    ASSUME TrafficInv, Known, NotAhead, PublisherOrder, NEW t \in Threads,
           NEW messages, NEW id, DeliversOne(t, messages, id),
           NEW from \in Threads, log[id].from = from,
           \A c \in Conns : home[c] = t => \A i \in DOMAIN received[c] :
               log[received[c][i].id].from = from => received[c][i].id <= id,
           busy'[from].pc = "publish" => id <= busy'[from].id,
           \A j \in DOMAIN inbox'[t] :
               (t # from /\ inbox'[t][j].exclude = from) => id <= inbox'[t][j].id,
           \A u \in Threads : busy'[u] = busy[u] \/ busy'[u].pc # "publish",
           \A u \in Threads : \A j \in DOMAIN inbox'[u] :
               \E k \in DOMAIN inbox[u] : inbox'[u][j] = inbox[u][k]
    PROVE  Known' /\ NotAhead' /\ PublisherOrder'
<1>1. /\ \A c \in Conns : home[c] # t => received'[c] = received[c]
      /\ \A c \in Conns : home[c] = t => received'[c] = received[c] \o messages[c]
      /\ UNCHANGED <<home, log>>
  BY Delivered DEF DeliversOne, vars, TrafficInv
<1>2. DOMAIN log \subseteq Nat
  BY LenProperties DEF TrafficInv, PubTypeOK
<1>3. ASSUME NEW c \in Conns
      PROVE  \A i \in DOMAIN received'[c] : i \in Nat /\
                 \/ i \in DOMAIN received[c] /\ received'[c][i] = received[c][i]
                 \/ /\ home[c] = t /\ received'[c][i].id = id
                    /\ \A j \in DOMAIN received[c] : j < i
  <2>1. CASE home[c] # t
    BY <1>1, <2>1, LenProperties DEF TrafficInv, PubTypeOK
  <2>2. CASE home[c] = t
    <3>. DEFINE s == received[c]
                m == messages[c]
    <3>1. s \in Seq(Messages) /\ m \in Seq(Messages) /\ received'[c] = s \o m
      BY <1>1, <2>2 DEF TrafficInv, PubTypeOK, DeliversOne
    <3>4. \A i \in DOMAIN m : m[i].id = id
      BY DEF DeliversOne, Handed
    <3>. HIDE DEF s, m
    <3>2. /\ s \o m \in Seq(Messages)
          /\ \A i \in DOMAIN (s \o m) :
                 \/ i \in DOMAIN s /\ (s \o m)[i] = s[i]
                 \/ i > Len(s) /\ i - Len(s) \in DOMAIN m /\ (s \o m)[i] = m[i - Len(s)]
      BY <3>1, Concatenated
    <3>3. /\ DOMAIN s = 1 .. Len(s) /\ Len(s) \in Nat
          /\ \A i \in DOMAIN (s \o m) : i \in Nat
      BY <3>1, <3>2, LenProperties
    <3>5. \A i \in DOMAIN (s \o m) : i \in Nat /\
              \/ i \in DOMAIN s /\ (s \o m)[i] = s[i]
              \/ (s \o m)[i].id = id /\ \A j \in DOMAIN s : j < i
      BY <3>2, <3>3, <3>4
    <3>. QED BY <2>2, <3>1, <3>5 DEF s
  <2>. QED BY <2>1, <2>2
<1>4. Known'
  <2>1. \A c \in Conns : \A i \in DOMAIN received'[c] :
            received'[c][i].id \in DOMAIN log
    BY <1>3 DEF Known, DeliversOne
  <2>2. \A c \in Conns : home'[c] = None => received'[c] = <<>>
    BY <1>1, NoneAssumption DEF Known
  <2>. QED BY <1>1, <2>1, <2>2 DEF Known
<1>5. NotAhead'
  <2>. SUFFICES ASSUME NEW c \in Conns, NEW f \in Threads, NEW i \in DOMAIN received'[c],
                       log[received'[c][i].id].from = f
                PROVE  /\ busy'[f].pc = "publish" => received'[c][i].id <= busy'[f].id
                       /\ \A u \in Threads \ {f} : \A j \in DOMAIN inbox'[u] :
                              (home[c] = u /\ inbox'[u][j].exclude = f)
                                  => received'[c][i].id <= inbox'[u][j].id
    BY <1>1 DEF NotAhead
  <2>1. CASE i \in DOMAIN received[c] /\ received'[c][i] = received[c][i]
    <3>1. /\ busy[f].pc = "publish" => received[c][i].id <= busy[f].id
          /\ \A u \in Threads \ {f} : \A j \in DOMAIN inbox[u] :
                 (home[c] = u /\ inbox[u][j].exclude = f)
                     => received[c][i].id <= inbox[u][j].id
      BY <2>1 DEF NotAhead
    <3>. QED BY <2>1, <3>1
  <2>2. CASE home[c] = t /\ received'[c][i].id = id
    BY <2>2
  <2>. QED BY <1>3, <2>1, <2>2
<1>6. PublisherOrder'
  <2>. SUFFICES ASSUME NEW c \in Conns, NEW i \in DOMAIN received'[c],
                       NEW j \in DOMAIN received'[c], i < j,
                       log[received'[c][i].id].from = log[received'[c][j].id].from
                PROVE  received'[c][i].id <= received'[c][j].id
    BY <1>1 DEF PublisherOrder
  <2>1. CASE j \in DOMAIN received[c] /\ received'[c][j] = received[c][j]
    <3>1. i \in DOMAIN received[c] /\ received'[c][i] = received[c][i]
      BY <1>3, <2>1
    <3>. QED BY <2>1, <3>1 DEF PublisherOrder
  <2>2. CASE home[c] = t /\ received'[c][j].id = id
    <3>1. CASE i \in DOMAIN received[c] /\ received'[c][i] = received[c][i]
      BY <2>2, <3>1
    <3>2. CASE received'[c][i].id = id
      BY <1>2, <2>2, <3>2 DEF DeliversOne
    <3>. QED BY <1>3, <3>1, <3>2
  <2>. QED BY <1>3, <2>1, <2>2
<1>. QED BY <1>4, <1>5, <1>6

(* Steps that deliver nothing. *)
LEMMA QuietKeepsOrder ==
    ASSUME TrafficInv, TrafficInv', Known, NotAhead, PublisherOrder,
           UNCHANGED <<home, received>>,
           \A i \in DOMAIN log : i \in DOMAIN log' /\ log'[i] = log[i],
           \A u \in Threads : busy'[u].pc = "publish" =>
               \/ busy[u].pc = "publish" /\ busy[u].id = busy'[u].id
               \/ \A i \in DOMAIN log : i <= busy'[u].id,
           \A u \in Threads : \A j \in DOMAIN inbox'[u] :
               \/ \E k \in DOMAIN inbox[u] : inbox'[u][j] = inbox[u][k]
               \/ \E v \in Threads : /\ busy[v].pc = "publish"
                                     /\ inbox'[u][j].exclude = v
                                     /\ inbox'[u][j].id = busy[v].id
    PROVE  Known' /\ NotAhead' /\ PublisherOrder'
<1>1. Known'
  BY DEF Known
<1>2. NotAhead'
  <2>. SUFFICES ASSUME NEW c \in Conns, NEW f \in Threads, NEW i \in DOMAIN received[c],
                       log[received[c][i].id].from = f
                PROVE  /\ busy'[f].pc = "publish" => received[c][i].id <= busy'[f].id
                       /\ \A u \in Threads \ {f} : \A j \in DOMAIN inbox'[u] :
                              (home[c] = u /\ inbox'[u][j].exclude = f)
                                  => received[c][i].id <= inbox'[u][j].id
    BY DEF NotAhead, Known
  <2>1. /\ busy[f].pc = "publish" => received[c][i].id <= busy[f].id
        /\ \A u \in Threads \ {f} : \A j \in DOMAIN inbox[u] :
               (home[c] = u /\ inbox[u][j].exclude = f)
                   => received[c][i].id <= inbox[u][j].id
    BY DEF NotAhead
  <2>2. received[c][i].id \in DOMAIN log
    BY DEF Known
  <2>. QED BY <2>1, <2>2
<1>3. PublisherOrder'
  BY DEF PublisherOrder, Known
<1>. QED BY <1>1, <1>2, <1>3

DeliveryKept == Known' /\ NotAhead' /\ PublisherOrder' /\ CopiesInv'

(* Other commands: a connection that closes loses what it had received.     *)
LEMMA OtherKeepsDelivery ==
    ASSUME IndInv, TrafficInv, DeliveryInv, Other
    PROVE  DeliveryKept
<1>1. /\ UNCHANGED <<inbox, busy, log>>
      /\ \A c \in Conns : \/ received'[c] = <<>>
                          \/ home'[c] # None /\ home'[c] = home[c] /\ received'[c] = received[c]
      /\ \A c \in Conns : home'[c] = None => received'[c] = <<>>
  <2>1. \A c \in Conns : home'[c] = home[c] \/ home[c] = None \/ home'[c] = None
    BY HomesKept DEF Other
  <2>2. /\ UNCHANGED <<inbox, busy, log>>
        /\ \A c \in Conns :
               received'[c] = IF home'[c] = None THEN <<>> ELSE received[c]
    BY DEF Other, Bookkeeping
  <2>. QED BY <2>1, <2>2 DEF DeliveryInv, Known
<1>2. Known'
  BY <1>1 DEF Known, DeliveryInv
<1>3. NotAhead'
  BY <1>1 DEF NotAhead, DeliveryInv
<1>4. PublisherOrder'
  <2>1. \A c \in Conns : \A i \in DOMAIN received'[c] : received'[c] = received[c]
    BY <1>1
  <2>. QED BY <1>1, <2>1 DEF PublisherOrder, DeliveryInv
<1>5. CopiesInv'
  <2>1. Landing
    BY <1>1, RestsLand DEF Other, Bookkeeping, Rests, TrafficInv, PubTypeOK
  <2>. SUFFICES ASSUME NEW c \in Conns, NEW x \in Messages, NEW t \in Threads,
                       home'[c] = t, x.id \in DOMAIN log
                PROVE  Copied(c, x, t)'
    BY <1>1 DEF CopiesInv
  <2>2. CASE received'[c] = <<>>
    <3>1. <<>> \in Seq(Messages) /\ Absent(<<>>, x)
      BY EmptySeq DEF Absent
    <3>2. Once(<<>>, x, Weight(x)') /\ Twice(<<>>, x, Weight(x)')
      BY <3>1, AbsentIsFew
    <3>. QED BY <2>2, <3>1, <3>2 DEF Copied
  <2>3. CASE home'[c] = home[c] /\ received'[c] = received[c]
    <3>1. Copied(c, x, t)
      BY <2>3 DEF DeliveryInv, CopiesInv
    <3>2. Weight(x)' = Weight(x) /\ (Both(x.id, t)' <=> Both(x.id, t))
      BY <1>1 DEF Weight, Both
    <3>. QED BY <2>1, <2>3, <3>1, <3>2 DEF Copied, Landing
  <2>. QED BY <1>1, <2>2, <2>3
<1>. QED BY <1>2, <1>3, <1>4, <1>5 DEF DeliveryKept

(* The direct delivery on the publisher's worker. *)
LEMMA LocalKeepsDelivery ==
    ASSUME IndInv, ListsFinite, TrafficInv, DeliveryInv, NEW t \in Threads,
           DeliverLocal(t)
    PROVE  DeliveryKept
<1>. DEFINE id == busy[t].id
            messages == [c \in Conns |-> LocalMessages(t, c, id)]
<1>1. /\ id \in DOMAIN log /\ log[id].from = t /\ InFlight(id, t)
      /\ \A i \in {id} : ~ InFlight(i, t)'
  BY LocalLands
<1>2. /\ messages \in [Conns -> Seq(Messages)]
      /\ \A c \in Conns : Handed(messages[c], id)
  BY <1>1, LocalMessagesHanded DEF Handed, TrafficInv
<1>3. DeliversOne(t, messages, id)
  BY <1>1, <1>2 DEF DeliversOne, DeliverLocal
<1>4. busy[t].pc = "publish" /\ Rests /\ busy'[t].pc # "publish"
  BY BoxSteps DEF DeliverLocal, TrafficInv, PubTypeOK, NotBusy, Busy
<1>. HIDE DEF messages
<1>5. PICK i : i = id
  OBVIOUS
<1>6. CopiesInv'
  BY <1>1, <1>3, <1>4, <1>5, RestsLand, DeliveryKeepsCopies DEF TrafficInv, DeliveryInv
<1>7. \A c \in Conns : \A k \in DOMAIN received[c] :
          log[received[c][k].id].from = t => received[c][k].id <= id
  BY <1>4 DEF DeliveryInv, NotAhead
<1>8. Known' /\ NotAhead' /\ PublisherOrder'
  BY <1>1, <1>3, <1>4, <1>7, DeliveryKeepsOrder DEF DeliveryInv, Rests
<1>. QED BY <1>6, <1>8 DEF DeliveryKept

(* The delivery of a message from the inbox.                                *)
LEMMA InboxKeepsDelivery ==
    ASSUME IndInv, ListsFinite, TrafficInv, TrafficInv', DeliveryInv,
           NEW t \in Threads, ProcessInbox(t)
    PROVE  DeliveryKept
<1>1. PICK msg : msg = Head(inbox[t])
  OBVIOUS
<1>2. /\ 1 \in DOMAIN inbox[t] /\ msg = inbox[t][1] /\ msg \in Broadcasts
      /\ \A u \in Threads \ {t} : inbox'[u] = inbox[u]
      /\ \A i \in DOMAIN inbox'[t] : /\ i \in Nat \ {0} /\ i + 1 \in DOMAIN inbox[t]
                                     /\ inbox'[t][i] = inbox[t][i + 1]
      /\ UNCHANGED <<vars, busy, log>>
  BY <1>1, TakenOut DEF TrafficInv
<1>3. UNCHANGED home
  BY <1>2 DEF vars
<1>4. Landing
  BY TakeLands
<1>5. \A u \in Threads : \A j \in DOMAIN inbox'[u] :
          \E k \in DOMAIN inbox[u] : inbox'[u][j] = inbox[u][k]
  BY <1>2
<1>6. CASE msg.exclude = t
  <2>1. UNCHANGED received
    BY <1>1, <1>6 DEF ProcessInbox, Excluded
  <2>2. CopiesInv'
    BY <1>3, <1>4, <2>1, LandingKeepsCopies DEF TrafficInv, DeliveryInv
  <2>3. Known' /\ NotAhead' /\ PublisherOrder'
    BY <1>2, <1>3, <1>5, <2>1, QuietKeepsOrder DEF DeliveryInv
  <2>. QED BY <2>2, <2>3 DEF DeliveryKept
<1>7. CASE msg.exclude # t
  <2>1. /\ msg.id \in DOMAIN log /\ msg.exclude = log[msg.id].from
        /\ msg.exclude \in Threads
        /\ msg.kind = "publish" => InFlight(msg.id, t) /\ ~ InFlight(msg.id, t)'
        /\ msg.kind = "pattern" =>
               PatternInFlight(msg.id, t) /\ ~ PatternInFlight(msg.id, t)'
    BY <1>1, <1>7, InboxLands
  <2>2. PICK messages :
            /\ messages \in [Conns -> Seq(Messages)]
            /\ \A c \in Conns : Handed(messages[c], msg.id)
            /\ DeliverTo(t, messages)
            /\ \/ msg.kind = "publish"
               \/ /\ msg.kind = "pattern"
                  /\ \A c \in Conns : \A i \in DOMAIN messages[c] :
                         messages[c][i].kind = "pmessage"
    <3>1. CASE /\ msg.kind = "publish"
               /\ DeliverTo(t, [c \in Conns |-> LocalMessages(t, c, msg.id)])
      <4>1. \A c \in Conns : Handed(LocalMessages(t, c, msg.id), msg.id)
        BY <2>1, LocalMessagesHanded DEF TrafficInv
      <4>. QED BY <3>1, <4>1 DEF Handed
    <3>2. CASE /\ msg.kind = "pattern"
               /\ DeliverTo(t, [c \in Conns |-> PatternMessages(t, c, msg.id)])
      <4>1. \A c \in Conns :
                /\ Handed(PatternMessages(t, c, msg.id), msg.id)
                /\ \A i \in DOMAIN PatternMessages(t, c, msg.id) :
                       PatternMessages(t, c, msg.id)[i].kind = "pmessage"
        BY <2>1, PatternMessagesHanded DEF TrafficInv
      <4>. QED BY <3>2, <4>1 DEF Handed
    <3>. QED BY <1>1, <1>7, <3>1, <3>2 DEF ProcessInbox, Excluded
  <2>3. DeliversOne(t, messages, msg.id)
    BY <1>2, <2>1, <2>2 DEF DeliversOne
  <2>4. CopiesInv'
    BY <1>4, <2>1, <2>2, <2>3, DeliveryKeepsCopies DEF TrafficInv, DeliveryInv
  <2>5. \A c \in Conns : home[c] = t => \A i \in DOMAIN received[c] :
            log[received[c][i].id].from = msg.exclude => received[c][i].id <= msg.id
    BY <1>2, <1>7, <2>1 DEF DeliveryInv, NotAhead
  <2>6. /\ busy'[msg.exclude].pc = "publish" => msg.id <= busy'[msg.exclude].id
        /\ \A j \in DOMAIN inbox'[t] :
               inbox'[t][j].exclude = msg.exclude => msg.id <= inbox'[t][j].id
    <3>1. \A j \in DOMAIN inbox'[t] : 1 < j + 1
      BY <1>2
    <3>. QED BY <1>2, <2>1, <3>1 DEF TrafficInv, InboxOrdered
  <2>7. Known' /\ NotAhead' /\ PublisherOrder'
    BY <1>2, <1>5, <2>1, <2>3, <2>5, <2>6, DeliveryKeepsOrder DEF DeliveryInv
  <2>. QED BY <2>4, <2>7 DEF DeliveryKept
<1>. QED BY <1>6, <1>7

(* The steps of a PUBLISH that hand nothing over. *)
LEMMA SendKeepsDelivery ==
    ASSUME TrafficInv, TrafficInv', DeliveryInv, Landing,
           NEW t \in Threads, NEW u \in Threads,
           NEW kind \in {"publish", "pattern"}, NEW targets, NEW ptargets,
           Advances(t, targets, {}, ptargets),
           Broadcast(kind, busy[t].id, t) \in Broadcasts,
           TrySend(u, Broadcast(kind, busy[t].id, t))
    PROVE  DeliveryKept
<1>. DEFINE msg == Broadcast(kind, busy[t].id, t)
<1>1. /\ busy[t].pc = "publish" /\ UNCHANGED <<vars, received, log>>
      /\ \A v \in Threads \ {t} : busy'[v] = busy[v]
      /\ busy'[t].pc = "publish" /\ busy'[t].id = busy[t].id
  BY DEF Advances, Busy
<1>2. UNCHANGED home
  BY <1>1 DEF vars
<1>3. \A v \in Threads : \A i \in DOMAIN inbox'[v] :
          \/ i \in DOMAIN inbox[v] /\ inbox'[v][i] = inbox[v][i]
          \/ inbox'[v][i] = msg
  BY SentOff DEF TrafficInv
<1>4. msg.id = busy[t].id /\ msg.exclude = t
  BY DEF Broadcast
<1>. HIDE DEF msg
<1>5. \A v \in Threads : \A j \in DOMAIN inbox'[v] :
          \/ \E k \in DOMAIN inbox[v] : inbox'[v][j] = inbox[v][k]
          \/ \E w \in Threads : /\ busy[w].pc = "publish"
                                /\ inbox'[v][j].exclude = w
                                /\ inbox'[v][j].id = busy[w].id
  BY <1>1, <1>3, <1>4
<1>6. \A v \in Threads : busy'[v].pc = "publish" =>
          busy[v].pc = "publish" /\ busy[v].id = busy'[v].id
  BY <1>1
<1>7. Known' /\ NotAhead' /\ PublisherOrder'
  BY <1>1, <1>2, <1>5, <1>6, QuietKeepsOrder DEF DeliveryInv
<1>8. CopiesInv'
  BY <1>1, <1>2, LandingKeepsCopies DEF TrafficInv, DeliveryInv
<1>. QED BY <1>7, <1>8 DEF DeliveryKept

LEMMA ReadKeepsDelivery ==
    ASSUME IndInv, TrafficInv, TrafficInv', DeliveryInv,
           NEW t \in Threads, NEW p \in Patterns, ReadPatternThreads(t, p)
    PROVE  DeliveryKept
<1>1. /\ Advances(t, busy[t].targets, busy[t].unread \ {p},
                  busy[t].ptargets \cup Interested(p))
      /\ UNCHANGED <<inbox, dropped>>
  BY ReadAdvances DEF TrafficInv
<1>2. /\ UNCHANGED <<vars, received, log, inbox>>
      /\ \A v \in Threads : busy'[v].pc = "publish" =>
             busy[v].pc = "publish" /\ busy[v].id = busy'[v].id
  BY <1>1 DEF Advances, Busy
<1>3. UNCHANGED home
  BY <1>2 DEF vars
<1>4. Known' /\ NotAhead' /\ PublisherOrder'
  BY <1>2, <1>3, QuietKeepsOrder DEF DeliveryInv
<1>5. CopiesInv'
  BY <1>2, <1>3, ReadLands, LandingKeepsCopies DEF TrafficInv, DeliveryInv
<1>. QED BY <1>4, <1>5 DEF DeliveryKept

LEMMA BeginKeepsDelivery ==
    ASSUME IndInv, TrafficInv, TrafficInv', DeliveryInv, NEW t \in Threads,
           NEW c \in Conns, NEW ch \in Channels, BeginPublish(t, c, ch)
    PROVE  DeliveryKept
<1>. DEFINE id == Len(log) + 1
<1>1. UNCHANGED <<home, received, inbox>>
  BY DEF BeginPublish, vars
<1>2. PubTypeOK
  BY DEF TrafficInv
<1>3. \A i \in DOMAIN log : i \in DOMAIN log' /\ i \in Nat /\ i < id /\ log'[i] = log[i]
  BY <1>2, PublishBegins
<1>4. busy'[t].id = id /\ id \in Nat
  <2>1. busy'[t] = Busy("publish", id, Interested(ch), Patterns, {})
    BY <1>2 DEF BeginPublish, PubTypeOK
  <2>. QED BY <1>2, <2>1, LenProperties DEF Busy, PubTypeOK
<1>5. \A u \in Threads \ {t} : busy'[u] = busy[u]
  BY <1>2, PublishBegins
<1>. HIDE DEF id
<1>6. Known' /\ NotAhead' /\ PublisherOrder'
  BY <1>1, <1>3, <1>4, <1>5, QuietKeepsOrder DEF DeliveryInv
<1>7. CopiesInv'
  BY <1>1, BeginLands, LandingKeepsCopies DEF TrafficInv, DeliveryInv
<1>. QED BY <1>6, <1>7 DEF DeliveryKept

LEMMA BoxKeepsDelivery ==
    ASSUME TrafficInv, TrafficInv', DeliveryInv, NEW t \in Threads,
           BeginInbox(t) \/ EndInbox(t)
    PROVE  DeliveryKept
<1>1. UNCHANGED <<home, received>> /\ Rests
  BY BoxSteps DEF BeginInbox, EndInbox, vars, TrafficInv
<1>2. Known' /\ NotAhead' /\ PublisherOrder'
  BY <1>1, QuietKeepsOrder DEF DeliveryInv, Rests
<1>3. CopiesInv'
  BY <1>1, RestsLand, LandingKeepsCopies DEF TrafficInv, DeliveryInv
<1>. QED BY <1>2, <1>3 DEF DeliveryKept

LEMMA DeliveryStep ==
    ASSUME IndInv, ListsFinite, TrafficInv, DeliveryInv, PubNext
    PROVE  DeliveryInv'
<1>1. TrafficInv'
  BY TrafficStep
<1>2. ASSUME NEW t \in Threads, NEW u \in Threads, SendPublish(t, u)
      PROVE  DeliveryKept
  <2>1. /\ Advances(t, busy[t].targets \ {u}, {}, busy[t].ptargets)
        /\ Broadcast("publish", busy[t].id, t) \in Broadcasts
        /\ TrySend(u, Broadcast("publish", busy[t].id, t))
        /\ u \in busy[t].targets
    BY <1>2, SendAdvances DEF TrafficInv
  <2>2. Landing
    BY <2>1, SendLands
  <2>. QED BY <1>1, <2>1, <2>2, SendKeepsDelivery
<1>3. ASSUME NEW t \in Threads, NEW u \in Threads, SendPatternPublish(t, u)
      PROVE  DeliveryKept
  <2>1. /\ Advances(t, {}, {}, busy[t].ptargets \ {u})
        /\ Broadcast("pattern", busy[t].id, t) \in Broadcasts
        /\ TrySend(u, Broadcast("pattern", busy[t].id, t))
        /\ u \in busy[t].ptargets
    BY <1>3, SendPatternAdvances DEF TrafficInv
  <2>2. Landing
    BY <2>1, SendLands
  <2>. QED BY <1>1, <2>1, <2>2, SendKeepsDelivery
<1>4. ASSUME Sends PROVE DeliveryKept
  BY <1>1, <1>2, <1>3, <1>4, ReadKeepsDelivery DEF Sends
<1>5. DeliveryKept
  BY <1>1, <1>4, OtherKeepsDelivery, LocalKeepsDelivery, InboxKeepsDelivery,
     BoxKeepsDelivery, BeginKeepsDelivery, PubNextForms
<1>. QED BY <1>5 DEF DeliveryInv, DeliveryKept

----------------------------------------------------------------------------

LEMMA InitPubInv == PubInit => PubInv
<1>. SUFFICES ASSUME PubInit PROVE PubInv
  OBVIOUS
<1>1. IndInv
  BY InitIndInv DEF PubInit
<1>2. ListsFinite
  BY DEF PubInit, Init, ListsFinite, NoTask, Task
<1>3. NotBusy \in BusyStates /\ NotBusy.pc = "none"
  BY DEF NotBusy, Busy, BusyStates
<1>4. TrafficInv
  <2>1. PubTypeOK
    BY <1>3, EmptySeq DEF PubInit, PubTypeOK
  <2>. QED BY <1>3, <2>1 DEF PubInit, TrafficInv, Sent, Publishing, InboxOnce,
                         Unsent, Publishes, InboxOrdered
<1>5. DeliveryInv
  BY DEF PubInit, DeliveryInv, Known, NotAhead, PublisherOrder, CopiesInv,
         Absent
<1>. QED BY <1>1, <1>2, <1>4, <1>5 DEF PubInv

LEMMA PubInvariant == PubSpec => []PubInv
<1>1. PubInv /\ PubNext => PubInv'
  <2>. SUFFICES ASSUME PubInv, PubNext PROVE PubInv'
    OBVIOUS
  <2>1. [Next]_vars
    BY PubNextForms DEF Other
  <2>. QED BY <2>1, IndStep, ListsStep, TrafficStep, DeliveryStep DEF PubInv
<1>2. PubInv /\ UNCHANGED allVars => PubInv'
  <2>. SUFFICES ASSUME PubInv, UNCHANGED allVars PROVE PubInv'
    OBVIOUS
  <2>1. UNCHANGED vars /\ UNCHANGED pubVars
    BY DEF allVars
  <2>2. IndInv' /\ ListsFinite'
    BY <2>1, IndStep, ListsStep DEF PubInv
  <2>3. TrafficInv'
    BY <2>1 DEF PubInv, pubVars, TrafficInv, PubTypeOK, Sent, Publishing, InboxOnce,
                Unsent, Publishes, InboxOrdered
  <2>4. UNCHANGED <<home, inbox, busy, received, log>>
    BY <2>1 DEF vars, pubVars
  <2>5. Known' /\ NotAhead' /\ PublisherOrder'
    BY <2>4 DEF PubInv, DeliveryInv, Known, NotAhead, PublisherOrder
  <2>6. CopiesInv'
    <3>1. Landing
      BY <2>4 DEF Landing, InFlight, PatternInFlight, Publishes
    <3>. QED BY <2>4, <3>1, LandingKeepsCopies DEF PubInv, TrafficInv, DeliveryInv
  <2>. QED BY <2>2, <2>3, <2>5, <2>6 DEF PubInv, DeliveryInv
<1>. QED BY <1>1, <1>2, InitPubInv, PTL DEF PubSpec

(* Of the broadcasts of one worker, by one connection or several, nothing   *)
(* overtakes: a subscriber on any worker gets what it gets of them in the   *)
(* order they were published, directly, from its inbox, for a channel or    *)
(* for a pattern (publish, handler.rs; process_inbox, manager.rs).          *)
THEOREM OrderIsPublished == PubSpec => []PublisherOrder
  BY PubInvariant, PTL DEF PubInv, DeliveryInv

(* A subscriber of a channel gets a message at most once: the worker of the *)
(* publisher serves its own connections directly and skips the copy it is   *)
(* sent (exclude_thread), and every other worker is sent one copy.          *)
THEOREM ChannelOnce == PubSpec => []ExactAtMostOnce
<1>1. ASSUME PubInv PROVE ExactAtMostOnce
  <2>. SUFFICES ASSUME NEW c \in Conns, NEW id \in DOMAIN log
                PROVE  Copies(c, "message", log[id].channel, id) <= 1
    BY DEF ExactAtMostOnce
  <2>. DEFINE x == Message("message", log[id].channel, id)
  <2>1. x \in Messages /\ x.kind = "message" /\ x.id = id
    BY <1>1, LogTypes DEF PubInv, TrafficInv, Message, Messages
  <2>2. Copies(c, "message", log[id].channel, id) = Number(received[c], x)
    BY DEF Copies, Number, Places
  <2>. HIDE DEF x
  <2>3. CASE home[c] = None
    <3>1. received[c] = <<>>
      BY <1>1, <2>3 DEF PubInv, DeliveryInv, Known
    <3>2. <<>> \in Seq(Messages) /\ Absent(<<>>, x)
      BY EmptySeq DEF Absent
    <3>3. Number(<<>>, x) = 0
      BY <3>2, NumberType
    <3>. QED BY <2>2, <3>1, <3>3
  <2>4. CASE home[c] \in Threads
    <3>1. Copied(c, x, home[c])
      BY <1>1, <2>1, <2>4 DEF PubInv, DeliveryInv, CopiesInv
    <3>2. Number(received[c], x) \in {0, 1}
      BY <2>1, <3>1 DEF Copied, Once, Weight
    <3>. QED BY <2>2, <3>2
  <2>. QED BY <1>1, <2>3, <2>4 DEF PubInv, IndInv, TypeOK
<1>. QED BY <1>1, PubInvariant, PTL

(* A pattern subscriber gets a message as often as the trie comes to its    *)
(* pattern, or not at all; twice that often only on another worker than the *)
(* publisher's, which the registry listed for the channel as well.          *)
THEOREM PatternCopiesAreWays == PubSpec => []PatternCopies
<1>1. ASSUME PubInv PROVE PatternCopies
  <2>. SUFFICES ASSUME NEW c \in Conns, NEW id \in DOMAIN log, NEW p \in Patterns
                PROVE  \/ Copies(c, "pmessage", p, id) \in {0, Ways[<<p, log[id].channel>>]}
                       \/ /\ Copies(c, "pmessage", p, id)
                                  = 2 * Ways[<<p, log[id].channel>>]
                          /\ home[c] \in log[id].workers \ {log[id].from}
    BY DEF PatternCopies
  <2>. DEFINE x == Message("pmessage", p, id)
  <2>1. /\ x \in Messages /\ x.kind = "pmessage" /\ x.id = id
        /\ Weight(x) = Ways[<<p, log[id].channel>>]
    BY <1>1, LogTypes DEF PubInv, TrafficInv, Message, Messages, Weight
  <2>2. Copies(c, "pmessage", p, id) = Number(received[c], x)
    BY DEF Copies, Number, Places
  <2>. HIDE DEF x
  <2>3. CASE home[c] = None
    <3>1. received[c] = <<>>
      BY <1>1, <2>3 DEF PubInv, DeliveryInv, Known
    <3>2. <<>> \in Seq(Messages) /\ Absent(<<>>, x)
      BY EmptySeq DEF Absent
    <3>3. Number(<<>>, x) = 0
      BY <3>2, NumberType
    <3>. QED BY <2>2, <3>1, <3>3
  <2>4. CASE home[c] \in Threads
    <3>1. Copied(c, x, home[c])
      BY <1>1, <2>1, <2>4 DEF PubInv, DeliveryInv, CopiesInv
    <3>2. \/ Number(received[c], x) \in {0, Weight(x)}
          \/ Number(received[c], x) = 2 * Weight(x) /\ Both(id, home[c])
      BY <2>1, <3>1 DEF Copied, Once, Twice
    <3>. QED BY <2>1, <2>2, <3>2 DEF Both
  <2>. QED BY <1>1, <2>3, <2>4 DEF PubInv, IndInv, TypeOK
<1>. QED BY <1>1, PubInvariant, PTL

----------------------------------------------------------------------------
(* What a full inbox loses. *)

OwedInv ==
    /\ \A o \in owed : o[1] \in DOMAIN log
    /\ LostOnlyByFullInbox

(* A step that hands nothing over lets go of nothing either. *)
LEMMA CarriedOn ==
    ASSUME OwedInv, UNCHANGED home, owed' \subseteq owed,
           \A i \in DOMAIN log : i \in DOMAIN log', dropped \subseteq dropped',
           \A o \in owed' : \A v \in Threads :
               (home[o[2]] = v /\ InFlight(o[1], v)) =>
                   InFlight(o[1], v)' \/ <<o[1], v>> \in dropped'
    PROVE  OwedInv'
<1>1. \A o \in owed' : o[1] \in DOMAIN log'
  BY DEF OwedInv
<1>2. ASSUME NEW o \in owed'
      PROVE  \E t \in Threads : /\ home[o[2]] = t
                                /\ InFlight(o[1], t)' \/ <<o[1], t>> \in dropped'
  <2>1. PICK t \in Threads : /\ home[o[2]] = t
                             /\ InFlight(o[1], t) \/ <<o[1], t>> \in dropped
    BY <1>2 DEF OwedInv, LostOnlyByFullInbox
  <2>. QED BY <2>1
<1>3. LostOnlyByFullInbox'
  <2>. SUFFICES ASSUME NEW o \in owed'
                PROVE  \E t \in Threads : (/\ home[o[2]] = t
                                           /\ InFlight(o[1], t) \/ <<o[1], t>> \in dropped)'
    BY DEF LostOnlyByFullInbox
  <2>. QED BY <1>2
<1>. QED BY <1>1, <1>3 DEF OwedInv
(* Other commands: who unsubscribes or leaves is owed nothing more, and who *)
(* stays subscribed stays where it was.                                     *)
LEMMA OtherKeepsOwed ==
    ASSUME PubInv, PubInv', OwedInv, Other
    PROVE  OwedInv'
<1>1. /\ UNCHANGED <<inbox, busy, log, dropped>>
      /\ owed' = {o \in owed : \E u \in Threads :
                                   o[2] \in subs'[u][log[o[1]].channel]}
  BY DEF Other, Bookkeeping
<1>2. ASSUME NEW o \in owed' PROVE o[1] \in DOMAIN log'
  BY <1>1 DEF OwedInv
<1>3. ASSUME NEW o \in owed'
      PROVE  \E t \in Threads : /\ home'[o[2]] = t
                                /\ InFlight(o[1], t)' \/ <<o[1], t>> \in dropped'
  <2>1. PICK t \in Threads : /\ home[o[2]] = t
                             /\ InFlight(o[1], t) \/ <<o[1], t>> \in dropped
    BY <1>1 DEF OwedInv, LostOnlyByFullInbox
  <2>2. o[2] \in Conns /\ o[1] \in DOMAIN log
    BY <1>1 DEF OwedInv, PubInv, TrafficInv, PubTypeOK
  <2>3. log[o[1]].channel \in Topics
    <3>1. log[o[1]] \in Publications
      BY <2>2, LenProperties DEF PubInv, TrafficInv, PubTypeOK
    <3>. QED BY <3>1 DEF Publications, Topics
  <2>4. PICK u \in Threads : o[2] \in subs'[u][log[o[1]].channel]
    BY <1>1
  <2>5. home'[o[2]] = u
    BY <2>2, <2>3, <2>4 DEF PubInv, IndInv, MapsAgree
  <2>6. home'[o[2]] = home[o[2]]
    BY <2>1, <2>2, <2>5, HomesKept, NoneAssumption DEF PubInv, Other
  <2>7. InFlight(o[1], t) => InFlight(o[1], t)'
    BY <1>1 DEF InFlight
  <2>. QED BY <1>1, <2>1, <2>6, <2>7
<1>. QED BY <1>2, <1>3 DEF OwedInv, LostOnlyByFullInbox

(* PUBLISH owes the message to the subscribers it read the registry for.    *)
LEMMA BeginOwes ==
    ASSUME PubInv, OwedInv, NEW t \in Threads, NEW c \in Conns, NEW ch \in Channels,
           BeginPublish(t, c, ch)
    PROVE  OwedInv'
<1>0. PICK id : id = Len(log) + 1
  OBVIOUS
<1>1. IndInv /\ PubTypeOK
  BY DEF PubInv, TrafficInv
<1>2. /\ DOMAIN log' = DOMAIN log \cup {id}
      /\ busy[t].pc = "none"
      /\ busy'[t] = Busy("publish", id, Interested(ch), Patterns, {})
      /\ \A u \in Threads \ {t} : busy'[u] = busy[u]
  <2>1. /\ DOMAIN log' = DOMAIN log \cup {Len(log) + 1}
        /\ busy[t].pc = "none"
        /\ \A u \in Threads \ {t} : busy'[u] = busy[u]
    BY <1>1, PublishBegins
  <2>2. busy'[t] = Busy("publish", id, Interested(ch), Patterns, {})
    BY <1>0, <1>1 DEF BeginPublish, PubTypeOK
  <2>. QED BY <1>0, <2>1, <2>2
<1>3. UNCHANGED <<home, inbox, dropped>>
  BY DEF BeginPublish, vars
<1>4. owed' = owed \cup {<<id, d>> : d \in
                {d \in Conns : \E u \in Interested(ch) \cup {t} : d \in subs[u][ch]}}
  BY <1>0 DEF BeginPublish
<1>5. /\ busy'[t].pc = "publish" /\ busy'[t].id = id
      /\ busy'[t].targets = Interested(ch)
  BY <1>2 DEF Busy
<1>6. Interested(ch) \subseteq Threads /\ ch \in Topics
  BY <1>1 DEF IndInv, TypeOK, Interested, Topics
<1>7. ASSUME NEW o \in owed
      PROVE  /\ o[1] \in DOMAIN log'
             /\ \E v \in Threads : /\ home'[o[2]] = v
                                   /\ InFlight(o[1], v)' \/ <<o[1], v>> \in dropped'
  <2>1. PICK v \in Threads : /\ home[o[2]] = v
                             /\ InFlight(o[1], v) \/ <<o[1], v>> \in dropped
    BY DEF OwedInv, LostOnlyByFullInbox
  <2>2. InFlight(o[1], v) => InFlight(o[1], v)'
    BY <1>2, <1>3 DEF InFlight
  <2>3. o[1] \in DOMAIN log'
    BY <1>2 DEF OwedInv
  <2>. QED BY <1>3, <2>1, <2>2, <2>3
<1>8. ASSUME NEW d \in Conns, NEW u \in Interested(ch) \cup {t}, d \in subs[u][ch]
      PROVE  \E v \in Threads : home'[d] = v /\ InFlight(id, v)'
  <2>1. u \in Threads
    BY <1>6
  <2>2. home'[d] = u
    <3>1. home[d] = u
      BY <1>1, <1>6, <1>8, <2>1, ListedAtHome
    <3>. QED BY <1>3, <3>1
  <2>3. InFlight(id, u)'
    BY <1>5, <2>1 DEF InFlight
  <2>. QED BY <2>1, <2>2, <2>3
<1>9. ASSUME NEW o \in owed'
      PROVE  /\ o[1] \in DOMAIN log'
             /\ \E v \in Threads : /\ home'[o[2]] = v
                                   /\ InFlight(o[1], v)' \/ <<o[1], v>> \in dropped'
  <2>1. CASE o \in owed
    BY <1>7, <2>1
  <2>2. CASE o \notin owed
    <3>1. PICK d \in Conns : /\ o = <<id, d>>
                             /\ \E u \in Interested(ch) \cup {t} : d \in subs[u][ch]
      BY <1>4, <2>2
    <3>2. o[1] = id /\ o[2] = d
      BY <3>1
    <3>3. PICK v \in Threads : home'[d] = v /\ InFlight(id, v)'
      BY <1>8, <3>1
    <3>4. InFlight(o[1], v)'
      BY <3>2, <3>3 DEF InFlight
    <3>. QED BY <1>2, <3>2, <3>3, <3>4
  <2>. QED BY <2>1, <2>2
<1>. QED BY <1>9 DEF OwedInv, LostOnlyByFullInbox

(* A send puts the message into the inbox, or drops it. *)
LEMMA SendKeepsOwed ==
    ASSUME PubTypeOK, OwedInv, NEW t \in Threads, NEW u \in Threads,
           NEW kind \in {"publish", "pattern"}, NEW targets, NEW ptargets,
           Advances(t, targets, {}, ptargets),
           kind = "publish" => targets = busy[t].targets \ {u},
           kind = "pattern" => targets = busy[t].targets,
           Broadcast(kind, busy[t].id, t) \in Broadcasts,
           TrySend(u, Broadcast(kind, busy[t].id, t))
    PROVE  OwedInv'
<1>. DEFINE msg == Broadcast(kind, busy[t].id, t)
<1>1. /\ \A v \in Threads : \A i \in DOMAIN inbox[v] :
             i \in DOMAIN inbox'[v] /\ inbox'[v][i] = inbox[v][i]
      /\ \/ \E i \in DOMAIN inbox'[u] : inbox'[u][i] = msg
         \/ dropped' = dropped \cup {<<msg.id, u>>}
      /\ dropped \subseteq dropped'
  BY SentOff
<1>2. msg.kind = kind /\ msg.id = busy[t].id /\ msg.exclude = t
  BY DEF Broadcast
<1>3. /\ busy[t].pc = "publish" /\ UNCHANGED <<log, owed>>
      /\ \A v \in Threads \ {t} : busy'[v] = busy[v]
      /\ busy'[t].pc = "publish" /\ busy'[t].id = busy[t].id
      /\ busy'[t].targets = targets
  BY DEF Advances, Busy
<1>4. UNCHANGED home
  BY DEF Advances, vars
<1>. HIDE DEF msg
<1>5. ASSUME NEW o \in owed', NEW v \in Threads, InFlight(o[1], v)
      PROVE  InFlight(o[1], v)' \/ <<o[1], v>> \in dropped'
  <2>1. CASE \E i \in DOMAIN inbox[v] : /\ inbox[v][i].kind = "publish"
                                        /\ inbox[v][i].id = o[1]
                                        /\ inbox[v][i].exclude # v
    BY <1>1, <1>3, <2>1 DEF InFlight
  <2>2. CASE \E w \in Threads \ {v} : /\ busy[w].pc = "publish"
                                      /\ busy[w].id = o[1]
                                      /\ v \in busy[w].targets
    <3>1. PICK w \in Threads \ {v} : /\ busy[w].pc = "publish"
                                     /\ busy[w].id = o[1]
                                     /\ v \in busy[w].targets
      BY <2>2
    <3>2. CASE w # t \/ v \in targets
      <4>1. busy'[w].pc = "publish" /\ busy'[w].id = o[1] /\ v \in busy'[w].targets
        BY <1>3, <3>1, <3>2
      <4>. QED BY <1>3, <3>1, <4>1 DEF InFlight
    <3>3. CASE w = t /\ v \notin targets
      <4>1. kind = "publish" /\ v = u /\ o[1] = busy[t].id /\ v # t
        BY <3>1, <3>3
      <4>2. CASE \E i \in DOMAIN inbox'[u] : inbox'[u][i] = msg
        BY <1>2, <1>3, <4>1, <4>2 DEF InFlight
      <4>3. CASE dropped' = dropped \cup {<<msg.id, u>>}
        BY <1>2, <4>1, <4>3
      <4>. QED BY <1>1, <4>2, <4>3
    <3>. QED BY <3>2, <3>3
  <2>3. CASE busy[v].pc = "publish" /\ busy[v].id = o[1]
    BY <1>3, <2>3 DEF InFlight
  <2>. QED BY <1>5, <2>1, <2>2, <2>3 DEF InFlight
<1>. QED BY <1>1, <1>3, <1>4, <1>5, CarriedOn

LEMMA ReadKeepsOwed ==
    ASSUME IndInv, PubTypeOK, OwedInv, NEW t \in Threads, NEW p \in Patterns,
           ReadPatternThreads(t, p)
    PROVE  OwedInv'
<1>1. /\ Advances(t, busy[t].targets, busy[t].unread \ {p},
                  busy[t].ptargets \cup Interested(p))
      /\ UNCHANGED <<inbox, dropped>>
  BY ReadAdvances
<1>2. /\ busy[t].pc = "publish" /\ UNCHANGED <<log, owed>>
      /\ \A v \in Threads \ {t} : busy'[v] = busy[v]
      /\ busy'[t].pc = "publish" /\ busy'[t].id = busy[t].id
      /\ busy'[t].targets = busy[t].targets
  BY <1>1 DEF Advances, Busy
<1>3. UNCHANGED home
  BY <1>1 DEF Advances, vars
<1>4. ASSUME NEW o \in owed', NEW v \in Threads, InFlight(o[1], v)
      PROVE  InFlight(o[1], v)'
  BY <1>1, <1>2, <1>4 DEF InFlight
<1>. QED BY <1>1, <1>2, <1>3, <1>4, CarriedOn

LEMMA BoxKeepsOwed ==
    ASSUME PubTypeOK, OwedInv, NEW t \in Threads, BeginInbox(t) \/ EndInbox(t)
    PROVE  OwedInv'
<1>1. /\ UNCHANGED <<home, inbox, log, owed, dropped>>
      /\ busy[t].pc # "publish"
      /\ \A v \in Threads \ {t} : busy'[v] = busy[v]
  BY DEF BeginInbox, EndInbox, Free, NotBusy, Busy, vars, PubTypeOK
<1>2. ASSUME NEW o \in owed', NEW v \in Threads, InFlight(o[1], v)
      PROVE  InFlight(o[1], v)'
  BY <1>1, <1>2 DEF InFlight
<1>. QED BY <1>1, <1>2, CarriedOn

(* The direct delivery settles what the worker owes its own connections;    *)
(* the other workers have been sent their copies.                           *)
LEMMA LocalKeepsOwed ==
    ASSUME PubTypeOK, OwedInv, NEW t \in Threads, DeliverLocal(t)
    PROVE  OwedInv'
<1>1. /\ UNCHANGED <<home, inbox, log, dropped>>
      /\ busy[t].pc = "publish" /\ busy[t].targets = {}
      /\ \A v \in Threads \ {t} : busy'[v] = busy[v]
      /\ owed' = {o \in owed : ~ (o[1] = busy[t].id /\ home[o[2]] = t)}
  BY DEF DeliverLocal, Settle, vars, PubTypeOK
<1>2. ASSUME NEW o \in owed', NEW v \in Threads, home[o[2]] = v, InFlight(o[1], v)
      PROVE  InFlight(o[1], v)'
  <2>1. v # t \/ o[1] # busy[t].id
    BY <1>1, <1>2
  <2>. QED BY <1>1, <1>2, <2>1 DEF InFlight
<1>. QED BY <1>1, <1>2, CarriedOn

(* A message taken out of the inbox is settled, or was not owed here.       *)
LEMMA InboxKeepsOwed ==
    ASSUME PubTypeOK, OwedInv, NEW t \in Threads, ProcessInbox(t)
    PROVE  OwedInv'
<1>1. PICK msg : msg = Head(inbox[t])
  OBVIOUS
<1>2. /\ msg = inbox[t][1]
      /\ \A u \in Threads \ {t} : inbox'[u] = inbox[u]
      /\ \A i \in DOMAIN inbox[t] : i = 1 \/ /\ i - 1 \in DOMAIN inbox'[t]
                                             /\ inbox'[t][i - 1] = inbox[t][i]
      /\ UNCHANGED <<vars, busy, log, dropped>>
  BY <1>1, TakenOut
<1>3. UNCHANGED home
  BY <1>2 DEF vars
<1>4. /\ owed' \subseteq owed
      /\ (msg.kind = "publish" /\ msg.exclude # t) =>
             \A o \in owed' : ~ (o[1] = msg.id /\ home[o[2]] = t)
  BY <1>1 DEF ProcessInbox, Excluded, Settle
<1>5. ASSUME NEW o \in owed', NEW v \in Threads, home[o[2]] = v, InFlight(o[1], v)
      PROVE  InFlight(o[1], v)'
  <2>1. CASE \E i \in DOMAIN inbox[v] : /\ inbox[v][i].kind = "publish"
                                        /\ inbox[v][i].id = o[1]
                                        /\ inbox[v][i].exclude # v
    <3>1. PICK i \in DOMAIN inbox[v] : /\ inbox[v][i].kind = "publish"
                                       /\ inbox[v][i].id = o[1]
                                       /\ inbox[v][i].exclude # v
      BY <2>1
    <3>2. CASE v = t
      <4>1. i # 1
        BY <1>2, <1>4, <1>5, <3>1, <3>2
      <4>2. i - 1 \in DOMAIN inbox'[v] /\ inbox'[v][i - 1] = inbox[v][i]
        BY <1>2, <3>1, <3>2, <4>1
      <4>. QED BY <3>1, <4>2 DEF InFlight
    <3>3. CASE v # t
      BY <1>2, <3>1, <3>3 DEF InFlight
    <3>. QED BY <3>2, <3>3
  <2>2. CASE ~ \E i \in DOMAIN inbox[v] : /\ inbox[v][i].kind = "publish"
                                          /\ inbox[v][i].id = o[1]
                                          /\ inbox[v][i].exclude # v
    BY <1>2, <1>5, <2>2 DEF InFlight
  <2>. QED BY <2>1, <2>2
<1>. QED BY <1>2, <1>3, <1>4, <1>5, CarriedOn

LEMMA OwedStep ==
    ASSUME PubInv, PubInv', OwedInv, PubNext
    PROVE  OwedInv'
<1>. USE DEF PubInv, TrafficInv
<1>1. ASSUME NEW t \in Threads, NEW u \in Threads, SendPublish(t, u)
      PROVE  OwedInv'
  <2>1. /\ Advances(t, busy[t].targets \ {u}, {}, busy[t].ptargets)
        /\ Broadcast("publish", busy[t].id, t) \in Broadcasts
        /\ TrySend(u, Broadcast("publish", busy[t].id, t))
    BY <1>1, SendAdvances
  <2>. QED BY <2>1, SendKeepsOwed
<1>2. ASSUME NEW t \in Threads, NEW u \in Threads, SendPatternPublish(t, u)
      PROVE  OwedInv'
  <2>1. /\ Advances(t, {}, {}, busy[t].ptargets \ {u}) /\ busy[t].targets = {}
        /\ Broadcast("pattern", busy[t].id, t) \in Broadcasts
        /\ TrySend(u, Broadcast("pattern", busy[t].id, t))
    BY <1>2, SendPatternAdvances
  <2>. QED BY <2>1, SendKeepsOwed
<1>3. Sends => OwedInv'
  BY <1>1, <1>2, ReadKeepsOwed DEF Sends
<1>4. Other => OwedInv'
  BY OtherKeepsOwed
<1>5. \A t \in Threads : DeliverLocal(t) \/ BeginInbox(t) \/ ProcessInbox(t) \/ EndInbox(t)
                             => OwedInv'
  BY LocalKeepsOwed, BoxKeepsOwed, InboxKeepsOwed
<1>6. \A t \in Threads, c \in Conns, ch \in Channels : BeginPublish(t, c, ch) => OwedInv'
  BY BeginOwes
<1>. QED BY <1>3, <1>4, <1>5, <1>6, PubNextForms

(* A message owed to a subscriber is on its way to the worker the           *)
(* subscriber is connected to, until it arrives, the subscriber leaves, or  *)
(* that worker's inbox is full (let _ = try_send, registry.rs).             *)
THEOREM LossesAreFullInboxes == PubSpec => []LostOnlyByFullInbox
<1>1. PubInit => OwedInv
  BY DEF PubInit, OwedInv, LostOnlyByFullInbox
<1>2. PubInv /\ PubInv' /\ OwedInv /\ [PubNext]_allVars => OwedInv'
  <2>. SUFFICES ASSUME PubInv, PubInv', OwedInv, UNCHANGED allVars PROVE OwedInv'
    BY OwedStep
  <2>1. UNCHANGED <<home, inbox, busy, owed, dropped, log>>
    BY DEF allVars, pubVars, vars
  <2>2. \A id, t : InFlight(id, t)' <=> InFlight(id, t)
    BY <2>1 DEF InFlight
  <2>. QED BY <2>1, <2>2 DEF OwedInv, LostOnlyByFullInbox
<1>3. OwedInv => LostOnlyByFullInbox
  BY DEF OwedInv
<1>. QED BY <1>1, <1>2, <1>3, PubInvariant, PTL DEF PubSpec
=============================================================================
