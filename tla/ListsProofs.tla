---------------------------- MODULE ListsProofs ----------------------------
(* Proofs about module Lists, for any number of workers, values and pops:   *)
(* the metadata of a list stays consistent under any mix of the four        *)
(* commands, a list used as a queue hands out every value once, and on one  *)
(* worker the commands are those of a deque.                                *)
EXTENDS Lists, DataLemmas

(* Metadata whose count is the distance from head to tail. *)
Consistent(m) ==
    /\ m \in Metas
    /\ m.count = m.tail - m.head

(* The inductive invariant.  What a worker has read matters as much as what *)
(* is stored, for it is what the worker computes the next metadata from:    *)
(* a worker that is about to pop has seen an item.                          *)
IInv ==
    /\ meta # None => Consistent(meta)
    /\ DOMAIN seen = Workers
    /\ \A w \in Workers : Consistent(seen[w])
    /\ DOMAIN pc = Workers
    /\ \A w \in Workers : pc[w] = "swapPop" => seen[w].count > 0

(* A list is created with consistent metadata. *)
LEMMA InitialConsistent == Consistent(Initial)
BY DEF Consistent, Initial, Meta, Metas

(* LPUSH and RPUSH compute consistent metadata from consistent metadata:    *)
(* resetting an empty list changes nothing.                                 *)
LEMMA PushedConsistent ==
    ASSUME NEW side, NEW m, Consistent(m)
    PROVE  Consistent(Pushed(side, m))
BY DEF Consistent, Pushed, Meta, Metas

(* LPOP and RPOP do too, if the count they start from is not zero.          *)
LEMMA PoppedConsistent ==
    ASSUME NEW side, NEW m, Consistent(m), m.count > 0
    PROVE  Consistent(Popped(side, m))
BY DEF Consistent, Popped, Meta, Metas

(* A list that is not empty has a positive count. *)
LEMMA NotEmptyCounts ==
    ASSUME NEW m, Consistent(m), ~ IsEmpty(m)
    PROVE  m.count > 0
BY DEF Consistent, IsEmpty, Metas

(* A new list starts consistent. *)
LEMMA InitConsistent == Init => IInv
BY InitialConsistent, StartAssumption DEF Init, IInv

(* A worker that moves to a label where it is not about to pop, and reads   *)
(* nothing, disturbs the invariant only by what it stores.                  *)
LEMMA MovePreserves ==
    ASSUME IInv, NEW w \in Workers, NEW label, label # "swapPop",
           GoTo(w, label), UNCHANGED seen,
           meta' = meta \/ Consistent(meta')
    PROVE  IInv'
BY DEF IInv, GoTo, Consistent

(* Neither do the commands when they start. *)
LEMMA RequestPreserves ==
    ASSUME IInv, NEW w \in Workers, Request(w)
    PROVE  IInv'
<1>1. CASE \E n \in 1 .. 2, side \in Sides : BeginPush(w, side, n)
  BY <1>1, MovePreserves DEF BeginPush
<1>2. CASE \E n \in 1 .. 2, side \in PopSides : BeginPop(w, side, n)
  BY <1>2, MovePreserves DEF BeginPop
<1>. QED
  BY <1>1, <1>2 DEF Request

(* No step of a push does. *)
LEMMA PushPreserves ==
    ASSUME IInv, NEW w \in Workers,
           \/ ReadForPush(w) \/ CreateMeta(w) \/ OverwriteMeta(w)
           \/ SwapForPush(w) \/ InsertItem(w) \/ EndPush(w)
    PROVE  IInv'
<1>1. CASE ReadForPush(w)
  <2>1. CASE meta = None
    BY <1>1, <2>1, MovePreserves DEF ReadForPush
  <2>2. CASE meta # None
    BY <1>1, <2>2 DEF ReadForPush, IInv, GoTo, Consistent
  <2>. QED
    BY <2>1, <2>2
<1>2. CASE CreateMeta(w)
  <2>1. Consistent(meta') /\ \A u \in Workers : Consistent(seen'[u])
    BY <1>2, InitialConsistent DEF CreateMeta, IInv
  <2>. QED
    BY <1>2, <2>1 DEF CreateMeta, IInv, GoTo, Consistent
<1>3. ASSUME WritePushed(w), UNCHANGED seen PROVE IInv'
  <2>1. Consistent(meta')
    BY <1>3, PushedConsistent DEF WritePushed, IInv
  <2>. QED
    BY <1>3, <2>1, MovePreserves DEF WritePushed
<1>4. CASE OverwriteMeta(w)
  BY <1>3, <1>4 DEF OverwriteMeta
<1>5. CASE SwapForPush(w)
  <2>1. CASE WritePushed(w)
    BY <1>3, <1>5, <2>1 DEF SwapForPush
  <2>2. CASE UNCHANGED meta /\ (TryAgain(w, "readPush") \/ GoTo(w, "idle"))
    BY <1>5, <2>2, MovePreserves DEF SwapForPush, TryAgain
  <2>. QED
    BY <1>5, <2>1, <2>2 DEF SwapForPush
<1>6. CASE InsertItem(w)
  BY <1>6, MovePreserves DEF InsertItem
<1>7. CASE EndPush(w)
  BY <1>7, MovePreserves DEF EndPush
<1>. QED
  BY <1>1, <1>2, <1>4, <1>5, <1>6, <1>7

(* No step of a pop does. *)
LEMMA PopPreserves ==
    ASSUME IInv, NEW w \in Workers,
           \/ ReadForPop(w) \/ SwapForPop(w) \/ TakeItem(w)
           \/ DeleteItem(w) \/ EndPop(w)
    PROVE  IInv'
<1>1. CASE ReadForPop(w)
  <2>1. CASE IsEmpty(meta)
    BY <1>1, <2>1, MovePreserves DEF ReadForPop, Reply
  <2>2. CASE ~ IsEmpty(meta)
    <3>1. Consistent(meta) /\ meta.count > 0
      BY <2>2, NotEmptyCounts DEF IInv, IsEmpty
    <3>. QED
      BY <1>1, <2>2, <3>1 DEF ReadForPop, IInv, GoTo, Consistent
  <2>. QED
    BY <2>1, <2>2
<1>2. CASE SwapForPop(w)
  <2>1. CASE WritePopped(w)
    <3>1. Consistent(meta')
      BY <1>2, <2>1, PoppedConsistent DEF SwapForPop, WritePopped, At, IInv
    <3>. QED
      BY <1>2, <2>1, <3>1, MovePreserves DEF SwapForPop, WritePopped
  <2>2. CASE UNCHANGED meta /\ (TryAgain(w, "readPop") \/ Reply(w))
    BY <1>2, <2>2, MovePreserves DEF SwapForPop, TryAgain, Reply
  <2>. QED
    BY <1>2, <2>1, <2>2 DEF SwapForPop
<1>3. CASE TakeItem(w)
  BY <1>3, MovePreserves DEF TakeItem
<1>4. CASE DeleteItem(w)
  BY <1>4, MovePreserves DEF DeleteItem
<1>5. CASE EndPop(w)
  BY <1>5, MovePreserves DEF EndPop, Reply
<1>. QED
  BY <1>1, <1>2, <1>3, <1>4, <1>5

(* Every step preserves the invariant. *)
LEMMA StepPreserves == IInv /\ [Next]_vars => IInv'
<1>. SUFFICES ASSUME IInv, [Next]_vars PROVE IInv'
  OBVIOUS
<1>1. CASE UNCHANGED vars
  BY <1>1 DEF vars, IInv, Consistent
<1>2. ASSUME NEW w \in Workers, Request(w) \/ Step(w) PROVE IInv'
  BY <1>2, RequestPreserves, PushPreserves, PopPreserves DEF Step
<1>. QED
  BY <1>1, <1>2 DEF Next

(* The count of a list is the distance between its ends and the decrement   *)
(* of a pop never wraps around, whatever commands the workers execute at    *)
(* the same time, the races to create the list included.                    *)
THEOREM CountsAgree == Spec => []CountMatches
<1>1. IInv => CountMatches
  BY DEF IInv, CountMatches, Consistent, Metas
<1>. QED
  BY <1>1, InitConsistent, StepPreserves, PTL DEF Spec

----------------------------------------------------------------------------
(* A queue: the list is there, RPUSH appends and LPOP takes.                *)

Labels == {"idle", "readPush", "create", "overwrite", "swapPush", "insert",
           "readPop", "swapPop", "take", "delete"}

Jobs == [side : {"left", "right"}, todo : Seq(Values), left : Int, retries : Nat,
         pos : Int, taken : Seq(Values)]

Pushing == {"readPush", "swapPush", "insert"}
Popping == {"readPop", "swapPop", "take", "delete"}
Takes(w) == pc[w] \in {"take", "delete"}

QueueTypeOK ==
    /\ meta # None
    /\ items \in [Positions -> Values \cup {None}]
    /\ pc \in [Workers -> Labels]
    /\ job \in [Workers -> Jobs]
    /\ pushes \in 0 .. MaxPushes
    /\ returned \in [Workers -> Seq(Values)]

(* What the locals of a worker hold at each label. *)
Fits(label, j) ==
    /\ label \notin {"create", "overwrite"}
    /\ label \in Pushing => j.side = "right"
    /\ label \in Popping => j.side = "left"
    /\ label \notin Pushing => j.todo = <<>>
    /\ label \notin Popping => j.taken = <<>>
    /\ label \in {"swapPush", "insert"} => j.todo # <<>>

InCommand == \A w \in Workers : Fits(pc[w], job[w])

(* A position is given to one push before the tail passes it, and to one    *)
(* pop when the head does.                                                  *)
Bounds ==
    /\ 0 <= meta.head
    /\ \A p \in Positions : items[p] # None => 0 <= p /\ p < meta.tail
    /\ \A w \in Workers :
          /\ At(w, "insert") => /\ 0 <= job[w].pos /\ job[w].pos < meta.tail
                                /\ items[job[w].pos] = None
          /\ Takes(w) => 0 <= job[w].pos /\ job[w].pos < meta.head

Exclusive ==
    \A w, u \in Workers : w # u =>
        /\ At(w, "insert") /\ At(u, "insert") => job[w].pos # job[u].pos
        /\ Takes(w) /\ Takes(u) => job[w].pos # job[u].pos

(* What a worker has popped without the item it is about to take.           *)
Had(w) == returned[w] \o job[w].taken

(* The item that is deleted is the one taken last. *)
Deleting ==
    \A w \in Workers : At(w, "delete") =>
        /\ job[w].taken # <<>>
        /\ items[job[w].pos] = job[w].taken[Len(job[w].taken)]

(* No value is numbered beyond those sent. *)
Fresh ==
    /\ \A w \in Workers : \A i \in DOMAIN job[w].todo : job[w].todo[i] <= pushes
    /\ \A p \in Positions : items[p] # None => items[p] <= pushes
    /\ \A w \in Workers : \A i \in DOMAIN Had(w) : Had(w)[i] <= pushes

(* A value waits at one place, is stored at one place and popped at one     *)
(* place, and not at two of these unless its item is being deleted.         *)
TodoOnce ==
    \A w, u \in Workers : \A i \in DOMAIN job[w].todo, j \in DOMAIN job[u].todo :
        job[w].todo[i] = job[u].todo[j] => w = u /\ i = j

ItemsOnce ==
    \A p, q \in Positions : items[p] = items[q] => p = q \/ items[p] = None

TodoElsewhere ==
    \A w \in Workers : \A i \in DOMAIN job[w].todo :
        /\ \A p \in Positions : items[p] # job[w].todo[i]
        /\ \A u \in Workers : \A j \in DOMAIN Had(u) : Had(u)[j] # job[w].todo[i]

HadOnce ==
    \A w, u \in Workers : \A i \in DOMAIN Had(w), j \in DOMAIN Had(u) :
        Had(w)[i] = Had(u)[j] => w = u /\ i = j

HadDeleted ==
    \A p \in Positions, w \in Workers : \A i \in DOMAIN Had(w) :
        items[p] = Had(w)[i] => \E u \in Workers : At(u, "delete") /\ job[u].pos = p

OnceInv == Fresh /\ TodoOnce /\ ItemsOnce /\ TodoElsewhere /\ HadOnce /\ HadDeleted

(* The tail moves once for each value, so that the positions do not run out *)
(* before the values do.                                                    *)
Unplaced ==
    {v \in Values : \E w \in Workers : \E i \in DOMAIN job[w].todo :
        job[w].todo[i] = v /\ ~ (At(w, "insert") /\ i = 1)}

RoomLeft == meta.tail + Cardinality(Unplaced) <= pushes

PlacesInv == Bounds /\ Exclusive /\ Deleting /\ RoomLeft

QueueInv == IInv /\ QueueTypeOK /\ InCommand /\ PlacesInv /\ OnceInv

(* Values are numbers and None is not, positions run from 0 to MaxPushes.   *)
LEMMA QueueConstants ==
    /\ Values \subseteq Nat \ {0} /\ None \notin Values /\ IsFiniteSet(Values)
    /\ \A p \in Int : 0 <= p /\ p < MaxPushes => p \in Positions
    /\ MaxPushes \in Nat
<1>1. MaxPushes \in Nat
  BY ListBoundsAssumption
<1>2. IsFiniteSet(Values)
  BY <1>1, FS_Interval DEF Values
<1>. QED BY <1>1, <1>2, AbsentAssumption DEF Values, Positions

----------------------------------------------------------------------------
(* The steps of a queue, by what they do. *)

OthersRest(w) ==
    \A u \in Workers \ {w} :
        pc'[u] = pc[u] /\ job'[u] = job[u] /\ returned'[u] = returned[u]

(* The steps that neither move an item nor give a position to anyone.       *)
Quiet(w) ==
    /\ OthersRest(w)
    /\ UNCHANGED <<meta, items, pushes, stored, overtaken>>
    /\ pc[w] \notin {"insert", "take", "delete"}
    /\ pc'[w] \notin {"insert", "take", "delete"}
    /\ job'[w].todo \in {job[w].todo, <<>>}
    /\ returned'[w] \o job'[w].taken = Had(w)

Sends(w, n) ==
    /\ OthersRest(w)
    /\ UNCHANGED <<meta, items, returned, stored, overtaken>>
    /\ pc[w] = "idle" /\ pc'[w] = "readPush"
    /\ job'[w].todo \in Seq(Values) /\ DOMAIN job'[w].todo = 1 .. n
    /\ \A i \in 1 .. n : job'[w].todo[i] = pushes + i
    /\ job'[w].taken = job[w].taken
    /\ pushes' = pushes + n

Places(w) ==
    /\ OthersRest(w)
    /\ UNCHANGED <<items, pushes, returned, stored, overtaken>>
    /\ pc[w] = "swapPush" /\ pc'[w] = "insert"
    /\ job'[w] = [job[w] EXCEPT !.pos = meta.tail]
    /\ meta'.head = meta.head /\ meta'.tail = meta.tail + 1

Stores(w) ==
    /\ OthersRest(w)
    /\ UNCHANGED <<meta, pushes, returned, overtaken>>
    /\ pc[w] = "insert" /\ pc'[w] = "readPush"
    /\ items' = [items EXCEPT ![job[w].pos] = Head(job[w].todo)]
    /\ stored' = stored \cup {Head(job[w].todo)}
    /\ job'[w].todo = Tail(job[w].todo) /\ job'[w].taken = job[w].taken

Claims(w) ==
    /\ OthersRest(w)
    /\ UNCHANGED <<items, pushes, returned, stored, overtaken>>
    /\ pc[w] = "swapPop" /\ pc'[w] = "take"
    /\ job'[w] = [job[w] EXCEPT !.pos = meta.head]
    /\ meta.head < meta.tail
    /\ meta'.head = meta.head + 1 /\ meta'.tail = meta.tail

Misses(w) ==
    /\ OthersRest(w)
    /\ UNCHANGED <<meta, items, job, pushes, returned, stored>>
    /\ pc[w] = "take" /\ pc'[w] = "readPop"
    /\ items[job[w].pos] = None
    /\ overtaken' = overtaken \cup Pending(job[w].pos)

Finds(w) ==
    /\ OthersRest(w)
    /\ UNCHANGED <<meta, items, pushes, returned, stored, overtaken>>
    /\ pc[w] = "take" /\ pc'[w] = "delete"
    /\ items[job[w].pos] # None
    /\ job'[w] = [job[w] EXCEPT !.taken = Append(job[w].taken, items[job[w].pos])]

Deletes(w) ==
    /\ OthersRest(w)
    /\ UNCHANGED <<meta, pushes, returned, stored, overtaken>>
    /\ pc[w] = "delete" /\ pc'[w] = "readPop"
    /\ items' = [items EXCEPT ![job[w].pos] = None]
    /\ job'[w].todo = job[w].todo /\ job'[w].taken = job[w].taken

AQueue == Sides = {"right"} /\ PopSides = {"left"} /\ StartMeta = Initial

(* A job has the type of its parts. *)
LEMMA JobFields ==
    ASSUME NEW j \in Jobs
    PROVE  /\ j.side \in {"left", "right"} /\ j.todo \in Seq(Values) /\ j.left \in Int
           /\ j.retries \in Nat /\ j.pos \in Int /\ j.taken \in Seq(Values)
BY DEF Jobs

LEMMA JobTyped ==
    ASSUME NEW side \in {"left", "right"}, NEW todo \in Seq(Values), NEW n \in Int
    PROVE  /\ Job(side, todo, n) \in Jobs
           /\ Job(side, todo, n).side = side /\ Job(side, todo, n).todo = todo
           /\ Job(side, todo, n).taken = <<>>
<1>1. <<>> \in Seq(Values)
  BY EmptySeq
<1>. QED BY <1>1 DEF Job, Jobs

LEMMA NoJobTyped == NoJob \in Jobs /\ NoJob.todo = <<>> /\ NoJob.taken = <<>>
<1>1. <<>> \in Seq(Values)
  BY EmptySeq
<1>. QED BY <1>1 DEF NoJob, Job, Jobs

(* A worker without values taken has what it returned. *)
LEMMA HadTyped ==
    ASSUME QueueTypeOK, NEW w \in Workers
    PROVE  /\ Had(w) \in Seq(Values) /\ returned[w] \in Seq(Values)
           /\ job[w].taken \in Seq(Values) /\ job[w].todo \in Seq(Values)
           /\ Had(w) \o <<>> = Had(w)
           /\ job[w].taken = <<>> => Had(w) = returned[w]
<1>1. returned[w] \in Seq(Values) /\ job[w].taken \in Seq(Values) /\ job[w].todo \in Seq(Values)
  BY JobFields DEF QueueTypeOK
<1>2. Had(w) \in Seq(Values)
  BY <1>1, ConcatProperties DEF Had
<1>3. Had(w) \o <<>> = Had(w) /\ returned[w] \o <<>> = returned[w]
  BY <1>1, <1>2, ConcatEmptySeq
<1>. QED BY <1>1, <1>2, <1>3 DEF Had

(* A worker that replies has had no less. *)
LEMMA ReplyQuiet ==
    ASSUME QueueTypeOK, InCommand, NEW w \in Workers, Reply(w),
           pc[w] \in {"readPop", "swapPop"},
           UNCHANGED <<meta, items, pushes, stored, overtaken>>
    PROVE  QueueTypeOK' /\ InCommand' /\ Quiet(w)
<1>1. NoJob \in Jobs /\ NoJob.todo = <<>> /\ NoJob.taken = <<>>
  BY NoJobTyped
<1>2. /\ pc' = [pc EXCEPT ![w] = "idle"] /\ job' = [job EXCEPT ![w] = NoJob]
      /\ returned' = [returned EXCEPT ![w] = Had(w)]
  BY DEF Reply, GoTo, Had
<1>3. Had(w) \in Seq(Values) /\ Had(w) \o <<>> = Had(w)
  BY HadTyped
<1>. USE DEF QueueTypeOK
<1>4. QueueTypeOK'
  BY <1>1, <1>2, <1>3 DEF Labels
<1>5. InCommand'
  BY <1>1, <1>2 DEF InCommand, Fits, Pushing, Popping
<1>6. Quiet(w)
  BY <1>1, <1>2, <1>3 DEF Quiet, OthersRest
<1>. QED BY <1>4, <1>5, <1>6

(* What a worker does with its locals. *)
LEMMA MoveTyped ==
    ASSUME QueueTypeOK, InCommand, NEW w \in Workers, NEW label \in Labels,
           NEW j \in Jobs, GoTo(w, label), job' = [job EXCEPT ![w] = j],
           Fits(label, j), meta' # None, items' \in [Positions -> Values \cup {None}],
           UNCHANGED returned, pushes' \in 0 .. MaxPushes
    PROVE  QueueTypeOK' /\ InCommand' /\ pc'[w] = label /\ job'[w] = j /\ OthersRest(w)
<1>. USE DEF QueueTypeOK, GoTo
<1>1. QueueTypeOK'
  OBVIOUS
<1>2. /\ pc'[w] = label /\ job'[w] = j
      /\ \A u \in Workers \ {w} : pc'[u] = pc[u] /\ job'[u] = job[u]
  OBVIOUS
<1>3. InCommand'
  <2>1. \A u \in Workers : Fits(pc'[u], job'[u])
    BY <1>2 DEF InCommand
  <2>. QED BY <2>1 DEF InCommand, Fits
<1>. QED BY <1>1, <1>2, <1>3 DEF OthersRest

(* A worker that moves on without storing or popping anything. *)
LEMMA MoveQuiet ==
    ASSUME QueueTypeOK, InCommand, NEW w \in Workers, NEW label \in Labels,
           NEW j \in Jobs, GoTo(w, label), job' = [job EXCEPT ![w] = j],
           Fits(label, j), UNCHANGED <<meta, items, pushes, returned, stored, overtaken>>,
           pc[w] \notin {"insert", "take", "delete"},
           label \notin {"insert", "take", "delete"},
           j.todo \in {job[w].todo, <<>>}, j.taken = job[w].taken
    PROVE  QueueTypeOK' /\ InCommand' /\ Quiet(w)
<1>1. QueueTypeOK' /\ InCommand' /\ pc'[w] = label /\ job'[w] = j /\ OthersRest(w)
  BY MoveTyped DEF QueueTypeOK
<1>2. returned'[w] \o job'[w].taken = Had(w)
  BY <1>1 DEF Had
<1>. QED BY <1>1, <1>2 DEF Quiet

LEMMA RequestEffects ==
    ASSUME AQueue, QueueTypeOK, InCommand, NEW w \in Workers, Request(w)
    PROVE  /\ QueueTypeOK' /\ InCommand'
           /\ Quiet(w) \/ \E n \in 1 .. 2 : Sends(w, n)
<1>1. ASSUME NEW n \in 1 .. 2, BeginPush(w, "right", n)
      PROVE  QueueTypeOK' /\ InCommand' /\ Sends(w, n)
  <2>. DEFINE todo == [i \in 1 .. n |-> pushes + i]
              j == Job("right", todo, 0)
  <2>1. pc[w] = "idle" /\ pushes + n <= MaxPushes /\ pushes' = pushes + n
    BY <1>1 DEF BeginPush, At
  <2>2. todo \in Seq(Values)
    <3>1. \A i \in 1 .. n : pushes + i \in Values
      BY <2>1, QueueConstants DEF QueueTypeOK, Values
    <3>. QED BY <3>1, IsASeq
  <2>3. j \in Jobs /\ j.side = "right" /\ j.todo = todo /\ j.taken = <<>>
    BY <2>2, JobTyped
  <2>4. pushes' \in 0 .. MaxPushes
    BY <2>1, QueueConstants DEF QueueTypeOK
  <2>5. /\ GoTo(w, "readPush") /\ job' = [job EXCEPT ![w] = j]
        /\ UNCHANGED <<meta, items, returned, stored, overtaken>>
    BY <1>1 DEF BeginPush, histories
  <2>6. job[w].taken = <<>>
    BY <2>1 DEF InCommand, Fits, Popping
  <2>7. \A i \in 1 .. n : todo[i] = pushes + i
    OBVIOUS
  <2>8. DOMAIN todo = 1 .. n
    OBVIOUS
  <2>. HIDE DEF todo, j
  <2>9. Fits("readPush", j)
    BY <2>3 DEF Fits, Pushing, Popping
  <2>10. QueueTypeOK' /\ InCommand' /\ pc'[w] = "readPush" /\ job'[w] = j /\ OthersRest(w)
    BY <2>3, <2>4, <2>5, <2>9, MoveTyped DEF QueueTypeOK, Labels
  <2>. QED BY <2>1, <2>2, <2>3, <2>5, <2>6, <2>7, <2>8, <2>10 DEF Sends
<1>2. ASSUME NEW n \in 1 .. 2, BeginPop(w, "left", n)
      PROVE  QueueTypeOK' /\ InCommand' /\ Quiet(w)
  <2>. DEFINE j == Job("left", <<>>, n)
  <2>1. j \in Jobs /\ j.side = "left" /\ j.todo = <<>> /\ j.taken = <<>>
    <3>1. <<>> \in Seq(Values)
      BY EmptySeq
    <3>2. n \in Int /\ "left" \in {"left", "right"}
      OBVIOUS
    <3>. QED BY <3>1, <3>2, JobTyped
  <2>2. /\ pc[w] = "idle" /\ GoTo(w, "readPop") /\ job' = [job EXCEPT ![w] = j]
        /\ UNCHANGED <<meta, items, pushes, returned, stored, overtaken>>
    BY <1>2 DEF BeginPop, At, histories
  <2>3. job[w].taken = <<>>
    BY <2>2 DEF InCommand, Fits, Popping
  <2>. HIDE DEF j
  <2>4. Fits("readPop", j)
    BY <2>1 DEF Fits, Pushing, Popping
  <2>. QED BY <2>1, <2>2, <2>3, <2>4, MoveQuiet DEF Labels
<1>. QED BY <1>1, <1>2 DEF Request, AQueue

(* The positions in use are between 0 and the number of values. *)
LEMMA InRange ==
    ASSUME IInv, QueueTypeOK, RoomLeft
    PROVE  /\ meta.head \in Int /\ meta.tail \in Int /\ meta.head <= meta.tail
           /\ IsFiniteSet(Unplaced) /\ Cardinality(Unplaced) \in Nat
           /\ meta.tail <= pushes /\ pushes <= MaxPushes
           /\ \A p \in Int : 0 <= p /\ p < meta.tail => p \in Positions
<1>1. meta.head \in Int /\ meta.tail \in Int /\ meta.head <= meta.tail
  BY DEF IInv, QueueTypeOK, Consistent, Metas
<1>2. IsFiniteSet(Unplaced) /\ Cardinality(Unplaced) \in Nat
  BY QueueConstants, FS_Subset, FS_CardinalityType DEF Unplaced
<1>3. meta.tail <= pushes /\ pushes <= MaxPushes
  BY <1>1, <1>2, QueueConstants DEF RoomLeft, QueueTypeOK
<1>4. \A p \in Int : 0 <= p /\ p < meta.tail => p \in Positions
  BY <1>1, <1>3, QueueConstants DEF QueueTypeOK
<1>. QED BY <1>1, <1>2, <1>3, <1>4

(* Trying again keeps everything but the number of retries. *)
LEMMA RetryTyped ==
    ASSUME QueueTypeOK, NEW w \in Workers, NEW label, TryAgain(w, label)
    PROVE  \E j \in Jobs : /\ job' = [job EXCEPT ![w] = j] /\ GoTo(w, label)
                           /\ j.todo = job[w].todo /\ j.taken = job[w].taken
                           /\ j.side = job[w].side
<1>. DEFINE j == [job[w] EXCEPT !.retries = job[w].retries + 1]
<1>0. job[w] \in Jobs
  BY DEF QueueTypeOK
<1>1. j \in Jobs
  BY <1>0 DEF Jobs
<1>2. job' = [job EXCEPT ![w] = j] /\ GoTo(w, label)
  BY DEF TryAgain, QueueTypeOK
<1>3. j.todo = job[w].todo /\ j.taken = job[w].taken /\ j.side = job[w].side
  BY DEF QueueTypeOK, Jobs
<1>. QED BY <1>1, <1>2, <1>3

LEMMA PushEffects ==
    ASSUME IInv, IInv', QueueTypeOK, InCommand, NEW w \in Workers,
           \/ ReadForPush(w) \/ CreateMeta(w) \/ OverwriteMeta(w)
           \/ SwapForPush(w) \/ InsertItem(w) \/ EndPush(w)
    PROVE  /\ QueueTypeOK' /\ InCommand'
           /\ Quiet(w) \/ Places(w) \/ Stores(w)
<1>0. job[w] \in Jobs /\ job[w].todo \in Seq(Values) /\ Fits(pc[w], job[w])
  BY JobFields DEF QueueTypeOK, InCommand
<1>1. CASE ReadForPush(w)
  <2>1. /\ pc[w] = "readPush" /\ GoTo(w, "swapPush") /\ job[w].todo # <<>>
        /\ UNCHANGED <<meta, items, pushes, returned, stored, overtaken>>
        /\ job' = [job EXCEPT ![w] = job[w]]
    BY <1>1 DEF ReadForPush, At, counters, histories, QueueTypeOK
  <2>2. Fits("swapPush", job[w])
    BY <1>0, <2>1 DEF Fits, Pushing, Popping
  <2>. QED BY <1>0, <2>1, <2>2, MoveQuiet DEF Labels
<1>2. CASE CreateMeta(w) \/ OverwriteMeta(w)
  BY <1>0, <1>2 DEF CreateMeta, OverwriteMeta, At, Fits
<1>3. CASE SwapForPush(w)
  <2>0. /\ pc[w] = "swapPush" /\ job[w].side = "right" /\ job[w].taken = <<>>
        /\ UNCHANGED <<items, pushes, returned, stored, overtaken>>
    BY <1>0, <1>3 DEF SwapForPush, At, Fits, Pushing, Popping, counters, histories
  <2>1. CASE meta = seen[w] /\ WritePushed(w)
    <3>. DEFINE j == [job[w] EXCEPT !.pos = meta.tail]
    <3>1. Consistent(meta) /\ Consistent(meta') /\ meta' = Pushed("right", meta)
      <4>1. meta' = Pushed("right", meta)
        BY <2>0, <2>1 DEF WritePushed
      <4>2. Consistent(meta)
        BY DEF IInv, QueueTypeOK
      <4>. QED BY <4>1, <4>2, PushedConsistent
    <3>2. meta'.head = meta.head /\ meta'.tail = meta.tail + 1 /\ meta' # None
      BY <3>1, AbsentAssumption DEF Consistent, Metas, Pushed, Meta
    <3>3. job' = [job EXCEPT ![w] = j] /\ GoTo(w, "insert")
      BY <2>0, <2>1 DEF WritePushed
    <3>4. j \in Jobs /\ j.todo = job[w].todo /\ j.taken = job[w].taken /\ j.side = job[w].side
      BY <1>0, <3>1 DEF Jobs, Consistent, Metas
    <3>. HIDE DEF j
    <3>5. Fits("insert", j)
      BY <1>0, <2>0, <3>4 DEF Fits, Pushing, Popping
    <3>6. QueueTypeOK' /\ InCommand' /\ pc'[w] = "insert" /\ job'[w] = j /\ OthersRest(w)
      BY <2>0, <3>2, <3>3, <3>4, <3>5, MoveTyped DEF QueueTypeOK, Labels
    <3>. QED BY <2>0, <3>2, <3>6 DEF Places, j
  <2>2. CASE UNCHANGED meta /\ TryAgain(w, "readPush")
    <3>1. PICK j \in Jobs : /\ job' = [job EXCEPT ![w] = j] /\ GoTo(w, "readPush")
                            /\ j.todo = job[w].todo /\ j.taken = job[w].taken
                            /\ j.side = job[w].side
      BY <2>2, RetryTyped
    <3>2. Fits("readPush", j)
      BY <2>0, <3>1 DEF Fits, Pushing, Popping
    <3>. QED BY <2>0, <2>2, <3>1, <3>2, MoveQuiet DEF Labels
  <2>3. CASE UNCHANGED meta /\ GoTo(w, "idle") /\ job' = [job EXCEPT ![w] = NoJob]
    <3>1. Fits("idle", NoJob)
      BY NoJobTyped DEF Fits, Pushing, Popping
    <3>. QED BY <2>0, <2>3, <3>1, NoJobTyped, MoveQuiet DEF Labels
  <2>. QED BY <1>3, <2>1, <2>2, <2>3 DEF SwapForPush
<1>4. CASE InsertItem(w)
  <2>. DEFINE j == [job[w] EXCEPT !.todo = Tail(job[w].todo), !.retries = 0]
              v == Head(job[w].todo)
  <2>1. /\ pc[w] = "insert" /\ GoTo(w, "readPush") /\ job' = [job EXCEPT ![w] = j]
        /\ items' = [items EXCEPT ![job[w].pos] = v] /\ stored' = stored \cup {v}
        /\ UNCHANGED <<meta, pushes, returned, overtaken>>
    BY <1>4 DEF InsertItem, At, counters
  <2>2. v \in Values /\ Tail(job[w].todo) \in Seq(Values)
    BY <1>0, <2>1, Shifted DEF Fits
  <2>3. /\ j \in Jobs /\ j.todo = Tail(job[w].todo) /\ j.taken = job[w].taken
        /\ j.side = job[w].side
    BY <1>0, <2>2 DEF Jobs
  <2>. HIDE DEF j
  <2>4. Fits("readPush", j)
    BY <1>0, <2>1, <2>3 DEF Fits, Pushing, Popping
  <2>5. items' \in [Positions -> Values \cup {None}]
    BY <2>1, <2>2 DEF QueueTypeOK
  <2>6. QueueTypeOK' /\ InCommand' /\ pc'[w] = "readPush" /\ job'[w] = j /\ OthersRest(w)
    BY <2>1, <2>3, <2>4, <2>5, MoveTyped DEF QueueTypeOK, Labels
  <2>. QED BY <2>1, <2>3, <2>6 DEF Stores
<1>5. CASE EndPush(w)
  <2>1. /\ pc[w] = "readPush" /\ GoTo(w, "idle") /\ job' = [job EXCEPT ![w] = NoJob]
        /\ UNCHANGED <<meta, items, pushes, returned, stored, overtaken>>
        /\ job[w].taken = <<>>
    BY <1>0, <1>5 DEF EndPush, At, counters, histories, Fits, Popping
  <2>2. Fits("idle", NoJob)
    BY NoJobTyped DEF Fits, Pushing, Popping
  <2>. QED BY <2>1, <2>2, NoJobTyped, MoveQuiet DEF Labels
<1>. QED BY <1>1, <1>2, <1>3, <1>4, <1>5

LEMMA PopEffects ==
    ASSUME IInv, IInv', QueueTypeOK, InCommand, PlacesInv, NEW w \in Workers,
           \/ ReadForPop(w) \/ SwapForPop(w) \/ TakeItem(w)
           \/ DeleteItem(w) \/ EndPop(w)
    PROVE  /\ QueueTypeOK' /\ InCommand'
           /\ Quiet(w) \/ Claims(w) \/ Misses(w) \/ Finds(w) \/ Deletes(w)
<1>0. job[w] \in Jobs /\ job[w].taken \in Seq(Values) /\ Fits(pc[w], job[w])
  BY JobFields DEF QueueTypeOK, InCommand
<1>1. CASE ReadForPop(w)
  <2>1. /\ pc[w] = "readPop" /\ job[w].todo = <<>>
        /\ UNCHANGED <<meta, items, pushes, stored, overtaken>>
    BY <1>0, <1>1 DEF ReadForPop, At, counters, Fits, Pushing
  <2>2. CASE Reply(w)
    BY <2>1, <2>2, ReplyQuiet
  <2>3. CASE GoTo(w, "swapPop") /\ UNCHANGED <<job, returned>>
    <3>1. Fits("swapPop", job[w]) /\ job' = [job EXCEPT ![w] = job[w]]
      BY <1>0, <2>1, <2>3 DEF Fits, Pushing, Popping, QueueTypeOK
    <3>. QED BY <1>0, <2>1, <2>3, <3>1, MoveQuiet DEF Labels
  <2>. QED BY <1>1, <2>2, <2>3 DEF ReadForPop
<1>2. CASE SwapForPop(w)
  <2>0. /\ pc[w] = "swapPop" /\ job[w].side = "left" /\ job[w].todo = <<>>
        /\ UNCHANGED <<items, pushes, stored, overtaken>>
    BY <1>0, <1>2 DEF SwapForPop, At, Fits, Pushing, Popping, counters
  <2>1. CASE meta = seen[w] /\ WritePopped(w)
    <3>. DEFINE j == [job[w] EXCEPT !.pos = meta.head]
    <3>1. Consistent(meta) /\ Consistent(meta') /\ meta' = Popped("left", meta)
          /\ meta.count > 0
      <4>1. meta' = Popped("left", meta)
        BY <2>0, <2>1 DEF WritePopped
      <4>2. Consistent(meta) /\ meta.count > 0
        BY <2>0, <2>1 DEF IInv, QueueTypeOK
      <4>. QED BY <4>1, <4>2, PoppedConsistent
    <3>2. /\ meta'.head = meta.head + 1 /\ meta'.tail = meta.tail /\ meta' # None
          /\ meta.head < meta.tail
      BY <3>1, AbsentAssumption DEF Consistent, Metas, Popped, Meta
    <3>3. /\ job' = [job EXCEPT ![w] = j] /\ GoTo(w, "take")
          /\ UNCHANGED returned
      BY <2>0, <2>1 DEF WritePopped
    <3>4. j \in Jobs /\ j.todo = job[w].todo /\ j.taken = job[w].taken /\ j.side = job[w].side
      BY <1>0, <3>1 DEF Jobs, Consistent, Metas
    <3>. HIDE DEF j
    <3>5. Fits("take", j)
      BY <1>0, <2>0, <3>4 DEF Fits, Pushing, Popping
    <3>6. QueueTypeOK' /\ InCommand' /\ pc'[w] = "take" /\ job'[w] = j /\ OthersRest(w)
      BY <2>0, <3>2, <3>3, <3>4, <3>5, MoveTyped DEF QueueTypeOK, Labels
    <3>. QED BY <2>0, <3>2, <3>3, <3>6 DEF Claims, j
  <2>2. CASE UNCHANGED <<meta, returned>> /\ TryAgain(w, "readPop")
    <3>1. PICK j \in Jobs : /\ job' = [job EXCEPT ![w] = j] /\ GoTo(w, "readPop")
                            /\ j.todo = job[w].todo /\ j.taken = job[w].taken
                            /\ j.side = job[w].side
      BY <2>2, RetryTyped
    <3>2. Fits("readPop", j)
      BY <2>0, <3>1 DEF Fits, Pushing, Popping
    <3>. QED BY <2>0, <2>2, <3>1, <3>2, MoveQuiet DEF Labels
  <2>3. CASE UNCHANGED meta /\ Reply(w)
    BY <2>0, <2>3, ReplyQuiet
  <2>. QED BY <1>2, <2>1, <2>2, <2>3 DEF SwapForPop
<1>3. CASE TakeItem(w)
  <2>0. /\ pc[w] = "take" /\ UNCHANGED <<meta, items, pushes, returned, stored>>
        /\ job[w].side = "left" /\ job[w].todo = <<>>
    BY <1>0, <1>3 DEF TakeItem, At, counters, Fits, Pushing, Popping
  <2>1. CASE items[job[w].pos] = None
    <3>1. /\ GoTo(w, "readPop") /\ UNCHANGED job
          /\ overtaken' = overtaken \cup Pending(job[w].pos)
      BY <1>3, <2>1 DEF TakeItem
    <3>2. Fits("readPop", job[w]) /\ job' = [job EXCEPT ![w] = job[w]]
      BY <1>0, <2>0, <3>1 DEF Fits, Pushing, Popping, QueueTypeOK
    <3>3. QueueTypeOK' /\ InCommand' /\ pc'[w] = "readPop" /\ OthersRest(w)
      BY <1>0, <2>0, <3>1, <3>2, MoveTyped DEF QueueTypeOK, Labels
    <3>. QED BY <2>0, <2>1, <3>1, <3>3 DEF Misses
  <2>2. CASE items[job[w].pos] # None
    <3>. DEFINE v == items[job[w].pos]
                j == [job[w] EXCEPT !.taken = Append(job[w].taken, v)]
    <3>1. job[w].pos \in Positions
      <4>1. 0 <= job[w].pos /\ job[w].pos < meta.head /\ job[w].pos \in Int
        BY <1>0, <2>0, JobFields DEF PlacesInv, Bounds, Takes
      <4>2. RoomLeft
        BY DEF PlacesInv
      <4>. QED BY <4>1, <4>2, InRange
    <3>2. v \in Values
      BY <2>2, <3>1 DEF QueueTypeOK
    <3>3. /\ GoTo(w, "delete") /\ UNCHANGED overtaken /\ job' = [job EXCEPT ![w] = j]
      BY <1>3, <2>2 DEF TakeItem, QueueTypeOK
    <3>4. j \in Jobs /\ j.todo = job[w].todo /\ j.side = job[w].side
      BY <1>0, <3>2, Appended DEF Jobs
    <3>. HIDE DEF j
    <3>5. Fits("delete", j)
      BY <1>0, <2>0, <3>4 DEF Fits, Pushing, Popping
    <3>6. QueueTypeOK' /\ InCommand' /\ pc'[w] = "delete" /\ job'[w] = j /\ OthersRest(w)
      BY <2>0, <3>3, <3>4, <3>5, MoveTyped DEF QueueTypeOK, Labels
    <3>. QED BY <2>0, <2>2, <3>3, <3>6 DEF Finds, j
  <2>. QED BY <2>1, <2>2
<1>4. CASE DeleteItem(w)
  <2>. DEFINE j == [job[w] EXCEPT !.left = job[w].left - 1, !.retries = 0]
  <2>0. /\ pc[w] = "delete" /\ UNCHANGED <<meta, pushes, returned, stored, overtaken>>
        /\ items' = [items EXCEPT ![job[w].pos] = None]
        /\ job[w].side = "left" /\ job[w].todo = <<>>
    BY <1>0, <1>4 DEF DeleteItem, At, counters, histories, Fits, Pushing, Popping
  <2>1. items[job[w].pos] # None
    <3>1. job[w].taken # <<>> /\ items[job[w].pos] = job[w].taken[Len(job[w].taken)]
      BY <2>0 DEF PlacesInv, Deleting, At
    <3>2. Len(job[w].taken) \in 1 .. Len(job[w].taken)
      BY <1>0, <3>1, EmptySeq
    <3>3. job[w].taken[Len(job[w].taken)] \in Values
      BY <1>0, <3>2, ElementOfSeq
    <3>. QED BY <3>1, <3>3, AbsentAssumption
  <2>2. GoTo(w, "readPop") /\ job' = [job EXCEPT ![w] = j]
    <3>1. /\ GoTo(w, "readPop")
          /\ job' = [job EXCEPT ![w].left = @ - 1, ![w].retries = 0]
      BY <1>4, <2>1 DEF DeleteItem
    <3>. QED BY <3>1 DEF QueueTypeOK
  <2>3. /\ j \in Jobs /\ j.todo = job[w].todo /\ j.taken = job[w].taken
        /\ j.side = job[w].side
    <3>1. job[w].left - 1 \in Int
      BY <1>0, JobFields
    <3>. QED BY <1>0, <3>1 DEF Jobs
  <2>. HIDE DEF j
  <2>4. Fits("readPop", j)
    BY <1>0, <2>0, <2>3 DEF Fits, Pushing, Popping
  <2>5. items' \in [Positions -> Values \cup {None}]
    BY <2>0 DEF QueueTypeOK
  <2>6. QueueTypeOK' /\ InCommand' /\ pc'[w] = "readPop" /\ job'[w] = j /\ OthersRest(w)
    BY <2>0, <2>2, <2>3, <2>4, <2>5, MoveTyped DEF QueueTypeOK, Labels
  <2>. QED BY <2>0, <2>3, <2>6 DEF Deletes
<1>5. CASE EndPop(w)
  <2>1. pc[w] = "readPop" /\ Reply(w) /\ UNCHANGED <<meta, items, pushes, stored, overtaken>>
    BY <1>5 DEF EndPop, At, counters
  <2>. QED BY <2>1, ReplyQuiet
<1>. QED BY <1>1, <1>2, <1>3, <1>4, <1>5

----------------------------------------------------------------------------
(* The positions. *)

(* The tail does not move and no value is added to those still to place.    *)
LEMMA RoomKept ==
    ASSUME IInv, QueueTypeOK, RoomLeft, Unplaced' \subseteq Unplaced,
           meta'.tail = meta.tail, UNCHANGED pushes
    PROVE  RoomLeft'
<1>1. IsFiniteSet(Unplaced) /\ meta.tail \in Int /\ pushes \in Int
  BY InRange, QueueConstants DEF QueueTypeOK
<1>2. /\ IsFiniteSet(Unplaced') /\ Cardinality(Unplaced') <= Cardinality(Unplaced)
      /\ Cardinality(Unplaced') \in Nat /\ Cardinality(Unplaced) \in Nat
  BY <1>1, FS_Subset, FS_CardinalityType
<1>. QED BY <1>1, <1>2 DEF RoomLeft

LEMMA QuietKeepsPlaces ==
    ASSUME IInv, QueueTypeOK, PlacesInv, NEW w \in Workers, Quiet(w)
    PROVE  PlacesInv'
<1>. USE DEF PlacesInv
<1>1. \A u \in Workers : /\ (pc'[u] = pc[u] /\ job'[u] = job[u]) \/ u = w
                         /\ pc'[u] \in {"insert", "take", "delete"} => u # w
  BY DEF Quiet, OthersRest
<1>2. UNCHANGED <<meta, items, pushes>>
  BY DEF Quiet
<1>3. Bounds'
  BY <1>1, <1>2 DEF Bounds, Takes, At
<1>4. Exclusive'
  BY <1>1, <1>2 DEF Exclusive, Takes, At
<1>5. Deleting'
  BY <1>1, <1>2 DEF Deleting, At
<1>6. Unplaced' \subseteq Unplaced
  <2>1. job'[w].todo = job[w].todo \/ job'[w].todo = <<>>
    BY DEF Quiet
  <2>2. pc[w] # "insert"
    BY DEF Quiet
  <2>3. \A u \in Workers : \A i \in DOMAIN job'[u].todo :
            /\ i \in DOMAIN job[u].todo /\ job'[u].todo[i] = job[u].todo[i]
            /\ At(u, "insert") /\ i = 1 => pc'[u] = "insert"
    BY <1>1, <2>1, <2>2 DEF At
  <2>. QED BY <2>3 DEF Unplaced, At
<1>. QED BY <1>2, <1>3, <1>4, <1>5, <1>6, RoomKept

LEMMA SendsKeepsPlaces ==
    ASSUME IInv, QueueTypeOK, PlacesInv, NEW w \in Workers, NEW n \in 1 .. 2, Sends(w, n)
    PROVE  PlacesInv'
<1>. USE DEF PlacesInv
<1>1. \A u \in Workers : /\ (pc'[u] = pc[u] /\ job'[u] = job[u]) \/ u = w
                         /\ pc'[u] \in {"insert", "take", "delete"} => u # w
  BY DEF Sends, OthersRest
<1>2. UNCHANGED <<meta, items>>
  BY DEF Sends
<1>3. Bounds'
  BY <1>1, <1>2 DEF Bounds, Takes, At
<1>4. Exclusive'
  BY <1>1, <1>2 DEF Exclusive, Takes, At
<1>5. Deleting'
  BY <1>1, <1>2 DEF Deleting, At
<1>6. Unplaced' \subseteq Unplaced \cup ((pushes + 1) .. (pushes + n))
  <2>1. pushes \in Int
    BY QueueConstants DEF QueueTypeOK
  <2>2. \A i \in DOMAIN job'[w].todo : job'[w].todo[i] \in (pushes + 1) .. (pushes + n)
    BY <2>1 DEF Sends
  <2>3. ASSUME NEW v \in Unplaced' PROVE v \in Unplaced \cup ((pushes + 1) .. (pushes + n))
    <3>1. PICK u \in Workers : \E i \in DOMAIN job'[u].todo :
              job'[u].todo[i] = v /\ ~ (pc'[u] = "insert" /\ i = 1) /\ v \in Values
      BY DEF Unplaced, At
    <3>2. CASE u = w
      BY <2>2, <3>1, <3>2
    <3>3. CASE u # w
      BY <1>1, <3>1, <3>3 DEF Unplaced, At
    <3>. QED BY <3>2, <3>3
  <2>. QED BY <2>3
<1>7. RoomLeft'
  <2>1. /\ IsFiniteSet(Unplaced) /\ Cardinality(Unplaced) \in Nat
        /\ meta.tail \in Int /\ pushes \in Int
    BY InRange, QueueConstants DEF QueueTypeOK
  <2>. DEFINE new == (pushes + 1) .. (pushes + n)
  <2>2. IsFiniteSet(new) /\ Cardinality(new) = n
    <3>1. PICK a \in Int, b \in Int : a = pushes + 1 /\ b = pushes + n
      BY <2>1
    <3>2. IsFiniteSet(a .. b) /\ Cardinality(a .. b) = IF a > b THEN 0 ELSE b - a + 1
      BY FS_Interval
    <3>3. ~ (a > b) /\ b - a + 1 = n
      BY <2>1, <3>1
    <3>. QED BY <3>1, <3>2, <3>3
  <2>. HIDE DEF new
  <2>3. /\ IsFiniteSet(Unplaced \cup new)
        /\ Cardinality(Unplaced \cup new) = Cardinality(Unplaced) + Cardinality(new)
                                                - Cardinality(Unplaced \cap new)
    BY <2>1, <2>2, FS_Union
  <2>4. Cardinality(Unplaced \cap new) \in Nat
    BY <2>1, FS_Subset, FS_CardinalityType
  <2>5. Cardinality(Unplaced') <= Cardinality(Unplaced \cup new) /\ Cardinality(Unplaced') \in Nat
    BY <1>6, <2>3, FS_Subset, FS_CardinalityType DEF new
  <2>6. pushes' = pushes + n /\ meta' = meta
    BY DEF Sends
  <2>. QED BY <2>1, <2>2, <2>3, <2>4, <2>5, <2>6 DEF RoomLeft
<1>. QED BY <1>3, <1>4, <1>5, <1>7

LEMMA PlacesKeepsPlaces ==
    ASSUME IInv, QueueTypeOK, InCommand, PlacesInv, TodoOnce, NEW w \in Workers, Places(w)
    PROVE  PlacesInv'
<1>. USE DEF PlacesInv
<1>1. /\ \A u \in Workers : (pc'[u] = pc[u] /\ job'[u] = job[u]) \/ u = w
      /\ pc[w] = "swapPush" /\ pc'[w] = "insert" /\ job'[w].pos = meta.tail
      /\ job'[w].todo = job[w].todo /\ job'[w].taken = job[w].taken
      /\ UNCHANGED <<items, pushes>>
      /\ meta'.head = meta.head /\ meta'.tail = meta.tail + 1
  <2>1. job[w] \in Jobs
    BY DEF QueueTypeOK
  <2>. QED BY <2>1 DEF Places, OthersRest, Jobs
<1>2. /\ meta.head \in Int /\ meta.tail \in Int /\ meta.head <= meta.tail
      /\ 0 <= meta.head
      /\ \A u \in Workers : job[u].pos \in Int
      /\ \A p \in Positions : p \in Int
  BY InRange, JobFields, QueueConstants DEF QueueTypeOK, Bounds, Positions
<1>3. Unplaced' \subseteq Unplaced \ {job[w].todo[1]} /\ job[w].todo[1] \in Unplaced
      /\ meta.tail \in Positions
  <2>1. job[w].todo \in Seq(Values) /\ job[w].todo # <<>>
    BY <1>1, JobFields DEF QueueTypeOK, InCommand, Fits
  <2>2. 1 \in DOMAIN job[w].todo /\ job[w].todo[1] \in Values
    BY <2>1, Shifted
  <2>3. job[w].todo[1] \in Unplaced
    BY <1>1, <2>2 DEF Unplaced, At
  <2>4. \A u \in Workers : job'[u].todo = job[u].todo
    BY <1>1
  <2>5. \A u \in Workers : \A i \in DOMAIN job[u].todo :
            ~ (pc'[u] = "insert" /\ i = 1) =>
                /\ ~ (pc[u] = "insert" /\ i = 1)
                /\ job[u].todo[i] # job[w].todo[1]
    BY <1>1, <2>2 DEF TodoOnce
  <2>6. Unplaced' \subseteq Unplaced \ {job[w].todo[1]}
    BY <2>4, <2>5 DEF Unplaced, At
  <2>7. Cardinality(Unplaced) # 0
    BY <2>3, InRange, FS_EmptySet
  <2>8. meta.tail < MaxPushes
    BY <1>2, <2>7, InRange, QueueConstants DEF RoomLeft, QueueTypeOK
  <2>. QED BY <1>2, <2>3, <2>6, <2>8, QueueConstants
<1>4. items[meta.tail] = None
  BY <1>2, <1>3 DEF Bounds
<1>5. Bounds'
  BY <1>1, <1>2, <1>4 DEF Bounds, Takes, At
<1>6. Exclusive'
  BY <1>1, <1>2 DEF Exclusive, Bounds, Takes, At
<1>7. Deleting'
  BY <1>1 DEF Deleting, At
<1>8. RoomLeft'
  <2>1. IsFiniteSet(Unplaced) /\ Cardinality(Unplaced) \in Nat /\ pushes \in Int
    BY InRange, QueueConstants DEF QueueTypeOK
  <2>2. /\ IsFiniteSet(Unplaced \ {job[w].todo[1]})
        /\ Cardinality(Unplaced \ {job[w].todo[1]}) = Cardinality(Unplaced) - 1
    BY <1>3, <2>1, FS_RemoveElement
  <2>3. /\ Cardinality(Unplaced') <= Cardinality(Unplaced) - 1
        /\ Cardinality(Unplaced') \in Nat
    BY <1>3, <2>2, FS_Subset, FS_CardinalityType
  <2>. QED BY <1>1, <1>2, <2>1, <2>3 DEF RoomLeft
<1>. QED BY <1>5, <1>6, <1>7, <1>8

LEMMA StoresKeepsPlaces ==
    ASSUME IInv, QueueTypeOK, InCommand, PlacesInv, OnceInv, NEW w \in Workers, Stores(w)
    PROVE  PlacesInv'
<1>. USE DEF PlacesInv
<1>1. /\ \A u \in Workers : (pc'[u] = pc[u] /\ job'[u] = job[u]) \/ u = w
      /\ pc[w] = "insert" /\ pc'[w] = "readPush"
      /\ job'[w].todo = Tail(job[w].todo)
      /\ UNCHANGED <<meta, pushes>>
      /\ items' = [items EXCEPT ![job[w].pos] = Head(job[w].todo)]
  BY DEF Stores, OthersRest
<1>2. /\ job[w].todo \in Seq(Values) /\ job[w].todo # <<>>
      /\ \A i \in DOMAIN Tail(job[w].todo) :
             /\ i \in Nat \ {0} /\ i + 1 \in DOMAIN job[w].todo
             /\ Tail(job[w].todo)[i] = job[w].todo[i + 1]
  <2>1. job[w].todo \in Seq(Values) /\ job[w].todo # <<>>
    BY <1>1, JobFields DEF QueueTypeOK, InCommand, Fits
  <2>2. DOMAIN Tail(job[w].todo) \subseteq Nat \ {0}
    BY <2>1, Shifted, LenProperties
  <2>. QED BY <2>1, <2>2, Shifted
<1>3. /\ 0 <= job[w].pos /\ job[w].pos < meta.tail /\ items[job[w].pos] = None
      /\ job[w].pos \in Positions
  <2>1. job[w].pos \in Int
    BY JobFields DEF QueueTypeOK
  <2>2. 0 <= job[w].pos /\ job[w].pos < meta.tail /\ items[job[w].pos] = None
    BY <1>1 DEF Bounds, At
  <2>. QED BY <2>1, <2>2, InRange
<1>4. \A p \in Positions : p # job[w].pos => items'[p] = items[p]
  BY <1>1 DEF QueueTypeOK
<1>5. Bounds'
  <2>1. \A p \in Positions : items'[p] # None => 0 <= p /\ p < meta'.tail
    BY <1>1, <1>3, <1>4 DEF Bounds
  <2>2. ASSUME NEW u \in Workers, pc'[u] = "insert"
        PROVE  /\ 0 <= job'[u].pos /\ job'[u].pos < meta'.tail
               /\ items'[job'[u].pos] = None
    <3>1. u # w /\ pc[u] = "insert" /\ job'[u] = job[u]
      BY <1>1, <2>2
    <3>2. job[u].pos # job[w].pos
      BY <1>1, <3>1 DEF Exclusive, At
    <3>3. /\ 0 <= job[u].pos /\ job[u].pos < meta.tail /\ items[job[u].pos] = None
          /\ job[u].pos \in Int
      BY <3>1, JobFields DEF Bounds, At, QueueTypeOK
    <3>. QED BY <1>1, <1>4, <3>1, <3>2, <3>3, InRange
  <2>3. \A u \in Workers : pc'[u] \in {"take", "delete"} =>
            0 <= job'[u].pos /\ job'[u].pos < meta'.head
    BY <1>1 DEF Bounds, Takes
  <2>4. 0 <= meta'.head
    BY <1>1 DEF Bounds
  <2>. QED BY <2>1, <2>2, <2>3, <2>4 DEF Bounds, Takes, At
<1>6. Exclusive'
  BY <1>1 DEF Exclusive, Takes, At
<1>7. Deleting'
  <2>1. ASSUME NEW u \in Workers, pc'[u] = "delete"
        PROVE  /\ job'[u].taken # <<>>
               /\ items'[job'[u].pos] = job'[u].taken[Len(job'[u].taken)]
    <3>1. u # w /\ pc[u] = "delete" /\ job'[u] = job[u]
      BY <1>1, <2>1
    <3>2. /\ job[u].taken # <<>> /\ items[job[u].pos] = job[u].taken[Len(job[u].taken)]
          /\ job[u].taken \in Seq(Values)
      BY <3>1, JobFields DEF Deleting, At, QueueTypeOK
    <3>3. items[job[u].pos] # None
      <4>1. Len(job[u].taken) \in 1 .. Len(job[u].taken)
        BY <3>2, EmptySeq
      <4>2. job[u].taken[Len(job[u].taken)] \in Values
        BY <3>2, <4>1, ElementOfSeq
      <4>. QED BY <3>2, <4>2, AbsentAssumption
    <3>4. 0 <= job[u].pos /\ job[u].pos < meta.head /\ job[u].pos \in Int
      BY <3>1, JobFields DEF Bounds, Takes, QueueTypeOK
    <3>5. job[u].pos \in Positions
      BY <3>4, InRange
    <3>. QED BY <1>3, <1>4, <3>1, <3>2, <3>3, <3>5
  <2>. QED BY <2>1 DEF Deleting, At
<1>8. Unplaced' \subseteq Unplaced
  <2>1. ASSUME NEW v \in Unplaced' PROVE v \in Unplaced
    <3>1. PICK u \in Workers : \E i \in DOMAIN job'[u].todo :
              job'[u].todo[i] = v /\ ~ (pc'[u] = "insert" /\ i = 1) /\ v \in Values
      BY DEF Unplaced, At
    <3>2. CASE u = w
      <4>1. PICK i \in DOMAIN Tail(job[w].todo) : Tail(job[w].todo)[i] = v /\ v \in Values
        BY <1>1, <3>1, <3>2
      <4>2. i + 1 \in DOMAIN job[w].todo /\ job[w].todo[i + 1] = v /\ i + 1 # 1
        BY <1>2, <4>1
      <4>. QED BY <4>1, <4>2 DEF Unplaced
    <3>3. CASE u # w
      BY <1>1, <3>1, <3>3 DEF Unplaced, At
    <3>. QED BY <3>2, <3>3
  <2>. QED BY <2>1
<1>. QED BY <1>1, <1>5, <1>6, <1>7, <1>8, RoomKept

(* The head passes a position, which is the popping worker's alone.         *)
LEMMA ClaimsKeepsPlaces ==
    ASSUME IInv, QueueTypeOK, PlacesInv, NEW w \in Workers, Claims(w)
    PROVE  PlacesInv'
<1>. USE DEF PlacesInv
<1>1. /\ \A u \in Workers : (pc'[u] = pc[u] /\ job'[u] = job[u]) \/ u = w
      /\ pc[w] = "swapPop" /\ pc'[w] = "take" /\ job'[w].pos = meta.head
      /\ job'[w].todo = job[w].todo
      /\ UNCHANGED <<items, pushes>>
      /\ meta'.head = meta.head + 1 /\ meta'.tail = meta.tail
  <2>1. job[w] \in Jobs
    BY DEF QueueTypeOK
  <2>. QED BY <2>1 DEF Claims, OthersRest, Jobs
<1>2. /\ meta.head \in Int /\ meta.tail \in Int /\ 0 <= meta.head
      /\ \A u \in Workers : job[u].pos \in Int
  BY InRange, JobFields DEF QueueTypeOK, Bounds
<1>3. Bounds'
  BY <1>1, <1>2 DEF Bounds, Takes, At
<1>4. Exclusive'
  BY <1>1, <1>2 DEF Exclusive, Bounds, Takes, At
<1>5. Deleting'
  BY <1>1 DEF Deleting, At
<1>6. Unplaced' \subseteq Unplaced
  BY <1>1 DEF Unplaced, At
<1>. QED BY <1>1, <1>3, <1>4, <1>5, <1>6, RoomKept

LEMMA TakesKeepPlaces ==
    ASSUME IInv, QueueTypeOK, PlacesInv, NEW w \in Workers, Misses(w) \/ Finds(w)
    PROVE  PlacesInv'
<1>. USE DEF PlacesInv
<1>1. /\ \A u \in Workers : (pc'[u] = pc[u] /\ job'[u] = job[u]) \/ u = w
      /\ pc[w] = "take" /\ pc'[w] \in {"readPop", "delete"}
      /\ job'[w].pos = job[w].pos /\ job'[w].todo = job[w].todo
      /\ UNCHANGED <<meta, items, pushes>>
  <2>1. job[w] \in Jobs
    BY DEF QueueTypeOK
  <2>. QED BY <2>1 DEF Misses, Finds, OthersRest, Jobs
<1>2. Bounds'
  BY <1>1 DEF Bounds, Takes, At
<1>3. Exclusive'
  BY <1>1 DEF Exclusive, Takes, At
<1>4. pc'[w] = "delete" => /\ job'[w].taken # <<>>
                           /\ items[job[w].pos] = job'[w].taken[Len(job'[w].taken)]
  <2>. SUFFICES ASSUME Finds(w)
                PROVE  /\ job'[w].taken # <<>>
                       /\ items[job[w].pos] = job'[w].taken[Len(job'[w].taken)]
    BY DEF Misses
  <2>. DEFINE v == items[job[w].pos]
  <2>1. job[w] \in Jobs /\ job[w].taken \in Seq(Values)
    BY JobFields DEF QueueTypeOK
  <2>2. v \in Values
    <3>1. 0 <= job[w].pos /\ job[w].pos < meta.head /\ job[w].pos \in Int
      BY <1>1, <2>1, JobFields DEF Bounds, Takes
    <3>2. job[w].pos \in Positions
      BY <3>1, InRange
    <3>. QED BY <3>2 DEF QueueTypeOK, Finds
  <2>3. job'[w].taken = Append(job[w].taken, v)
    BY <2>1 DEF Finds, Jobs
  <2>. HIDE DEF v
  <2>. QED BY <2>1, <2>2, <2>3, AppendProperties DEF v
<1>5. Deleting'
  BY <1>1, <1>4 DEF Deleting, At
<1>6. Unplaced' \subseteq Unplaced
  BY <1>1 DEF Unplaced, At
<1>. QED BY <1>1, <1>2, <1>3, <1>5, <1>6, RoomKept

LEMMA DeletesKeepsPlaces ==
    ASSUME IInv, QueueTypeOK, PlacesInv, NEW w \in Workers, Deletes(w)
    PROVE  PlacesInv'
<1>. USE DEF PlacesInv
<1>1. /\ \A u \in Workers : (pc'[u] = pc[u] /\ job'[u] = job[u]) \/ u = w
      /\ pc[w] = "delete" /\ pc'[w] = "readPop" /\ job'[w].todo = job[w].todo
      /\ items' = [items EXCEPT ![job[w].pos] = None] /\ UNCHANGED <<meta, pushes>>
  BY DEF Deletes, OthersRest
<1>2. /\ \A u \in Workers : job[u].pos \in Int
      /\ \A p \in Positions : items'[p] = IF p = job[w].pos THEN None ELSE items[p]
      /\ \A p \in Int : 0 <= p /\ p < meta.tail => p \in Positions
      /\ meta.head \in Int /\ meta.tail \in Int /\ meta.head <= meta.tail
  BY <1>1, JobFields, InRange DEF QueueTypeOK
<1>3. Bounds'
  BY <1>1, <1>2 DEF Bounds, Takes, At
<1>4. Exclusive'
  BY <1>1 DEF Exclusive, Takes, At
<1>5. Deleting'
  <2>1. ASSUME NEW u \in Workers, pc'[u] = "delete"
        PROVE  /\ job'[u].taken # <<>>
               /\ items'[job'[u].pos] = job'[u].taken[Len(job'[u].taken)]
    <3>1. u # w /\ pc[u] = "delete" /\ job'[u] = job[u]
      BY <1>1, <2>1
    <3>2. job[u].pos # job[w].pos /\ 0 <= job[u].pos /\ job[u].pos < meta.head
      BY <1>1, <3>1 DEF Exclusive, Bounds, Takes
    <3>. QED BY <1>2, <3>1, <3>2 DEF Deleting, At
  <2>. QED BY <2>1 DEF Deleting, At
<1>6. Unplaced' \subseteq Unplaced
  BY <1>1 DEF Unplaced, At
<1>. QED BY <1>1, <1>3, <1>4, <1>5, <1>6, RoomKept

----------------------------------------------------------------------------
(* The values. *)

LEMMA HadValues ==
    ASSUME QueueTypeOK, NEW u \in Workers, NEW i \in DOMAIN Had(u)
    PROVE  Had(u)[i] \in Values /\ Had(u)[i] # None
<1>1. Had(u) \in Seq(Values)
  BY HadTyped
<1>2. Had(u)[i] \in Values
  BY <1>1, LenProperties, ElementOfSeq
<1>. QED BY <1>2, AbsentAssumption

LEMMA TodoValues ==
    ASSUME QueueTypeOK, NEW u \in Workers, NEW i \in DOMAIN job[u].todo
    PROVE  job[u].todo[i] \in Values /\ job[u].todo[i] # None
<1>1. job[u].todo \in Seq(Values)
  BY HadTyped
<1>2. job[u].todo[i] \in Values
  BY <1>1, LenProperties, ElementOfSeq
<1>. QED BY <1>2, AbsentAssumption

(* Values stay where they are, or are dropped by a push that gives up.      *)
LEMMA UnmovedKeepsOnce ==
    ASSUME OnceInv, UNCHANGED <<items, pushes>>,
           \A u \in Workers : /\ returned'[u] \o job'[u].taken = Had(u)
                              /\ job'[u].todo \in {job[u].todo, <<>>}
                              /\ pc[u] = "delete" =>
                                     pc'[u] = "delete" /\ job'[u].pos = job[u].pos
    PROVE  OnceInv'
<1>1. \A u \in Workers : Had(u)' = Had(u)
  BY DEF Had
<1>2. \A u \in Workers : \A i \in DOMAIN job'[u].todo :
          i \in DOMAIN job[u].todo /\ job'[u].todo[i] = job[u].todo[i]
  <2>1. \A u \in Workers : job'[u].todo = job[u].todo \/ job'[u].todo = <<>>
    OBVIOUS
  <2>. QED BY <2>1
<1>. USE DEF OnceInv
<1>3. Fresh'
  BY <1>1, <1>2 DEF Fresh
<1>4. TodoOnce' /\ ItemsOnce'
  BY <1>2 DEF TodoOnce, ItemsOnce
<1>5. TodoElsewhere'
  BY <1>1, <1>2 DEF TodoElsewhere
<1>6. HadOnce'
  BY <1>1 DEF HadOnce
<1>7. HadDeleted'
  <2>1. \A p \in Positions, u \in Workers : \A i \in DOMAIN Had(u) :
            items'[p] = Had(u)[i] =>
                \E x \in Workers : pc'[x] = "delete" /\ job'[x].pos = p
    BY DEF HadDeleted, At
  <2>. QED BY <1>1, <2>1 DEF HadDeleted, At
<1>. QED BY <1>3, <1>4, <1>5, <1>6, <1>7

(* The values that are sent are new.                                        *)
LEMMA SendsKeepsOnce ==
    ASSUME QueueTypeOK, OnceInv, NEW w \in Workers, NEW n \in 1 .. 2, Sends(w, n)
    PROVE  OnceInv'
<1>1. /\ \A u \in Workers : u # w => pc'[u] = pc[u] /\ job'[u] = job[u]
      /\ pc[w] = "idle" /\ DOMAIN job'[w].todo = 1 .. n
      /\ \A i \in 1 .. n : job'[w].todo[i] = pushes + i
      /\ pushes' = pushes + n /\ UNCHANGED items
      /\ job'[w].taken = job[w].taken /\ UNCHANGED returned
  BY DEF Sends, OthersRest
<1>2. \A u \in Workers : Had(u)' = Had(u)
  BY <1>1 DEF Had
<1>3. /\ pushes \in Int
      /\ \A p \in Positions : items[p] # None => items[p] \in Int /\ items[p] <= pushes
      /\ \A u \in Workers : \A i \in DOMAIN Had(u) : Had(u)[i] \in Int /\ Had(u)[i] <= pushes
      /\ \A u \in Workers : \A i \in DOMAIN job[u].todo :
             job[u].todo[i] \in Int /\ job[u].todo[i] <= pushes
  <2>1. pushes \in Int /\ Values \subseteq Int
    BY QueueConstants DEF QueueTypeOK
  <2>. QED BY <2>1, HadValues, TodoValues DEF QueueTypeOK, OnceInv, Fresh
<1>. USE DEF OnceInv
<1>4. Fresh'
  BY <1>1, <1>2, <1>3 DEF Fresh
<1>5. TodoOnce'
  <2>1. ASSUME NEW u \in Workers, NEW v \in Workers,
               NEW i \in DOMAIN job'[u].todo, NEW j \in DOMAIN job'[v].todo,
               job'[u].todo[i] = job'[v].todo[j]
        PROVE  u = v /\ i = j
    BY <1>1, <1>3, <2>1 DEF TodoOnce
  <2>. QED BY <2>1 DEF TodoOnce
<1>6. ItemsOnce'
  BY <1>1 DEF ItemsOnce
<1>7. TodoElsewhere'
  <2>1. ASSUME NEW u \in Workers, NEW i \in DOMAIN job'[u].todo
        PROVE  /\ \A p \in Positions : items[p] # job'[u].todo[i]
               /\ \A v \in Workers : \A j \in DOMAIN Had(v) : Had(v)[j] # job'[u].todo[i]
    <3>1. CASE u = w
      <4>1. job'[u].todo[i] = pushes + i /\ i \in 1 .. n
        BY <1>1, <3>1
      <4>2. job'[u].todo[i] > pushes /\ job'[u].todo[i] # None
        <5>1. pushes + i \in Values
          BY <1>1, <4>1, QueueConstants, <3>1, ElementOfSeq, LenProperties DEF Sends
        <5>. QED BY <1>3, <4>1, <5>1, AbsentAssumption
      <4>. QED BY <1>3, <4>1, <4>2
    <3>2. CASE u # w
      BY <1>1, <3>2 DEF TodoElsewhere
    <3>. QED BY <3>1, <3>2
  <2>. QED BY <1>1, <1>2, <2>1 DEF TodoElsewhere
<1>8. HadOnce' /\ HadDeleted'
  BY <1>1, <1>2 DEF HadOnce, HadDeleted, At
<1>. QED BY <1>4, <1>5, <1>6, <1>7, <1>8

(* A value that is stored does not wait any more.                           *)
LEMMA StoresKeepsOnce ==
    ASSUME IInv, QueueTypeOK, InCommand, PlacesInv, OnceInv, NEW w \in Workers, Stores(w)
    PROVE  OnceInv'
<1>1. /\ \A u \in Workers : u # w => pc'[u] = pc[u] /\ job'[u] = job[u]
      /\ pc[w] = "insert" /\ job'[w].todo = Tail(job[w].todo)
      /\ job'[w].taken = job[w].taken /\ UNCHANGED <<returned, pushes>>
      /\ items' = [items EXCEPT ![job[w].pos] = Head(job[w].todo)]
  BY DEF Stores, OthersRest
<1>2. \A u \in Workers : Had(u)' = Had(u)
  BY <1>1 DEF Had
<1>3. /\ 1 \in DOMAIN job[w].todo /\ Head(job[w].todo) = job[w].todo[1]
      /\ \A i \in DOMAIN Tail(job[w].todo) :
             /\ i \in Nat \ {0} /\ i + 1 \in DOMAIN job[w].todo
             /\ Tail(job[w].todo)[i] = job[w].todo[i + 1]
  <2>1. job[w].todo \in Seq(Values) /\ job[w].todo # <<>>
    BY <1>1, HadTyped DEF InCommand, Fits
  <2>2. DOMAIN Tail(job[w].todo) \subseteq Nat \ {0}
    BY <2>1, Shifted, LenProperties
  <2>. QED BY <2>1, <2>2, Shifted
<1>4. PICK v : v = job[w].todo[1] /\ v # None
  BY <1>3, TodoValues
<1>5. \A p \in Positions : items'[p] = IF p = job[w].pos THEN v ELSE items[p]
  BY <1>1, <1>3, <1>4 DEF QueueTypeOK
(* What waits now waited before, at another place than the value stored.    *)
<1>6. ASSUME NEW u \in Workers, NEW i \in DOMAIN job'[u].todo
      PROVE  \E j \in DOMAIN job[u].todo :
                 /\ job'[u].todo[i] = job[u].todo[j]
                 /\ u = w => j = i + 1 /\ i \in Nat \ {0}
                 /\ u # w => j = i
  <2>1. CASE u = w
    BY <1>1, <1>3, <2>1
  <2>2. CASE u # w
    BY <1>1, <2>2
  <2>. QED BY <2>1, <2>2
<1>7. \A u \in Workers : \A i \in DOMAIN job'[u].todo : job'[u].todo[i] # v
  <2>1. ASSUME NEW u \in Workers, NEW i \in DOMAIN job'[u].todo PROVE job'[u].todo[i] # v
    <3>1. PICK j \in DOMAIN job[u].todo :
                 /\ job'[u].todo[i] = job[u].todo[j]
                 /\ u = w => j = i + 1 /\ i \in Nat \ {0}
                 /\ u # w => j = i
      BY <1>6
    <3>2. u # w \/ j # 1
      BY <3>1
    <3>. QED BY <1>3, <1>4, <3>1, <3>2 DEF OnceInv, TodoOnce
  <2>. QED BY <2>1
<1>. USE DEF OnceInv
<1>8. Fresh'
  <2>1. \A u \in Workers : \A i \in DOMAIN job'[u].todo : job'[u].todo[i] <= pushes'
    BY <1>1, <1>6 DEF Fresh
  <2>2. \A p \in Positions : items'[p] # None => items'[p] <= pushes'
    BY <1>1, <1>3, <1>4, <1>5 DEF Fresh
  <2>. QED BY <1>1, <1>2, <2>1, <2>2 DEF Fresh
<1>9. TodoOnce'
  <2>1. ASSUME NEW u \in Workers, NEW x \in Workers,
               NEW i \in DOMAIN job'[u].todo, NEW j \in DOMAIN job'[x].todo,
               job'[u].todo[i] = job'[x].todo[j]
        PROVE  u = x /\ i = j
    <3>1. PICK k \in DOMAIN job[u].todo :
                 /\ job'[u].todo[i] = job[u].todo[k]
                 /\ u = w => k = i + 1 /\ i \in Nat \ {0}
                 /\ u # w => k = i
      BY <1>6
    <3>2. PICK l \in DOMAIN job[x].todo :
                 /\ job'[x].todo[j] = job[x].todo[l]
                 /\ x = w => l = j + 1 /\ j \in Nat \ {0}
                 /\ x # w => l = j
      BY <1>6
    <3>3. u = x /\ k = l
      <4>1. job[u].todo[k] = job[x].todo[l]
        BY <2>1, <3>1, <3>2
      <4>. QED BY <4>1 DEF TodoOnce
    <3>4. CASE u = w
      <4>1. i + 1 = j + 1 /\ i \in Nat /\ j \in Nat
        BY <3>1, <3>2, <3>3, <3>4
      <4>2. i = j
        BY <4>1
      <4>. QED BY <3>3, <4>2
    <3>5. CASE u # w
      BY <3>1, <3>2, <3>3, <3>5
    <3>. QED BY <3>4, <3>5
  <2>. QED BY <2>1 DEF TodoOnce
<1>10. ItemsOnce'
  <2>1. \A p \in Positions : items[p] # v
    BY <1>3, <1>4 DEF TodoElsewhere
  <2>. QED BY <1>5, <2>1 DEF ItemsOnce
<1>11. TodoElsewhere'
  <2>1. \A u \in Workers : \A i \in DOMAIN job'[u].todo :
            /\ \A p \in Positions : items'[p] # job'[u].todo[i]
            /\ \A x \in Workers : \A j \in DOMAIN Had(x) : Had(x)[j] # job'[u].todo[i]
    BY <1>5, <1>6, <1>7 DEF TodoElsewhere
  <2>. QED BY <1>2, <2>1 DEF TodoElsewhere
<1>12. HadOnce'
  BY <1>2 DEF HadOnce
<1>13. HadDeleted'
  <2>1. \A x \in Workers : \A j \in DOMAIN Had(x) : Had(x)[j] # v
    BY <1>3, <1>4 DEF TodoElsewhere
  <2>2. \A u \in Workers : pc[u] = "delete" => pc'[u] = "delete" /\ job'[u] = job[u]
    BY <1>1
  <2>3. ASSUME NEW p \in Positions, NEW u \in Workers, NEW i \in DOMAIN Had(u),
               items'[p] = Had(u)[i]
        PROVE  \E x \in Workers : pc'[x] = "delete" /\ job'[x].pos = p
    <3>1. items[p] = Had(u)[i]
      BY <1>5, <2>1, <2>3
    <3>2. PICK x \in Workers : pc[x] = "delete" /\ job[x].pos = p
      BY <3>1 DEF HadDeleted, At
    <3>. QED BY <2>2, <3>2
  <2>. QED BY <1>2, <2>3 DEF HadDeleted, At
<1>. QED BY <1>8, <1>9, <1>10, <1>11, <1>12, <1>13

(* What a worker finds it has from then on. *)
LEMMA Found ==
    ASSUME IInv, QueueTypeOK, PlacesInv, NEW w \in Workers, Finds(w)
    PROVE  /\ \A u \in Workers : u # w => pc'[u] = pc[u] /\ job'[u] = job[u]
           /\ pc[w] = "take" /\ pc'[w] = "delete"
           /\ job'[w].todo = job[w].todo /\ job'[w].pos = job[w].pos
           /\ UNCHANGED <<items, returned, pushes>>
           /\ job[w].pos \in Positions
           /\ items[job[w].pos] \in Values /\ items[job[w].pos] # None
           /\ DOMAIN Had(w)' = 1 .. (Len(Had(w)) + 1) /\ DOMAIN Had(w) = 1 .. Len(Had(w))
           /\ Len(Had(w)) \in Nat
           /\ \A i \in DOMAIN Had(w) : Had(w)'[i] = Had(w)[i]
           /\ Had(w)'[Len(Had(w)) + 1] = items[job[w].pos]
<1>1. /\ \A u \in Workers : u # w => pc'[u] = pc[u] /\ job'[u] = job[u]
      /\ pc[w] = "take" /\ pc'[w] = "delete"
      /\ job'[w].todo = job[w].todo /\ job'[w].pos = job[w].pos
      /\ job'[w].taken = Append(job[w].taken, items[job[w].pos])
      /\ items[job[w].pos] # None
      /\ UNCHANGED <<items, returned, pushes>>
  <2>1. job[w] \in Jobs
    BY DEF QueueTypeOK
  <2>. QED BY <2>1 DEF Finds, OthersRest, Jobs
<1>2. PICK q \in Positions : q = job[w].pos
  <2>1. job[w] \in Jobs /\ job[w].pos \in Int
    BY JobFields DEF QueueTypeOK
  <2>2. 0 <= job[w].pos /\ job[w].pos < meta.head
    BY <1>1 DEF PlacesInv, Bounds, Takes
  <2>. QED BY <2>1, <2>2, InRange DEF PlacesInv
<1>3. PICK v : v = items[q]
  OBVIOUS
<1>4. v \in Values
  BY <1>1, <1>2, <1>3 DEF QueueTypeOK
<1>5. /\ DOMAIN Had(w)' = 1 .. (Len(Had(w)) + 1) /\ DOMAIN Had(w) = 1 .. Len(Had(w))
      /\ Len(Had(w)) \in Nat
      /\ \A i \in DOMAIN Had(w) : Had(w)'[i] = Had(w)[i]
      /\ Had(w)'[Len(Had(w)) + 1] = v
  <2>1. returned[w] \in Seq(Values) /\ job[w].taken \in Seq(Values) /\ Had(w) \in Seq(Values)
    BY HadTyped DEF QueueTypeOK
  <2>2. Had(w)' = Append(Had(w), v)
    <3>1. returned'[w] = returned[w] /\ job'[w].taken = Append(job[w].taken, v)
      BY <1>1, <1>2, <1>3
    <3>2. PICK s \in Seq(Values), m \in Seq(Values) : s = returned[w] /\ m = job[w].taken
      BY <2>1
    <3>3. v \in Values
      BY <1>4
    <3>4. s \o Append(m, v) = Append(s \o m, v)
      BY <3>3, AppendedToSecond
    <3>. QED BY <3>1, <3>2, <3>4 DEF Had
  <2>. QED BY <1>4, <2>1, <2>2, AppendProperties, LenProperties
<1>. QED BY <1>1, <1>2, <1>3, <1>4, <1>5

(* A value that is found is with the worker, and at its position until it   *)
(* is deleted there: no one else had it.                                    *)
LEMMA FindsKeepsOnce ==
    ASSUME IInv, QueueTypeOK, PlacesInv, OnceInv, NEW w \in Workers, Finds(w)
    PROVE  OnceInv'
<1>1. /\ \A u \in Workers : u # w => pc'[u] = pc[u] /\ job'[u] = job[u]
      /\ pc[w] = "take" /\ pc'[w] = "delete"
      /\ job'[w].todo = job[w].todo /\ job'[w].pos = job[w].pos
      /\ UNCHANGED <<items, returned, pushes>>
  BY Found
<1>2. PICK q \in Positions : q = job[w].pos
  BY Found
<1>3. PICK v : v = items[q]
  OBVIOUS
<1>4. v \in Values /\ v # None /\ v <= pushes
  BY <1>2, <1>3, Found DEF OnceInv, Fresh
<1>5. /\ DOMAIN Had(w)' = 1 .. (Len(Had(w)) + 1) /\ DOMAIN Had(w) = 1 .. Len(Had(w))
      /\ Len(Had(w)) \in Nat
      /\ \A i \in DOMAIN Had(w) : Had(w)'[i] = Had(w)[i]
      /\ Had(w)'[Len(Had(w)) + 1] = v
  BY <1>2, <1>3, Found
<1>6. \A u \in Workers : u # w => Had(u)' = Had(u)
  BY <1>1 DEF Had
(* What a worker has now it had before, or it is what was found.            *)
<1>7. \A u \in Workers : \A i \in DOMAIN Had(u)' :
          \/ i \in DOMAIN Had(u) /\ Had(u)'[i] = Had(u)[i]
          \/ u = w /\ i = Len(Had(w)) + 1 /\ Had(u)'[i] = v
  BY <1>5, <1>6
<1>8. \A u \in Workers : \A i \in DOMAIN Had(u) : Had(u)[i] # v
  <2>1. ASSUME NEW u \in Workers, NEW i \in DOMAIN Had(u), Had(u)[i] = v PROVE FALSE
    <3>1. PICK x \in Workers : pc[x] = "delete" /\ job[x].pos = q
      BY <1>3, <2>1 DEF OnceInv, HadDeleted, At
    <3>2. x # w /\ Takes(x) /\ Takes(w)
      BY <1>1, <3>1 DEF Takes
    <3>. QED BY <1>2, <3>1, <3>2 DEF PlacesInv, Exclusive
  <2>. QED BY <2>1
<1>9. \A u \in Workers : job'[u].todo = job[u].todo
  BY <1>1
<1>. USE DEF OnceInv
<1>10. Fresh'
  BY <1>1, <1>4, <1>7, <1>9 DEF Fresh
<1>11. TodoOnce' /\ ItemsOnce'
  BY <1>1, <1>9 DEF TodoOnce, ItemsOnce
<1>12. TodoElsewhere'
  <2>1. \A u \in Workers : \A i \in DOMAIN job[u].todo : v # job[u].todo[i]
    BY <1>3 DEF TodoElsewhere
  <2>2. ASSUME NEW u \in Workers, NEW i \in DOMAIN job[u].todo,
               NEW x \in Workers, NEW j \in DOMAIN Had(x)'
        PROVE  Had(x)'[j] # job[u].todo[i]
    BY <1>7, <2>1 DEF TodoElsewhere
  <2>. QED BY <1>1, <1>9, <2>2 DEF TodoElsewhere
<1>13. HadOnce'
  <2>1. ASSUME NEW u \in Workers, NEW x \in Workers,
               NEW i \in DOMAIN Had(u)', NEW j \in DOMAIN Had(x)', Had(u)'[i] = Had(x)'[j]
        PROVE  u = x /\ i = j
    BY <1>7, <1>8, <2>1 DEF HadOnce
  <2>. QED BY <2>1 DEF HadOnce
<1>14. HadDeleted'
  <2>1. ASSUME NEW p \in Positions, NEW u \in Workers, NEW i \in DOMAIN Had(u)',
               items[p] = Had(u)'[i]
        PROVE  \E x \in Workers : pc'[x] = "delete" /\ job'[x].pos = p
    <3>1. CASE i \in DOMAIN Had(u) /\ Had(u)'[i] = Had(u)[i]
      <4>1. PICK x \in Workers : pc[x] = "delete" /\ job[x].pos = p
        BY <2>1, <3>1 DEF HadDeleted, At
      <4>. QED BY <1>1, <4>1
    <3>2. CASE Had(u)'[i] = v
      <4>1. p = q
        BY <1>3, <1>4, <2>1, <3>2 DEF ItemsOnce
      <4>. QED BY <1>1, <1>2, <4>1
    <3>. QED BY <1>7, <3>1, <3>2
  <2>. QED BY <1>1, <2>1 DEF HadDeleted, At
<1>. QED BY <1>10, <1>11, <1>12, <1>13, <1>14

(* A value that is deleted is not at its position any more.                 *)
LEMMA DeletesKeepsOnce ==
    ASSUME IInv, QueueTypeOK, OnceInv, NEW w \in Workers, Deletes(w)
    PROVE  OnceInv'
<1>1. /\ \A u \in Workers : u # w => pc'[u] = pc[u] /\ job'[u] = job[u]
      /\ pc[w] = "delete" /\ job'[w].todo = job[w].todo /\ job'[w].taken = job[w].taken
      /\ UNCHANGED <<returned, pushes>>
      /\ \A p \in Positions : items'[p] = IF p = job[w].pos THEN None ELSE items[p]
  BY DEF Deletes, OthersRest, QueueTypeOK
<1>2. \A u \in Workers : Had(u)' = Had(u) /\ job'[u].todo = job[u].todo
  BY <1>1 DEF Had
<1>. USE DEF OnceInv
<1>3. Fresh'
  BY <1>1, <1>2 DEF Fresh
<1>4. TodoOnce' /\ ItemsOnce'
  BY <1>1, <1>2 DEF TodoOnce, ItemsOnce
<1>5. TodoElsewhere'
  <2>1. \A u \in Workers : \A i \in DOMAIN job[u].todo :
            /\ \A p \in Positions : items'[p] # job[u].todo[i]
            /\ \A x \in Workers : \A j \in DOMAIN Had(x) : Had(x)[j] # job[u].todo[i]
    BY <1>1, TodoValues DEF TodoElsewhere
  <2>. QED BY <1>2, <2>1 DEF TodoElsewhere
<1>6. HadOnce'
  BY <1>2 DEF HadOnce
<1>7. HadDeleted'
  <2>1. ASSUME NEW p \in Positions, NEW u \in Workers, NEW i \in DOMAIN Had(u),
               items'[p] = Had(u)[i]
        PROVE  \E x \in Workers : pc'[x] = "delete" /\ job'[x].pos = p
    <3>1. p # job[w].pos /\ items[p] = Had(u)[i]
      BY <1>1, <2>1, HadValues
    <3>2. PICK x \in Workers : pc[x] = "delete" /\ job[x].pos = p
      BY <3>1 DEF HadDeleted, At
    <3>. QED BY <1>1, <3>1, <3>2
  <2>. QED BY <1>2, <2>1 DEF HadDeleted, At
<1>. QED BY <1>3, <1>4, <1>5, <1>6, <1>7

(* The steps that give positions and those that miss leave values alone.    *)
LEMMA OthersKeepOnce ==
    ASSUME QueueTypeOK, OnceInv, NEW w \in Workers,
           Quiet(w) \/ Places(w) \/ Claims(w) \/ Misses(w)
    PROVE  OnceInv'
<1>1. /\ \A u \in Workers : u # w => /\ pc'[u] = pc[u] /\ job'[u] = job[u]
                                     /\ returned'[u] = returned[u]
      /\ pc[w] # "delete" /\ UNCHANGED <<items, pushes>>
  BY DEF Quiet, Places, Claims, Misses, OthersRest
<1>2. returned'[w] \o job'[w].taken = Had(w) /\ job'[w].todo \in {job[w].todo, <<>>}
  <2>1. job[w] \in Jobs
    BY DEF QueueTypeOK
  <2>. QED BY <2>1 DEF Quiet, Places, Claims, Misses, Had, Jobs
<1>3. \A u \in Workers : /\ returned'[u] \o job'[u].taken = Had(u)
                         /\ job'[u].todo \in {job[u].todo, <<>>}
                         /\ pc[u] = "delete" =>
                                pc'[u] = "delete" /\ job'[u].pos = job[u].pos
  BY <1>1, <1>2 DEF Had
<1>. QED BY <1>1, <1>3, UnmovedKeepsOnce

----------------------------------------------------------------------------
(* The invariant of a queue, and that it hands out every value once.        *)

LEMMA QueueInit ==
    ASSUME AQueue, Init
    PROVE  QueueInv
<1>1. /\ meta = Initial /\ meta.head = 0 /\ meta.tail = 0 /\ meta # None
      /\ items = [p \in Positions |-> None] /\ pc = [u \in Workers |-> "idle"]
      /\ job = [u \in Workers |-> NoJob] /\ pushes = 0
      /\ returned = [u \in Workers |-> <<>>]
  BY AbsentAssumption DEF AQueue, Init, Initial, Meta
<1>2. NoJob \in Jobs /\ NoJob.todo = <<>> /\ NoJob.taken = <<>> /\ <<>> \in Seq(Values)
  BY NoJobTyped, EmptySeq
<1>3. IInv
  BY InitConsistent
<1>4. QueueTypeOK
  BY <1>1, <1>2, QueueConstants DEF QueueTypeOK, Labels
<1>5. InCommand
  BY <1>1, <1>2 DEF InCommand, Fits, Pushing, Popping
<1>6. \A u \in Workers : Had(u) = <<>> /\ DOMAIN Had(u) = {} /\ DOMAIN job[u].todo = {}
  <2>1. <<>> \o <<>> = <<>> /\ DOMAIN <<>> = {}
    BY <1>2, ConcatEmptySeq
  <2>. QED BY <1>1, <1>2, <2>1 DEF Had
<1>7. Bounds /\ Exclusive /\ Deleting
  BY <1>1 DEF Bounds, Exclusive, Deleting, Takes, At
<1>8. RoomLeft
  <2>1. Unplaced = {}
    BY <1>6 DEF Unplaced
  <2>. QED BY <1>1, <2>1, FS_EmptySet DEF RoomLeft
<1>9. OnceInv
  BY <1>1, <1>6 DEF OnceInv, Fresh, TodoOnce, ItemsOnce, TodoElsewhere, HadOnce, HadDeleted
<1>. QED BY <1>3, <1>4, <1>5, <1>7, <1>8, <1>9 DEF QueueInv, PlacesInv

LEMMA QueueStands ==
    ASSUME QueueInv, UNCHANGED vars
    PROVE  QueueInv'
<1>1. UNCHANGED <<meta, items, pc, seen, job, pushes, pops, returned, stored, overtaken>>
  BY DEF vars, counters, histories
<1>2. IInv' /\ QueueTypeOK' /\ InCommand'
  BY <1>1 DEF QueueInv, IInv, Consistent, QueueTypeOK, InCommand
<1>3. PlacesInv'
  BY <1>1 DEF QueueInv, PlacesInv, Bounds, Exclusive, Deleting, RoomLeft, Unplaced, Takes, At
<1>4. \A u \in Workers : Had(u)' = Had(u)
  BY <1>1 DEF Had
<1>5. OnceInv'
  BY <1>1, <1>4 DEF QueueInv, OnceInv, Fresh, TodoOnce, ItemsOnce, TodoElsewhere, HadOnce,
                    HadDeleted, At
<1>. QED BY <1>2, <1>3, <1>5 DEF QueueInv

(* What a step of a queue is. *)
QueueMove(w) ==
    \/ Quiet(w)
    \/ \E n \in 1 .. 2 : Sends(w, n)
    \/ Places(w) \/ Stores(w)
    \/ Claims(w) \/ Misses(w) \/ Finds(w) \/ Deletes(w)

LEMMA QueueMoves ==
    ASSUME AQueue, QueueInv, NEW w \in Workers, Request(w) \/ Step(w)
    PROVE  QueueTypeOK' /\ InCommand' /\ QueueMove(w)
<1>1. IInv'
  <2>1. [Next]_vars
    BY DEF Next
  <2>. QED BY <2>1, StepPreserves DEF QueueInv
<1>2. CASE Request(w)
  BY <1>2, RequestEffects DEF QueueInv, QueueMove
<1>3. CASE \/ ReadForPush(w) \/ CreateMeta(w) \/ OverwriteMeta(w)
           \/ SwapForPush(w) \/ InsertItem(w) \/ EndPush(w)
  BY <1>1, <1>3, PushEffects DEF QueueInv, QueueMove
<1>4. CASE \/ ReadForPop(w) \/ SwapForPop(w) \/ TakeItem(w)
           \/ DeleteItem(w) \/ EndPop(w)
  BY <1>1, <1>4, PopEffects DEF QueueInv, QueueMove
<1>. QED BY <1>2, <1>3, <1>4 DEF Step

LEMMA QueueStep ==
    ASSUME AQueue, QueueInv, [Next]_vars
    PROVE  QueueInv'
<1>1. IInv'
  BY StepPreserves DEF QueueInv
<1>2. ASSUME NEW w \in Workers, Request(w) \/ Step(w)
      PROVE  QueueInv'
  <2>1. QueueTypeOK' /\ InCommand' /\ QueueMove(w)
    BY <1>2, QueueMoves
  <2>2. IInv /\ QueueTypeOK /\ InCommand /\ PlacesInv /\ OnceInv
    BY DEF QueueInv
  <2>3. PlacesInv'
    <3>1. CASE Quiet(w) \/ \E n \in 1 .. 2 : Sends(w, n)
      BY <2>2, <3>1, QuietKeepsPlaces, SendsKeepsPlaces
    <3>2. CASE Places(w) \/ Stores(w)
      BY <2>2, <3>2, PlacesKeepsPlaces, StoresKeepsPlaces DEF OnceInv
    <3>3. CASE Claims(w) \/ Misses(w) \/ Finds(w) \/ Deletes(w)
      BY <1>1, <2>1, <2>2, <3>3, ClaimsKeepsPlaces, TakesKeepPlaces, DeletesKeepsPlaces
    <3>. QED BY <2>1, <3>1, <3>2, <3>3 DEF QueueMove
  <2>4. OnceInv'
    BY <2>1, <2>2, SendsKeepsOnce, StoresKeepsOnce, FindsKeepsOnce, DeletesKeepsOnce,
       OthersKeepOnce DEF QueueMove
  <2>. QED BY <1>1, <2>1, <2>3, <2>4 DEF QueueInv
<1>. QED BY <1>2, QueueStands DEF Next

LEMMA QueueIsInv == ASSUME AQueue PROVE Spec => []QueueInv
<1>1. Init => QueueInv
  BY QueueInit
<1>2. QueueInv /\ [Next]_vars => QueueInv'
  BY QueueStep
<1>. QED BY <1>1, <1>2, PTL DEF Spec

(* What a worker has popped is what it had and the item it takes.           *)
LEMMA PoppedParts ==
    ASSUME QueueInv, NEW w \in Workers
    PROVE  /\ \A i \in DOMAIN Had(w) : i \in DOMAIN PoppedBy(w) /\ PoppedBy(w)[i] = Had(w)[i]
           /\ \A i \in DOMAIN PoppedBy(w) :
                 \/ i \in DOMAIN Had(w) /\ PoppedBy(w)[i] = Had(w)[i]
                 \/ /\ At(w, "take") /\ items[job[w].pos] # None
                    /\ PoppedBy(w)[i] = items[job[w].pos]
                    /\ i = Len(Had(w)) + 1
           /\ At(w, "take") /\ items[job[w].pos] # None =>
                  \E i \in DOMAIN PoppedBy(w) : PoppedBy(w)[i] = items[job[w].pos]
<1>1. Had(w) \in Seq(Values) /\ DOMAIN Had(w) = 1 .. Len(Had(w)) /\ Len(Had(w)) \in Nat
      /\ Had(w) \o <<>> = Had(w)
  BY HadTyped, LenProperties DEF QueueInv
<1>2. CASE At(w, "take") /\ items[job[w].pos] # None
  <2>1. job[w].pos \in Positions
    <3>1. job[w] \in Jobs /\ job[w].pos \in Int
      BY JobFields DEF QueueInv, QueueTypeOK
    <3>2. 0 <= job[w].pos /\ job[w].pos < meta.head
      BY <1>2 DEF QueueInv, PlacesInv, Bounds, Takes, At
    <3>. QED BY <3>1, <3>2, InRange DEF QueueInv, PlacesInv
  <2>2. PICK v \in Values : v = items[job[w].pos]
    BY <1>2, <2>1 DEF QueueInv, QueueTypeOK
  <2>3. PoppedBy(w) = Had(w) \o <<v>>
    BY <1>2, <2>2 DEF PoppedBy, Had
  <2>4. PICK s \in Seq(Values) : s = Had(w)
    BY <1>1
  <2>5. PoppedBy(w) = Append(s, v)
    BY <2>2, <2>3, <2>4, AppendIsConcat
  <2>6. /\ DOMAIN Append(s, v) = 1 .. Len(s) + 1 /\ DOMAIN s = 1 .. Len(s) /\ Len(s) \in Nat
        /\ \A i \in 1 .. Len(s) : Append(s, v)[i] = s[i]
        /\ Append(s, v)[Len(s) + 1] = v
    BY <2>2, <2>4, AppendProperties, LenProperties
  <2>. QED BY <1>2, <2>2, <2>4, <2>5, <2>6
<1>3. CASE ~ (At(w, "take") /\ items[job[w].pos] # None)
  <2>1. PoppedBy(w) = Had(w) \o <<>>
    BY <1>3 DEF PoppedBy, Had
  <2>. QED BY <1>1, <1>3, <2>1
<1>. QED BY <1>2, <1>3

(* The item a worker is about to take is at a position, and nobody had it.  *)
LEMMA TakenIsNew ==
    ASSUME QueueInv, NEW w \in Workers, At(w, "take"), items[job[w].pos] # None
    PROVE  /\ job[w].pos \in Positions
           /\ \A u \in Workers : \A i \in DOMAIN Had(u) : Had(u)[i] # items[job[w].pos]
<1>1. job[w].pos \in Positions
  <2>1. job[w] \in Jobs /\ job[w].pos \in Int
    BY JobFields DEF QueueInv, QueueTypeOK
  <2>2. 0 <= job[w].pos /\ job[w].pos < meta.head
    BY DEF QueueInv, PlacesInv, Bounds, Takes, At
  <2>. QED BY <2>1, <2>2, InRange DEF QueueInv, PlacesInv
<1>2. ASSUME NEW u \in Workers, NEW i \in DOMAIN Had(u), Had(u)[i] = items[job[w].pos]
      PROVE  FALSE
  <2>1. PICK x \in Workers : At(x, "delete") /\ job[x].pos = job[w].pos
    BY <1>1, <1>2 DEF QueueInv, OnceInv, HadDeleted
  <2>2. x # w /\ Takes(x) /\ Takes(w)
    BY <2>1 DEF Takes, At
  <2>. QED BY <2>1, <2>2 DEF QueueInv, PlacesInv, Exclusive
<1>. QED BY <1>1, <1>2

LEMMA SameOccurrence ==
    ASSUME QueueInv, NEW w \in Workers, NEW u \in Workers,
           NEW i \in DOMAIN PoppedBy(w), NEW j \in DOMAIN PoppedBy(u),
           PoppedBy(w)[i] = PoppedBy(u)[j]
    PROVE  w = u /\ i = j
<1>1. \/ i \in DOMAIN Had(w) /\ PoppedBy(w)[i] = Had(w)[i]
      \/ /\ At(w, "take") /\ items[job[w].pos] # None
         /\ PoppedBy(w)[i] = items[job[w].pos] /\ i = Len(Had(w)) + 1
  BY PoppedParts
<1>2. \/ j \in DOMAIN Had(u) /\ PoppedBy(u)[j] = Had(u)[j]
      \/ /\ At(u, "take") /\ items[job[u].pos] # None
         /\ PoppedBy(u)[j] = items[job[u].pos] /\ j = Len(Had(u)) + 1
  BY PoppedParts
<1>3. CASE i \in DOMAIN Had(w) /\ PoppedBy(w)[i] = Had(w)[i]
  <2>1. j \in DOMAIN Had(u) /\ PoppedBy(u)[j] = Had(u)[j]
    BY <1>2, <1>3, TakenIsNew
  <2>2. Had(w)[i] = Had(u)[j]
    BY <1>3, <2>1
  <2>. QED BY <1>3, <2>1, <2>2 DEF QueueInv, OnceInv, HadOnce
<1>4. CASE /\ At(w, "take") /\ items[job[w].pos] # None
           /\ PoppedBy(w)[i] = items[job[w].pos] /\ i = Len(Had(w)) + 1
  <2>1. /\ At(u, "take") /\ items[job[u].pos] # None
        /\ PoppedBy(u)[j] = items[job[u].pos] /\ j = Len(Had(u)) + 1
    BY <1>2, <1>4, TakenIsNew
  <2>2. job[w].pos = job[u].pos
    <3>1. job[w].pos \in Positions /\ job[u].pos \in Positions
      BY <1>4, <2>1, TakenIsNew
    <3>. QED BY <1>4, <2>1, <3>1 DEF QueueInv, OnceInv, ItemsOnce
  <2>3. w = u
    BY <1>4, <2>1, <2>2 DEF QueueInv, PlacesInv, Exclusive, Takes, At
  <2>. QED BY <1>4, <2>1, <2>3
<1>. QED BY <1>1, <1>3, <1>4

(* A list used as a queue gives each value to one client, once: whatever    *)
(* the workers, the number of commands and the order of their accesses, and *)
(* although LPOP takes three of them.                                       *)
THEOREM EachValueOnce == ASSUME AQueue PROVE Spec => []PoppedOnce
<1>1. ASSUME QueueInv PROVE PoppedOnce
  <2>1. ASSUME NEW v \in Values, NEW a \in Occurrences(v), NEW b \in Occurrences(v)
        PROVE  a = b
    <3>1. PICK w \in Workers : \E i \in DOMAIN PoppedBy(w) : a = <<w, i>> /\ PoppedBy(w)[i] = v
      BY <2>1 DEF Occurrences
    <3>2. PICK i \in DOMAIN PoppedBy(w) : a = <<w, i>> /\ PoppedBy(w)[i] = v
      BY <3>1
    <3>3. PICK u \in Workers : \E j \in DOMAIN PoppedBy(u) : b = <<u, j>> /\ PoppedBy(u)[j] = v
      BY <2>1 DEF Occurrences
    <3>4. PICK j \in DOMAIN PoppedBy(u) : b = <<u, j>> /\ PoppedBy(u)[j] = v
      BY <3>3
    <3>5. w = u /\ i = j
      BY <1>1, <3>2, <3>4, SameOccurrence
    <3>. QED BY <3>2, <3>4, <3>5
  <2>. QED BY <2>1, AtMostOne DEF PoppedOnce
<1>. QED BY <1>1, QueueIsInv, PTL

----------------------------------------------------------------------------
(* Where a value that was stored is. *)

(* An item that is announced at a position the head has passed is missed    *)
(* or about to be: the pop that was given the position is still taking it.  *)
Announced ==
    \A w \in Workers : At(w, "insert") /\ job[w].pos < meta.head =>
        \/ Head(job[w].todo) \in overtaken
        \/ \E u \in Workers : At(u, "take") /\ job[u].pos = job[w].pos

Held(v) ==
    \/ Listed(v)
    \/ \E w \in Workers : InSequence(v, Had(w))
    \/ \E w \in Workers : At(w, "take") /\ items[job[w].pos] = v

LossInv ==
    /\ stored \subseteq Values
    /\ Announced
    /\ \A v \in stored \ overtaken : Held(v)

LEMMA LossInit ==
    ASSUME Init
    PROVE  LossInv
BY DEF Init, LossInv, Announced, At

LEMMA LossStands ==
    ASSUME LossInv, UNCHANGED vars
    PROVE  LossInv'
<1>1. UNCHANGED <<meta, items, pc, job, returned, stored, overtaken>>
  BY DEF vars, histories
<1>2. \A v : Held(v)' <=> Held(v)
  BY <1>1 DEF Held, Listed, InSequence, Had, At
<1>. QED BY <1>1, <1>2 DEF LossInv, Announced, At

(* The metadata and the positions, as the proofs below use them. *)
LEMMA QueueFacts ==
    ASSUME QueueInv
    PROVE  /\ meta # None /\ meta.head \in Int /\ meta.tail \in Int
           /\ 0 <= meta.head /\ meta.head <= meta.tail
           /\ \A p \in Int : 0 <= p /\ p < meta.tail => p \in Positions
           /\ \A u \in Workers : /\ job[u] \in Jobs /\ job[u].pos \in Int
                                 /\ Takes(u) => job[u].pos < meta.head /\ job[u].pos \in Positions
                                 /\ At(u, "insert") =>
                                        /\ job[u].pos \in Positions /\ items[job[u].pos] = None
                                        /\ job[u].pos < meta.tail
                                        /\ Head(job[u].todo) \in Values
<1>1. /\ meta # None /\ meta.head \in Int /\ meta.tail \in Int
      /\ 0 <= meta.head /\ meta.head <= meta.tail
      /\ \A p \in Int : 0 <= p /\ p < meta.tail => p \in Positions
  BY InRange DEF QueueInv, PlacesInv, Bounds, QueueTypeOK
<1>2. ASSUME NEW u \in Workers
      PROVE  /\ job[u] \in Jobs /\ job[u].pos \in Int
             /\ Takes(u) => job[u].pos < meta.head /\ job[u].pos \in Positions
             /\ At(u, "insert") =>
                    /\ job[u].pos \in Positions /\ items[job[u].pos] = None
                    /\ job[u].pos < meta.tail
                    /\ Head(job[u].todo) \in Values
  <2>1. job[u] \in Jobs /\ job[u].pos \in Int
    BY JobFields DEF QueueInv, QueueTypeOK
  <2>2. Takes(u) => job[u].pos < meta.head /\ job[u].pos \in Positions
    BY <1>1, <2>1 DEF QueueInv, PlacesInv, Bounds
  <2>3. At(u, "insert") => /\ job[u].pos \in Positions /\ items[job[u].pos] = None
                           /\ job[u].pos < meta.tail
    BY <1>1, <2>1 DEF QueueInv, PlacesInv, Bounds
  <2>4. At(u, "insert") => Head(job[u].todo) \in Values
    <3>1. job[u].todo \in Seq(Values)
      BY HadTyped DEF QueueInv
    <3>2. At(u, "insert") => job[u].todo # <<>>
      BY DEF QueueInv, InCommand, Fits, At
    <3>. QED BY <3>1, <3>2, HeadTailProperties
  <2>. QED BY <2>1, <2>2, <2>3, <2>4
<1>. QED BY <1>1, <1>2

(* No step takes a value from a client. *)
LEMMA HadStays ==
    ASSUME QueueInv, NEW w \in Workers, QueueMove(w),
           NEW v, NEW u \in Workers, InSequence(v, Had(u))
    PROVE  InSequence(v, Had(u)')
<1>1. CASE u # w
  <2>1. Had(u)' = Had(u)
    BY <1>1 DEF QueueMove, Quiet, Sends, Places, Stores, Claims, Misses, Finds, Deletes,
                OthersRest, Had
  <2>. QED BY <2>1 DEF InSequence
<1>2. CASE u = w /\ Finds(w)
  <2>1. PICK i \in DOMAIN Had(u) : Had(u)[i] = v
    BY DEF InSequence
  <2>2. i \in DOMAIN Had(u)' /\ Had(u)'[i] = v
    BY <1>2, <2>1, Found DEF QueueInv
  <2>. QED BY <2>2 DEF InSequence
<1>3. CASE u = w /\ ~ Finds(w)
  <2>1. job[w] \in Jobs
    BY DEF QueueInv, QueueTypeOK
  <2>2. Had(w)' = Had(w)
    BY <1>3, <2>1 DEF QueueMove, Quiet, Sends, Places, Stores, Claims, Misses, Deletes,
                      Had, Jobs
  <2>. QED BY <1>3, <2>2 DEF InSequence
<1>. QED BY <1>1, <1>2, <1>3

LEMMA AnnouncedKept ==
    ASSUME QueueInv, QueueInv', LossInv, NEW w \in Workers, QueueMove(w)
    PROVE  Announced'
<1>1. SUFFICES ASSUME NEW u \in Workers, pc'[u] = "insert", job'[u].pos < meta'.head
               PROVE  \/ Head(job'[u].todo) \in overtaken'
                      \/ \E x \in Workers : pc'[x] = "take" /\ job'[x].pos = job'[u].pos
  BY DEF Announced, At
<1>2. /\ meta.head \in Int /\ meta.tail \in Int /\ meta.head <= meta.tail
      /\ \A x \in Workers : job[x] \in Jobs /\ job[x].pos \in Int
  BY QueueFacts
<1>3. \A x \in Workers : x # w => pc'[x] = pc[x] /\ job'[x] = job[x]
  BY DEF QueueMove, Quiet, Sends, Places, Stores, Claims, Misses, Finds, Deletes, OthersRest
<1>4. u # w /\ pc[u] = "insert" /\ job'[u] = job[u]
  <2>1. ASSUME u = w PROVE FALSE
    <3>1. Places(w)
      BY <1>1, <2>1 DEF QueueMove, Quiet, Sends, Stores, Claims, Misses, Finds, Deletes
    <3>2. job'[w].pos = meta.tail /\ meta'.head = meta.head
      BY <1>2, <3>1 DEF Places, Jobs
    <3>. QED BY <1>1, <1>2, <2>1, <3>2
  <2>. QED BY <1>1, <1>3, <2>1
<1>5. job[u].pos < meta.head \/ (job[u].pos = meta.head /\ Claims(w))
  <2>1. CASE Claims(w)
    <3>1. meta'.head = meta.head + 1
      BY <2>1 DEF Claims
    <3>. QED BY <1>1, <1>2, <1>4, <2>1, <3>1
  <2>2. CASE ~ Claims(w)
    <3>1. meta'.head = meta.head
      BY <2>2 DEF QueueMove, Quiet, Sends, Places, Stores, Misses, Finds, Deletes
    <3>. QED BY <1>1, <1>4, <3>1
  <2>. QED BY <2>1, <2>2
<1>6. CASE job[u].pos = meta.head /\ Claims(w)
  <2>1. pc'[w] = "take" /\ job'[w].pos = meta.head
    BY <1>2, <1>6 DEF Claims, Jobs
  <2>. QED BY <1>4, <1>6, <2>1
<1>7. CASE job[u].pos < meta.head
  <2>1. \/ Head(job[u].todo) \in overtaken
        \/ \E x \in Workers : pc[x] = "take" /\ job[x].pos = job[u].pos
    BY <1>4, <1>7 DEF LossInv, Announced, At
  <2>2. CASE Head(job[u].todo) \in overtaken
    <3>1. overtaken \subseteq overtaken'
      BY DEF QueueMove, Quiet, Sends, Places, Stores, Claims, Misses, Finds, Deletes
    <3>. QED BY <1>4, <2>2, <3>1
  <2>3. CASE \E x \in Workers : pc[x] = "take" /\ job[x].pos = job[u].pos
    <3>1. PICK x \in Workers : pc[x] = "take" /\ job[x].pos = job[u].pos
      BY <2>3
    <3>2. CASE x # w
      BY <1>3, <1>4, <3>1, <3>2
    <3>3. CASE x = w
      <4>1. Misses(w) \/ Finds(w)
        BY <3>1, <3>3 DEF QueueMove, Quiet, Sends, Places, Stores, Claims, Deletes
      <4>2. items[job[w].pos] = None
        BY <1>4, <3>1, <3>3, QueueFacts DEF At
      <4>3. overtaken' = overtaken \cup Pending(job[w].pos)
        BY <4>1, <4>2 DEF Misses, Finds
      <4>4. Head(job[u].todo) \in Pending(job[w].pos)
        BY <1>4, <3>1, <3>3 DEF Pending, At
      <4>. QED BY <1>4, <4>3, <4>4
    <3>. QED BY <3>2, <3>3
  <2>. QED BY <2>1, <2>2, <2>3
<1>. QED BY <1>5, <1>6, <1>7

(* Only RPUSH stores values, and a value stored is listed, unless a pop has *)
(* passed its position.                                                     *)
LEMMA StoredHeld ==
    ASSUME QueueInv, LossInv, NEW w \in Workers, Stores(w),
           NEW h, h = Head(job[w].todo), h \notin overtaken
    PROVE  Held(h)'
<1>1. PICK q \in Positions : q = job[w].pos
  BY QueueFacts DEF Stores, At
<1>2. /\ q \in Int /\ q < meta.tail /\ meta # None /\ meta' = meta /\ meta.head \in Int
      /\ meta.tail \in Int
  BY <1>1, QueueFacts DEF Stores, At
<1>3. items'[q] = h
  BY <1>1 DEF Stores, QueueInv, QueueTypeOK
<1>4. CASE meta.head <= q
  <2>1. q \in meta'.head .. (meta'.tail - 1)
    BY <1>2, <1>4
  <2>2. Listed(h)'
    BY <1>2, <1>3, <2>1 DEF Listed
  <2>. QED BY <2>2 DEF Held
<1>5. CASE q < meta.head
  <2>1. PICK x \in Workers : pc[x] = "take" /\ job[x].pos = q
    BY <1>1, <1>5 DEF LossInv, Announced, At, Stores
  <2>2. pc'[x] = "take" /\ job'[x].pos = q
    BY <2>1 DEF Stores, OthersRest
  <2>. QED BY <1>3, <2>2 DEF Held, At
<1>. QED BY <1>2, <1>4, <1>5

(* A value that was held still is: Claims moves it from the list to the     *)
(* worker that takes it, Finds to what that worker had.                     *)
LEMMA HeldStays ==
    ASSUME QueueInv, QueueInv', NEW w \in Workers, QueueMove(w),
           NEW v \in Values, Held(v)
    PROVE  Held(v)'
<1>1. /\ meta # None /\ meta' # None /\ meta.head \in Int /\ meta.tail \in Int
      /\ meta.head <= meta.tail /\ v # None
  BY QueueFacts, AbsentAssumption DEF QueueInv, QueueTypeOK
<1>2. \A x \in Workers : x # w => pc'[x] = pc[x] /\ job'[x] = job[x]
  BY DEF QueueMove, Quiet, Sends, Places, Stores, Claims, Misses, Finds, Deletes, OthersRest
(* The item stays at its position unless it is deleted there.               *)
<1>3. \A p \in Positions : items[p] = v =>
          items'[p] = v \/ (Deletes(w) /\ p = job[w].pos)
  <2>1. CASE Stores(w)
    <3>1. items[job[w].pos] = None
      BY <2>1, QueueFacts DEF Stores, At
    <3>. QED BY <1>1, <2>1, <3>1 DEF Stores, QueueInv, QueueTypeOK
  <2>2. CASE Deletes(w)
    BY <2>2 DEF Deletes, QueueInv, QueueTypeOK
  <2>3. CASE ~ Stores(w) /\ ~ Deletes(w)
    BY <2>3 DEF QueueMove, Quiet, Sends, Places, Claims, Misses, Finds
  <2>. QED BY <2>1, <2>2, <2>3
<1>4. CASE Listed(v)
  <2>1. PICK p \in meta.head .. (meta.tail - 1) : items[p] = v
    BY <1>4 DEF Listed
  <2>2. p \in Positions /\ p \in Int /\ meta.head <= p /\ p < meta.tail
    BY <1>1, <2>1, QueueFacts
  <2>3. items'[p] = v
    <3>1. Deletes(w) => p # job[w].pos
      <4>1. Deletes(w) => job[w].pos < meta.head /\ job[w].pos \in Int
        BY QueueFacts DEF Deletes, Takes
      <4>. QED BY <1>1, <2>2, <4>1
    <3>. QED BY <1>3, <2>1, <2>2, <3>1
  <2>4. CASE Claims(w) /\ p = meta.head
    <3>1. pc'[w] = "take" /\ job'[w].pos = meta.head
      BY <2>4, QueueFacts DEF Claims, Jobs
    <3>. QED BY <2>3, <2>4, <3>1 DEF Held, At
  <2>5. CASE ~ (Claims(w) /\ p = meta.head)
    <3>1. /\ meta'.tail = meta.tail \/ meta'.tail = meta.tail + 1
          /\ meta'.head = meta.head \/ (Claims(w) /\ meta'.head = meta.head + 1)
      BY DEF QueueMove, Quiet, Sends, Places, Stores, Claims, Misses, Finds, Deletes
    <3>2. p \in meta'.head .. (meta'.tail - 1)
      BY <1>1, <2>2, <2>5, <3>1
    <3>3. Listed(v)'
      BY <1>1, <2>3, <3>2 DEF Listed
    <3>. QED BY <3>3 DEF Held
  <2>. QED BY <2>4, <2>5
<1>5. CASE \E u \in Workers : InSequence(v, Had(u))
  BY <1>5, HadStays DEF Held
<1>6. CASE \E u \in Workers : At(u, "take") /\ items[job[u].pos] = v
  <2>1. PICK u \in Workers : pc[u] = "take" /\ items[job[u].pos] = v
    BY <1>6 DEF At
  <2>2. CASE u = w
    <3>1. Finds(w)
      BY <1>1, <2>1, <2>2 DEF QueueMove, Quiet, Sends, Places, Stores, Claims, Misses, Deletes
    <3>2. Len(Had(w)) + 1 \in DOMAIN Had(w)' /\ Had(w)'[Len(Had(w)) + 1] = v
      BY <2>1, <2>2, <3>1, Found DEF QueueInv
    <3>3. InSequence(v, Had(w)')
      BY <3>2 DEF InSequence
    <3>. QED BY <3>3 DEF Held
  <2>3. CASE u # w
    <3>1. pc'[u] = "take" /\ job'[u].pos = job[u].pos /\ job[u].pos \in Positions
      BY <1>2, <2>1, <2>3, QueueFacts DEF Takes
    <3>2. Deletes(w) => job[u].pos # job[w].pos
      BY <2>1, <2>3 DEF Deletes, QueueInv, PlacesInv, Exclusive, Takes
    <3>3. items'[job[u].pos] = v
      BY <1>3, <2>1, <3>1, <3>2
    <3>. QED BY <3>1, <3>3 DEF Held, At
  <2>. QED BY <2>2, <2>3
<1>. QED BY <1>4, <1>5, <1>6 DEF Held

LEMMA LossStep ==
    ASSUME AQueue, QueueInv, LossInv, [Next]_vars
    PROVE  LossInv'
<1>1. QueueInv'
  BY QueueStep
<1>2. ASSUME NEW w \in Workers, Request(w) \/ Step(w)
      PROVE  LossInv'
  <2>1. QueueMove(w)
    BY <1>2, QueueMoves
  <2>2. Announced'
    BY <1>1, <2>1, AnnouncedKept
  <2>3. /\ overtaken \subseteq overtaken'
        /\ stored' = stored \/ (Stores(w) /\ stored' = stored \cup {Head(job[w].todo)})
    BY <2>1 DEF QueueMove, Quiet, Sends, Places, Stores, Claims, Misses, Finds, Deletes
  <2>4. Stores(w) => Head(job[w].todo) \in Values
    BY QueueFacts DEF Stores, At
  <2>5. stored' \subseteq Values
    BY <2>3, <2>4 DEF LossInv
  <2>6. ASSUME NEW v \in stored', v \notin overtaken'
        PROVE  Held(v)'
    <3>1. CASE v \in stored
      BY <1>1, <2>1, <2>3, <2>6, <3>1, HeldStays DEF LossInv
    <3>2. CASE v \notin stored
      BY <2>3, <2>6, <3>2, StoredHeld
    <3>. QED BY <3>1, <3>2
  <2>. QED BY <2>2, <2>5, <2>6 DEF LossInv
<1>. QED BY <1>2, LossStands DEF Next

(* A value stored in a queue is in the list or with a client, however many  *)
(* consumers there are, unless its position was popped between the two      *)
(* accesses of the RPUSH that announces and then stores it.                 *)
THEOREM LossesAreGaps == ASSUME AQueue PROVE Spec => []LostOnlyInGap
<1>1. Init => LossInv
  BY LossInit
<1>2. QueueInv /\ LossInv /\ [Next]_vars => LossInv'
  BY LossStep
<1>3. ASSUME QueueInv, LossInv PROVE LostOnlyInGap
  <2>1. ASSUME NEW v \in stored \ overtaken, ~ Listed(v)
        PROVE  \E w \in Workers : InSequence(v, PoppedBy(w))
    <3>1. v \in Values /\ v # None /\ Held(v)
      BY <1>3, AbsentAssumption DEF LossInv
    <3>2. CASE \E w \in Workers : InSequence(v, Had(w))
      BY <1>3, <3>2, PoppedParts DEF InSequence
    <3>3. CASE \E w \in Workers : At(w, "take") /\ items[job[w].pos] = v
      BY <1>3, <3>1, <3>3, PoppedParts DEF InSequence
    <3>. QED BY <2>1, <3>1, <3>2, <3>3 DEF Held
  <2>. QED BY <2>1 DEF LostOnlyInGap
<1>. QED BY <1>1, <1>2, <1>3, QueueIsInv, PTL DEF Spec

----------------------------------------------------------------------------
(* One worker: the commands are those of a deque.                           *)

(* What the positions a .. b - 1 hold, in their order. *)
Stretch(f, a, b) == [i \in 1 .. (b - a) |-> f[a + i - 1]]

(* The numbers of an interval, the smallest first. *)
LEMMA AscendingInterval ==
    ASSUME NEW a \in Int, NEW b \in Int
    PROVE  Ascending(a .. b) = [i \in 1 .. (b - a + 1) |-> a + i - 1]
<1>1. 1 .. Cardinality(a .. b) = 1 .. (b - a + 1)
  BY FS_Interval
<1>2. ASSUME NEW i \in 1 .. (b - a + 1)
      PROVE  (CHOOSE x \in a .. b : Cardinality({y \in a .. b : y <= x}) = i) = a + i - 1
  <2>1. ASSUME NEW x \in a .. b
        PROVE  Cardinality({y \in a .. b : y <= x}) = x - a + 1
    <3>1. {y \in a .. b : y <= x} = a .. x /\ x \in Int /\ ~ (a > x)
      OBVIOUS
    <3>2. Cardinality(a .. x) = x - a + 1
      BY <3>1, FS_Interval
    <3>. QED BY <3>1, <3>2
  <2>2. a + i - 1 \in a .. b
    OBVIOUS
  <2>3. \A x \in a .. b : Cardinality({y \in a .. b : y <= x}) = i <=> x = a + i - 1
    BY <2>1
  <2>. QED BY <2>2, <2>3
<1>. QED BY <1>1, <1>2 DEF Ascending

(* The places of S, read through f. *)
Read(f, S) ==
    LET filled == Ascending(S) IN [i \in DOMAIN filled |-> f[filled[i]]]

LEMMA ReadInterval ==
    ASSUME NEW f, NEW a \in Int, NEW b \in Int
    PROVE  Read(f, a .. (b - 1)) = Stretch(f, a, b)
<1>1. Ascending(a .. (b - 1)) = [i \in 1 .. (b - a) |-> a + i - 1]
  <2>1. (b - 1) - a + 1 = b - a
    OBVIOUS
  <2>. QED BY <2>1, AscendingInterval
<1>. QED BY <1>1 DEF Read, Stretch

(* The positions a .. b - 1 hold values of S. *)
Holding(f, a, b, S) == \A p \in a .. (b - 1) : f[p] \in S

LEMMA StretchType ==
    ASSUME NEW S, NEW f, NEW a \in Int, NEW b \in Int, a <= b,
           Holding(f, a, b, S)
    PROVE  /\ Stretch(f, a, b) \in Seq(S) /\ Len(Stretch(f, a, b)) = b - a
           /\ \A i \in 1 .. (b - a) : Stretch(f, a, b)[i] = f[a + i - 1]
<1>1. b - a \in Nat /\ \A i \in 1 .. (b - a) : f[a + i - 1] \in S
  BY DEF Holding
<1>2. Stretch(f, a, b) \in [1 .. (b - a) -> S]
  BY <1>1 DEF Stretch
<1>3. Stretch(f, a, b) \in Seq(S)
  BY <1>1, <1>2, SeqDef
<1>. QED BY <1>1, <1>2, <1>3, LenProperties DEF Stretch

(* A stretch depends on its positions only. *)
LEMMA StretchSame ==
    ASSUME NEW f, NEW g, NEW a \in Int, NEW b \in Int,
           \A p \in a .. (b - 1) : f[p] = g[p]
    PROVE  Stretch(f, a, b) = Stretch(g, a, b)
BY DEF Stretch

(* One position more or less at the tail, one more or less at the head. *)
LEMMA StretchAtTail ==
    ASSUME NEW S, NEW f, NEW a \in Int, NEW b \in Int, a <= b,
           Holding(f, a, b + 1, S)
    PROVE  /\ Stretch(f, a, b + 1) = Append(Stretch(f, a, b), f[b])
           /\ Stretch(f, a, b) = Front(Stretch(f, a, b + 1))
           /\ f[b] = Last(Stretch(f, a, b + 1)) /\ Stretch(f, a, b + 1) # <<>>
<1>. DEFINE s == Stretch(f, a, b)
            t == Stretch(f, a, b + 1)
<1>0. f[b] \in S
  BY DEF Holding
<1>1. /\ s \in Seq(S) /\ Len(s) = b - a /\ f[b] \in S
      /\ \A i \in 1 .. (b - a) : s[i] = f[a + i - 1]
  <2>1. Holding(f, a, b, S)
    BY DEF Holding
  <2>. HIDE DEF s
  <2>2. s \in Seq(S) /\ Len(s) = b - a
    BY <2>1, StretchType DEF s
  <2>3. \A i \in 1 .. (b - a) : s[i] = f[a + i - 1]
    BY DEF s, Stretch
  <2>. QED BY <1>0, <2>2, <2>3
<1>2. /\ t \in Seq(S) /\ Len(t) = b - a + 1
      /\ \A i \in 1 .. (b - a + 1) : t[i] = f[a + i - 1]
  <2>1. b + 1 \in Int /\ a <= b + 1 /\ (b + 1) - 1 = b /\ (b + 1) - a = b - a + 1
    OBVIOUS
  <2>. QED BY <1>0, <2>1, StretchType
<1>. HIDE DEF s, t
<1>3. t = Append(s, f[b])
  <2>1. /\ Append(s, f[b]) \in Seq(S) /\ Len(Append(s, f[b])) = b - a + 1
        /\ \A i \in 1 .. (b - a) : Append(s, f[b])[i] = s[i]
        /\ Append(s, f[b])[b - a + 1] = f[b]
    BY <1>1, AppendProperties
  <2>2. \A i \in 1 .. Len(t) : t[i] = Append(s, f[b])[i]
    BY <1>1, <1>2, <2>1
  <2>. QED BY <1>2, <2>1, <2>2, SeqEqual
<1>4. t[Len(t)] = f[b] /\ t # <<>>
  BY <1>2, EmptySeq
<1>5. s = SubSeq(t, 1, Len(t) - 1)
  <2>1. \A i \in 1 .. b - a : t[i] \in S
    BY <1>2, ElementOfSeq
  <2>2. b - a \in Int /\ 1 \in Int /\ Len(t) - 1 = b - a
    BY <1>2
  <2>3. /\ SubSeq(t, 1, b - a) \in Seq(S)
        /\ Len(SubSeq(t, 1, b - a)) = IF 1 <= b - a THEN b - a - 1 + 1 ELSE 0
        /\ \A i \in 1 .. (b - a - 1 + 1) : SubSeq(t, 1, b - a)[i] = t[1 + i - 1]
    BY <2>1, <2>2, SubSeqProperties
  <2>4. Len(SubSeq(t, 1, b - a)) = Len(s)
    BY <1>1, <2>2, <2>3
  <2>5. \A i \in 1 .. Len(s) : s[i] = SubSeq(t, 1, b - a)[i]
    BY <1>1, <1>2, <2>2, <2>3
  <2>. QED BY <1>1, <2>2, <2>3, <2>4, <2>5, SeqEqual
<1>. QED BY <1>3, <1>4, <1>5 DEF Front, Last, s, t

LEMMA StretchAtHead ==
    ASSUME NEW S, NEW f, NEW a \in Int, NEW b \in Int, a < b,
           Holding(f, a, b, S)
    PROVE  /\ Stretch(f, a, b) = Joined(<<f[a]>>, Stretch(f, a + 1, b))
           /\ Stretch(f, a + 1, b) = Tail(Stretch(f, a, b))
           /\ f[a] = Head(Stretch(f, a, b)) /\ Stretch(f, a, b) # <<>>
<1>. DEFINE s == Stretch(f, a + 1, b)
            t == Stretch(f, a, b)
<1>0. f[a] \in S
  BY DEF Holding
<1>1. /\ t \in Seq(S) /\ Len(t) = b - a /\ f[a] \in S
      /\ \A i \in 1 .. (b - a) : t[i] = f[a + i - 1]
  BY <1>0, StretchType
<1>2. /\ s \in Seq(S) /\ Len(s) = b - a - 1
      /\ \A i \in 1 .. (b - a - 1) : s[i] = f[a + i]
  <2>1. PICK c \in Int : c = a + 1 /\ c <= b /\ b - c = b - a - 1
    OBVIOUS
  <2>2. Holding(f, c, b, S)
    BY <2>1 DEF Holding
  <2>3. /\ Stretch(f, c, b) \in Seq(S)
        /\ Len(Stretch(f, c, b)) = b - c
        /\ \A i \in 1 .. (b - c) : Stretch(f, c, b)[i] = f[c + i - 1]
    <3>. HIDE DEF s, t
    <3>1. c <= b /\ b - c \in Nat
      BY <2>1
    <3>2. Stretch(f, c, b) \in Seq(S)
      BY <2>2, <3>1, StretchType
    <3>3. DOMAIN Stretch(f, c, b) = 1 .. (b - c)
      BY DEF Stretch
    <3>4. Len(Stretch(f, c, b)) = b - c
      BY <3>1, <3>2, <3>3, LenProperties
    <3>5. \A i \in 1 .. (b - c) : Stretch(f, c, b)[i] = f[c + i - 1]
      BY DEF Stretch
    <3>. QED BY <3>2, <3>4, <3>5
  <2>4. \A i \in 1 .. (b - a - 1) : c + i - 1 = a + i
    BY <2>1
  <2>. QED BY <2>1, <2>3, <2>4
<1>. HIDE DEF s, t
<1>3. t # <<>> /\ Head(t) = f[a]
  BY <1>1, EmptySeq
<1>4. s = Tail(t)
  <2>1. /\ Tail(t) \in Seq(S) /\ Len(Tail(t)) = b - a - 1
        /\ \A i \in 1 .. (b - a - 1) : Tail(t)[i] = t[i + 1]
    BY <1>1, <1>3, HeadTailProperties
  <2>2. \A i \in 1 .. Len(s) : s[i] = Tail(t)[i]
    BY <1>1, <1>2, <2>1
  <2>. QED BY <1>2, <2>1, <2>2, SeqEqual
<1>5. t = <<f[a]>> \o s
  <2>0. <<f[a]>> \in Seq(S) /\ Len(<<f[a]>>) = 1 /\ <<f[a]>>[1] = f[a]
    BY <1>1
  <2>1. PICK h \in Seq(S) : h = <<f[a]>> /\ Len(h) = 1 /\ h[1] = f[a]
    BY <2>0
  <2>2. /\ h \o s \in Seq(S) /\ Len(h \o s) = Len(h) + Len(s)
        /\ \A i \in 1 .. Len(h) + Len(s) : (h \o s)[i] =
               IF i <= Len(h) THEN h[i] ELSE s[i - Len(h)]
    BY <1>2, ConcatProperties
  <2>3. Len(h \o s) = b - a /\ Len(h) + Len(s) = b - a
    BY <1>2, <2>1, <2>2
  <2>4. ASSUME NEW i \in 1 .. Len(t) PROVE t[i] = (h \o s)[i]
    <3>1. (h \o s)[i] = IF i <= 1 THEN h[i] ELSE s[i - 1]
      BY <1>1, <2>1, <2>2, <2>3
    <3>2. t[i] = f[a + i - 1]
      BY <1>1
    <3>3. CASE i = 1
      BY <1>1, <2>1, <3>1, <3>2, <3>3
    <3>4. CASE i # 1
      <4>1. i - 1 \in 1 .. (b - a - 1) /\ a + (i - 1) = a + i - 1
        BY <1>1, <3>4
      <4>2. s[i - 1] = f[a + (i - 1)]
        BY <1>2, <4>1
      <4>3. ~ (i <= 1)
        BY <1>1, <3>4
      <4>. QED BY <3>1, <3>2, <4>1, <4>2, <4>3
    <3>. QED BY <3>3, <3>4
  <2>5. t = h \o s
    BY <1>1, <2>2, <2>3, <2>4, SeqEqual
  <2>. QED BY <2>1, <2>5
<1>. QED BY <1>3, <1>4, <1>5 DEF s, t, Joined

LEMMA StretchPrepended ==
    ASSUME NEW S, NEW f, NEW a \in Int, NEW b \in Int, a < b,
           Holding(f, a, b, S)
    PROVE  Stretch(f, a, b) = Joined(<<f[a]>>, Stretch(f, a + 1, b))
BY StretchAtHead

Alone == \E w : Workers = {w}

(* The inductive invariant of one worker: nothing changes between two of    *)
(* its accesses but what it changes itself, so that what it read is still   *)
(* there, and the items are at the positions from head to tail, but for the *)
(* one it is pushing or popping.                                            *)
SoloTypeOK ==
    /\ items \in [Positions -> Values \cup {None}]
    /\ pc \in [Workers -> Labels]
    /\ job \in [Workers -> Jobs]
    /\ pushes \in 0 .. MaxPushes
    /\ returned \in [Workers -> Seq(Values)]

(* What a worker alone knows at each label: what it read is still there. *)
SoloFits(w) ==
    /\ pc[w] \notin Popping => job[w].taken = <<>>
    /\ pc[w] \in {"create", "overwrite", "swapPush", "insert"} => job[w].todo # <<>>
    /\ pc[w] = "create" => meta = None
    /\ pc[w] \in {"overwrite", "swapPush", "swapPop"} => meta = seen[w]
    /\ pc[w] \in {"overwrite", "swapPush", "insert", "swapPop", "take", "delete"} =>
           meta # None

(* The position announced and not filled yet, the one given up and not      *)
(* emptied yet.                                                             *)
SoloPlace(w) ==
    /\ At(w, "insert") =>
           /\ meta.head < meta.tail
           /\ job[w].pos = IF job[w].side = "left" THEN meta.head ELSE meta.tail - 1
    /\ Takes(w) =>
           /\ job[w].pos = IF job[w].side = "left" THEN meta.head - 1 ELSE meta.tail
           /\ job[w].pos \in Positions
           /\ items[job[w].pos] # None

(* The items are those at First(w) .. Beyond(w) - 1. *)
First(w) == IF At(w, "insert") /\ job[w].side = "left" THEN meta.head + 1 ELSE meta.head

Beyond(w) == IF At(w, "insert") /\ job[w].side # "left" THEN meta.tail - 1 ELSE meta.tail

SoloItems(w) ==
    /\ meta = None => \A p \in Positions : items[p] = None
    /\ meta # None => \A p \in Positions :
           items[p] # None <=> \/ First(w) <= p /\ p < Beyond(w)
                               \/ Takes(w) /\ p = job[w].pos

(* Each value moves the head or the tail by one position. *)
Waiting(w) == IF At(w, "insert") THEN Len(job[w].todo) - 1 ELSE Len(job[w].todo)

SoloRoom(w) ==
    /\ Waiting(w) <= pushes
    /\ meta # None => /\ Waiting(w) - meta.head <= pushes
                      /\ meta.tail + Waiting(w) <= pushes

SoloInv ==
    /\ IInv
    /\ SoloTypeOK
    /\ \A w \in Workers : SoloFits(w) /\ SoloPlace(w) /\ SoloItems(w) /\ SoloRoom(w)

(* What a worker alone does: it moves on, finds no list and makes one,      *)
(* announces a position and stores the item there, or gives a position up,  *)
(* takes the item there and deletes it.                                     *)
Calm(w) ==
    /\ UNCHANGED <<meta, items>>
    /\ pc[w] \notin {"insert", "take", "delete"}
    /\ pc'[w] \notin {"insert", "take", "delete"}
    /\ Had(w)' = Had(w)
    /\ Len(job'[w].todo) - pushes' <= Len(job[w].todo) - pushes

Founds(w) ==
    /\ meta = None /\ meta' = Initial
    /\ UNCHANGED <<items, job, pushes, returned>>
    /\ pc[w] = "create" /\ pc'[w] = "overwrite"

Announces(w) ==
    /\ meta # None /\ meta' = Pushed(job[w].side, meta)
    /\ UNCHANGED <<items, pushes, returned>>
    /\ pc[w] \in {"overwrite", "swapPush"} /\ pc'[w] = "insert"
    /\ job'[w] = [job[w] EXCEPT !.pos =
                     IF job[w].side = "left" THEN meta.head - 1 ELSE meta.tail]

Gives(w) ==
    /\ meta # None /\ meta' = Popped(job[w].side, meta)
    /\ meta.head < meta.tail
    /\ UNCHANGED <<items, pushes, returned>>
    /\ pc[w] = "swapPop" /\ pc'[w] = "take"
    /\ job'[w] = [job[w] EXCEPT !.pos =
                     IF job[w].side = "left" THEN meta.head ELSE meta.tail - 1]

SoloMove(w) ==
    \/ Calm(w)
    \/ Founds(w)
    \/ Announces(w)
    \/ Stores(w)
    \/ Gives(w)
    \/ Finds(w)
    \/ Deletes(w)

LEMMA SoloHad ==
    ASSUME SoloTypeOK, NEW w \in Workers
    PROVE  /\ Had(w) \in Seq(Values) /\ returned[w] \in Seq(Values)
           /\ job[w].taken \in Seq(Values) /\ job[w].todo \in Seq(Values)
           /\ Had(w) \o <<>> = Had(w)
           /\ job[w].taken = <<>> => Had(w) = returned[w]
           /\ job[w] \in Jobs /\ Len(job[w].todo) \in Nat
<1>1. /\ returned[w] \in Seq(Values) /\ job[w].taken \in Seq(Values)
      /\ job[w].todo \in Seq(Values) /\ job[w] \in Jobs
  BY JobFields DEF SoloTypeOK
<1>2. Had(w) \in Seq(Values)
  BY <1>1, ConcatProperties DEF Had
<1>3. Had(w) \o <<>> = Had(w) /\ returned[w] \o <<>> = returned[w]
  BY <1>1, <1>2, ConcatEmptySeq
<1>4. Len(job[w].todo) \in Nat
  BY <1>1, LenProperties
<1>. QED BY <1>1, <1>2, <1>3, <1>4 DEF Had

LEMMA SoloTyped ==
    ASSUME SoloTypeOK, NEW w \in Workers, Workers = {w}, NEW label \in Labels,
           NEW j \in Jobs, GoTo(w, label), job' = [job EXCEPT ![w] = j],
           items' \in [Positions -> Values \cup {None}],
           UNCHANGED returned, pushes' \in 0 .. MaxPushes
    PROVE  SoloTypeOK' /\ pc'[w] = label /\ job'[w] = j /\ OthersRest(w)
BY DEF SoloTypeOK, GoTo, OthersRest

(* The worker moves on and has what it had. *)
LEMMA SoloCalm ==
    ASSUME SoloTypeOK, NEW w \in Workers, Workers = {w}, NEW label \in Labels,
           NEW j \in Jobs, GoTo(w, label), job' = [job EXCEPT ![w] = j],
           UNCHANGED <<meta, items, returned>>, pushes' \in 0 .. MaxPushes,
           pc[w] \notin {"insert", "take", "delete"},
           label \notin {"insert", "take", "delete"},
           j.taken = job[w].taken,
           Len(j.todo) - pushes' <= Len(job[w].todo) - pushes
    PROVE  SoloTypeOK' /\ Calm(w) /\ pc'[w] = label /\ job'[w] = j
<1>1. SoloTypeOK' /\ pc'[w] = label /\ job'[w] = j /\ OthersRest(w)
  BY SoloTyped DEF SoloTypeOK
<1>2. Had(w)' = Had(w)
  BY <1>1 DEF Had
<1>. QED BY <1>1, <1>2 DEF Calm

LEMMA SoloReply ==
    ASSUME SoloTypeOK, NEW w \in Workers, Workers = {w}, Reply(w),
           pc[w] \in {"readPop", "swapPop"}, UNCHANGED <<meta, items, pushes>>
    PROVE  SoloTypeOK' /\ Calm(w) /\ SoloFits(w)'
<1>1. NoJob \in Jobs /\ NoJob.todo = <<>> /\ NoJob.taken = <<>>
  BY NoJobTyped
<1>2. /\ pc' = [pc EXCEPT ![w] = "idle"] /\ job' = [job EXCEPT ![w] = NoJob]
      /\ returned' = [returned EXCEPT ![w] = Had(w)]
  BY DEF Reply, GoTo, Had
<1>3. Had(w) \in Seq(Values) /\ Had(w) \o <<>> = Had(w) /\ Len(job[w].todo) \in Nat
  BY SoloHad
<1>4. SoloTypeOK'
  BY <1>1, <1>2, <1>3 DEF SoloTypeOK, Labels
<1>5. pc'[w] = "idle" /\ job'[w] = NoJob /\ returned'[w] = Had(w)
  BY <1>2 DEF SoloTypeOK
<1>6. Had(w)' = Had(w)
  BY <1>1, <1>3, <1>5 DEF Had
<1>7. Len(job'[w].todo) - pushes' <= Len(job[w].todo) - pushes
  <2>1. Len(<<>>) = 0 /\ pushes \in Int
    BY EmptySeq DEF SoloTypeOK
  <2>. QED BY <1>1, <1>3, <1>5, <2>1
<1>8. Calm(w)
  BY <1>5, <1>6, <1>7 DEF Calm
<1>9. SoloFits(w)'
  BY <1>1, <1>5 DEF SoloFits, Popping
<1>. QED BY <1>4, <1>8, <1>9

LEMMA SoloRequest ==
    ASSUME SoloInv, NEW w \in Workers, Workers = {w}, Request(w)
    PROVE  SoloTypeOK' /\ Calm(w) /\ SoloFits(w)'
<1>0. /\ SoloTypeOK /\ SoloFits(w) /\ pushes \in Nat /\ Len(job[w].todo) \in Nat
      /\ pushes <= MaxPushes
  BY SoloHad, QueueConstants DEF SoloInv, SoloTypeOK
<1>1. ASSUME NEW n \in 1 .. 2, NEW side \in Sides, BeginPush(w, side, n)
      PROVE  SoloTypeOK' /\ Calm(w) /\ SoloFits(w)'
  <2>. DEFINE todo == [i \in 1 .. n |-> pushes + i]
              j == Job(side, todo, 0)
  <2>1. pc[w] = "idle" /\ pushes + n <= MaxPushes /\ pushes' = pushes + n
    BY <1>1 DEF BeginPush, At
  <2>2. todo \in Seq(Values) /\ Len(todo) = n
    <3>1. \A i \in 1 .. n : pushes + i \in Values
      BY <1>0, <2>1, QueueConstants DEF Values
    <3>2. todo \in Seq(Values)
      BY <3>1, IsASeq
    <3>3. Len(todo) \in Nat /\ DOMAIN todo = 1 .. Len(todo) /\ DOMAIN todo = 1 .. n
      BY <3>2, LenProperties
    <3>. QED BY <3>2, <3>3
  <2>3. j \in Jobs /\ j.todo = todo /\ j.taken = <<>>
    <3>1. PICK e \in {"left", "right"} : e = side
      BY SidesAssumption
    <3>2. 0 \in Int
      OBVIOUS
    <3>. HIDE DEF todo
    <3>. QED BY <2>2, <3>1, <3>2 DEF Job, Jobs
  <2>4. pushes' \in 0 .. MaxPushes
    BY <1>0, <2>1, QueueConstants
  <2>5. /\ GoTo(w, "readPush") /\ job' = [job EXCEPT ![w] = j]
        /\ UNCHANGED <<meta, items, returned>>
    BY <1>1 DEF BeginPush, histories
  <2>6. job[w].taken = <<>>
    BY <1>0, <2>1 DEF SoloFits, Popping
  <2>. HIDE DEF todo, j
  <2>7. Len(j.todo) - pushes' <= Len(job[w].todo) - pushes
    BY <1>0, <2>1, <2>2, <2>3
  <2>8. SoloTypeOK' /\ Calm(w) /\ pc'[w] = "readPush" /\ job'[w] = j
    BY <1>0, <2>1, <2>3, <2>4, <2>5, <2>6, <2>7, SoloCalm DEF Labels
  <2>9. SoloFits(w)'
    BY <2>3, <2>8 DEF SoloFits, Popping
  <2>. QED BY <2>8, <2>9
<1>2. ASSUME NEW n \in 1 .. 2, NEW side \in PopSides, BeginPop(w, side, n)
      PROVE  SoloTypeOK' /\ Calm(w) /\ SoloFits(w)'
  <2>. DEFINE j == Job(side, <<>>, n)
  <2>1. j \in Jobs /\ j.todo = <<>> /\ j.taken = <<>>
    <3>1. <<>> \in Seq(Values)
      BY EmptySeq
    <3>2. PICK e \in {"left", "right"} : e = side
      BY SidesAssumption
    <3>3. n \in Int
      OBVIOUS
    <3>. QED BY <3>1, <3>2, <3>3 DEF Job, Jobs
  <2>2. /\ pc[w] = "idle" /\ GoTo(w, "readPop") /\ job' = [job EXCEPT ![w] = j]
        /\ UNCHANGED <<meta, items, pushes, returned>>
    BY <1>2 DEF BeginPop, At, histories
  <2>3. job[w].taken = <<>>
    BY <1>0, <2>2 DEF SoloFits, Popping
  <2>. HIDE DEF j
  <2>4. Len(j.todo) - pushes' <= Len(job[w].todo) - pushes
    <3>1. Len(<<>>) = 0
      BY EmptySeq
    <3>. QED BY <1>0, <2>1, <2>2, <3>1
  <2>5. SoloTypeOK' /\ Calm(w) /\ pc'[w] = "readPop" /\ job'[w] = j
    BY <1>0, <2>1, <2>2, <2>3, <2>4, SoloCalm DEF Labels, SoloTypeOK
  <2>6. SoloFits(w)'
    BY <2>1, <2>5 DEF SoloFits, Popping
  <2>. QED BY <2>5, <2>6
<1>. QED BY <1>1, <1>2 DEF Request

(* The metadata and the positions of a worker alone. *)
LEMMA SoloFacts ==
    ASSUME SoloInv, NEW w \in Workers
    PROVE  /\ job[w] \in Jobs /\ Len(job[w].todo) \in Nat
           /\ pushes \in Nat /\ pushes <= MaxPushes
           /\ meta # None =>
                 /\ Consistent(meta)
                 /\ meta.head \in Int /\ meta.tail \in Int /\ meta.head <= meta.tail
                 /\ First(w) \in Int /\ Beyond(w) \in Int /\ First(w) <= Beyond(w)
                 /\ -MaxPushes <= meta.head /\ meta.tail <= MaxPushes
                 /\ \A p \in Int : meta.head <= p /\ p < meta.tail => p \in Positions
<1>1. /\ job[w] \in Jobs /\ Len(job[w].todo) \in Nat
      /\ pushes \in Nat /\ pushes <= MaxPushes /\ MaxPushes \in Nat
  BY SoloHad, QueueConstants DEF SoloInv, SoloTypeOK
<1>2. ASSUME meta # None
      PROVE  /\ Consistent(meta)
             /\ meta.head \in Int /\ meta.tail \in Int /\ meta.head <= meta.tail
  BY <1>2 DEF SoloInv, IInv, Consistent, Metas
<1>3. ASSUME meta # None
      PROVE  First(w) \in Int /\ Beyond(w) \in Int /\ First(w) <= Beyond(w)
  <2>1. At(w, "insert") => meta.head < meta.tail
    BY DEF SoloInv, SoloPlace
  <2>. QED BY <1>2, <1>3, <2>1 DEF First, Beyond
<1>4. ASSUME meta # None
      PROVE  -MaxPushes <= meta.head /\ meta.tail <= MaxPushes
  <2>1. Waiting(w) - meta.head <= pushes /\ meta.tail + Waiting(w) <= pushes
    BY <1>4 DEF SoloInv, SoloRoom
  <2>2. Waiting(w) \in Nat
    <3>1. At(w, "insert") => job[w].todo # <<>>
      BY DEF SoloInv, SoloFits, At
    <3>2. At(w, "insert") => Len(job[w].todo) > 0
      <4>1. job[w].todo \in Seq(Values)
        BY SoloHad DEF SoloInv
      <4>. QED BY <3>1, <4>1, EmptySeq
    <3>. QED BY <1>1, <3>2 DEF Waiting
  <2>. QED BY <1>1, <1>2, <1>4, <2>1, <2>2
<1>5. ASSUME meta # None, NEW p \in Int, meta.head <= p, p < meta.tail
      PROVE  p \in Positions
  BY <1>1, <1>2, <1>4, <1>5 DEF Positions
<1>. QED BY <1>1, <1>2, <1>3, <1>4, <1>5

(* The worker moves on and sends nothing. *)
LEMMA SoloStay ==
    ASSUME SoloTypeOK, NEW w \in Workers, Workers = {w}, NEW label \in Labels,
           NEW j \in Jobs, GoTo(w, label), job' = [job EXCEPT ![w] = j],
           UNCHANGED <<meta, items, pushes, returned>>,
           pc[w] \notin {"insert", "take", "delete"},
           label \notin {"insert", "take", "delete"},
           j.taken = job[w].taken, Len(j.todo) = 0 \/ j.todo = job[w].todo
    PROVE  SoloTypeOK' /\ Calm(w) /\ pc'[w] = label /\ job'[w] = j
<1>1. pushes \in Nat /\ Len(job[w].todo) \in Nat /\ pushes' \in 0 .. MaxPushes
  BY SoloHad, QueueConstants DEF SoloTypeOK
<1>2. Len(j.todo) - pushes' <= Len(job[w].todo) - pushes
  BY <1>1
<1>. QED BY <1>1, <1>2, SoloCalm

LEMMA SoloPush ==
    ASSUME SoloInv, IInv', NEW w \in Workers, Workers = {w},
           \/ ReadForPush(w) \/ CreateMeta(w) \/ OverwriteMeta(w)
           \/ SwapForPush(w) \/ InsertItem(w) \/ EndPush(w)
    PROVE  SoloTypeOK' /\ SoloMove(w) /\ SoloFits(w)'
<1>. USE DEF SoloMove
<1>0. /\ SoloTypeOK /\ SoloFits(w) /\ job[w] \in Jobs /\ job[w].todo \in Seq(Values)
      /\ pushes \in Nat /\ Len(job[w].todo) \in Nat
  BY SoloHad, SoloFacts DEF SoloInv
<1>1. CASE ReadForPush(w)
  <2>. DEFINE label == IF meta = None THEN "create" ELSE "swapPush"
  <2>1. /\ pc[w] = "readPush" /\ GoTo(w, label) /\ job[w].todo # <<>>
        /\ UNCHANGED <<meta, items, pushes, returned>>
        /\ job' = [job EXCEPT ![w] = job[w]] /\ job[w].taken = <<>>
    BY <1>0, <1>1 DEF ReadForPush, At, counters, histories, SoloTypeOK, SoloFits, Popping
  <2>2. SoloTypeOK' /\ Calm(w) /\ pc'[w] = label /\ job'[w] = job[w]
    <3>1. label \in Labels /\ label \notin {"insert", "take", "delete"}
      BY DEF Labels
    <3>. HIDE DEF label
    <3>. QED BY <1>0, <2>1, <3>1, SoloStay
  <2>3. meta # None => seen'[w] = meta
    BY <1>1 DEF ReadForPush, SoloInv, IInv
  <2>4. SoloFits(w)'
    BY <2>1, <2>2, <2>3 DEF SoloFits, Popping
  <2>. QED BY <2>2, <2>4
<1>2. CASE CreateMeta(w)
  <2>1. /\ pc[w] = "create" /\ GoTo(w, "overwrite") /\ meta = None /\ meta' = Initial
        /\ job[w].todo # <<>> /\ job[w].taken = <<>> /\ job' = [job EXCEPT ![w] = job[w]]
        /\ UNCHANGED <<items, job, pushes, returned>> /\ seen'[w] = Initial
    BY <1>0, <1>2 DEF CreateMeta, At, counters, histories, SoloFits, Popping, SoloTypeOK,
                      SoloInv, IInv
  <2>2. SoloTypeOK' /\ pc'[w] = "overwrite" /\ job'[w] = job[w]
    BY <1>0, <2>1, SoloTyped DEF Labels, SoloTypeOK
  <2>3. meta' # None
    BY <2>1, InitialConsistent, AbsentAssumption DEF Consistent, Metas
  <2>. QED BY <2>1, <2>2, <2>3 DEF Founds, SoloFits, Popping
<1>3. ASSUME pc[w] \in {"overwrite", "swapPush"}, WritePushed(w),
             UNCHANGED <<items, pushes, returned>>
      PROVE  SoloTypeOK' /\ SoloMove(w) /\ SoloFits(w)'
  <2>. DEFINE j == [job[w] EXCEPT !.pos =
                       IF job[w].side = "left" THEN meta.head - 1 ELSE meta.tail]
  <2>1. /\ meta # None /\ seen[w] = meta /\ meta.head \in Int /\ meta.tail \in Int
        /\ job[w].taken = <<>> /\ job[w].todo # <<>>
    BY <1>0, <1>3, SoloFacts DEF SoloFits, Popping
  <2>2. /\ meta' = Pushed(job[w].side, meta) /\ GoTo(w, "insert")
        /\ job' = [job EXCEPT ![w] = j]
    BY <1>3, <2>1 DEF WritePushed
  <2>3. j \in Jobs /\ j.todo = job[w].todo /\ j.taken = job[w].taken
    <3>1. PICK p \in Int : p = IF job[w].side = "left" THEN meta.head - 1 ELSE meta.tail
      BY <2>1
    <3>. QED BY <1>0, <3>1 DEF Jobs
  <2>4. meta' # None
    <3>1. Consistent(meta')
      BY <2>1, <2>2, SoloFacts, PushedConsistent
    <3>. QED BY <3>1, AbsentAssumption DEF Consistent, Metas
  <2>. HIDE DEF j
  <2>5. SoloTypeOK' /\ pc'[w] = "insert" /\ job'[w] = j
    BY <1>0, <1>3, <2>2, <2>3, SoloTyped DEF Labels, SoloTypeOK
  <2>6. SoloFits(w)'
    BY <2>1, <2>3, <2>4, <2>5 DEF SoloFits, Popping
  <2>7. Announces(w)
    BY <1>3, <2>1, <2>2, <2>5 DEF Announces, j
  <2>. QED BY <2>5, <2>6, <2>7
<1>4. CASE OverwriteMeta(w)
  BY <1>3, <1>4 DEF OverwriteMeta, At, counters, histories
<1>5. CASE SwapForPush(w)
  <2>1. pc[w] = "swapPush" /\ meta = seen[w] /\ UNCHANGED <<items, pushes, returned>>
    BY <1>0, <1>5 DEF SwapForPush, At, counters, histories, SoloFits
  <2>. QED BY <1>3, <1>5, <2>1 DEF SwapForPush
<1>6. CASE InsertItem(w)
  <2>. DEFINE j == [job[w] EXCEPT !.todo = Tail(job[w].todo), !.retries = 0]
              v == Head(job[w].todo)
  <2>1. /\ pc[w] = "insert" /\ GoTo(w, "readPush") /\ job' = [job EXCEPT ![w] = j]
        /\ items' = [items EXCEPT ![job[w].pos] = v] /\ stored' = stored \cup {v}
        /\ UNCHANGED <<meta, pushes, returned, overtaken>>
    BY <1>6 DEF InsertItem, At, counters
  <2>2. /\ v \in Values /\ Tail(job[w].todo) \in Seq(Values)
        /\ job[w].taken = <<>>
    BY <1>0, <2>1, Shifted DEF SoloFits, Popping
  <2>3. j \in Jobs /\ j.todo = Tail(job[w].todo) /\ j.taken = job[w].taken
    BY <1>0, <2>2 DEF Jobs
  <2>. HIDE DEF j
  <2>4. items' \in [Positions -> Values \cup {None}]
    BY <1>0, <2>1, <2>2 DEF SoloTypeOK
  <2>5. SoloTypeOK' /\ pc'[w] = "readPush" /\ job'[w] = j /\ OthersRest(w)
    BY <1>0, <2>1, <2>3, <2>4, SoloTyped DEF SoloTypeOK, Labels
  <2>6. SoloFits(w)'
    BY <2>2, <2>3, <2>5 DEF SoloFits, Popping
  <2>7. Stores(w)
    BY <2>1, <2>3, <2>5 DEF Stores
  <2>. QED BY <2>5, <2>6, <2>7
<1>7. CASE EndPush(w)
  <2>1. /\ pc[w] = "readPush" /\ GoTo(w, "idle") /\ job' = [job EXCEPT ![w] = NoJob]
        /\ UNCHANGED <<meta, items, pushes, returned>>
        /\ job[w].taken = <<>>
    BY <1>0, <1>7 DEF EndPush, At, counters, histories, SoloFits, Popping
  <2>2. NoJob \in Jobs /\ NoJob.taken = <<>> /\ Len(NoJob.todo) = 0
    BY NoJobTyped, EmptySeq
  <2>3. SoloTypeOK' /\ Calm(w) /\ pc'[w] = "idle" /\ job'[w] = NoJob
    BY <1>0, <2>1, <2>2, SoloStay DEF Labels
  <2>4. SoloFits(w)'
    BY <2>2, <2>3 DEF SoloFits, Popping
  <2>. QED BY <2>3, <2>4
<1>. QED BY <1>1, <1>2, <1>4, <1>5, <1>6, <1>7

LEMMA SoloPop ==
    ASSUME SoloInv, IInv', NEW w \in Workers, Workers = {w},
           \/ ReadForPop(w) \/ SwapForPop(w) \/ TakeItem(w)
           \/ DeleteItem(w) \/ EndPop(w)
    PROVE  SoloTypeOK' /\ SoloMove(w) /\ SoloFits(w)'
<1>. USE DEF SoloMove
<1>0. /\ SoloTypeOK /\ SoloFits(w) /\ job[w] \in Jobs /\ job[w].taken \in Seq(Values)
      /\ pushes \in Nat /\ Len(job[w].todo) \in Nat /\ SoloPlace(w)
  BY SoloHad, SoloFacts DEF SoloInv
<1>1. CASE ReadForPop(w)
  <2>1. pc[w] = "readPop" /\ UNCHANGED <<meta, items, pushes>>
    BY <1>1 DEF ReadForPop, At, counters
  <2>2. CASE Reply(w)
    BY <1>0, <2>1, <2>2, SoloReply
  <2>3. CASE ~ IsEmpty(meta) /\ seen' = [seen EXCEPT ![w] = meta] /\ GoTo(w, "swapPop")
             /\ UNCHANGED <<job, returned>>
    <3>1. job' = [job EXCEPT ![w] = job[w]]
      BY <1>0, <2>3 DEF SoloTypeOK
    <3>2. SoloTypeOK' /\ Calm(w) /\ pc'[w] = "swapPop" /\ job'[w] = job[w]
      BY <1>0, <2>1, <2>3, <3>1, SoloStay DEF Labels
    <3>3. seen'[w] = meta' /\ meta' # None
      BY <2>1, <2>3 DEF IsEmpty, SoloInv, IInv
    <3>4. SoloFits(w)'
      BY <3>2, <3>3 DEF SoloFits, Popping
    <3>. QED BY <3>2, <3>4
  <2>. QED BY <1>1, <2>2, <2>3 DEF ReadForPop
<1>2. CASE SwapForPop(w)
  <2>. DEFINE j == [job[w] EXCEPT !.pos =
                       IF job[w].side = "left" THEN meta.head ELSE meta.tail - 1]
  <2>1. /\ pc[w] = "swapPop" /\ meta = seen[w] /\ meta # None
        /\ UNCHANGED <<items, pushes>>
    BY <1>0, <1>2 DEF SwapForPop, At, counters, SoloFits
  <2>2. WritePopped(w)
    BY <1>2, <2>1 DEF SwapForPop
  <2>3. /\ meta.head \in Int /\ meta.tail \in Int /\ Consistent(meta) /\ meta.count > 0
        /\ meta.head < meta.tail
    <3>1. meta.head \in Int /\ meta.tail \in Int /\ Consistent(meta)
      BY <2>1, SoloFacts
    <3>2. meta.count > 0
      BY <2>1 DEF SoloInv, IInv
    <3>. QED BY <3>1, <3>2 DEF Consistent
  <2>4. /\ meta' = Popped(job[w].side, meta) /\ GoTo(w, "take") /\ UNCHANGED returned
        /\ job' = [job EXCEPT ![w] = j]
    BY <2>1, <2>2 DEF WritePopped
  <2>5. j \in Jobs
    BY <1>0, <2>3 DEF Jobs
  <2>6. meta' # None
    <3>1. Consistent(meta')
      BY <2>3, <2>4, PoppedConsistent
    <3>. QED BY <3>1, AbsentAssumption DEF Consistent, Metas
  <2>. HIDE DEF j
  <2>7. SoloTypeOK' /\ pc'[w] = "take" /\ job'[w] = j
    BY <1>0, <2>1, <2>4, <2>5, SoloTyped DEF Labels, SoloTypeOK
  <2>8. SoloFits(w)'
    BY <2>6, <2>7 DEF SoloFits, Popping
  <2>9. Gives(w)
    BY <2>1, <2>3, <2>4, <2>7 DEF Gives, j
  <2>. QED BY <2>7, <2>8, <2>9
<1>3. CASE TakeItem(w)
  <2>. DEFINE v == items[job[w].pos]
              j == [job[w] EXCEPT !.taken = Append(job[w].taken, v)]
  <2>1. /\ pc[w] = "take" /\ UNCHANGED <<meta, items, pushes, returned, stored>>
        /\ job[w].pos \in Positions /\ v # None /\ meta # None
    BY <1>0, <1>3 DEF TakeItem, At, counters, SoloPlace, Takes, SoloFits
  <2>2. v \in Values
    BY <1>0, <2>1 DEF SoloTypeOK
  <2>3. /\ GoTo(w, "delete") /\ UNCHANGED overtaken /\ job' = [job EXCEPT ![w] = j]
    BY <1>0, <1>3, <2>1 DEF TakeItem, SoloTypeOK
  <2>4. j \in Jobs
    BY <1>0, <2>2, Appended DEF Jobs
  <2>. HIDE DEF j
  <2>5. SoloTypeOK' /\ pc'[w] = "delete" /\ job'[w] = j /\ OthersRest(w)
    BY <1>0, <2>1, <2>3, <2>4, SoloTyped DEF SoloTypeOK, Labels
  <2>6. SoloFits(w)'
    BY <2>1, <2>5 DEF SoloFits, Popping
  <2>7. Finds(w)
    BY <2>1, <2>3, <2>5 DEF Finds, j
  <2>. QED BY <2>5, <2>6, <2>7
<1>4. CASE DeleteItem(w)
  <2>. DEFINE j == [job[w] EXCEPT !.left = job[w].left - 1, !.retries = 0]
  <2>1. /\ pc[w] = "delete" /\ UNCHANGED <<meta, pushes, returned, stored, overtaken>>
        /\ items' = [items EXCEPT ![job[w].pos] = None]
        /\ items[job[w].pos] # None
    BY <1>0, <1>4 DEF DeleteItem, At, counters, histories, SoloPlace, Takes
  <2>2. GoTo(w, "readPop") /\ job' = [job EXCEPT ![w] = j]
    <3>1. /\ GoTo(w, "readPop")
          /\ job' = [job EXCEPT ![w].left = @ - 1, ![w].retries = 0]
      BY <1>4, <2>1 DEF DeleteItem
    <3>. QED BY <1>0, <3>1 DEF SoloTypeOK
  <2>3. j \in Jobs /\ j.todo = job[w].todo /\ j.taken = job[w].taken
    <3>1. job[w].left - 1 \in Int
      BY <1>0, JobFields
    <3>. QED BY <1>0, <3>1 DEF Jobs
  <2>. HIDE DEF j
  <2>4. items' \in [Positions -> Values \cup {None}]
    BY <1>0, <2>1 DEF SoloTypeOK
  <2>5. SoloTypeOK' /\ pc'[w] = "readPop" /\ job'[w] = j /\ OthersRest(w)
    BY <1>0, <2>1, <2>2, <2>3, <2>4, SoloTyped DEF SoloTypeOK, Labels
  <2>6. SoloFits(w)'
    BY <2>5 DEF SoloFits, Popping
  <2>7. Deletes(w)
    BY <2>1, <2>3, <2>5 DEF Deletes
  <2>. QED BY <2>5, <2>6, <2>7
<1>5. CASE EndPop(w)
  <2>1. pc[w] = "readPop" /\ Reply(w) /\ UNCHANGED <<meta, items, pushes>>
    BY <1>5 DEF EndPop, At, counters
  <2>. QED BY <1>0, <2>1, SoloReply
<1>. QED BY <1>1, <1>2, <1>3, <1>4, <1>5

(* Where the items are before and after a step. *)
SoloShape(w) == SoloPlace(w) /\ SoloItems(w) /\ SoloRoom(w)

LEMMA CalmKeepsShape ==
    ASSUME SoloInv, SoloTypeOK', NEW w \in Workers, Calm(w)
    PROVE  SoloShape(w)' /\ First(w)' = First(w) /\ Beyond(w)' = Beyond(w)
<1>. USE DEF Calm
<1>1. First(w)' = First(w) /\ Beyond(w)' = Beyond(w)
  BY DEF First, Beyond, At
<1>2. SoloPlace(w)'
  BY DEF SoloPlace, At, Takes
<1>3. SoloItems(w)'
  BY <1>1 DEF SoloInv, SoloItems, Takes
<1>4. SoloRoom(w)'
  <2>1. pushes \in Int /\ pushes' \in Int /\ Len(job[w].todo) \in Nat
    BY SoloFacts, QueueConstants DEF SoloTypeOK
  <2>2. Len(job'[w].todo) \in Nat
    <3>1. job'[w].todo \in Seq(Values)
      BY DEF SoloTypeOK, Jobs
    <3>. QED BY <3>1, LenProperties
  <2>3. Waiting(w) = Len(job[w].todo) /\ Waiting(w)' = Len(job'[w].todo)
    BY DEF Waiting, At
  <2>4. meta # None => meta.head \in Int /\ meta.tail \in Int
    BY SoloFacts
  <2>5. /\ Waiting(w) <= pushes
        /\ meta # None => /\ Waiting(w) - meta.head <= pushes
                          /\ meta.tail + Waiting(w) <= pushes
    BY DEF SoloInv, SoloRoom
  <2>6. PICK a \in Nat, b \in Nat : a = Len(job[w].todo) /\ b = Len(job'[w].todo)
    BY <2>1, <2>2
  <2>7. Waiting(w) = a /\ Waiting(w)' = b /\ b - pushes' <= a - pushes /\ meta' = meta
    BY <2>3, <2>6
  <2>. HIDE DEF Calm
  <2>8. Waiting(w)' <= pushes'
    BY <2>1, <2>5, <2>6, <2>7
  <2>9. ASSUME meta # None
        PROVE  /\ Waiting(w)' - meta.head <= pushes'
               /\ meta.tail + Waiting(w)' <= pushes'
    <3>1. PICK h \in Int, t \in Int : h = meta.head /\ t = meta.tail
      BY <2>4, <2>9
    <3>2. a - h <= pushes /\ t + a <= pushes
      BY <2>5, <2>7, <2>9, <3>1
    <3>3. b - pushes' <= a - pushes
      BY <2>7
    <3>4. PICK old \in Int, new \in Int : old = pushes /\ new = pushes'
      BY <2>1
    <3>5. a - h <= old /\ t + a <= old /\ b - new <= a - old
      BY <3>2, <3>3, <3>4
    <3>6. b - h <= new
      BY <3>5
    <3>7. t + b <= new
      BY <3>5
    <3>. QED BY <2>7, <3>1, <3>4, <3>6, <3>7
  <2>. QED BY <2>7, <2>8, <2>9 DEF SoloRoom
<1>. QED BY <1>1, <1>2, <1>3, <1>4 DEF SoloShape

LEMMA FoundsKeepsShape ==
    ASSUME SoloInv, NEW w \in Workers, Founds(w)
    PROVE  SoloShape(w)' /\ meta' # None /\ First(w)' = 0 /\ Beyond(w)' = 0
<1>. USE DEF Founds
<1>1. meta'.head = 0 /\ meta'.tail = 0 /\ meta' # None
  BY InitialConsistent, AbsentAssumption DEF Consistent, Metas, Initial, Meta
<1>2. First(w)' = 0 /\ Beyond(w)' = 0
  BY <1>1 DEF First, Beyond, At
<1>3. SoloPlace(w)'
  BY DEF SoloPlace, At, Takes
<1>4. SoloItems(w)'
  <2>1. ~ \E p \in Positions : 0 <= p /\ p < 0
    BY QueueConstants DEF Positions
  <2>. QED BY <1>1, <1>2, <2>1 DEF SoloInv, SoloItems, Takes
<1>5. SoloRoom(w)'
  <2>1. Waiting(w) <= pushes /\ Waiting(w)' = Waiting(w) /\ Waiting(w) \in Nat
    BY SoloFacts DEF SoloInv, SoloRoom, Waiting, At
  <2>. QED BY <1>1, <2>1 DEF SoloRoom
<1>. QED BY <1>1, <1>2, <1>3, <1>4, <1>5 DEF SoloShape

LEMMA AnnouncesKeepsShape ==
    ASSUME SoloInv, NEW w \in Workers, Announces(w)
    PROVE  SoloShape(w)' /\ meta' # None /\ First(w)' = First(w) /\ Beyond(w)' = Beyond(w)
<1>. USE DEF Announces
<1>1. /\ Consistent(meta) /\ meta.head \in Int /\ meta.tail \in Int /\ meta.head <= meta.tail
      /\ job[w] \in Jobs /\ job[w].side \in {"left", "right"} /\ Len(job[w].todo) \in Nat
      /\ pushes \in Nat
  BY SoloFacts, JobFields
<1>2. meta' # None
  <2>1. Consistent(meta')
    BY <1>1, PushedConsistent
  <2>. QED BY <2>1, AbsentAssumption DEF Consistent, Metas
<1>3. /\ job[w].side = "left" => meta'.head = meta.head - 1 /\ meta'.tail = meta.tail
      /\ job[w].side # "left" => meta'.head = meta.head /\ meta'.tail = meta.tail + 1
  BY <1>1 DEF Pushed, Meta, Consistent, Metas
<1>4. /\ job'[w].side = job[w].side /\ job'[w].todo = job[w].todo
      /\ job'[w].pos = IF job[w].side = "left" THEN meta.head - 1 ELSE meta.tail
  BY <1>1 DEF Jobs
<1>5. First(w)' = First(w) /\ Beyond(w)' = Beyond(w)
  BY <1>1, <1>3, <1>4 DEF First, Beyond, At
<1>6. SoloPlace(w)'
  BY <1>1, <1>3, <1>4 DEF SoloPlace, At, Takes
<1>7. SoloItems(w)'
  BY <1>2, <1>5 DEF SoloInv, SoloItems, Takes
<1>8. SoloRoom(w)'
  <2>1. Waiting(w) = Len(job[w].todo) /\ Waiting(w)' = Len(job[w].todo) - 1
    BY <1>4 DEF Waiting, At
  <2>2. /\ Waiting(w) <= pushes /\ Waiting(w) - meta.head <= pushes
        /\ meta.tail + Waiting(w) <= pushes
    BY DEF SoloInv, SoloRoom
  <2>3. pushes' = pushes
    OBVIOUS
  <2>. HIDE DEF Announces
  <2>4. PICK a \in Nat, h \in Int, t \in Int :
               a = Len(job[w].todo) /\ h = meta.head /\ t = meta.tail
    BY <1>1
  <2>5. a <= pushes /\ a - h <= pushes /\ t + a <= pushes /\ Waiting(w)' = a - 1
    BY <2>1, <2>2, <2>4
  <2>6. \/ meta'.head = h - 1 /\ meta'.tail = t
        \/ meta'.head = h /\ meta'.tail = t + 1
    BY <1>3, <2>4
  <2>7. /\ (a - 1) - (h - 1) <= pushes /\ t + (a - 1) <= pushes /\ a - 1 <= pushes
        /\ (a - 1) - h <= pushes /\ (t + 1) + (a - 1) <= pushes
    BY <1>1, <2>5
  <2>. QED BY <2>3, <2>5, <2>6, <2>7 DEF SoloRoom
<1>. QED BY <1>2, <1>5, <1>6, <1>7, <1>8 DEF SoloShape

(* The item comes before the first one, or after the last one. *)
LEMMA StoresKeepsShape ==
    ASSUME SoloInv, NEW w \in Workers, Stores(w)
    PROVE  /\ SoloShape(w)' /\ meta # None /\ meta' # None
           /\ job[w].pos \in Positions /\ Head(job[w].todo) \in Values
           /\ \/ job[w].pos = First(w) - 1 /\ First(w)' = First(w) - 1 /\ Beyond(w)' = Beyond(w)
              \/ job[w].pos = Beyond(w) /\ First(w)' = First(w) /\ Beyond(w)' = Beyond(w) + 1
<1>. USE DEF Stores
<1>1. meta # None /\ job[w].todo # <<>>
  BY DEF SoloInv, SoloFits
<1>2. /\ meta.head \in Int /\ meta.tail \in Int /\ meta.head < meta.tail
      /\ job[w].pos = IF job[w].side = "left" THEN meta.head ELSE meta.tail - 1
      /\ job[w].side \in {"left", "right"} /\ pushes \in Nat
  BY <1>1, SoloFacts, JobFields DEF SoloInv, SoloPlace, At
<1>3. PICK q \in Positions : q = job[w].pos
  <2>1. job[w].pos \in Int /\ meta.head <= job[w].pos /\ job[w].pos < meta.tail
    BY <1>2
  <2>. QED BY <1>1, <2>1, SoloFacts
<1>4. /\ First(w)' = meta.head /\ Beyond(w)' = meta.tail
      /\ job[w].side = "left" => First(w) = meta.head + 1 /\ Beyond(w) = meta.tail
      /\ job[w].side # "left" => First(w) = meta.head /\ Beyond(w) = meta.tail - 1
  BY DEF First, Beyond, At
<1>5. /\ Head(job[w].todo) \in Values /\ Head(job[w].todo) # None
      /\ Len(Tail(job[w].todo)) = Len(job[w].todo) - 1 /\ Len(job[w].todo) \in Nat
  <2>1. job[w].todo \in Seq(Values)
    BY SoloHad DEF SoloInv
  <2>2. Head(job[w].todo) \in Values /\ Len(Tail(job[w].todo)) = Len(job[w].todo) - 1
    BY <1>1, <2>1, HeadTailProperties
  <2>. QED BY <2>1, <2>2, LenProperties, QueueConstants
<1>6. SoloPlace(w)'
  BY DEF SoloPlace, At, Takes
<1>7. SoloItems(w)'
  <2>1. ASSUME NEW p \in Positions
        PROVE  items'[p] # None <=> First(w)' <= p /\ p < Beyond(w)'
    <3>1. p \in Int
      BY QueueConstants DEF Positions
    <3>2. items'[p] = IF p = q THEN Head(job[w].todo) ELSE items[p]
      BY <1>3 DEF SoloInv, SoloTypeOK
    <3>3. items[p] # None <=> First(w) <= p /\ p < Beyond(w)
      BY <1>1 DEF SoloInv, SoloItems, Takes
    <3>. QED BY <1>2, <1>3, <1>4, <1>5, <3>1, <3>2, <3>3
  <2>. QED BY <1>1, <2>1 DEF SoloItems, Takes
<1>8. SoloRoom(w)'
  <2>1. Waiting(w) = Len(job[w].todo) - 1 /\ Waiting(w)' = Len(job[w].todo) - 1
    BY <1>5 DEF Waiting, At
  <2>. QED BY <2>1 DEF SoloInv, SoloRoom
<1>9. \/ job[w].pos = First(w) - 1 /\ First(w)' = First(w) - 1 /\ Beyond(w)' = Beyond(w)
      \/ job[w].pos = Beyond(w) /\ First(w)' = First(w) /\ Beyond(w)' = Beyond(w) + 1
  BY <1>2, <1>4
<1>. QED BY <1>1, <1>3, <1>5, <1>6, <1>7, <1>8, <1>9 DEF SoloShape

(* The first or the last item is given up. *)
LEMMA GivesKeepsShape ==
    ASSUME SoloInv, NEW w \in Workers, Gives(w)
    PROVE  /\ SoloShape(w)' /\ meta' # None /\ First(w) < Beyond(w)
           /\ \/ job'[w].pos = First(w) /\ First(w)' = First(w) + 1 /\ Beyond(w)' = Beyond(w)
              \/ job'[w].pos = Beyond(w)' /\ First(w)' = First(w) /\ Beyond(w)' = Beyond(w) - 1
<1>. USE DEF Gives
<1>1. /\ Consistent(meta) /\ meta.head \in Int /\ meta.tail \in Int /\ meta.head < meta.tail
      /\ job[w] \in Jobs /\ job[w].side \in {"left", "right"} /\ pushes \in Nat
      /\ Len(job[w].todo) \in Nat
  BY SoloFacts, JobFields
<1>2. /\ job[w].side = "left" => meta'.head = meta.head + 1 /\ meta'.tail = meta.tail
      /\ job[w].side # "left" => meta'.head = meta.head /\ meta'.tail = meta.tail - 1
      /\ meta' # None
  <2>1. meta.count > 0
    BY <1>1 DEF Consistent
  <2>2. Consistent(meta')
    BY <1>1, <2>1, PoppedConsistent
  <2>. QED BY <1>1, <2>2, AbsentAssumption DEF Consistent, Metas, Popped, Meta
<1>3. /\ job'[w].side = job[w].side /\ job'[w].todo = job[w].todo
      /\ job'[w].pos = IF job[w].side = "left" THEN meta.head ELSE meta.tail - 1
  BY <1>1 DEF Jobs
<1>4. /\ First(w) = meta.head /\ Beyond(w) = meta.tail
      /\ First(w)' = meta'.head /\ Beyond(w)' = meta'.tail
  BY DEF First, Beyond, At
<1>5. PICK q \in Positions : q = job'[w].pos
  <2>1. job'[w].pos \in Int /\ meta.head <= job'[w].pos /\ job'[w].pos < meta.tail
    BY <1>1, <1>3
  <2>. QED BY <2>1, SoloFacts
<1>6. ASSUME NEW p \in Positions
      PROVE  items[p] # None <=> First(w) <= p /\ p < Beyond(w)
  BY DEF SoloInv, SoloItems, Takes
<1>7. SoloPlace(w)'
  <2>1. items[q] # None
    BY <1>1, <1>3, <1>4, <1>5, <1>6
  <2>. QED BY <1>1, <1>2, <1>3, <1>5, <2>1 DEF SoloPlace, At, Takes
<1>8. SoloItems(w)'
  <2>1. ASSUME NEW p \in Positions
        PROVE  items'[p] # None <=> (First(w)' <= p /\ p < Beyond(w)') \/ p = q
    <3>1. p \in Int
      BY QueueConstants DEF Positions
    <3>. QED BY <1>1, <1>2, <1>3, <1>4, <1>5, <1>6, <3>1
  <2>. QED BY <1>2, <1>5, <2>1 DEF SoloItems, Takes
<1>9. SoloRoom(w)'
  <2>1. Waiting(w) = Len(job[w].todo) /\ Waiting(w)' = Len(job[w].todo)
    BY <1>3 DEF Waiting, At
  <2>2. /\ Waiting(w) <= pushes /\ Waiting(w) - meta.head <= pushes
        /\ meta.tail + Waiting(w) <= pushes
    BY DEF SoloInv, SoloRoom
  <2>. QED BY <1>1, <1>2, <2>1, <2>2 DEF SoloRoom
<1>. QED BY <1>1, <1>2, <1>3, <1>4, <1>7, <1>8, <1>9 DEF SoloShape

LEMMA FindsKeepsShape ==
    ASSUME SoloInv, NEW w \in Workers, Finds(w)
    PROVE  /\ SoloShape(w)' /\ First(w)' = First(w) /\ Beyond(w)' = Beyond(w)
           /\ job[w].pos \in Positions /\ items[job[w].pos] \in Values
<1>. USE DEF Finds
<1>0. job[w] \in Jobs
  BY SoloFacts
<1>1. /\ job'[w].pos = job[w].pos /\ job'[w].side = job[w].side
      /\ job'[w].todo = job[w].todo
  BY <1>0 DEF Jobs
<1>2. First(w)' = First(w) /\ Beyond(w)' = Beyond(w)
  BY DEF First, Beyond, At
<1>3. SoloPlace(w)'
  BY <1>1 DEF SoloInv, SoloPlace, At, Takes
<1>4. SoloItems(w)'
  BY <1>1, <1>2 DEF SoloInv, SoloItems, Takes
<1>5. SoloRoom(w)'
  BY <1>1 DEF SoloInv, SoloRoom, Waiting, At
<1>6. job[w].pos \in Positions /\ items[job[w].pos] \in Values
  BY DEF SoloInv, SoloPlace, Takes, SoloTypeOK
<1>. QED BY <1>2, <1>3, <1>4, <1>5, <1>6 DEF SoloShape

(* What is deleted is not one of the items. *)
LEMMA DeletesKeepsShape ==
    ASSUME SoloInv, NEW w \in Workers, Deletes(w)
    PROVE  /\ SoloShape(w)' /\ meta # None
           /\ First(w)' = First(w) /\ Beyond(w)' = Beyond(w)
           /\ \A p \in Positions : First(w) <= p /\ p < Beyond(w) => items'[p] = items[p]
<1>. USE DEF Deletes
<1>1. /\ meta # None /\ job[w].pos \in Positions
      /\ job[w].pos = IF job[w].side = "left" THEN meta.head - 1 ELSE meta.tail
  BY DEF SoloInv, SoloPlace, SoloFits, Takes
<1>2. meta.head \in Int /\ meta.tail \in Int /\ meta.head <= meta.tail
  BY <1>1, SoloFacts
<1>3. /\ First(w)' = First(w) /\ Beyond(w)' = Beyond(w)
      /\ First(w) = meta.head /\ Beyond(w) = meta.tail
  BY DEF First, Beyond, At
<1>4. SoloPlace(w)'
  BY DEF SoloPlace, At, Takes
<1>5. PICK q \in Positions : q = job[w].pos
  BY <1>1
<1>6. ASSUME NEW p \in Positions
      PROVE  /\ items'[p] # None <=> First(w) <= p /\ p < Beyond(w)
             /\ First(w) <= p /\ p < Beyond(w) => items'[p] = items[p]
  <2>1. p \in Int
    BY QueueConstants DEF Positions
  <2>2. items'[p] = IF p = q THEN None ELSE items[p]
    BY <1>5 DEF SoloInv, SoloTypeOK
  <2>3. items[p] # None <=> (First(w) <= p /\ p < Beyond(w)) \/ p = q
    BY <1>1, <1>5 DEF SoloInv, SoloItems, Takes
  <2>. QED BY <1>1, <1>2, <1>3, <1>5, <2>1, <2>2, <2>3
<1>7. SoloItems(w)'
  BY <1>1, <1>3, <1>6 DEF SoloItems, Takes
<1>8. SoloRoom(w)'
  BY DEF SoloInv, SoloRoom, Waiting, At
<1>. QED BY <1>1, <1>3, <1>4, <1>6, <1>7, <1>8 DEF SoloShape

LEMMA SoloInit == ASSUME Init PROVE SoloInv
<1>1. IInv
  BY InitConsistent
<1>2. SoloTypeOK
  <2>1. NoJob \in Jobs /\ <<>> \in Seq(Values)
    BY NoJobTyped, EmptySeq
  <2>2. 0 \in 0 .. MaxPushes
    BY QueueConstants
  <2>. QED BY <2>1, <2>2 DEF Init, SoloTypeOK, Labels
<1>3. ASSUME NEW w \in Workers
      PROVE  SoloFits(w) /\ SoloShape(w)
  <2>1. pc[w] = "idle" /\ job[w] = NoJob /\ pushes = 0 /\ meta \in {None, Initial}
    BY StartAssumption DEF Init
  <2>2. NoJob.taken = <<>> /\ Len(NoJob.todo) = 0
    BY NoJobTyped, EmptySeq
  <2>3. meta # None => meta.head = 0 /\ meta.tail = 0
    BY <2>1 DEF Initial, Meta
  <2>4. SoloFits(w)
    BY <2>1, <2>2 DEF SoloFits, Popping
  <2>5. SoloPlace(w)
    BY <2>1 DEF SoloPlace, At, Takes
  <2>6. SoloItems(w)
    <3>1. \A p \in Positions : items[p] = None
      BY DEF Init
    <3>2. meta # None => First(w) = 0 /\ Beyond(w) = 0
      BY <2>1, <2>3 DEF First, Beyond, At
    <3>3. ~ \E p \in Positions : 0 <= p /\ p < 0
      BY QueueConstants DEF Positions
    <3>. QED BY <2>1, <3>1, <3>2, <3>3 DEF SoloItems, Takes
  <2>7. SoloRoom(w)
    <3>1. Waiting(w) = 0
      BY <2>1, <2>2 DEF Waiting, At
    <3>. QED BY <2>1, <2>3, <3>1 DEF SoloRoom
  <2>. QED BY <2>4, <2>5, <2>6, <2>7 DEF SoloShape
<1>. QED BY <1>1, <1>2, <1>3 DEF SoloInv, SoloShape

LEMMA SoloStands == ASSUME SoloInv, UNCHANGED vars PROVE SoloInv'
<1>1. UNCHANGED <<meta, items, pc, seen, job, pushes, returned>>
  BY DEF vars, counters, histories
<1>2. IInv'
  BY StepPreserves DEF SoloInv
<1>3. SoloTypeOK'
  BY <1>1 DEF SoloInv, SoloTypeOK
<1>4. ASSUME NEW w \in Workers
      PROVE  (SoloFits(w) /\ SoloPlace(w) /\ SoloItems(w) /\ SoloRoom(w))'
  BY <1>1 DEF SoloInv, SoloFits, SoloPlace, SoloItems, SoloRoom, First, Beyond, Waiting,
              At, Takes
<1>. QED BY <1>2, <1>3, <1>4 DEF SoloInv

LEMMA SoloMoves ==
    ASSUME SoloInv, NEW w \in Workers, Workers = {w}, Request(w) \/ Step(w)
    PROVE  SoloInv' /\ SoloMove(w)
<1>1. IInv'
  <2>1. Next
    BY DEF Next
  <2>. QED BY <2>1, StepPreserves DEF SoloInv
<1>2. SoloTypeOK' /\ SoloMove(w) /\ SoloFits(w)'
  BY <1>1, SoloRequest, SoloPush, SoloPop DEF Step, SoloMove
<1>3. SoloShape(w)'
  BY <1>2, CalmKeepsShape, FoundsKeepsShape, AnnouncesKeepsShape, StoresKeepsShape,
     GivesKeepsShape, FindsKeepsShape, DeletesKeepsShape DEF SoloMove
<1>. QED BY <1>1, <1>2, <1>3 DEF SoloInv, SoloShape

(* What the invariant says of the list: the items are between its ends, one *)
(* at each position but the one announced.                                  *)
View ==
    /\ items \in [Positions -> Values \cup {None}]
    /\ meta # None => \A w \in Workers :
          /\ Consistent(meta)
          /\ meta.head \in Int /\ meta.tail \in Int
          /\ First(w) \in Int /\ Beyond(w) \in Int
          /\ meta.head <= First(w) /\ First(w) <= Beyond(w) /\ Beyond(w) <= meta.tail
          /\ \A p \in meta.head .. (meta.tail - 1) :
                /\ p \in Positions
                /\ items[p] # None <=> First(w) <= p /\ p < Beyond(w)
          /\ ~ At(w, "insert") => First(w) = meta.head /\ Beyond(w) = meta.tail
          /\ At(w, "take") => job[w].pos \in Positions /\ items[job[w].pos] # None

LEMMA SoloView == SoloInv => View
<1>. SUFFICES ASSUME SoloInv PROVE View
  OBVIOUS
<1>1. items \in [Positions -> Values \cup {None}]
  BY DEF SoloInv, SoloTypeOK
<1>2. ASSUME meta # None, NEW w \in Workers
      PROVE  /\ Consistent(meta)
             /\ meta.head \in Int /\ meta.tail \in Int
             /\ First(w) \in Int /\ Beyond(w) \in Int
             /\ meta.head <= First(w) /\ First(w) <= Beyond(w) /\ Beyond(w) <= meta.tail
             /\ \A p \in meta.head .. (meta.tail - 1) :
                   /\ p \in Positions
                   /\ items[p] # None <=> First(w) <= p /\ p < Beyond(w)
             /\ ~ At(w, "insert") => First(w) = meta.head /\ Beyond(w) = meta.tail
             /\ At(w, "take") => job[w].pos \in Positions /\ items[job[w].pos] # None
  <2>1. /\ Consistent(meta) /\ meta.head \in Int /\ meta.tail \in Int /\ meta.head <= meta.tail
        /\ First(w) \in Int /\ Beyond(w) \in Int /\ First(w) <= Beyond(w)
        /\ \A p \in Int : meta.head <= p /\ p < meta.tail => p \in Positions
    BY <1>2, SoloFacts
  <2>2. /\ meta.head <= First(w) /\ Beyond(w) <= meta.tail
        /\ ~ At(w, "insert") => First(w) = meta.head /\ Beyond(w) = meta.tail
    BY <2>1 DEF First, Beyond
  <2>3. At(w, "take") => job[w].pos \in Positions /\ items[job[w].pos] # None
    BY DEF SoloInv, SoloPlace, At, Takes
  <2>4. ASSUME NEW p \in meta.head .. (meta.tail - 1)
        PROVE  /\ p \in Positions
               /\ items[p] # None <=> First(w) <= p /\ p < Beyond(w)
    <3>1. p \in Int /\ meta.head <= p /\ p < meta.tail
      BY <2>1
    <3>2. p \in Positions
      BY <2>1, <3>1
    <3>3. Takes(w) => p # job[w].pos
      <4>1. Takes(w) => job[w].pos = IF job[w].side = "left" THEN meta.head - 1 ELSE meta.tail
        BY DEF SoloInv, SoloPlace
      <4>. QED BY <2>1, <3>1, <4>1
    <3>4. items[p] # None <=> (First(w) <= p /\ p < Beyond(w)) \/ (Takes(w) /\ p = job[w].pos)
      BY <1>2, <3>2 DEF SoloInv, SoloItems
    <3>. QED BY <3>2, <3>3, <3>4
  <2>. QED BY <2>1, <2>2, <2>3, <2>4
<1>. QED BY <1>1, <1>2 DEF View

LEMMA SoloViewNext == SoloInv' => View'
BY SoloView, PTL

(* The gaps do not show. *)
Shown ==
    \A w \in Workers :
        Contents = IF meta = None THEN <<>> ELSE Stretch(items, First(w), Beyond(w))

LEMMA ViewShown == View => Shown
<1>. SUFFICES ASSUME View, NEW w \in Workers, meta # None
              PROVE  Contents = Stretch(items, First(w), Beyond(w))
  BY DEF Shown, Contents
<1>1. PICK lo \in Int, hi \in Int, a \in Int, b \in Int :
          /\ lo = meta.head /\ hi = meta.tail /\ a = First(w) /\ b = Beyond(w)
          /\ lo <= a /\ a <= b /\ b <= hi
          /\ \A p \in lo .. (hi - 1) : items[p] # None <=> a <= p /\ p < b
  BY DEF View
<1>2. {p \in lo .. (hi - 1) : items[p] # None} = a .. (b - 1)
  BY <1>1
<1>3. Contents = Read(items, {p \in lo .. (hi - 1) : items[p] # None})
  BY <1>1 DEF Contents, ItemsBetween, Read
<1>. QED BY <1>1, <1>2, <1>3, ReadInterval

LEMMA SoloShown == SoloInv => Shown
BY SoloView, ViewShown

LEMMA SoloShownNext == SoloInv' => Shown'
BY SoloShown, PTL

(* The items between two positions of the list. *)
LEMMA StretchValues ==
    ASSUME SoloInv, NEW w \in Workers, meta # None,
           NEW p \in Int, First(w) <= p, p < Beyond(w)
    PROVE  p \in Positions /\ items[p] \in Values
<1>1. p \in meta.head .. (meta.tail - 1)
  BY SoloView DEF View
<1>. QED BY <1>1, SoloView DEF View

(* What has been popped counts the item given up. *)
LEMMA PoppedByCases ==
    ASSUME NEW w
    PROVE  /\ ~ (At(w, "take") /\ items[job[w].pos] # None) => PoppedBy(w) = Had(w) \o <<>>
           /\ At(w, "take") /\ items[job[w].pos] # None =>
                  PoppedBy(w) = Had(w) \o <<items[job[w].pos]>>
BY DEF PoppedBy, Had

Same(w) == Contents' = Contents /\ PoppedBy(w)' = PoppedBy(w)

LEMMA CalmSame ==
    ASSUME SoloInv, SoloInv', NEW w \in Workers, Calm(w)
    PROVE  Same(w)
<1>1. Contents' = Contents
  BY DEF Calm, Contents, ItemsBetween
<1>2. PoppedBy(w)' = PoppedBy(w)
  BY DEF Calm, PoppedBy, Had, At
<1>. QED BY <1>1, <1>2 DEF Same

LEMMA FoundsSame ==
    ASSUME SoloInv, SoloInv', NEW w \in Workers, Founds(w)
    PROVE  Same(w)
<1>1. meta = None /\ meta' # None /\ First(w)' = 0 /\ Beyond(w)' = 0
  BY FoundsKeepsShape DEF Founds
<1>2. Contents = <<>>
  BY <1>1 DEF Contents
<1>3. Contents' = Stretch(items', 0, 0)
  BY <1>1, SoloShownNext DEF Shown
<1>4. Stretch(items', 0, 0) = <<>>
  BY DEF Stretch
<1>5. PoppedBy(w)' = PoppedBy(w)
  BY DEF Founds, PoppedBy, At
<1>. QED BY <1>2, <1>3, <1>4, <1>5 DEF Same

LEMMA AnnouncesSame ==
    ASSUME SoloInv, SoloInv', NEW w \in Workers, Announces(w)
    PROVE  Same(w)
<1>1. meta # None /\ meta' # None /\ First(w)' = First(w) /\ Beyond(w)' = Beyond(w)
  BY AnnouncesKeepsShape DEF Announces
<1>2. Contents = Stretch(items, First(w), Beyond(w))
  BY <1>1, SoloShown DEF Shown
<1>3. Contents' = Stretch(items, First(w), Beyond(w))
  BY <1>1, SoloShownNext DEF Shown, Announces
<1>4. job'[w].taken = job[w].taken
  BY SoloFacts DEF Announces, Jobs
<1>5. PoppedBy(w)' = PoppedBy(w)
  BY <1>4 DEF Announces, PoppedBy, At
<1>. QED BY <1>2, <1>3, <1>5 DEF Same

LEMMA StoresPushes ==
    ASSUME SoloInv, SoloInv', NEW w \in Workers, Stores(w)
    PROVE  /\ PoppedBy(w)' = PoppedBy(w)
           /\ \E v \in Values : Contents' \in {<<v>> \o Contents, Append(Contents, v)}
<1>1. /\ meta # None /\ meta' # None
      /\ \/ job[w].pos = First(w) - 1 /\ First(w)' = First(w) - 1 /\ Beyond(w)' = Beyond(w)
         \/ job[w].pos = Beyond(w) /\ First(w)' = First(w) /\ Beyond(w)' = Beyond(w) + 1
      /\ job[w].pos \in Positions /\ Head(job[w].todo) \in Values
  BY StoresKeepsShape
<1>2. PICK q \in Positions, v \in Values : q = job[w].pos /\ v = Head(job[w].todo)
  BY <1>1
<1>3. PICK a \in Int, b \in Int : a = First(w) /\ b = Beyond(w) /\ a <= b
  BY <1>1, SoloView DEF View
<1>4. items' = [items EXCEPT ![q] = v] /\ items \in [Positions -> Values \cup {None}]
  BY <1>2 DEF Stores, SoloInv, SoloTypeOK
<1>5. Contents = Stretch(items, a, b)
  BY <1>1, <1>3, SoloShown DEF Shown
<1>6. \A p \in a .. (b - 1) : p \in Positions /\ items[p] \in Values
  BY <1>1, <1>3, StretchValues
<1>7. \A p \in a .. (b - 1) : p # q => items'[p] = items[p]
  BY <1>4, <1>6
<1>8. items'[q] = v
  BY <1>4
<1>9. ASSUME q = a - 1, First(w)' = a - 1, Beyond(w)' = b
      PROVE  Contents' = <<v>> \o Contents
  <2>1. Contents' = Stretch(items', a - 1, b)
    BY <1>1, <1>9, SoloShownNext DEF Shown
  <2>2. PICK c \in Int : c = a - 1 /\ c + 1 = a /\ c < b
    BY <1>3
  <2>3. Holding(items', c, b, Values)
    BY <1>3, <1>6, <1>7, <1>8, <1>9, <2>2 DEF Holding
  <2>4. Stretch(items', c, b) = Joined(<<items'[c]>>, Stretch(items', c + 1, b))
    <3>1. c < b
      BY <2>2
    <3>. QED BY <2>3, <3>1, StretchPrepended
  <2>5. Stretch(items', a, b) = Stretch(items, a, b)
    BY <1>3, <1>7, <1>9, StretchSame
  <2>. QED BY <1>5, <1>8, <1>9, <2>1, <2>2, <2>4, <2>5 DEF Joined
<1>10. ASSUME q = b, First(w)' = a, Beyond(w)' = b + 1
       PROVE  Contents' = Append(Contents, v)
  <2>1. Contents' = Stretch(items', a, b + 1)
    BY <1>1, <1>10, SoloShownNext DEF Shown
  <2>2. Holding(items', a, b + 1, Values)
    BY <1>3, <1>6, <1>7, <1>8, <1>10 DEF Holding
  <2>3. Stretch(items', a, b + 1) = Append(Stretch(items', a, b), items'[b])
    BY <1>3, <2>2, StretchAtTail
  <2>4. Stretch(items', a, b) = Stretch(items, a, b)
    BY <1>3, <1>7, <1>10, StretchSame
  <2>. QED BY <1>5, <1>8, <1>10, <2>1, <2>3, <2>4
<1>11. PoppedBy(w)' = PoppedBy(w)
  BY DEF Stores, PoppedBy, At
<1>12. \E x \in Values : Contents' \in {<<x>> \o Contents, Append(Contents, x)}
  BY <1>1, <1>2, <1>3, <1>9, <1>10
<1>. QED BY <1>11, <1>12

LEMMA GivesPops ==
    ASSUME SoloInv, SoloInv', NEW w \in Workers, Gives(w)
    PROVE  /\ Contents # <<>>
           /\ \/ /\ Contents' = Tail(Contents)
                 /\ PoppedBy(w)' = Append(PoppedBy(w), Head(Contents))
              \/ /\ Contents' = Front(Contents)
                 /\ PoppedBy(w)' = Append(PoppedBy(w), Last(Contents))
<1>1. /\ meta # None /\ meta' # None /\ First(w) < Beyond(w)
      /\ \/ job'[w].pos = First(w) /\ First(w)' = First(w) + 1 /\ Beyond(w)' = Beyond(w)
         \/ job'[w].pos = Beyond(w)' /\ First(w)' = First(w) /\ Beyond(w)' = Beyond(w) - 1
  BY GivesKeepsShape DEF Gives
<1>2. PICK a \in Int, b \in Int : a = First(w) /\ b = Beyond(w) /\ a < b
  BY <1>1, SoloView DEF View
<1>3. Contents = Stretch(items, a, b) /\ items' = items
  BY <1>1, <1>2, SoloShown DEF Shown, Gives
<1>4. \A p \in a .. (b - 1) : p \in Positions /\ items[p] \in Values
  BY <1>1, <1>2, StretchValues
<1>4a. Holding(items, a, b, Values)
  BY <1>4 DEF Holding
<1>4b. a < b
  BY <1>2
<1>5. ASSUME NEW q \in a .. (b - 1), job'[w].pos = q
      PROVE  PoppedBy(w)' = Append(PoppedBy(w), items[q])
  <2>1. Had(w) \in Seq(Values) /\ items[q] \in Values /\ items[q] # None
    BY <1>4, <1>5, SoloHad, QueueConstants DEF SoloInv
  <2>2. PoppedBy(w) = Had(w)
    <3>1. ~ At(w, "take")
      BY DEF Gives, At
    <3>2. Had(w) \o <<>> = Had(w)
      BY SoloHad DEF SoloInv
    <3>. QED BY <3>1, <3>2, PoppedByCases
  <2>3. PoppedBy(w)' = Had(w) \o <<items[q]>>
    <3>1. returned' = returned /\ job'[w].taken = job[w].taken /\ pc'[w] = "take"
      BY SoloFacts DEF Gives, Jobs
    <3>. QED BY <1>3, <1>5, <2>1, <3>1 DEF PoppedBy, Had, At
  <2>4. Append(Had(w), items[q]) = Had(w) \o <<items[q]>>
    BY <2>1, AppendIsConcat
  <2>. QED BY <2>2, <2>3, <2>4
<1>6. CASE job'[w].pos = a /\ First(w)' = a + 1 /\ Beyond(w)' = b
  <2>1. Contents' = Stretch(items, a + 1, b)
    BY <1>1, <1>3, <1>6, SoloShownNext DEF Shown
  <2>2. /\ Stretch(items, a + 1, b) = Tail(Stretch(items, a, b))
        /\ items[a] = Head(Stretch(items, a, b)) /\ Stretch(items, a, b) # <<>>
    <3>1. Stretch(items, a + 1, b) = Tail(Stretch(items, a, b))
      BY <1>4b, <1>4a, StretchAtHead
    <3>2. items[a] = Head(Stretch(items, a, b))
      BY <1>4b, <1>4a, StretchAtHead
    <3>3. Stretch(items, a, b) # <<>>
      BY <1>4b, <1>4a, StretchAtHead
    <3>. QED BY <3>1, <3>2, <3>3
  <2>3. a \in a .. (b - 1)
    BY <1>2
  <2>. QED BY <1>3, <1>5, <1>6, <2>1, <2>2, <2>3
<1>7. CASE job'[w].pos = b - 1 /\ First(w)' = a /\ Beyond(w)' = b - 1
  <2>1. Contents' = Stretch(items, a, b - 1)
    BY <1>1, <1>3, <1>7, SoloShownNext DEF Shown
  <2>2. PICK c \in Int : c = b - 1 /\ c + 1 = b /\ a <= c
    BY <1>2
  <2>3. /\ Stretch(items, a, c) = Front(Stretch(items, a, c + 1))
        /\ items[c] = Last(Stretch(items, a, c + 1)) /\ Stretch(items, a, c + 1) # <<>>
    <3>1. Holding(items, a, c + 1, Values) /\ a <= c
      BY <1>4a, <2>2
    <3>2. Stretch(items, a, c) = Front(Stretch(items, a, c + 1))
      BY <3>1, StretchAtTail
    <3>3. items[c] = Last(Stretch(items, a, c + 1))
      BY <3>1, StretchAtTail
    <3>4. Stretch(items, a, c + 1) # <<>>
      BY <3>1, StretchAtTail
    <3>. QED BY <3>2, <3>3, <3>4
  <2>4. c \in a .. (b - 1)
    BY <1>2, <2>2
  <2>. QED BY <1>3, <1>5, <1>7, <2>1, <2>2, <2>3, <2>4
<1>. QED BY <1>1, <1>2, <1>6, <1>7

LEMMA FindsSame ==
    ASSUME SoloInv, SoloInv', NEW w \in Workers, Finds(w)
    PROVE  Same(w)
<1>1. Contents' = Contents
  BY DEF Finds, Contents, ItemsBetween
<1>2. PICK v \in Values : v = items[job[w].pos] /\ v # None
  BY FindsKeepsShape DEF Finds
<1>3. PoppedBy(w) = Had(w) \o <<v>>
  BY <1>2, PoppedByCases DEF Finds, At
<1>4. PoppedBy(w)' = (returned[w] \o Append(job[w].taken, v)) \o <<>>
  <2>1. job'[w].taken = Append(job[w].taken, v) /\ returned' = returned /\ pc'[w] = "delete"
    BY <1>2, SoloFacts DEF Finds, Jobs
  <2>. QED BY <2>1 DEF PoppedBy, At
<1>5. /\ returned[w] \in Seq(Values) /\ job[w].taken \in Seq(Values)
      /\ Append(Had(w), v) \in Seq(Values)
      /\ returned[w] \o Append(job[w].taken, v) = Append(Had(w), v)
      /\ Had(w) \o <<v>> = Append(Had(w), v)
  <2>1. PICK s \in Seq(Values), m \in Seq(Values) : s = returned[w] /\ m = job[w].taken
    BY SoloHad DEF SoloInv
  <2>2. s \o Append(m, v) = Append(s \o m, v) /\ (s \o m) \o <<v>> = Append(s \o m, v)
    BY AppendedToSecond
  <2>3. s \o m = Had(w) /\ Had(w) \in Seq(Values)
    BY <2>1, SoloHad DEF SoloInv, Had
  <2>4. Append(Had(w), v) \in Seq(Values)
    BY <2>3, AppendProperties
  <2>. QED BY <2>1, <2>2, <2>3, <2>4
<1>6. Append(Had(w), v) \o <<>> = Append(Had(w), v)
  BY <1>5, ConcatEmptySeq
<1>. QED BY <1>1, <1>3, <1>4, <1>5, <1>6 DEF Same

LEMMA DeletesSame ==
    ASSUME SoloInv, SoloInv', NEW w \in Workers, Deletes(w)
    PROVE  Same(w)
<1>1. /\ meta # None /\ meta' = meta
      /\ First(w)' = First(w) /\ Beyond(w)' = Beyond(w)
      /\ \A p \in Positions : First(w) <= p /\ p < Beyond(w) => items'[p] = items[p]
  BY DeletesKeepsShape DEF Deletes
<1>2. PICK a \in Int, b \in Int : a = First(w) /\ b = Beyond(w)
  BY <1>1, SoloView DEF View
<1>3. \A p \in a .. (b - 1) : items'[p] = items[p]
  BY <1>1, <1>2, StretchValues
<1>4. Stretch(items', a, b) = Stretch(items, a, b)
  BY <1>3, StretchSame
<1>5. Contents' = Contents
  BY <1>1, <1>2, <1>4, SoloShown, SoloShownNext DEF Shown
<1>6. PoppedBy(w)' = PoppedBy(w)
  BY DEF Deletes, PoppedBy, At
<1>. QED BY <1>5, <1>6 DEF Same

LEMMA SoloStep == ASSUME Alone, SoloInv, [Next]_vars PROVE SoloInv'
<1>1. ASSUME NEW w \in Workers, Request(w) \/ Step(w)
      PROVE  SoloInv'
  <2>1. Workers = {w}
    BY DEF Alone
  <2>. QED BY <1>1, <2>1, SoloMoves
<1>. QED BY <1>1, SoloStands DEF Next

LEMMA SoloIsInv == ASSUME Alone PROVE Spec => []SoloInv
BY SoloInit, SoloStep, PTL DEF Spec

(* Every step of a worker alone is a step of the deque, or changes nothing  *)
(* a client sees.                                                           *)
LEMMA SoloRefines ==
    ASSUME Alone, SoloInv, [Next]_vars
    PROVE  [D!DequeNext]_(D!dequeVars)
<1>. DEFINE all == [w \in Workers |-> PoppedBy(w)]
<1>1. SoloInv'
  BY SoloStep
<1>2. CASE UNCHANGED vars
  <2>1. UNCHANGED <<meta, items, pc, job, returned>>
    BY <1>2 DEF vars, histories
  <2>2. Contents' = Contents /\ all' = all
    BY <2>1 DEF Contents, ItemsBetween, PoppedBy, At
  <2>. QED BY <2>2 DEF D!dequeVars
<1>3. ASSUME NEW w \in Workers, Request(w) \/ Step(w)
      PROVE  [D!DequeNext]_(D!dequeVars)
  <2>1. Workers = {w} /\ SoloMove(w)
    BY <1>3, SoloMoves DEF Alone
  <2>2. ASSUME Same(w) PROVE UNCHANGED D!dequeVars
    BY <2>1, <2>2 DEF Same, D!dequeVars
  <2>3. CASE Calm(w) \/ Founds(w) \/ Announces(w) \/ Finds(w) \/ Deletes(w)
    BY <1>1, <2>2, <2>3, CalmSame, FoundsSame, AnnouncesSame, FindsSame, DeletesSame
  <2>4. CASE Stores(w)
    <3>1. /\ PoppedBy(w)' = PoppedBy(w)
          /\ \E v \in Values : Contents' \in {<<v>> \o Contents, Append(Contents, v)}
      BY <1>1, <2>4, StoresPushes
    <3>2. all' = all
      BY <2>1, <3>1
    <3>3. \E v \in Values : D!Push(v)
      BY <3>1, <3>2 DEF D!Push
    <3>. QED BY <3>3 DEF D!DequeNext
  <2>5. CASE Gives(w)
    <3>1. /\ Contents # <<>>
          /\ \/ /\ Contents' = Tail(Contents)
                /\ PoppedBy(w)' = Append(PoppedBy(w), Head(Contents))
             \/ /\ Contents' = Front(Contents)
                /\ PoppedBy(w)' = Append(PoppedBy(w), Last(Contents))
      BY <1>1, <2>5, GivesPops
    <3>2. ASSUME NEW e, PoppedBy(w)' = Append(PoppedBy(w), e)
          PROVE  all' = [all EXCEPT ![w] = Append(@, e)]
      BY <2>1, <3>2
    <3>3. CASE Contents' = Tail(Contents) /\ PoppedBy(w)' = Append(PoppedBy(w), Head(Contents))
      <4>1. all' = [all EXCEPT ![w] = Append(@, Head(Contents))]
        BY <3>2, <3>3
      <4>2. D!PopHead(w)
        BY <3>1, <3>3, <4>1 DEF D!PopHead
      <4>. QED BY <4>2 DEF D!DequeNext
    <3>4. CASE Contents' = Front(Contents) /\ PoppedBy(w)' = Append(PoppedBy(w), Last(Contents))
      <4>1. all' = [all EXCEPT ![w] = Append(@, Last(Contents))]
        BY <3>2, <3>4
      <4>2. D!PopTail(w)
        BY <3>1, <3>4, <4>1 DEF D!PopTail, D!Front, D!Last, Front, Last
      <4>. QED BY <4>2 DEF D!DequeNext
    <3>. QED BY <3>1, <3>3, <3>4
  <2>. QED BY <2>1, <2>3, <2>4, <2>5 DEF SoloMove
<1>. QED BY <1>2, <1>3 DEF Next

(* A list nobody has used is empty. *)
LEMMA SoloStarts == ASSUME Alone, Init PROVE D!DequeInit
<1>0. PICK w \in Workers : TRUE
  BY DEF Alone
<1>1. Contents = <<>>
  <2>1. SoloInv
    BY SoloInit
  <2>2. meta \in {None, Initial} /\ pc[w] = "idle"
    BY StartAssumption DEF Init
  <2>3. meta # None => First(w) = 0 /\ Beyond(w) = 0
    BY <2>2 DEF First, Beyond, At, Initial, Meta
  <2>4. Stretch(items, 0, 0) = <<>>
    BY DEF Stretch
  <2>. QED BY <2>1, <2>3, <2>4, SoloShown DEF Shown
<1>2. ASSUME NEW u \in Workers
      PROVE  PoppedBy(u) = <<>>
  <2>1. returned[u] = <<>> /\ job[u].taken = <<>> /\ pc[u] = "idle"
    BY NoJobTyped DEF Init
  <2>2. <<>> \in Seq(Values)
    BY EmptySeq
  <2>3. <<>> \o <<>> = <<>>
    BY <2>2, ConcatEmptySeq
  <2>. QED BY <2>1, <2>3 DEF PoppedBy, At
<1>. QED BY <1>1, <1>2 DEF D!DequeInit

(* On one worker, whatever values it pushes and pops at either end, and     *)
(* whether the list was there at the start or is created: the list is a     *)
(* sequence with two ends, and every command takes effect at one point      *)
(* between its accesses to the store: a push when it stores the item, a pop *)
(* when it moves the head or the tail.                                      *)
THEOREM OneWorkerDeque == ASSUME Alone PROVE Spec => ImplementsDeque
<1>1. Init => D!DequeInit
  BY SoloStarts
<1>2. SoloInv /\ [Next]_vars => [D!DequeNext]_(D!dequeVars)
  BY SoloRefines
<1>. QED BY <1>1, <1>2, SoloIsInv, PTL DEF Spec, ImplementsDeque, D!DequeSpec

LEMMA ReadNothing ==
    ASSUME NEW f
    PROVE  Read(f, {}) = <<>>
<1>1. Read(f, 1 .. (1 - 1)) = Stretch(f, 1, 1)
  BY ReadInterval
<1>2. 1 .. (1 - 1) = {} /\ Stretch(f, 1, 1) = <<>>
  BY DEF Stretch
<1>. QED BY <1>1, <1>2

From(x) == IF x < 0 THEN 0 ELSE x

Between(n, x, last) == {m \in 1 .. n : x < m /\ m <= last + 1}

(* The elements whose place lies between x and last are those at the        *)
(* positions LRANGE works out.                                              *)
RangeIsRead(f, a, n, x, last) ==
    Read(Stretch(f, a, a + n), Between(n, x, last)) =
        IF From(x) >= n \/ last < 0 THEN <<>>
        ELSE Read(f, (a + From(x)) .. (a + Least(last, n - 1)))

LEMMA RangeRead ==
    ASSUME NEW f, NEW a \in Int, NEW n \in Nat, NEW x \in Int, NEW last \in Int
    PROVE  RangeIsRead(f, a, n, x, last)
<1>0. PICK first \in Int : first = From(x) /\ first = IF x < 0 THEN 0 ELSE x
  BY DEF From
<1>. DEFINE inside == Between(n, x, last)
            s == Stretch(f, a, a + n)
<1>1. CASE first >= n \/ last < 0
  <2>1. inside = {}
    BY <1>0, <1>1 DEF Between
  <2>. QED BY <1>0, <1>1, <2>1, ReadNothing DEF RangeIsRead
<1>2. CASE ~ (first >= n \/ last < 0)
  <2>1. PICK h \in Int : h = Least(last, n - 1)
    BY DEF Least
  <2>2. 0 <= first /\ first < n /\ 0 <= h /\ h < n
    BY <1>0, <1>2, <2>1 DEF Least
  <2>3. inside = (first + 1) .. (h + 1)
    BY <1>0, <1>2, <2>1 DEF Least, Between
  <2>4. Read(s, inside) = Stretch(s, first + 1, h + 2)
    <3>1. PICK lo \in Int, hi \in Int : lo = first + 1 /\ hi = h + 2 /\ hi - 1 = h + 1
      OBVIOUS
    <3>2. Read(s, lo .. (hi - 1)) = Stretch(s, lo, hi)
      BY ReadInterval
    <3>. QED BY <2>3, <3>1, <3>2
  <2>5. Read(f, (a + first) .. (a + h)) = Stretch(f, a + first, a + h + 1)
    <3>1. PICK lo \in Int, hi \in Int : lo = a + first /\ hi = a + h + 1 /\ hi - 1 = a + h
      OBVIOUS
    <3>2. Read(f, lo .. (hi - 1)) = Stretch(f, lo, hi)
      BY ReadInterval
    <3>. QED BY <3>1, <3>2
  <2>6. Stretch(s, first + 1, h + 2) = Stretch(f, a + first, a + h + 1)
    <3>1. 1 .. ((h + 2) - (first + 1)) = 1 .. ((a + h + 1) - (a + first))
      OBVIOUS
    <3>2. ASSUME NEW i \in 1 .. ((h + 2) - (first + 1))
          PROVE  s[(first + 1) + i - 1] = f[(a + first) + i - 1]
      <4>1. PICK k \in 1 .. n : k = (first + 1) + i - 1 /\ a + k - 1 = (a + first) + i - 1
        BY <2>2
      <4>2. s[k] = f[a + k - 1]
        <5>1. k \in 1 .. ((a + n) - a)
          OBVIOUS
        <5>. QED BY <5>1 DEF Stretch
      <4>. QED BY <4>1, <4>2
    <3>. HIDE DEF s
    <3>. QED BY <3>1, <3>2 DEF Stretch
  <2>. QED BY <1>0, <1>2, <2>1, <2>4, <2>5, <2>6 DEF RangeIsRead
<1>. QED BY <1>1, <1>2

(* LRANGE, LINDEX and LLEN of a list nobody is working on. *)
LEMMA RestingAgrees ==
    ASSUME SoloInv, NEW w \in Workers, Workers = {w}
    PROVE  ReadsAgree
<1>. 0 \in (-MaxPushes - 1) .. (MaxPushes + 1)
  BY QueueConstants
<1>. SUFFICES ASSUME pc[w] = "idle",
                     NEW i \in (-MaxPushes - 1) .. (MaxPushes + 1),
                     NEW j \in (-MaxPushes - 1) .. (MaxPushes + 1)
              PROVE  /\ LLen = Len(Contents)
                     /\ LIndex(i) = IF Place(i) + 1 \in DOMAIN Contents
                                    THEN Contents[Place(i) + 1] ELSE None
                     /\ LRange(i, j) = Elements(i, j)
  BY DEF ReadsAgree, At
<1>0. i \in Int /\ j \in Int
  BY QueueConstants
<1>1. Elements(i, j) = Read(Contents, {n \in DOMAIN Contents :
                                          Place(i) < n /\ n <= Place(j) + 1})
  BY DEF Elements, Read
<1>2. CASE meta = None
  <2>1. Contents = <<>> /\ DOMAIN Contents = {} /\ Len(Contents) = 0
    BY <1>2 DEF Contents
  <2>2. Elements(i, j) = <<>>
    <3>1. {n \in DOMAIN Contents : Place(i) < n /\ n <= Place(j) + 1} = {}
      BY <2>1
    <3>. QED BY <1>1, <3>1, ReadNothing
  <2>3. LLen = 0 /\ LIndex(i) = None /\ LRange(i, j) = <<>>
    BY <1>2 DEF LLen, LIndex, LRange
  <2>. QED BY <2>1, <2>2, <2>3
<1>3. CASE meta # None
  <2>1. PICK a \in Int, b \in Int :
            /\ a = meta.head /\ b = meta.tail /\ a <= b
            /\ First(w) = a /\ Beyond(w) = b
            /\ \A p \in a .. (b - 1) : items[p] # None
    BY <1>3, SoloView DEF View, At
  <2>2. PICK n \in Nat : n = b - a /\ b = a + n
    BY <2>1
  <2>3. meta.count = n
    BY <1>3, <2>1, <2>2, SoloView DEF View, Consistent
  <2>4. Contents = Stretch(items, a, a + n)
    BY <1>3, <2>1, <2>2, SoloShown DEF Shown
  <2>5. /\ DOMAIN Contents = 1 .. n /\ Len(Contents) = n
        /\ \A k \in 1 .. n : Contents[k] = items[a + k - 1]
    <3>1. (a + n) - a = n /\ a <= b
      BY <2>1
    <3>2. \A p \in Int : a <= p /\ p < b => items[p] \in Values
      BY <1>3, <2>1, StretchValues
    <3>3. Holding(items, a, b, Values)
      BY <2>1, <3>2 DEF Holding
    <3>4. Contents \in Seq(Values)
      BY <2>2, <2>4, <3>1, <3>3, StretchType
    <3>5. DOMAIN Contents = 1 .. n /\ \A k \in 1 .. n : Contents[k] = items[a + k - 1]
      BY <2>4, <3>1 DEF Stretch
    <3>. QED BY <3>4, <3>5, LenProperties
  <2>6. LLen = n
    BY <1>3, <2>3 DEF LLen
  <2>7. PICK x \in Int, last \in Int : x = Place(i) /\ last = Place(j)
    BY <1>0, <2>5 DEF Place
  <2>8. LIndex(i) = IF Place(i) + 1 \in DOMAIN Contents
                    THEN Contents[Place(i) + 1] ELSE None
    <3>1. LIndex(i) = IF n = 0 \/ x < 0 \/ x >= n THEN None ELSE items[a + x]
      BY <1>0, <1>3, <2>1, <2>2, <2>5, <2>6, <2>7 DEF LIndex, Place
    <3>2. CASE x < 0 \/ x >= n
      BY <2>5, <2>7, <3>1, <3>2
    <3>3. CASE 0 <= x /\ x < n
      <4>1. x + 1 \in 1 .. n /\ a + (x + 1) - 1 = a + x
        BY <3>3
      <4>. QED BY <2>5, <2>7, <3>1, <3>3, <4>1
    <3>. QED BY <3>2, <3>3
  <2>9. LRange(i, j) = Elements(i, j)
    <3>1. PICK first \in Int : first = From(x) /\ first = IF x < 0 THEN 0 ELSE x
      BY DEF From
    <3>2. LRange(i, j) =
              IF n = 0 \/ first >= n \/ last < 0 THEN <<>>
              ELSE ItemsBetween(a + first, a + Least(last, n - 1))
      <4>1. meta.tail - meta.head = n /\ meta.head = a /\ LLen = n
        BY <2>1, <2>2, <2>6
      <4>2. (IF i >= 0 THEN i ELSE IF n + i > 0 THEN n + i ELSE 0) = first
        BY <1>0, <2>5, <2>7, <3>1 DEF Place
      <4>3. (IF j < 0 THEN n + j ELSE j) = last
        BY <1>0, <2>5, <2>7 DEF Place
      <4>. QED BY <1>3, <4>1, <4>2, <4>3 DEF LRange
    <3>3. ASSUME ~ (first >= n \/ last < 0)
          PROVE  ItemsBetween(a + first, a + Least(last, n - 1)) =
                     Read(items, (a + first) .. (a + Least(last, n - 1)))
      <4>1. {p \in (a + first) .. (a + Least(last, n - 1)) : items[p] # None} =
                (a + first) .. (a + Least(last, n - 1))
        BY <2>1, <2>2, <3>1, <3>3 DEF Least
      <4>. QED BY <4>1 DEF ItemsBetween, Read
    <3>4. Read(Stretch(items, a, a + n), Between(n, x, last)) =
              IF first >= n \/ last < 0 THEN <<>>
              ELSE Read(items, (a + first) .. (a + Least(last, n - 1)))
      <4>1. RangeIsRead(items, a, n, x, last)
        BY RangeRead
      <4>. QED BY <3>1, <4>1 DEF RangeIsRead
    <3>5. Elements(i, j) =
              Read(Stretch(items, a, a + n), Between(n, x, last))
      BY <1>1, <2>4, <2>5, <2>7 DEF Between
    <3>6. n = 0 => first >= n
      BY <3>1
    <3>. QED BY <3>2, <3>3, <3>4, <3>5, <3>6
  <2>. QED BY <2>5, <2>6, <2>8, <2>9
<1>. QED BY <1>2, <1>3

(* On one worker LRANGE, LINDEX and LLEN report exactly the elements of the *)
(* list, for indices beyond both ends and negative ones, after any mix of   *)
(* pushes and pops.                                                         *)
THEOREM ReadsAreRight == ASSUME Alone PROVE Spec => []ReadsAgree
<1>1. SoloInv => ReadsAgree
  BY RestingAgrees DEF Alone
<1>. QED BY <1>1, SoloIsInv, PTL
=============================================================================
