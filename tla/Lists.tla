------------------------------- MODULE Lists -------------------------------
(* The list commands (protocol/command/list.rs) on one key.                 *)
(*                                                                          *)
(* A list is a metadata entry (head, tail, count) and one entry per item,   *)
(* all in the shared store; the items are at head .. tail - 1.  Every       *)
(* access to the store is a step of its own, and any other worker may run   *)
(* between two of them.  The first position is 0 here and 10^9 in the code. *)
(* Values are numbered in the order they are sent.                          *)
EXTENDS Integers, Sequences, SequencesExt, FiniteSets

CONSTANTS
    Workers,
    None,           \* an absent entry of the store
    Sides,          \* the ends clients push at
    PopSides,       \* the ends clients pop at
    StartMeta,      \* the metadata at the start
    MaxRetries,     \* MAX_RETRIES (10 in the code)
    MaxPushes,      \* bound on the number of values pushed
    MaxPops         \* bound on the number of pop commands

Values    == 1 .. MaxPushes
Positions == (-MaxPushes) .. MaxPushes

Meta(head, tail, count) == [head |-> head, tail |-> tail, count |-> count]

(* Every list that exists has been created like this. *)
Initial == Meta(0, 0, 0)

(* An absent entry is not a value, and not metadata. *)
ASSUME AbsentAssumption ==
    None \notin Values /\ None \notin [head: Int, tail: Int, count: Nat]

ASSUME StartAssumption == StartMeta \in {None, Initial}

ASSUME SidesAssumption == Sides \cup PopSides \subseteq {"left", "right"}

ASSUME ListBoundsAssumption ==
    MaxPushes \in Nat /\ MaxPops \in Nat /\ MaxRetries \in Nat \ {0}

VARIABLES
    meta,       \* L:<key>:meta
    items,      \* L:<key>:<position>
    pc,         \* where each worker is in its command, "idle" between two
    seen,       \* the metadata each worker last read
    job,        \* the other locals of the command each worker is executing
    pushes,     \* number of values sent so far
    pops,       \* number of pop commands so far
    returned,   \* history: values each worker has handed to its clients
    stored,     \* history: values whose item was inserted
    overtaken   \* history: values popped before they were inserted

counters == <<pushes, pops>>

histories == <<returned, stored, overtaken>>

vars == <<meta, items, pc, seen, job, counters, histories>>

(* side: the end; todo: values still to push; left: values still to pop;    *)
(* pos: position of the item to insert or take; taken: values popped.       *)
Job(side, todo, left) ==
    [side |-> side, todo |-> todo, left |-> left, retries |-> 0, pos |-> 0,
     taken |-> <<>>]

NoJob == Job("left", <<>>, 0)

At(w, label) == pc[w] = label

GoTo(w, label) == pc' = [pc EXCEPT ![w] = label]

Init ==
    /\ meta = StartMeta
    /\ items = [p \in Positions |-> None]
    /\ pc = [w \in Workers |-> "idle"]
    /\ seen = [w \in Workers |-> Initial]
    /\ job = [w \in Workers |-> NoJob]
    /\ pushes = 0
    /\ pops = 0
    /\ returned = [w \in Workers |-> <<>>]
    /\ stored = {}
    /\ overtaken = {}

(* compare_and_swap found other metadata than the worker read: the command  *)
(* tries again, but not for ever.                                           *)
Exhausted(w) == job[w].retries + 1 >= MaxRetries

TryAgain(w, label) ==
    /\ ~ Exhausted(w)
    /\ GoTo(w, label)
    /\ job' = [job EXCEPT ![w].retries = @ + 1]

----------------------------------------------------------------------------
(* LPUSH and RPUSH. *)

BeginPush(w, side, n) ==
    /\ At(w, "idle")
    /\ pushes + n <= MaxPushes
    /\ GoTo(w, "readPush")
    /\ job' = [job EXCEPT ![w] =
                  Job(side, [i \in 1 .. n |-> pushes + i], 0)]
    /\ pushes' = pushes + n
    /\ UNCHANGED <<meta, items, seen, pops, histories>>

ReadForPush(w) ==
    /\ At(w, "readPush")
    /\ job[w].todo # <<>>
    /\ IF meta = None
       THEN GoTo(w, "create") /\ UNCHANGED seen
       ELSE GoTo(w, "swapPush") /\ seen' = [seen EXCEPT ![w] = meta]
    /\ UNCHANGED <<meta, items, job, counters, histories>>

(* The metadata was absent when it was read.  An insert replaces what is    *)
(* there, so it does not fail when another worker has been faster.          *)
CreateMeta(w) ==
    /\ At(w, "create")
    /\ meta' = Initial
    /\ seen' = [seen EXCEPT ![w] = Initial]
    /\ GoTo(w, "overwrite")
    /\ UNCHANGED <<items, job, counters, histories>>

(* Mutation of Pushed: a push at the head moves the tail along. *)
PushedWithTail(side, m) ==
    IF side = "left" THEN Meta(m.head - 1, m.tail - 1, m.count + 1)
    ELSE Meta(m.head, m.tail + 1, m.count + 1)

(* The metadata after a push; the head and the tail of an empty list meet   *)
(* again.                                                                   *)
Pushed(side, m) ==
    IF side = "left"
    THEN Meta(m.head - 1, IF m.count = 0 THEN m.head ELSE m.tail, m.count + 1)
    ELSE Meta(IF m.count = 0 THEN m.tail ELSE m.head, m.tail + 1, m.count + 1)

(* The metadata is written; the item comes next. *)
WritePushed(w) ==
    LET m == seen[w] IN
    /\ meta' = Pushed(job[w].side, m)
    /\ GoTo(w, "insert")
    /\ job' = [job EXCEPT ![w].pos =
                  IF job[w].side = "left" THEN m.head - 1 ELSE m.tail]

(* "For new list, just update directly": no comparison. *)
OverwriteMeta(w) ==
    /\ At(w, "overwrite")
    /\ WritePushed(w)
    /\ UNCHANGED <<items, seen, counters, histories>>

SwapForPush(w) ==
    /\ At(w, "swapPush")
    /\ \/ meta = seen[w] /\ WritePushed(w)
       \/ /\ meta # seen[w]
          /\ UNCHANGED meta
          /\ \/ TryAgain(w, "readPush")
             \/ /\ Exhausted(w)
                /\ GoTo(w, "idle")
                /\ job' = [job EXCEPT ![w] = NoJob]
    /\ UNCHANGED <<items, seen, counters, histories>>

InsertItem(w) ==
    LET v == Head(job[w].todo) IN
    /\ At(w, "insert")
    /\ items' = [items EXCEPT ![job[w].pos] = v]
    /\ stored' = stored \cup {v}
    /\ job' = [job EXCEPT ![w].todo = Tail(@), ![w].retries = 0]
    /\ GoTo(w, "readPush")
    /\ UNCHANGED <<meta, seen, counters, returned, overtaken>>

(* The last read, for the length in the reply. *)
EndPush(w) ==
    /\ At(w, "readPush")
    /\ job[w].todo = <<>>
    /\ GoTo(w, "idle")
    /\ job' = [job EXCEPT ![w] = NoJob]
    /\ UNCHANGED <<meta, items, seen, counters, histories>>

----------------------------------------------------------------------------
(* LPOP and RPOP. *)

BeginPop(w, side, n) ==
    /\ At(w, "idle")
    /\ pops < MaxPops
    /\ GoTo(w, "readPop")
    /\ job' = [job EXCEPT ![w] = Job(side, <<>>, n)]
    /\ pops' = pops + 1
    /\ UNCHANGED <<meta, items, seen, pushes, histories>>

IsEmpty(m) ==
    IF m = None THEN TRUE ELSE m.count = 0 \/ m.head >= m.tail

(* Mutation of Reply: a command that popped fewer values than it was asked  *)
(* for replies that there was nothing.                                      *)
ReplyWhenFull(w) ==
    /\ returned' = [returned EXCEPT ![w] =
                       IF job[w].left = 0 THEN @ \o job[w].taken ELSE @]
    /\ job' = [job EXCEPT ![w] = NoJob]
    /\ GoTo(w, "idle")

(* The reply: the values popped so far. *)
Reply(w) ==
    /\ returned' = [returned EXCEPT ![w] = @ \o job[w].taken]
    /\ job' = [job EXCEPT ![w] = NoJob]
    /\ GoTo(w, "idle")

ReadForPop(w) ==
    /\ At(w, "readPop")
    /\ job[w].left > 0
    /\ IF IsEmpty(meta)
       THEN Reply(w) /\ UNCHANGED seen
       ELSE /\ seen' = [seen EXCEPT ![w] = meta]
            /\ GoTo(w, "swapPop")
            /\ UNCHANGED <<job, returned>>
    /\ UNCHANGED <<meta, items, counters, stored, overtaken>>

(* Mutation of Popped: RPOP forgets the count. *)
PoppedUncounted(side, m) ==
    IF side = "left" THEN Meta(m.head + 1, m.tail, m.count)
    ELSE Meta(m.head, m.tail - 1, m.count)

Popped(side, m) ==
    IF side = "left" THEN Meta(m.head + 1, m.tail, m.count - 1)
    ELSE Meta(m.head, m.tail - 1, m.count - 1)

(* The metadata no longer has the item at job[w].pos; it is fetched next. *)
WritePopped(w) ==
    LET m == seen[w] IN
    /\ meta' = Popped(job[w].side, m)
    /\ GoTo(w, "take")
    /\ job' = [job EXCEPT ![w].pos =
                  IF job[w].side = "left" THEN m.head ELSE m.tail - 1]
    /\ UNCHANGED returned

(* Mutation of SwapForPop: the metadata is written without a comparison. *)
SwapUnchecked(w) ==
    /\ At(w, "swapPop")
    /\ WritePopped(w)
    /\ UNCHANGED <<items, seen, counters, stored, overtaken>>

SwapForPop(w) ==
    /\ At(w, "swapPop")
    /\ \/ meta = seen[w] /\ WritePopped(w)
       \/ /\ meta # seen[w]
          /\ UNCHANGED meta
          /\ \/ TryAgain(w, "readPop") /\ UNCHANGED returned
             \/ Exhausted(w) /\ Reply(w)
    /\ UNCHANGED <<items, seen, counters, stored, overtaken>>

(* Values on their way to a position. *)
Pending(p) ==
    {Head(job[u].todo) : u \in {u \in Workers :
        At(u, "insert") /\ job[u].pos = p}}

(* A gap is passed over, without counting it as a retry. *)
TakeItem(w) ==
    LET p == job[w].pos IN
    /\ At(w, "take")
    /\ IF items[p] = None
       THEN /\ GoTo(w, "readPop")
            /\ overtaken' = overtaken \cup Pending(p)
            /\ UNCHANGED job
       ELSE /\ GoTo(w, "delete")
            /\ job' = [job EXCEPT ![w].taken = Append(@, items[p])]
            /\ UNCHANGED overtaken
    /\ UNCHANGED <<meta, items, seen, counters, returned, stored>>

(* Deleting an absent item is an error, and the values popped by the        *)
(* command so far are not returned.                                         *)
DeleteItem(w) ==
    LET p == job[w].pos IN
    /\ At(w, "delete")
    /\ items' = [items EXCEPT ![p] = None]
    /\ IF items[p] = None
       THEN GoTo(w, "idle") /\ job' = [job EXCEPT ![w] = NoJob]
       ELSE /\ GoTo(w, "readPop")
            /\ job' = [job EXCEPT ![w].left = @ - 1, ![w].retries = 0]
    /\ UNCHANGED <<meta, seen, counters, histories>>

EndPop(w) ==
    /\ At(w, "readPop")
    /\ job[w].left = 0
    /\ Reply(w)
    /\ UNCHANGED <<meta, items, seen, counters, stored, overtaken>>

Request(w) ==
    \E n \in 1 .. 2 :
        \/ \E side \in Sides : BeginPush(w, side, n)
        \/ \E side \in PopSides : BeginPop(w, side, n)

Step(w) ==
    \/ ReadForPush(w)
    \/ CreateMeta(w)
    \/ OverwriteMeta(w)
    \/ SwapForPush(w)
    \/ InsertItem(w)
    \/ EndPush(w)
    \/ ReadForPop(w)
    \/ SwapForPop(w)
    \/ TakeItem(w)
    \/ DeleteItem(w)
    \/ EndPop(w)

Next == \E w \in Workers : Request(w) \/ Step(w)

Spec == Init /\ [][Next]_vars

----------------------------------------------------------------------------
(* LLEN, LRANGE and LINDEX, when no other worker is busy with the list. *)

(* The numbers in S, the smallest first. *)
Ascending(S) ==
    [i \in 1 .. Cardinality(S) |->
        CHOOSE x \in S : Cardinality({y \in S : y <= x}) = i]

(* The items at the positions lo .. hi; gaps are skipped. *)
ItemsBetween(lo, hi) ==
    LET filled == Ascending({p \in lo .. hi : items[p] # None})
    IN  [i \in DOMAIN filled |-> items[filled[i]]]

LLen == IF meta = None THEN 0 ELSE meta.count

Least(a, b) == IF a < b THEN a ELSE b

(* Mutation of LRange: the last position is left out. *)
LRangeShort(start, stop) ==
    LET len   == meta.tail - meta.head
        first == IF start >= 0 THEN start
                 ELSE IF len + start > 0 THEN len + start ELSE 0
        last  == IF stop < 0 THEN len + stop ELSE stop
    IN  IF meta = None \/ LLen = 0 \/ first >= len \/ last < 0 THEN <<>>
        ELSE ItemsBetween(meta.head + first,
                          meta.head + Least(last, len - 1) - 1)

LRange(start, stop) ==
    LET len   == meta.tail - meta.head
        first == IF start >= 0 THEN start
                 ELSE IF len + start > 0 THEN len + start ELSE 0
        last  == IF stop < 0 THEN len + stop ELSE stop
    IN  IF meta = None \/ LLen = 0 \/ first >= len \/ last < 0 THEN <<>>
        ELSE ItemsBetween(meta.head + first,
                          meta.head + Least(last, len - 1))

LIndex(index) ==
    LET len == meta.tail - meta.head
        i   == IF index < 0 THEN len + index ELSE index
    IN  IF meta = None \/ LLen = 0 \/ i < 0 \/ i >= len THEN None
        ELSE items[meta.head + i]

----------------------------------------------------------------------------

Metas == [head: Int, tail: Int, count: Nat]

(* The count is the distance from head to tail and never below zero,        *)
(* whatever commands run at the same time, races to create the list         *)
(* included: LLEN agrees with the indices LRANGE works with, and the u64    *)
(* decrement of LPOP and RPOP does not wrap around.                         *)
CountMatches ==
    meta # None => meta.count \in Nat /\ meta.count = meta.tail - meta.head

(* The list as a client sees it. *)
Contents == IF meta = None THEN <<>>
            ELSE ItemsBetween(meta.head, meta.tail - 1)

(* What the worker has popped, the item it is about to take included. *)
PoppedBy(w) ==
    returned[w] \o job[w].taken
        \o (IF At(w, "take") /\ items[job[w].pos] # None
            THEN <<items[job[w].pos]>> ELSE <<>>)

D == INSTANCE Deque WITH Clients <- Workers, list <- Contents,
                         popped <- [w \in Workers |-> PoppedBy(w)]

(* On one worker the commands behave like a sequence with two ends: the     *)
(* metadata, the positions and the items add up to the list of README.md    *)
(* through any mix of pushes and pops at either end, and the list comes     *)
(* back to life after it was emptied.                                       *)
ImplementsDeque == D!DequeSpec

(* Where an index of LRANGE and LINDEX points, counting from 0. *)
Place(i) == IF i < 0 THEN Len(Contents) + i ELSE i

(* The elements from place i to place j. *)
Elements(i, j) ==
    LET inside == Ascending({n \in DOMAIN Contents :
                                Place(i) < n /\ n <= Place(j) + 1})
    IN  [k \in DOMAIN inside |-> Contents[inside[k]]]

(* LRANGE, LINDEX and LLEN say of the list what Contents is, for indices    *)
(* beyond both ends and negative ones: exactly the elements whose place     *)
(* lies between the places of start and stop.                               *)
ReadsAgree ==
    (\A w \in Workers : At(w, "idle")) =>
        /\ LLen = Len(Contents)
        /\ \A i \in (-MaxPushes - 1) .. (MaxPushes + 1) :
              /\ LIndex(i) = IF Place(i) + 1 \in DOMAIN Contents
                             THEN Contents[Place(i) + 1] ELSE None
              /\ \A j \in (-MaxPushes - 1) .. (MaxPushes + 1) :
                    LRange(i, j) = Elements(i, j)

InSequence(v, s) == \E i \in DOMAIN s : s[i] = v

Occurrences(v) ==
    UNION {{<<w, i>> : i \in {i \in DOMAIN PoppedBy(w) : PoppedBy(w)[i] = v}} :
              w \in Workers}

(* No value is handed to two clients, or twice to one: a list used as a     *)
(* queue (RPUSH and LPOP, test_list_fifo_behavior) gives each job to one    *)
(* consumer although taking an item is three accesses.                      *)
PoppedOnce == \A v \in Values : Cardinality(Occurrences(v)) <= 1

(* The value is at a position of the list, between its ends. *)
Listed(v) ==
    meta # None /\ \E p \in meta.head .. (meta.tail - 1) : items[p] = v

(* A value that was stored in a queue is in the list, or with a client, or  *)
(* fell through the one known gap: its position was popped after RPUSH      *)
(* announced it in the metadata and before the item was there.              *)
LostOnlyInGap ==
    \A v \in stored \ overtaken :
        Listed(v) \/ \E w \in Workers : InSequence(v, PoppedBy(w))
=============================================================================
