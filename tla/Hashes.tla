------------------------------- MODULE Hashes -------------------------------
(* The hash commands (protocol/command/hash.rs).                            *)
(*                                                                          *)
(* Every field is an entry of the shared store.  The number of fields is an *)
(* entry of its own, but HSET, HDEL and HINCRBY do not write it: they add   *)
(* to GLOBAL_METADATA_TRACKER, one table for the process behind a lock, and *)
(* a later command brings the table's sums into the store.  Each access to  *)
(* the store and each locked access to the table is a step, and any other   *)
(* worker may run between two of them.  Values of fields are left out.      *)
EXTENDS Integers, Sequences, FiniteSets, Functions

CONSTANTS
    Workers,
    Keys,           \* the keys of the hashes
    Fields,
    MaxArgs,        \* bound on the fields one command names
    MaxOps,         \* bound on the commands that change a hash
    MaxReads,       \* bound on the HLEN commands
    MaxFailures,    \* bound on the writes the store refuses
    MaxRestarts     \* bound on restarts of the server

ASSUME WorkersAssumption == IsFiniteSet(Workers)

ASSUME HashBoundsAssumption ==
    /\ MaxArgs \in Nat /\ MaxOps \in Nat /\ MaxReads \in Nat
    /\ MaxFailures \in Nat /\ MaxRestarts \in Nat

VARIABLES
    fields,     \* H:<key>:f:*, the fields each hash has
    meta,       \* H:<key>:meta, absent being zero
    pending,    \* pending_updates of the tracker, absent being zero
    pc,         \* where each worker is in its command, "idle" between two
    onKey,      \* the hash of the command
    todo,       \* the fields it still has to write or delete
    delta,      \* what it will add to the tracker, or has added
    resume,     \* where it goes on after the tracker
    ops,        \* number of changing commands so far
    reads,      \* number of HLEN commands so far
    failures,   \* number of refused writes so far
    restarts,   \* number of restarts so far
    answered,   \* history: the counts a hash had since a HLEN on it began
    drift       \* history: how far known causes have put the counts off

store == <<fields, meta>>

locals == <<onKey, todo, delta, resume>>

counters == <<ops, reads, failures, restarts>>

vars == <<store, pending, pc, locals, counters, answered, drift>>

At(w, label) == pc[w] = label

(* The worker goes on; a command that ends forgets its locals. *)
GoTo(w, label) ==
    /\ pc' = [pc EXCEPT ![w] = label]
    /\ IF label = "idle"
       THEN /\ todo' = [todo EXCEPT ![w] = <<>>]
            /\ delta' = [delta EXCEPT ![w] = 0]
            /\ resume' = [resume EXCEPT ![w] = "idle"]
            /\ UNCHANGED onKey
       ELSE UNCHANGED locals

(* What HLEN will say of the hash after the next flush. *)
Recorded(k) == meta[k] + pending[k]

(* A HLEN that is under way has seen what its hash's count is now. *)
Witness ==
    answered' = [w \in Workers |->
                    IF resume'[w] = "read"
                    THEN answered[w] \cup {Recorded(onKey[w])'} ELSE {}]

Init ==
    /\ fields = [k \in Keys |-> {}]
    /\ meta = [k \in Keys |-> 0]
    /\ pending = [k \in Keys |-> 0]
    /\ pc = [w \in Workers |-> "idle"]
    /\ onKey \in [Workers -> Keys]
    /\ todo = [w \in Workers |-> <<>>]
    /\ delta = [w \in Workers |-> 0]
    /\ resume = [w \in Workers |-> "idle"]
    /\ ops = 0 /\ reads = 0 /\ failures = 0 /\ restarts = 0
    /\ answered = [w \in Workers |-> {}]
    /\ drift = [k \in Keys |-> 0]

(* The command goes to a hash; the rest of its locals are fresh. *)
Start(w, k, label, args, amount, back) ==
    /\ At(w, "idle")
    /\ pc' = [pc EXCEPT ![w] = label]
    /\ onKey' = [onKey EXCEPT ![w] = k]
    /\ todo' = [todo EXCEPT ![w] = args]
    /\ delta' = [delta EXCEPT ![w] = amount]
    /\ resume' = [resume EXCEPT ![w] = back]
    /\ UNCHANGED <<store, pending, failures, restarts, drift>>

Change == ops < MaxOps /\ ops' = ops + 1 /\ UNCHANGED reads

BeginHSet(w, k, args) ==
    /\ Change
    /\ Start(w, k, "set", args, 0, "idle")
    /\ UNCHANGED answered

BeginHDel(w, k, args) ==
    /\ Change
    /\ Start(w, k, "del", args, 0, "idle")
    /\ UNCHANGED answered

(* Mutation of BeginHLen: HLEN flushes only when a flush is due. *)
BeginHLenLazily(w, k) ==
    /\ reads < MaxReads
    /\ reads' = reads + 1
    /\ Start(w, k, "maybe", <<>>, 0, "read")
    /\ Witness
    /\ UNCHANGED ops

BeginHLen(w, k) ==
    /\ reads < MaxReads
    /\ reads' = reads + 1
    /\ Start(w, k, "flush", <<>>, 0, "read")
    /\ Witness
    /\ UNCHANGED ops

(* HINCRBY asks whether the field exists and decides by the answer whether  *)
(* it counts the field.                                                     *)
BeginHIncrBy(w, k, f) ==
    /\ Change
    /\ \/ f \in fields[k] /\ Start(w, k, "get", <<f>>, 0, "store")
       \/ f \notin fields[k] /\ Start(w, k, "add", <<f>>, 1, "store")
    /\ UNCHANGED answered

(* A command that has counted nothing leaves the tracker alone. *)
AfterArgs(w, left, amount) ==
    IF left # <<>> THEN pc[w] ELSE IF amount # 0 THEN "add" ELSE "idle"

(* One turn of HSET's or HDEL's loop: the field is there, or not, from now  *)
(* on, and is counted if that changes anything.                             *)
Turn(w, present, amount) ==
    LET k == onKey[w]
        f == Head(todo[w])
        counted == delta[w] + (IF (f \in fields[k]) = present THEN 0 ELSE amount)
    IN  /\ fields' = [fields EXCEPT ![k] = IF present THEN @ \cup {f} ELSE @ \ {f}]
        /\ todo' = [todo EXCEPT ![w] = Tail(@)]
        /\ delta' = [delta EXCEPT ![w] = counted]
        /\ pc' = [pc EXCEPT ![w] = AfterArgs(w, Tail(todo[w]), counted)]
        /\ UNCHANGED <<meta, pending, onKey, resume, counters, answered, drift>>

(* Mutation of SetField: a field that was there is counted as new. *)
SetFieldCounted(w) ==
    /\ At(w, "set")
    /\ fields' = [fields EXCEPT ![onKey[w]] = @ \cup {Head(todo[w])}]
    /\ todo' = [todo EXCEPT ![w] = Tail(@)]
    /\ delta' = [delta EXCEPT ![w] = @ + 1]
    /\ pc' = [pc EXCEPT ![w] = AfterArgs(w, Tail(todo[w]), delta[w] + 1)]
    /\ UNCHANGED <<meta, pending, onKey, resume, counters, answered, drift>>

SetField(w) == At(w, "set") /\ Turn(w, TRUE, 1)

DelField(w) == At(w, "del") /\ Turn(w, FALSE, -1)

Fail == failures < MaxFailures /\ failures' = failures + 1

(* The store refuses a field: HSET returns through ?, and the fields it has *)
(* created before are not counted.                                          *)
SetFails(w) ==
    /\ At(w, "set")
    /\ Fail
    /\ drift' = [drift EXCEPT ![onKey[w]] = @ - delta[w]]
    /\ GoTo(w, "idle")
    /\ UNCHANGED <<store, pending, ops, reads, restarts, answered>>

(* add_update, under the write lock. *)
AddUpdate(w) ==
    /\ At(w, "add")
    /\ pending' = [pending EXCEPT ![onKey[w]] = @ + delta[w]]
    /\ GoTo(w, "maybe")
    /\ UNCHANGED <<store, counters, drift>>
    /\ Witness

(* maybe_flush_metadata reads the size of the table and the time of the     *)
(* last flush under the read lock and lets go of it; either answer can come.*)
MaybeFlush(w) ==
    /\ At(w, "maybe")
    /\ GoTo(w, "flush") \/ GoTo(w, resume[w])
    /\ UNCHANGED <<store, pending, counters, answered, drift>>

(* flush_metadata holds the write lock from take_updates to the last        *)
(* increment, so for one hash it is one step: a HLEN that reads the count   *)
(* in between reads what it would have read just before.                    *)
Flush(w) ==
    /\ At(w, "flush")
    /\ pending' = [k \in Keys |-> 0]
    /\ meta' = [k \in Keys |-> meta[k] + pending[k]]
    /\ GoTo(w, resume[w])
    /\ UNCHANGED <<fields, counters, drift>>
    /\ Witness

(* The errors of the increments are dropped, and the updates with them. *)
FlushFails(w, k) ==
    /\ At(w, "flush")
    /\ Fail
    /\ pending[k] # 0
    /\ pending' = [l \in Keys |-> 0]
    /\ meta' = [l \in Keys |-> meta[l] + (IF l = k THEN 0 ELSE pending[l])]
    /\ drift' = [drift EXCEPT ![k] = @ - pending[k]]
    /\ GoTo(w, resume[w])
    /\ UNCHANGED <<fields, ops, reads, restarts>>
    /\ Witness

(* HLEN's read of the count; the reply is meta[onKey[w]]. *)
ReadLen(w) ==
    /\ At(w, "read")
    /\ GoTo(w, "idle")
    /\ answered' = [answered EXCEPT ![w] = {}]
    /\ UNCHANGED <<store, pending, counters, drift>>

(* HINCRBY reads the field it found: a number, or gone by now (the sum      *)
(* starts from zero then), or, if it is there, no number: an error.         *)
GetField(w) ==
    /\ At(w, "get")
    /\ \/ GoTo(w, "store")
       \/ Head(todo[w]) \in fields[onKey[w]] /\ GoTo(w, "idle")
    /\ UNCHANGED <<store, pending, counters, answered, drift>>

(* HINCRBY writes the field, whether it is there or not by now.  The count  *)
(* goes wrong if it was counted and somebody else has created it meanwhile, *)
(* or if it was not and somebody has deleted it.                            *)
StoreField(w) ==
    LET k == onKey[w]
        f == Head(todo[w])
        created == IF f \in fields[k] THEN 0 ELSE 1
    IN  /\ At(w, "store")
        /\ fields' = [fields EXCEPT ![k] = @ \cup {f}]
        /\ drift' = [drift EXCEPT ![k] = @ + delta[w] - created]
        /\ GoTo(w, "idle")
        /\ UNCHANGED <<meta, pending, counters, answered>>

StoreFails(w) ==
    /\ At(w, "store")
    /\ Fail
    /\ drift' = [drift EXCEPT ![onKey[w]] = @ + delta[w]]
    /\ GoTo(w, "idle")
    /\ UNCHANGED <<store, pending, ops, reads, restarts, answered>>

(* The server is shut down between commands and started again on the same   *)
(* data_path: the entries are there, and what the tracker held is gone.     *)
Restart ==
    /\ restarts < MaxRestarts
    /\ restarts' = restarts + 1
    /\ \A w \in Workers : At(w, "idle")
    /\ drift' = [k \in Keys |-> drift[k] - pending[k]]
    /\ pending' = [k \in Keys |-> 0]
    /\ UNCHANGED <<store, pc, locals, ops, reads, failures, answered>>

----------------------------------------------------------------------------

Arguments == UNION {[1 .. n -> Fields] : n \in 1 .. MaxArgs}

Request(w) ==
    \E k \in Keys :
        \/ \E args \in Arguments : BeginHSet(w, k, args) \/ BeginHDel(w, k, args)
        \/ \E f \in Fields : BeginHIncrBy(w, k, f)
        \/ BeginHLen(w, k)

Step(w) ==
    \/ SetField(w)
    \/ SetFails(w)
    \/ DelField(w)
    \/ AddUpdate(w)
    \/ MaybeFlush(w)
    \/ Flush(w)
    \/ \E k \in Keys : FlushFails(w, k)
    \/ ReadLen(w)
    \/ GetField(w)
    \/ StoreField(w)
    \/ StoreFails(w)

Next == Restart \/ \E w \in Workers : Request(w) \/ Step(w)

Spec == Init /\ [][Next]_vars

----------------------------------------------------------------------------

Labels == {"idle", "set", "del", "add", "maybe", "flush", "read", "get", "store"}

(* The shapes; a command in its loop has an argument left, and one that     *)
(* goes to the tracker has something to add.                                *)
TypeOK ==
    /\ fields \in [Keys -> SUBSET Fields]
    /\ meta \in [Keys -> Int]
    /\ pending \in [Keys -> Int]
    /\ pc \in [Workers -> Labels]
    /\ onKey \in [Workers -> Keys]
    /\ todo \in [Workers -> Seq(Fields)]
    /\ delta \in [Workers -> Int]
    /\ resume \in [Workers -> {"idle", "read", "store"}]
    /\ answered \in [Workers -> SUBSET Int]
    /\ drift \in [Keys -> Int]
    /\ \A w \in Workers :
          /\ pc[w] \in {"set", "del"} => todo[w] # <<>>
          /\ At(w, "add") => delta[w] # 0

(* What the command of a worker has changed and not yet counted, or, for    *)
(* HINCRBY, counted and not yet changed.                                    *)
InFlight(w) ==
    IF pc[w] \in {"set", "del", "add"} /\ resume[w] = "idle" THEN delta[w]
    ELSE IF pc[w] \in {"maybe", "flush", "store"} /\ resume[w] = "store"
    THEN - delta[w] ELSE 0

(* What it means for one hash. *)
Share(w, k) == IF onKey[w] = k THEN InFlight(w) ELSE 0

InFlightOn(k) == SumFunction([w \in Workers |-> Share(w, k)])

(* The count HLEN reports is the number of fields in the store, but for     *)
(* what commands have under way and for the drift of known causes: an HSET  *)
(* or a flush the store refuses, HINCRBY against a command on the same      *)
(* field, and a restart.  In particular HSET and HDEL can race with each    *)
(* other and with flushes as they like.                                     *)
CountAccounted ==
    \A k \in Keys :
        Recorded(k) + InFlightOn(k) = Cardinality(fields[k]) + drift[k]

(* HLEN's reply is a count that the commands finished so far add up to, at  *)
(* some moment between HLEN's begin and its reply: a flush by another       *)
(* worker does not hide changes that were complete before.                  *)
LenFresh ==
    \A w \in Workers : At(w, "read") => meta[onKey[w]] \in answered[w]
=============================================================================
