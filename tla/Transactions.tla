---------------------------- MODULE Transactions ----------------------------
(* MULTI, EXEC, DISCARD, WATCH and UNWATCH (network/connection.rs:          *)
(* process_read), the versions that WATCH compares (watch_registry.rs) and  *)
(* the string commands that move them (protocol/command/executor.rs).       *)
(*                                                                          *)
(* The store, the key versions and the global version are shared by all     *)
(* workers and no lock spans two accesses to them: a writing command is     *)
(* three steps (store, draw a version, record it), WATCH and the check of   *)
(* EXEC read one version at a time, and EXEC runs its commands one by one.  *)
(* Every connection is served by a worker of its own here; connections that *)
(* share a worker have fewer interleavings.                                 *)
EXTENDS Integers, Sequences, SequencesExt, FiniteSets

CONSTANTS
    Conns,
    Keys,
    Values,
    Absent,         \* the value of a key that is not in the store
    Commands,       \* the commands clients send: sequences of updates
    MaxQueue,       \* bound on the length of a transaction
    MaxCommands     \* bound on the number of commands sent

(* One update of one key.  SET and DEL notify the watch registry; CAS and   *)
(* JSONPATCH do not.                                                        *)
SetKey(k, v)    == [op |-> "set", key |-> k, old |-> Absent, new |-> v]
DelKey(k)       == [op |-> "del", key |-> k, old |-> Absent, new |-> Absent]
CasKey(k, e, v) == [op |-> "cas", key |-> k, old |-> e, new |-> v]

Updates == {SetKey(k, v) : k \in Keys, v \in Values}
           \cup {DelKey(k) : k \in Keys}
           \cup {CasKey(k, e, v) : k \in Keys, e \in Values, v \in Values}

ASSUME AbsentAssumption == Absent \notin Values

ASSUME CommandsAssumption == Commands \subseteq Seq(Updates)

NotWatched == -1

VARIABLES
    store,              \* FeoxStore
    key_versions,       \* KEY_VERSIONS (0: no entry)
    global_version,     \* GLOBAL_VERSION
    transaction_state,
    queued_commands,
    watched_keys,       \* version seen by WATCH, or NotWatched
    run,                \* what the connection's worker is doing for it
    sent,               \* number of commands sent so far
    touched,            \* history: watched keys recorded as modified since
    dirty,              \* history: watched keys set or deleted by others since
    doomed              \* history: touched as it was when EXEC arrived

vars == <<store, key_versions, global_version, transaction_state,
          queued_commands, watched_keys, run, sent, touched, dirty, doomed>>

shared  == <<store, key_versions, global_version>>
history == <<touched, dirty, doomed>>

(* exec: the updates belong to an EXEC; keys: still to watch or to check;   *)
(* todo: updates still to run; version: drawn and not yet recorded.         *)
Run(pc, exec, keys, todo, version) ==
    [pc |-> pc, exec |-> exec, keys |-> keys, todo |-> todo,
     version |-> version]

Resting == Run("idle", FALSE, {}, <<>>, 0)

At(c, pc) == run[c].pc = pc

WatchedBy(c) == {k \in Keys : watched_keys[c][k] # NotWatched}

Init ==
    /\ store = [k \in Keys |-> Absent]
    /\ key_versions = [k \in Keys |-> 0]
    /\ global_version = 1
    /\ transaction_state = [c \in Conns |-> "none"]
    /\ queued_commands = [c \in Conns |-> <<>>]
    /\ watched_keys = [c \in Conns |-> [k \in Keys |-> NotWatched]]
    /\ run = [c \in Conns |-> Resting]
    /\ sent = 0
    /\ touched = [c \in Conns |-> {}]
    /\ dirty = [c \in Conns |-> {}]
    /\ doomed = [c \in Conns |-> {}]

----------------------------------------------------------------------------
(* Commands as they arrive. *)

(* watched_keys.clear() *)
ForgetWatched(c) ==
    /\ watched_keys' = [watched_keys EXCEPT ![c] = [k \in Keys |-> NotWatched]]
    /\ touched' = [touched EXCEPT ![c] = {}]
    /\ dirty' = [dirty EXCEPT ![c] = {}]
    /\ doomed' = [doomed EXCEPT ![c] = {}]

Multi(c) ==
    /\ At(c, "idle")
    /\ transaction_state[c] = "none"
    /\ transaction_state' = [transaction_state EXCEPT ![c] = "queuing"]
    /\ queued_commands' = [queued_commands EXCEPT ![c] = <<>>]
    /\ UNCHANGED <<shared, watched_keys, run, sent, history>>

Discard(c) ==
    /\ At(c, "idle")
    /\ transaction_state[c] = "queuing"
    /\ transaction_state' = [transaction_state EXCEPT ![c] = "none"]
    /\ queued_commands' = [queued_commands EXCEPT ![c] = <<>>]
    /\ ForgetWatched(c)
    /\ UNCHANGED <<shared, run, sent>>

(* UNWATCH acts at once, in a transaction too. *)
Unwatch(c) ==
    /\ At(c, "idle")
    /\ WatchedBy(c) # {}
    /\ ForgetWatched(c)
    /\ UNCHANGED <<shared, transaction_state, queued_commands, run, sent>>

Watch(c, keys) ==
    /\ At(c, "idle")
    /\ transaction_state[c] = "none"
    /\ run' = [run EXCEPT ![c] = Run("watch", FALSE, keys, <<>>, 0)]
    /\ UNCHANGED <<shared, transaction_state, queued_commands, watched_keys,
                   sent, history>>

Queue(c, cmd) ==
    /\ At(c, "idle")
    /\ transaction_state[c] = "queuing"
    /\ Len(queued_commands[c]) < MaxQueue
    /\ sent < MaxCommands
    /\ queued_commands' = [queued_commands EXCEPT ![c] = Append(@, cmd)]
    /\ sent' = sent + 1
    /\ UNCHANGED <<shared, transaction_state, watched_keys, run, history>>

(* A command outside a transaction, through execute or the fast path. *)
Execute(c, cmd) ==
    /\ At(c, "idle")
    /\ transaction_state[c] = "none"
    /\ sent < MaxCommands
    /\ run' = [run EXCEPT ![c] = Run("run", FALSE, {}, cmd, 0)]
    /\ sent' = sent + 1
    /\ UNCHANGED <<shared, transaction_state, queued_commands, watched_keys,
                   history>>

Exec(c) ==
    /\ At(c, "idle")
    /\ transaction_state[c] = "queuing"
    /\ run' = [run EXCEPT ![c] = Run("check", TRUE, WatchedBy(c), <<>>, 0)]
    /\ doomed' = [doomed EXCEPT ![c] = touched[c]]
    /\ UNCHANGED <<shared, transaction_state, queued_commands, watched_keys,
                   sent, touched, dirty>>

----------------------------------------------------------------------------
(* Steps of a command in progress. *)

(* One turn of the loop of WATCH: a key watched again gets the version it   *)
(* has now.                                                                 *)
WatchKey(c, k) ==
    /\ At(c, "watch")
    /\ k \in run[c].keys
    /\ watched_keys' = [watched_keys EXCEPT ![c][k] = key_versions[k]]
    /\ touched' = [touched EXCEPT ![c] = @ \ {k}]
    /\ dirty' = [dirty EXCEPT ![c] = @ \ {k}]
    /\ run' = [run EXCEPT ![c] = Run(IF @.keys = {k} THEN "idle" ELSE "watch",
                                     FALSE, @.keys \ {k}, <<>>, 0)]
    /\ UNCHANGED <<shared, transaction_state, queued_commands, sent, doomed>>

(* Mutation of CheckKey: one unchanged key is taken for all of them. *)
CheckFirstKey(c, k) ==
    /\ At(c, "check")
    /\ k \in run[c].keys
    /\ key_versions[k] = watched_keys[c][k]
    /\ run' = [run EXCEPT ![c] = Run("check", TRUE, {}, <<>>, 0)]
    /\ UNCHANGED <<shared, transaction_state, queued_commands, watched_keys,
                   sent, history>>

(* One turn of check_keys_unchanged that finds the version it expects. *)
CheckKey(c, k) ==
    /\ At(c, "check")
    /\ k \in run[c].keys
    /\ key_versions[k] = watched_keys[c][k]
    /\ run' = [run EXCEPT ![c] = Run("check", TRUE, @.keys \ {k}, <<>>, 0)]
    /\ UNCHANGED <<shared, transaction_state, queued_commands, watched_keys,
                   sent, history>>

(* One that does not: the transaction is dropped and nothing of it runs. *)
Abort(c, k) ==
    /\ At(c, "check")
    /\ k \in run[c].keys
    /\ key_versions[k] # watched_keys[c][k]
    /\ run' = [run EXCEPT ![c] = Resting]
    /\ transaction_state' = [transaction_state EXCEPT ![c] = "none"]
    /\ queued_commands' = [queued_commands EXCEPT ![c] = <<>>]
    /\ ForgetWatched(c)
    /\ UNCHANGED <<shared, sent>>

(* All keys checked: the queue is drained through the executor. *)
Drain(c) ==
    /\ At(c, "check")
    /\ run[c].keys = {}
    /\ run' = [run EXCEPT ![c] =
                 Run("run", TRUE, {}, FlattenSeq(queued_commands[c]), 0)]
    /\ queued_commands' = [queued_commands EXCEPT ![c] = <<>>]
    /\ UNCHANGED <<shared, transaction_state, watched_keys, sent, history>>

Succeeds(u) ==
    CASE u.op = "set" -> TRUE
      [] u.op = "del" -> store[u.key] # Absent
      [] u.op = "cas" -> store[u.key] = u.old

(* Mutation of Notifies: deletions are forgotten. *)
NotifiesOnSet(u) == u.op = "set"

Notifies(u) == Succeeds(u) /\ u.op # "cas"

(* The store's part of an update. *)
Write(c) ==
    LET u == Head(run[c].todo) IN
    /\ At(c, "run")
    /\ run[c].todo # <<>>
    /\ store' = IF Succeeds(u) THEN [store EXCEPT ![u.key] = u.new] ELSE store
    /\ run' = [run EXCEPT ![c] =
                 IF Notifies(u) THEN Run("draw", @.exec, {}, @.todo, 0)
                 ELSE Run("run", @.exec, {}, Tail(@.todo), 0)]
    /\ dirty' = [d \in Conns |->
                   IF d # c /\ Succeeds(u) /\ u.op # "cas" /\ u.key \in WatchedBy(d)
                   THEN dirty[d] \cup {u.key} ELSE dirty[d]]
    /\ UNCHANGED <<key_versions, global_version, transaction_state,
                   queued_commands, watched_keys, sent, touched, doomed>>

(* Mutation of DrawVersion: the version is read and not incremented. *)
DrawSameVersion(c) ==
    /\ At(c, "draw")
    /\ run' = [run EXCEPT ![c] =
                 Run("record", @.exec, {}, @.todo, global_version)]
    /\ UNCHANGED <<shared, transaction_state, queued_commands, watched_keys,
                   sent, history>>

(* notify_key_modified: fetch_add on the global version ... *)
DrawVersion(c) ==
    /\ At(c, "draw")
    /\ run' = [run EXCEPT ![c] =
                 Run("record", @.exec, {}, @.todo, global_version)]
    /\ global_version' = global_version + 1
    /\ UNCHANGED <<store, key_versions, transaction_state, queued_commands,
                   watched_keys, sent, history>>

(* ... and insertion of what it returned. *)
RecordVersion(c) ==
    LET k == Head(run[c].todo).key IN
    /\ At(c, "record")
    /\ key_versions' = [key_versions EXCEPT ![k] = run[c].version]
    /\ run' = [run EXCEPT ![c] = Run("run", @.exec, {}, Tail(@.todo), 0)]
    /\ touched' = [d \in Conns |-> IF k \in WatchedBy(d)
                                   THEN touched[d] \cup {k} ELSE touched[d]]
    /\ UNCHANGED <<store, global_version, transaction_state, queued_commands,
                   watched_keys, sent, dirty, doomed>>

EndExecute(c) ==
    /\ At(c, "run")
    /\ run[c].todo = <<>>
    /\ ~ run[c].exec
    /\ run' = [run EXCEPT ![c] = Resting]
    /\ UNCHANGED <<shared, transaction_state, queued_commands, watched_keys,
                   sent, history>>

EndExec(c) ==
    /\ At(c, "run")
    /\ run[c].todo = <<>>
    /\ run[c].exec
    /\ run' = [run EXCEPT ![c] = Resting]
    /\ transaction_state' = [transaction_state EXCEPT ![c] = "none"]
    /\ ForgetWatched(c)
    /\ UNCHANGED <<shared, queued_commands, sent>>

Request(c) ==
    \/ Multi(c)
    \/ Discard(c)
    \/ Unwatch(c)
    \/ Exec(c)
    \/ \E keys \in (SUBSET Keys) \ {{}} : Watch(c, keys)
    \/ \E cmd \in Commands : Queue(c, cmd) \/ Execute(c, cmd)

Step(c) ==
    \/ \E k \in Keys : WatchKey(c, k) \/ CheckKey(c, k) \/ Abort(c, k)
    \/ Drain(c)
    \/ Write(c)
    \/ DrawVersion(c)
    \/ RecordVersion(c)
    \/ EndExecute(c)
    \/ EndExec(c)

Next == \E c \in Conns : Request(c) \/ Step(c)

Spec == Init /\ [][Next]_vars

----------------------------------------------------------------------------

(* Comparing versions is the same as asking whether a modification was      *)
(* recorded since the last WATCH of the key (an earlier one is forgotten).  *)
(* Versions of one key are not recorded in the order they were drawn, so a  *)
(* version can go down; it never comes back to a value a watcher has seen   *)
(* (no ABA, watch_registry.rs).                                             *)
VersionsDetectChanges ==
    \A c \in Conns : \A k \in WatchedBy(c) :
        key_versions[k] = watched_keys[c][k] <=> k \notin touched[c]

(* A transaction never runs when a modification of a watched key was        *)
(* recorded before EXEC arrived: a writer that had its reply is always      *)
(* noticed ("Transaction aborted - watched key was modified",               *)
(* connection.rs), although the keys are checked one at a time.             *)
NoRunWhenDoomed ==
    \A c \in Conns :
        (run[c].exec /\ (run[c].pc # "check" \/ run[c].keys = {}))
            => doomed[c] = {}

(* When EXEC is about to run although another connection stored a watched   *)
(* key since the last WATCH of it, with a command that notifies the         *)
(* registry (SET, DEL or an element of MSET, executor.rs), the modification *)
(* falls into one of two windows: its version was recorded after EXEC       *)
(* arrived, or it is stored and its version is still on the way.  No other  *)
(* such write is missed.                                                    *)
MissedOnlyInWindow ==
    \A c \in Conns : (At(c, "check") /\ run[c].keys = {}) =>
        \A k \in dirty[c] :
            \/ k \in touched[c] \ doomed[c]
            \/ \E d \in Conns \ {c} : /\ At(d, "draw") \/ At(d, "record")
                                     /\ Head(run[d].todo).key = k
=============================================================================
