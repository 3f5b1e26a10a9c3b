------------------------- MODULE TransactionsProofs -------------------------
(* Proofs about module Transactions, for any number of connections and      *)
(* keys, any commands and any length of transactions.                       *)
EXTENDS Transactions, TLAPS

(* Every version in use was drawn from the counter.  A version on its way   *)
(* to the registry is nobody else's: no key has it, no watcher has seen it  *)
(* and no other connection has drawn it.                                    *)
Drawn(c) == run[c].pc = "record"

VersionTypes ==
    /\ global_version \in Nat \ {0}
    /\ key_versions \in [Keys -> Nat]
    /\ watched_keys \in [Conns -> [Keys -> Nat \cup {NotWatched}]]
    /\ touched \in [Conns -> SUBSET Keys]
    /\ run = [c \in Conns |-> run[c]]
    /\ \A c \in Conns : Drawn(c) => run[c].version \in Nat

VersionsDrawn ==
    /\ \A k \in Keys : key_versions[k] < global_version
    /\ \A c \in Conns, k \in Keys : watched_keys[c][k] < global_version
    /\ \A c \in Conns : Drawn(c) => run[c].version < global_version

PendingFresh ==
    \A c \in Conns : Drawn(c) =>
        /\ \A k \in Keys : key_versions[k] # run[c].version
        /\ \A d \in Conns, k \in Keys : watched_keys[d][k] # run[c].version
        /\ \A d \in Conns \ {c} : Drawn(d) => run[d].version # run[c].version

VersionInv ==
    VersionTypes /\ VersionsDrawn /\ PendingFresh /\ VersionsDetectChanges

(* At the start nothing is watched and nothing was drawn. *)
LEMMA InitVersionInv == Init => VersionInv
  BY DEF Init, VersionInv, VersionTypes, VersionsDrawn, PendingFresh,
         VersionsDetectChanges, Drawn, WatchedBy, NotWatched, Resting, Run

(* A step of connection c that leaves the versions and the counter alone    *)
(* and draws nothing; what c watches stays as it is or is forgotten.        *)
Quiet(c) ==
    /\ UNCHANGED <<key_versions, global_version>>
    /\ run' = [run EXCEPT ![c] = run'[c]]
    /\ ~ Drawn(c)'
    /\ \/ UNCHANGED <<watched_keys, touched>>
       \/ ForgetWatched(c)

(* Such a step keeps the invariant: nothing new is drawn or recorded. *)
LEMMA QuietKeepsInv ==
  ASSUME NEW c \in Conns, VersionInv, Quiet(c)
  PROVE  VersionInv'
<1> USE DEF VersionInv, VersionTypes, Drawn
<1>2. /\ run' = [d \in Conns |-> run'[d]]
      /\ \A d \in Conns : Drawn(d)' => Drawn(d) /\ run'[d] = run[d]
  BY DEF Quiet
<1>3. CASE UNCHANGED <<watched_keys, touched>>
  <2>1. UNCHANGED <<key_versions, global_version, watched_keys, touched>>
    BY <1>3 DEF Quiet
  <2>2. VersionTypes' /\ VersionsDrawn' /\ PendingFresh'
    BY <1>2, <2>1 DEF VersionsDrawn, PendingFresh
  <2>3. VersionsDetectChanges'
    BY <2>1 DEF VersionsDetectChanges, WatchedBy
  <2> QED
    BY <2>2, <2>3
<1>4. CASE ForgetWatched(c)
  <2>1. UNCHANGED <<key_versions, global_version>>
    BY DEF Quiet
  <2>2. /\ watched_keys' = [watched_keys EXCEPT ![c] = [k \in Keys |-> NotWatched]]
        /\ touched' = [touched EXCEPT ![c] = {}]
    BY <1>4 DEF ForgetWatched
  <2>3. VersionTypes'
    BY <1>2, <2>1, <2>2
  <2>4. VersionsDrawn' /\ PendingFresh'
    BY <1>2, <2>1, <2>2 DEF VersionsDrawn, PendingFresh, NotWatched
  <2>5. VersionsDetectChanges'
    BY <2>1, <2>2 DEF VersionsDetectChanges, WatchedBy
  <2> QED
    BY <2>3, <2>4, <2>5
<1> QED
  BY <1>3, <1>4 DEF Quiet

(* WATCH reads a version that is no longer on its way to the registry. *)
LEMMA WatchKeyKeepsInv ==
  ASSUME NEW c \in Conns, NEW k \in Keys, VersionInv, WatchKey(c, k)
  PROVE  VersionInv'
<1> USE DEF VersionInv, VersionTypes, Drawn
<1>1. /\ UNCHANGED <<key_versions, global_version>>
      /\ watched_keys' = [watched_keys EXCEPT ![c][k] = key_versions[k]]
      /\ touched' = [touched EXCEPT ![c] = @ \ {k}]
  BY DEF WatchKey, shared
<1>2. /\ run' = [d \in Conns |-> run'[d]]
      /\ \A d \in Conns : Drawn(d)' => Drawn(d) /\ run'[d] = run[d]
  BY DEF WatchKey, Run
<1>3. VersionTypes'
  BY <1>1, <1>2
<1>4. VersionsDrawn' /\ PendingFresh'
  BY <1>1, <1>2 DEF VersionsDrawn, PendingFresh
<1>5. VersionsDetectChanges'
  BY <1>1 DEF VersionsDetectChanges, WatchedBy
<1> QED
  BY <1>3, <1>4, <1>5

(* The version drawn is larger than every version in use. *)
LEMMA DrawVersionKeepsInv ==
  ASSUME NEW c \in Conns, VersionInv, DrawVersion(c)
  PROVE  VersionInv'
<1> USE DEF VersionInv, VersionTypes, Drawn
<1>1. /\ UNCHANGED <<key_versions, watched_keys, touched>>
      /\ global_version' = global_version + 1
  BY DEF DrawVersion, history
<1>2. /\ run' = [d \in Conns |-> run'[d]]
      /\ run'[c].pc = "record" /\ run'[c].version = global_version
      /\ \A d \in Conns \ {c} : run'[d] = run[d]
  BY DEF DrawVersion, Run
<1>3. VersionTypes'
  BY <1>1, <1>2
<1>4. VersionsDrawn'
  <2>1. \A k \in Keys : key_versions[k] < global_version + 1
    BY DEF VersionsDrawn
  <2>2. \A d \in Conns, k \in Keys : watched_keys[d][k] < global_version + 1
    BY DEF VersionsDrawn, NotWatched
  <2>3. \A d \in Conns : Drawn(d)' => run'[d].version < global_version + 1
    BY <1>2 DEF VersionsDrawn
  <2> QED
    BY <1>1, <2>1, <2>2, <2>3 DEF VersionsDrawn
<1>5. PendingFresh'
  <2> SUFFICES ASSUME NEW d \in Conns, Drawn(d)'
               PROVE  /\ \A k \in Keys : key_versions[k] # run'[d].version
                      /\ \A e \in Conns, k \in Keys :
                            watched_keys[e][k] # run'[d].version
                      /\ \A e \in Conns \ {d} :
                            Drawn(e)' => run'[e].version # run'[d].version
    BY <1>1 DEF PendingFresh
  <2>1. CASE d = c
    <3>1. run'[d].version = global_version
      BY <1>2, <2>1
    <3>2. \A e \in Conns \ {d} : Drawn(e)' => run[e].version < global_version
                                           /\ run'[e] = run[e]
      BY <1>2, <2>1 DEF VersionsDrawn
    <3> QED
      BY <3>1, <3>2 DEF VersionsDrawn, NotWatched
  <2>2. CASE d # c
    <3>1. run'[d] = run[d] /\ Drawn(d) /\ run[d].version < global_version
      BY <1>2, <2>2 DEF VersionsDrawn
    <3>2. \A e \in Conns \ {d, c} : run'[e] = run[e]
      BY <1>2
    <3>3. run'[c].version # run'[d].version
      BY <1>2, <3>1
    <3> QED
      BY <3>1, <3>2, <3>3 DEF PendingFresh
  <2> QED
    BY <2>1, <2>2
<1>6. VersionsDetectChanges'
  BY <1>1 DEF VersionsDetectChanges, WatchedBy
<1> QED
  BY <1>3, <1>4, <1>5, <1>6

(* The version recorded is one that no watcher has seen. *)
LEMMA RecordVersionKeepsInv ==
  ASSUME NEW c \in Conns, VersionInv, RecordVersion(c)
  PROVE  VersionInv'
<1> USE DEF VersionInv, VersionTypes, Drawn
<1> DEFINE k == Head(run[c].todo).key
<1>1. /\ UNCHANGED <<global_version, watched_keys>>
      /\ Drawn(c)
      /\ key_versions' = [key_versions EXCEPT ![k] = run[c].version]
      /\ touched' = [d \in Conns |-> IF k \in WatchedBy(d)
                                     THEN touched[d] \cup {k} ELSE touched[d]]
  BY DEF RecordVersion, At
<1>2. /\ run' = [d \in Conns |-> run'[d]]
      /\ ~ Drawn(c)'
      /\ \A d \in Conns \ {c} : run'[d] = run[d]
  BY DEF RecordVersion, Run
<1> HIDE DEF k
<1>3. VersionTypes'
  BY <1>1, <1>2 DEF WatchedBy
<1>4. VersionsDrawn'
  BY <1>1, <1>2 DEF VersionsDrawn
<1>5. PendingFresh'
  <2> SUFFICES ASSUME NEW d \in Conns \ {c}, Drawn(d), run'[d] = run[d]
               PROVE  /\ \A x \in Keys : key_versions'[x] # run[d].version
                      /\ \A e \in Conns, x \in Keys :
                            watched_keys[e][x] # run[d].version
                      /\ \A e \in Conns \ {d} :
                            Drawn(e)' => run'[e].version # run[d].version
    BY <1>1, <1>2 DEF PendingFresh
  <2>1. run[c].version # run[d].version
    BY <1>1 DEF PendingFresh
  <2>2. \A x \in Keys : key_versions'[x] # run[d].version
    BY <1>1, <2>1 DEF PendingFresh
  <2>3. \A e \in Conns \ {d} : Drawn(e)' => run'[e] = run[e] /\ Drawn(e)
    BY <1>2
  <2> QED
    BY <2>2, <2>3 DEF PendingFresh
<1>6. VersionsDetectChanges'
  BY <1>1 DEF VersionsDetectChanges, WatchedBy, PendingFresh
<1> QED
  BY <1>3, <1>4, <1>5, <1>6

(* What a step leaves alone, apart from the record of its connection. *)
RunOnly(c) == run' = [run EXCEPT ![c] = run'[c]] /\ ~ Drawn(c)'

(* Every step is one of these. *)
LEMMA VersionStep ==
  ASSUME VersionInv, Next
  PROVE  VersionInv'
<1>1. PICK c \in Conns : Request(c) \/ Step(c)
  BY DEF Next
<1>2. run = [d \in Conns |-> run[d]]
  BY DEF VersionInv, VersionTypes
<1>3. CASE Request(c)
  <2>1. ASSUME Multi(c)
        PROVE  Quiet(c)
    <3>1. RunOnly(c)
      BY <1>2, <2>1 DEF Multi, RunOnly, Drawn, At
    <3>2. /\ UNCHANGED <<key_versions, global_version>>
          /\ UNCHANGED <<watched_keys, touched>> \/ ForgetWatched(c)
      BY <2>1 DEF Multi, shared, history
    <3> QED
      BY <3>1, <3>2 DEF Quiet, RunOnly
  <2>2. ASSUME Discard(c)
        PROVE  Quiet(c)
    <3>1. RunOnly(c)
      BY <1>2, <2>2 DEF Discard, RunOnly, Drawn, At
    <3>2. /\ UNCHANGED <<key_versions, global_version>>
          /\ UNCHANGED <<watched_keys, touched>> \/ ForgetWatched(c)
      BY <2>2 DEF Discard, shared
    <3> QED
      BY <3>1, <3>2 DEF Quiet, RunOnly
  <2>3. ASSUME Unwatch(c)
        PROVE  Quiet(c)
    <3>1. RunOnly(c)
      BY <1>2, <2>3 DEF Unwatch, RunOnly, Drawn, At
    <3>2. /\ UNCHANGED <<key_versions, global_version>>
          /\ UNCHANGED <<watched_keys, touched>> \/ ForgetWatched(c)
      BY <2>3 DEF Unwatch, shared
    <3> QED
      BY <3>1, <3>2 DEF Quiet, RunOnly
  <2>4. ASSUME Exec(c)
        PROVE  Quiet(c)
    <3>1. RunOnly(c)
      BY <1>2, <2>4 DEF Exec, RunOnly, Drawn, At, Run
    <3>2. /\ UNCHANGED <<key_versions, global_version>>
          /\ UNCHANGED <<watched_keys, touched>> \/ ForgetWatched(c)
      BY <2>4 DEF Exec, shared
    <3> QED
      BY <3>1, <3>2 DEF Quiet, RunOnly
  <2>5. ASSUME NEW keys, Watch(c, keys)
        PROVE  Quiet(c)
    <3>1. RunOnly(c)
      BY <1>2, <2>5 DEF Watch, RunOnly, Drawn, At, Run
    <3>2. /\ UNCHANGED <<key_versions, global_version>>
          /\ UNCHANGED <<watched_keys, touched>> \/ ForgetWatched(c)
      BY <2>5 DEF Watch, shared, history
    <3> QED
      BY <3>1, <3>2 DEF Quiet, RunOnly
  <2>6. ASSUME NEW cmd, Queue(c, cmd)
        PROVE  Quiet(c)
    <3>1. RunOnly(c)
      BY <1>2, <2>6 DEF Queue, RunOnly, Drawn, At
    <3>2. /\ UNCHANGED <<key_versions, global_version>>
          /\ UNCHANGED <<watched_keys, touched>> \/ ForgetWatched(c)
      BY <2>6 DEF Queue, shared, history
    <3> QED
      BY <3>1, <3>2 DEF Quiet, RunOnly
  <2>7. ASSUME NEW cmd, Execute(c, cmd)
        PROVE  Quiet(c)
    <3>1. RunOnly(c)
      BY <1>2, <2>7 DEF Execute, RunOnly, Drawn, At, Run
    <3>2. /\ UNCHANGED <<key_versions, global_version>>
          /\ UNCHANGED <<watched_keys, touched>> \/ ForgetWatched(c)
      BY <2>7 DEF Execute, shared, history
    <3> QED
      BY <3>1, <3>2 DEF Quiet, RunOnly
  <2> QED
    BY <1>3, <2>1, <2>2, <2>3, <2>4, <2>5, <2>6, <2>7, QuietKeepsInv
    DEF Request
<1>4. CASE Step(c)
  <2>1. ASSUME NEW k \in Keys, CheckKey(c, k)
        PROVE  Quiet(c)
    <3>1. RunOnly(c)
      BY <1>2, <2>1 DEF CheckKey, RunOnly, Drawn, At, Run
    <3>2. /\ UNCHANGED <<key_versions, global_version>>
          /\ UNCHANGED <<watched_keys, touched>> \/ ForgetWatched(c)
      BY <2>1 DEF CheckKey, shared, history
    <3> QED
      BY <3>1, <3>2 DEF Quiet, RunOnly
  <2>2. ASSUME NEW k \in Keys, Abort(c, k)
        PROVE  Quiet(c)
    <3>1. RunOnly(c)
      BY <1>2, <2>2 DEF Abort, RunOnly, Drawn, At, Resting, Run
    <3>2. /\ UNCHANGED <<key_versions, global_version>>
          /\ UNCHANGED <<watched_keys, touched>> \/ ForgetWatched(c)
      BY <2>2 DEF Abort, shared
    <3> QED
      BY <3>1, <3>2 DEF Quiet, RunOnly
  <2>3. ASSUME Drain(c)
        PROVE  Quiet(c)
    <3>1. RunOnly(c)
      BY <1>2, <2>3 DEF Drain, RunOnly, Drawn, At, Run
    <3>2. /\ UNCHANGED <<key_versions, global_version>>
          /\ UNCHANGED <<watched_keys, touched>> \/ ForgetWatched(c)
      BY <2>3 DEF Drain, shared, history
    <3> QED
      BY <3>1, <3>2 DEF Quiet, RunOnly
  <2>4. ASSUME Write(c)
        PROVE  Quiet(c)
    <3>1. RunOnly(c)
      BY <1>2, <2>4 DEF Write, RunOnly, Drawn, At, Run
    <3>2. /\ UNCHANGED <<key_versions, global_version>>
          /\ UNCHANGED <<watched_keys, touched>> \/ ForgetWatched(c)
      BY <2>4 DEF Write, shared
    <3> QED
      BY <3>1, <3>2 DEF Quiet, RunOnly
  <2>5. ASSUME EndExecute(c)
        PROVE  Quiet(c)
    <3>1. RunOnly(c)
      BY <1>2, <2>5 DEF EndExecute, RunOnly, Drawn, At, Resting, Run
    <3>2. /\ UNCHANGED <<key_versions, global_version>>
          /\ UNCHANGED <<watched_keys, touched>> \/ ForgetWatched(c)
      BY <2>5 DEF EndExecute, shared, history
    <3> QED
      BY <3>1, <3>2 DEF Quiet, RunOnly
  <2>6. ASSUME EndExec(c)
        PROVE  Quiet(c)
    <3>1. RunOnly(c)
      BY <1>2, <2>6 DEF EndExec, RunOnly, Drawn, At, Resting, Run
    <3>2. /\ UNCHANGED <<key_versions, global_version>>
          /\ UNCHANGED <<watched_keys, touched>> \/ ForgetWatched(c)
      BY <2>6 DEF EndExec, shared
    <3> QED
      BY <3>1, <3>2 DEF Quiet, RunOnly
  <2> QED
    BY <1>4, <2>1, <2>2, <2>3, <2>4, <2>5, <2>6, QuietKeepsInv,
       WatchKeyKeepsInv, DrawVersionKeepsInv, RecordVersionKeepsInv DEF Step
<1> QED
  BY <1>1, <1>3, <1>4

(* A stuttering step keeps everything. *)
LEMMA VersionStutter == VersionInv /\ UNCHANGED vars => VersionInv'
  BY DEF vars, VersionInv, VersionTypes, VersionsDrawn, PendingFresh,
         VersionsDetectChanges, Drawn, WatchedBy

(* Comparing the versions tells exactly whether a modification was recorded *)
(* since WATCH, however the two halves of notify_key_modified of several    *)
(* writers interleave with each other and with the reads of WATCH and EXEC  *)
(* (watch_registry.rs).                                                     *)
THEOREM WatchHasNoABA == Spec => []VersionsDetectChanges
<1>1. VersionInv /\ [Next]_vars => VersionInv'
  BY VersionStep, VersionStutter
<1>2. VersionInv => VersionsDetectChanges
  BY DEF VersionInv
<1> QED
  BY InitVersionInv, <1>1, <1>2, PTL DEF Spec

----------------------------------------------------------------------------
(* A transaction whose keys changed before EXEC never runs. *)

(* What the check still has to find: each key recorded as modified before   *)
(* EXEC is still recorded so and still to be checked.                       *)
DoomedAt(c) ==
    /\ touched[c] \subseteq WatchedBy(c)
    /\ run[c].pc = "check" => doomed[c] \subseteq run[c].keys \cap touched[c]
    /\ (run[c].exec /\ run[c].pc # "check") => doomed[c] = {}

DoomedInv ==
    /\ doomed = [c \in Conns |-> doomed[c]]
    /\ \A c \in Conns : DoomedAt(c)

(* Initially no key is watched. *)
LEMMA InitDoomedInv == Init => DoomedInv
  BY DEF Init, DoomedInv, DoomedAt, WatchedBy, NotWatched, Resting, Run

(* What a step of one connection may do to another: record that a key it    *)
(* watches was modified, and nothing else.                                  *)
Undisturbed(d) ==
    /\ run'[d] = run[d]
    /\ doomed'[d] = doomed[d]
    /\ watched_keys'[d] = watched_keys[d]
    /\ touched[d] \subseteq touched'[d]
    /\ touched'[d] \subseteq touched[d] \cup WatchedBy(d)

(* It is enough for the invariant of the other connection. *)
LEMMA UndisturbedKeepsDoomedAt ==
  ASSUME NEW d, DoomedAt(d), Undisturbed(d)
  PROVE  DoomedAt(d)'
<1>1. WatchedBy(d)' = WatchedBy(d)
  BY DEF Undisturbed, WatchedBy
<1> QED
  BY <1>1 DEF Undisturbed, DoomedAt

(* Only the connection's own steps touch its run and its watched keys. *)
LEMMA OthersUndisturbed ==
  ASSUME VersionInv, DoomedInv, NEW c \in Conns, Request(c) \/ Step(c),
         NEW d \in Conns \ {c}
  PROVE  Undisturbed(d)
<1> USE DEF VersionInv, VersionTypes, DoomedInv
<1>1. CASE Request(c)
  <2>1. CASE Multi(c) \/ Discard(c) \/ Unwatch(c) \/ Exec(c)
    BY <2>1 DEF Multi, Discard, Unwatch, Exec, ForgetWatched, history,
                Undisturbed
  <2>2. ASSUME NEW keys, Watch(c, keys)
        PROVE  Undisturbed(d)
    BY <2>2 DEF Watch, history, Undisturbed
  <2>3. ASSUME NEW cmd, Queue(c, cmd) \/ Execute(c, cmd)
        PROVE  Undisturbed(d)
    BY <2>3 DEF Queue, Execute, history, Undisturbed
  <2> QED
    BY <1>1, <2>1, <2>2, <2>3 DEF Request
<1>2. CASE Step(c)
  <2>1. ASSUME NEW k \in Keys, WatchKey(c, k) \/ CheckKey(c, k) \/ Abort(c, k)
        PROVE  Undisturbed(d)
    BY <2>1 DEF WatchKey, CheckKey, Abort, ForgetWatched, history, Undisturbed
  <2>2. CASE Drain(c) \/ Write(c) \/ DrawVersion(c)
    BY <2>2 DEF Drain, Write, DrawVersion, history, Undisturbed
  <2>3. CASE RecordVersion(c)
    BY <2>3 DEF RecordVersion, Undisturbed
  <2>4. CASE EndExecute(c) \/ EndExec(c)
    BY <2>4 DEF EndExecute, EndExec, ForgetWatched, history, Undisturbed
  <2> QED
    BY <1>2, <2>1, <2>2, <2>3, <2>4 DEF Step
<1> QED
  BY <1>1, <1>2

(* The history of doomed keys keeps its domain. *)
LEMMA DoomedIsFunction ==
  ASSUME DoomedInv, NEW c \in Conns, Request(c) \/ Step(c)
  PROVE  doomed' = [d \in Conns |-> doomed'[d]]
<1>1. \/ UNCHANGED doomed
      \/ \E S : doomed' = [doomed EXCEPT ![c] = S]
  BY DEF Request, Step, Multi, Discard, Unwatch, Exec, Watch, Queue, Execute,
         WatchKey, CheckKey, Abort, Drain, Write, DrawVersion, RecordVersion,
         EndExecute, EndExec, ForgetWatched, history
<1> QED
  BY <1>1 DEF DoomedInv

(* A connection's own requests: EXEC takes what is recorded so far. *)
LEMMA RequestKeepsDoomedAt ==
  ASSUME VersionInv, DoomedInv, NEW c \in Conns, Request(c)
  PROVE  DoomedAt(c)'
<1> USE DEF VersionInv, VersionTypes, DoomedInv
<1>0. DoomedAt(c)
  OBVIOUS
<1>1. CASE Multi(c)
  BY <1>0, <1>1 DEF Multi, history, DoomedAt, WatchedBy
<1>2. CASE Discard(c) \/ Unwatch(c)
  <2>1. run[c].pc = "idle" /\ UNCHANGED run
    BY <1>2 DEF Discard, Unwatch, At
  <2>2. doomed'[c] = {} /\ touched'[c] = {}
    BY <1>2 DEF Discard, Unwatch, ForgetWatched
  <2> QED
    BY <2>1, <2>2 DEF DoomedAt
<1>3. CASE Exec(c)
  <2>1. run'[c].pc = "check" /\ run'[c].keys = WatchedBy(c)
    BY <1>3 DEF Exec, Run
  <2>2. /\ doomed'[c] = touched[c]
        /\ UNCHANGED <<watched_keys, touched>>
    BY <1>3 DEF Exec
  <2> QED
    BY <1>0, <2>1, <2>2 DEF DoomedAt, WatchedBy
<1>4. ASSUME NEW keys, Watch(c, keys)
      PROVE  DoomedAt(c)'
  <2>1. run'[c].pc = "watch" /\ ~ run'[c].exec
    BY <1>4 DEF Watch, Run
  <2> QED
    BY <1>0, <1>4, <2>1 DEF Watch, history, DoomedAt, WatchedBy
<1>5. ASSUME NEW cmd, Queue(c, cmd)
      PROVE  DoomedAt(c)'
  BY <1>0, <1>5 DEF Queue, history, DoomedAt, WatchedBy
<1>6. ASSUME NEW cmd, Execute(c, cmd)
      PROVE  DoomedAt(c)'
  <2>1. run'[c].pc = "run" /\ ~ run'[c].exec
    BY <1>6 DEF Execute, Run
  <2> QED
    BY <1>0, <1>6, <2>1 DEF Execute, history, DoomedAt, WatchedBy
<1> QED
  BY <1>1, <1>2, <1>3, <1>4, <1>5, <1>6 DEF Request

(* A connection's own steps: a key that passes the check is not a doomed    *)
(* one, because equal versions mean that nothing was recorded.              *)
LEMMA StepKeepsDoomedAt ==
  ASSUME VersionInv, DoomedInv, NEW c \in Conns, Step(c)
  PROVE  DoomedAt(c)'
<1> USE DEF VersionInv, VersionTypes, DoomedInv
<1>0. DoomedAt(c)
  OBVIOUS
<1>1. ASSUME NEW k \in Keys, WatchKey(c, k)
      PROVE  DoomedAt(c)'
  <2>1. run'[c].pc # "check" /\ ~ run'[c].exec
    BY <1>1 DEF WatchKey, Run
  <2>2. /\ watched_keys' = [watched_keys EXCEPT ![c][k] = key_versions[k]]
        /\ touched' = [touched EXCEPT ![c] = @ \ {k}]
    BY <1>1 DEF WatchKey
  <2>3. touched'[c] \subseteq WatchedBy(c)'
    BY <1>0, <2>2 DEF DoomedAt, WatchedBy
  <2> QED
    BY <2>1, <2>3 DEF DoomedAt
<1>2. ASSUME NEW k \in Keys, CheckKey(c, k)
      PROVE  DoomedAt(c)'
  <2>1. /\ run[c].pc = "check"
        /\ run'[c].pc = "check"
        /\ run'[c].keys = run[c].keys \ {k}
        /\ UNCHANGED <<watched_keys, touched, doomed>>
    BY <1>2 DEF CheckKey, At, Run, history
  <2>2. k \notin touched[c]
    BY <1>0, <1>2 DEF CheckKey, DoomedAt, VersionsDetectChanges
  <2> QED
    BY <1>0, <2>1, <2>2 DEF DoomedAt, WatchedBy
<1>3. CASE EndExec(c) \/ \E k \in Keys : Abort(c, k)
  <2>1. ~ run'[c].exec /\ run'[c].pc = "idle"
    BY <1>3 DEF Abort, EndExec, Resting, Run
  <2>2. doomed'[c] = {} /\ touched'[c] = {}
    BY <1>3 DEF Abort, EndExec, ForgetWatched
  <2> QED
    BY <2>1, <2>2 DEF DoomedAt
<1>4. CASE Drain(c)
  <2>1. /\ run[c].pc = "check" /\ run[c].keys = {}
        /\ run'[c].pc = "run"
        /\ UNCHANGED <<watched_keys, touched, doomed>>
    BY <1>4 DEF Drain, At, Run, history
  <2> QED
    BY <1>0, <2>1 DEF DoomedAt, WatchedBy
<1>5. CASE Write(c) \/ DrawVersion(c) \/ EndExecute(c)
  <2>1. /\ run[c].pc # "check" /\ run'[c].pc # "check"
        /\ run'[c].exec => run[c].exec
        /\ UNCHANGED <<watched_keys, touched, doomed>>
    BY <1>5 DEF Write, DrawVersion, EndExecute, At, Run, Resting, history
  <2> QED
    BY <1>0, <2>1 DEF DoomedAt, WatchedBy
<1>6. CASE RecordVersion(c)
  <2>1. /\ run[c].pc # "check" /\ run'[c].pc # "check"
        /\ run'[c].exec => run[c].exec
        /\ UNCHANGED <<watched_keys, doomed>>
        /\ touched'[c] \subseteq touched[c] \cup WatchedBy(c)
    BY <1>6 DEF RecordVersion, At, Run
  <2> QED
    BY <1>0, <2>1 DEF DoomedAt, WatchedBy
<1> QED
  BY <1>1, <1>2, <1>3, <1>4, <1>5, <1>6 DEF Step

(* Versions and doomed keys together are inductive. *)
LEMMA CheckInvariant == Spec => [](VersionInv /\ DoomedInv)
<1>1. Init => VersionInv /\ DoomedInv
  BY InitVersionInv, InitDoomedInv
<1>2. VersionInv /\ DoomedInv /\ [Next]_vars => (VersionInv /\ DoomedInv)'
  <2> SUFFICES ASSUME VersionInv, DoomedInv, [Next]_vars
               PROVE  (VersionInv /\ DoomedInv)'
    OBVIOUS
  <2>1. CASE Next
    <3>1. PICK c \in Conns : Request(c) \/ Step(c)
      BY <2>1 DEF Next
    <3>2. \A d \in Conns \ {c} : DoomedAt(d)'
      BY <3>1, OthersUndisturbed, UndisturbedKeepsDoomedAt DEF DoomedInv
    <3>3. DoomedAt(c)'
      BY <3>1, RequestKeepsDoomedAt, StepKeepsDoomedAt
    <3>4. doomed' = [d \in Conns |-> doomed'[d]]
      BY <3>1, DoomedIsFunction
    <3> QED
      BY <2>1, <3>2, <3>3, <3>4, VersionStep DEF DoomedInv
  <2>2. CASE UNCHANGED vars
    <3>1. VersionInv'
      BY <2>2, VersionStutter
    <3>2. DoomedInv'
      BY <2>2 DEF vars, DoomedInv, DoomedAt, WatchedBy
    <3> QED
      BY <3>1, <3>2
  <2> QED
    BY <2>1, <2>2
<1> QED
  BY <1>1, <1>2, PTL DEF Spec

(* A transaction never runs when a modification of a watched key was        *)
(* recorded before EXEC arrived, however many keys it watches and whatever  *)
(* other connections write while they are checked one by one                *)
(* (check_keys_unchanged, watch_registry.rs; EXEC, connection.rs).          *)
THEOREM RecordedChangeAborts == Spec => []NoRunWhenDoomed
<1>1. DoomedInv => NoRunWhenDoomed
  BY DEF DoomedInv, DoomedAt, NoRunWhenDoomed
<1> QED
  BY <1>1, CheckInvariant, PTL

----------------------------------------------------------------------------
(* What a transaction can miss. *)

(* Connection d has stored key k and its version is not recorded yet. *)
UnderWay(d, k) ==
    /\ At(d, "draw") \/ At(d, "record")
    /\ Head(run[d].todo).key = k

(* A key that somebody else has written is recorded as modified, or going   *)
(* to be.                                                                   *)
DirtyAt(c) ==
    /\ dirty[c] \subseteq WatchedBy(c)
    /\ \A k \in dirty[c] :
          k \in touched[c] \/ \E d \in Conns \ {c} : UnderWay(d, k)

DirtyInv ==
    /\ dirty = [c \in Conns |-> dirty[c]]
    /\ \A c \in Conns : DirtyAt(c)

LEMMA InitDirtyInv == Init => DirtyInv
  BY DEF Init, DirtyInv, DirtyAt

(* A step of a connection that does not write leaves what the others have   *)
(* written under way, and forgets of the keys of its own what is no longer  *)
(* watched.                                                                 *)
LEMMA UnwrittenKeepsDirty ==
  ASSUME VersionInv, DirtyInv, NEW c \in Conns,
         ~ At(c, "draw"), ~ At(c, "record"),
         run' = [run EXCEPT ![c] = run'[c]],
         \/ UNCHANGED <<watched_keys, touched, dirty>>
         \/ ForgetWatched(c)
         \/ \E k \in Keys :
               /\ watched_keys' = [watched_keys EXCEPT ![c][k] = key_versions[k]]
               /\ touched' = [touched EXCEPT ![c] = @ \ {k}]
               /\ dirty' = [dirty EXCEPT ![c] = @ \ {k}]
  PROVE  DirtyInv'
<1> USE DEF VersionInv, VersionTypes, DirtyInv
<1>1. \A d \in Conns : \A k : UnderWay(d, k) => UnderWay(d, k)'
  BY DEF UnderWay, At
<1>2. CASE UNCHANGED <<watched_keys, touched, dirty>>
  BY <1>1, <1>2 DEF DirtyAt, WatchedBy
<1>3. CASE ForgetWatched(c)
  <2>1. /\ watched_keys' = [watched_keys EXCEPT ![c] = [k \in Keys |-> NotWatched]]
        /\ touched' = [touched EXCEPT ![c] = {}]
        /\ dirty' = [dirty EXCEPT ![c] = {}]
    BY <1>3 DEF ForgetWatched
  <2>2. \A d \in Conns : DirtyAt(d)'
    BY <1>1, <2>1 DEF DirtyAt, WatchedBy
  <2> QED
    BY <2>1, <2>2
<1>4. ASSUME NEW k \in Keys,
             watched_keys' = [watched_keys EXCEPT ![c][k] = key_versions[k]],
             touched' = [touched EXCEPT ![c] = @ \ {k}],
             dirty' = [dirty EXCEPT ![c] = @ \ {k}]
      PROVE  DirtyInv'
  <2>1. \A d \in Conns : WatchedBy(d) \subseteq WatchedBy(d)'
    BY <1>4 DEF WatchedBy, NotWatched
  <2>2. \A d \in Conns : DirtyAt(d)'
    BY <1>1, <1>4, <2>1 DEF DirtyAt
  <2> QED
    BY <1>4, <2>2
<1> QED
  BY <1>2, <1>3, <1>4

(* The three steps of a write: the key becomes dirty for its watchers when  *)
(* it is stored, and is touched for all of them when it is recorded.        *)
LEMMA WritingKeepsDirty ==
  ASSUME VersionInv, DirtyInv, NEW c \in Conns,
         Write(c) \/ DrawVersion(c) \/ RecordVersion(c)
  PROVE  DirtyInv'
<1> USE DEF VersionInv, VersionTypes, DirtyInv
<1>1. CASE Write(c)
  <2>0. PICK u : u = Head(run[c].todo)
    OBVIOUS
  <2>1. \A d \in Conns : \A k : UnderWay(d, k) => UnderWay(d, k)'
    BY <1>1 DEF Write, UnderWay, At
  <2>2. Notifies(u) => UnderWay(c, u.key)'
    BY <1>1, <2>0 DEF Write, UnderWay, At, Run
  <2>3. /\ UNCHANGED <<watched_keys, touched>>
        /\ dirty' = [d \in Conns |->
               IF d # c /\ Notifies(u) /\ u.key \in WatchedBy(d)
               THEN dirty[d] \cup {u.key} ELSE dirty[d]]
    BY <1>1, <2>0 DEF Write, Notifies, Succeeds
  <2>4. ASSUME NEW d \in Conns
        PROVE  DirtyAt(d)'
    <3>1. WatchedBy(d)' = WatchedBy(d) /\ touched'[d] = touched[d]
      BY <2>3 DEF WatchedBy
    <3>2. \/ dirty'[d] = dirty[d]
          \/ /\ dirty'[d] = dirty[d] \cup {u.key} /\ u.key \in WatchedBy(d)
             /\ d # c /\ Notifies(u)
      BY <2>3
    <3>3. DirtyAt(d)
      OBVIOUS
    <3>4. ASSUME NEW k \in dirty'[d]
          PROVE  k \in touched'[d] \/ \E e \in Conns \ {d} : UnderWay(e, k)'
      <4>1. CASE k \in dirty[d]
        BY <2>1, <3>1, <3>3, <4>1 DEF DirtyAt
      <4>2. CASE k \notin dirty[d]
        BY <2>2, <3>2, <4>2
      <4> QED
        BY <4>1, <4>2
    <3> QED
      BY <3>1, <3>2, <3>3, <3>4 DEF DirtyAt
  <2> QED
    BY <2>3, <2>4
<1>2. CASE DrawVersion(c)
  <2>1. \A d \in Conns : \A k : UnderWay(d, k) => UnderWay(d, k)'
    BY <1>2 DEF DrawVersion, UnderWay, At, Run
  <2>2. UNCHANGED <<watched_keys, touched, dirty>>
    BY <1>2 DEF DrawVersion, history
  <2> QED
    BY <2>1, <2>2 DEF DirtyAt, WatchedBy
<1>3. CASE RecordVersion(c)
  <2>0. PICK key : key = Head(run[c].todo).key
    OBVIOUS
  <2>1. \A d \in Conns : \A k : UnderWay(d, k) => UnderWay(d, k)' \/ k = key
    BY <1>3, <2>0 DEF RecordVersion, UnderWay, At
  <2>2. /\ UNCHANGED <<watched_keys, dirty>>
        /\ touched' = [d \in Conns |-> IF key \in WatchedBy(d)
                                       THEN touched[d] \cup {key} ELSE touched[d]]
    BY <1>3, <2>0 DEF RecordVersion
  <2> QED
    BY <2>1, <2>2 DEF DirtyAt, WatchedBy
<1> QED
  BY <1>1, <1>2, <1>3

(* All other steps change nothing, or begin or end with a clean slate. *)
LEMMA StepKeepsDirty ==
  ASSUME VersionInv, DirtyInv, NEW c \in Conns, Request(c) \/ Step(c)
  PROVE  DirtyInv'
<1>1. CASE Request(c)
  <2>1. ~ At(c, "draw") /\ ~ At(c, "record")
    BY <1>1 DEF Request, Multi, Discard, Unwatch, Exec, Watch, Queue, Execute, At
  <2>2. run' = [run EXCEPT ![c] = run'[c]]
    BY <1>1 DEF Request, Multi, Discard, Unwatch, Exec, Watch, Queue, Execute,
                VersionInv, VersionTypes
  <2>3. UNCHANGED <<watched_keys, touched, dirty>> \/ ForgetWatched(c)
    BY <1>1 DEF Request, Multi, Discard, Unwatch, Exec, Watch, Queue, Execute,
                history
  <2> QED
    BY <2>1, <2>2, <2>3, UnwrittenKeepsDirty
<1>2. CASE \/ \E k \in Keys : WatchKey(c, k) \/ CheckKey(c, k) \/ Abort(c, k)
           \/ Drain(c) \/ EndExecute(c) \/ EndExec(c)
  <2>1. ~ At(c, "draw") /\ ~ At(c, "record")
    BY <1>2 DEF WatchKey, CheckKey, Abort, Drain, EndExecute, EndExec, At
  <2>2. run' = [run EXCEPT ![c] = run'[c]]
    BY <1>2 DEF WatchKey, CheckKey, Abort, Drain, EndExecute, EndExec,
                VersionInv, VersionTypes
  <2>3. \/ UNCHANGED <<watched_keys, touched, dirty>>
        \/ ForgetWatched(c)
        \/ \E k \in Keys :
              /\ watched_keys' = [watched_keys EXCEPT ![c][k] = key_versions[k]]
              /\ touched' = [touched EXCEPT ![c] = @ \ {k}]
              /\ dirty' = [dirty EXCEPT ![c] = @ \ {k}]
    BY <1>2 DEF WatchKey, CheckKey, Abort, Drain, EndExecute, EndExec, history
  <2> QED
    BY <2>1, <2>2, <2>3, UnwrittenKeepsDirty
<1> QED
  BY <1>1, <1>2, WritingKeepsDirty DEF Step

(* EXEC overlooks only what is recorded after it arrived and what is stored *)
(* and still to be recorded, whatever the other connections run meanwhile   *)
(* (connection.rs, EXEC; executor.rs, the store before the notification).   *)
THEOREM MissesOnlyInWindow == Spec => []MissedOnlyInWindow
<1>1. VersionInv /\ DirtyInv /\ [Next]_vars => DirtyInv'
  <2>1. ASSUME DirtyInv, UNCHANGED vars PROVE DirtyInv'
    BY <2>1 DEF vars, DirtyInv, DirtyAt, UnderWay, WatchedBy, At
  <2> QED
    BY <2>1, StepKeepsDirty DEF Next
<1>2. DoomedInv /\ DirtyInv => MissedOnlyInWindow
  BY DEF DoomedInv, DoomedAt, DirtyInv, DirtyAt, UnderWay, MissedOnlyInWindow, At
<1> QED
  BY <1>1, <1>2, InitDirtyInv, CheckInvariant, PTL DEF Spec
=============================================================================
