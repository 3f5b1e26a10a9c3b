---------------------------- MODULE HashesProofs ----------------------------
(* HLEN reports a count the hash had while the command ran, for any number  *)
(* of workers, hashes, fields and commands, refused writes and restarts     *)
(* included.                                                                *)
EXTENDS Hashes, DataLemmas

(* The types of what the workers share, and of what each has of its own. *)
SharedTypes ==
    /\ fields \in [Keys -> SUBSET Fields]
    /\ meta \in [Keys -> Int]
    /\ pending \in [Keys -> Int]
    /\ drift \in [Keys -> Int]

LocalTypes ==
    /\ pc \in [Workers -> Labels]
    /\ onKey \in [Workers -> Keys]
    /\ todo \in [Workers -> Seq(Fields)]
    /\ delta \in [Workers -> Int]
    /\ resume \in [Workers -> {"idle", "read", "store"}]

(* Where a command goes after the tracker fits where it is now; HINCRBY     *)
(* keeps its field to the end.                                              *)
Placed(w) ==
    /\ pc[w] \in {"set", "del"} => resume[w] = "idle" /\ todo[w] # <<>>
    /\ pc[w] = "add" => delta[w] # 0
    /\ pc[w] \in {"get", "store"} => resume[w] = "store"
    /\ resume[w] = "store" => todo[w] # <<>>
    /\ resume[w] = "read" => pc[w] \in {"flush", "read"}
    /\ pc[w] = "read" => resume[w] = "read"

(* A HLEN that has flushed reads the stored count, which any flush may      *)
(* replace by the recorded count meanwhile: both must be counts the hash    *)
(* had.                                                                     *)
Fresh(w) ==
    resume[w] = "read" =>
        /\ Recorded(onKey[w]) \in answered[w]
        /\ pc[w] = "read" => meta[onKey[w]] \in answered[w]

(* The inductive invariant. *)
IInv ==
    /\ SharedTypes
    /\ LocalTypes
    /\ answered \in [Workers -> SUBSET Int]
    /\ \A w \in Workers : Placed(w)
    /\ \A w \in Workers : Fresh(w)

(* Only the worker's own locals change in a step of the worker. *)
Elsewhere(w) ==
    \A v \in Workers \ {w} :
        /\ pc'[v] = pc[v]
        /\ onKey'[v] = onKey[v]
        /\ todo'[v] = todo[v]
        /\ delta'[v] = delta[v]
        /\ resume'[v] = resume[v]

(* The worker goes on, or finishes, and the others stay where they are. *)
LEMMA GoToMoves ==
    ASSUME LocalTypes, NEW w \in Workers, NEW label \in Labels, GoTo(w, label)
    PROVE  /\ LocalTypes'
           /\ Elsewhere(w)
           /\ pc'[w] = label
           /\ onKey'[w] = onKey[w]
           /\ label # "idle" => /\ todo'[w] = todo[w]
                                /\ delta'[w] = delta[w]
                                /\ resume'[w] = resume[w]
           /\ label = "idle" => resume'[w] = "idle"
<1>1. CASE label = "idle"
  <2>1. <<>> \in Seq(Fields) /\ 0 \in Int
    OBVIOUS
  <2>2. LocalTypes'
    BY <1>1, <2>1 DEF LocalTypes, GoTo
  <2>3. Elsewhere(w)
    BY <1>1 DEF LocalTypes, GoTo, Elsewhere
  <2>4. pc'[w] = label /\ onKey'[w] = onKey[w] /\ resume'[w] = "idle"
    BY <1>1 DEF LocalTypes, GoTo
  <2>. QED BY <1>1, <2>2, <2>3, <2>4
<1>2. CASE label # "idle"
  BY <1>2 DEF LocalTypes, GoTo, Elsewhere, locals
<1>. QED BY <1>1, <1>2

(* A command starts. *)
LEMMA StartMoves ==
    ASSUME LocalTypes, NEW w \in Workers, NEW k \in Keys, NEW label \in Labels,
           NEW args \in Seq(Fields), NEW amount \in Int,
           NEW back \in {"idle", "read", "store"},
           Start(w, k, label, args, amount, back)
    PROVE  /\ LocalTypes'
           /\ Elsewhere(w)
           /\ pc'[w] = label /\ onKey'[w] = k /\ todo'[w] = args
           /\ delta'[w] = amount /\ resume'[w] = back
BY DEF LocalTypes, Start, Elsewhere

(* What holds of a worker still holds if its locals have not changed. *)
LEMMA PlacedElsewhere ==
    ASSUME NEW w \in Workers, Elsewhere(w), \A v \in Workers : Placed(v),
           Placed(w)'
    PROVE  \A v \in Workers : Placed(v)'
BY DEF Placed, Elsewhere

(* A step that records what the counts are now keeps what each HLEN has     *)
(* seen in line with what it will read.                                     *)
LEMMA WitnessKeepsFresh ==
    ASSUME IInv, SharedTypes', LocalTypes', Witness, NEW w \in Workers,
           Elsewhere(w),
           \A k \in Keys : meta'[k] \in {meta[k], Recorded(k), Recorded(k)'},
           resume'[w] = "read" /\ pc'[w] = "read" =>
                meta'[onKey'[w]] = Recorded(onKey[w])'
    PROVE  answered' \in [Workers -> SUBSET Int] /\ \A v \in Workers : Fresh(v)'
<1>1. \A k \in Keys : Recorded(k)' \in Int
  BY DEF SharedTypes, Recorded
<1>2. \A v \in Workers : onKey'[v] \in Keys
  BY DEF LocalTypes
<1>3. \A v \in Workers :
         Recorded(onKey[v])' = meta'[onKey'[v]] + pending'[onKey'[v]]
  BY DEF Recorded
<1>4. answered' \in [Workers -> SUBSET Int]
  BY <1>1, <1>2, <1>3 DEF IInv, Witness, Recorded
<1>5. \A v \in Workers :
         resume'[v] = "read" =>
            answered'[v] = answered[v] \cup {Recorded(onKey[v])'}
  BY DEF Witness
<1>6. Fresh(w)'
  BY <1>5 DEF Fresh
<1>7. ASSUME NEW v \in Workers \ {w}
      PROVE  Fresh(v)'
  <2>1. resume'[v] = resume[v] /\ pc'[v] = pc[v] /\ onKey'[v] = onKey[v]
    BY DEF Elsewhere
  <2>2. Fresh(v) /\ onKey[v] \in Keys
    BY <1>7 DEF IInv, LocalTypes
  <2>3. meta'[onKey[v]] \in {meta[onKey[v]], Recorded(onKey[v]),
                             meta'[onKey[v]] + pending'[onKey[v]]}
    BY <2>2 DEF Recorded
  <2>. QED BY <1>3, <1>5, <2>1, <2>2, <2>3 DEF Fresh
<1>. QED BY <1>4, <1>6, <1>7

(* A step that changes no count leaves those that read counts alone. *)
LEMMA QuietKeepsFresh ==
    ASSUME IInv, NEW w \in Workers, Elsewhere(w),
           UNCHANGED <<meta, pending>>,
           answered' \in [Workers -> SUBSET Int],
           \A v \in Workers \ {w} : answered'[v] = answered[v],
           resume'[w] # "read"
    PROVE  \A v \in Workers : Fresh(v)'
BY DEF IInv, Elsewhere, Fresh, Recorded

(* Arguments are sequences of fields that name at least one. *)
LEMMA ArgumentsAreSequences ==
    \A args \in Arguments : args \in Seq(Fields) /\ args # <<>>
<1>1. SUFFICES ASSUME NEW n \in 1 .. MaxArgs, NEW args \in [1 .. n -> Fields]
               PROVE  args \in Seq(Fields) /\ args # <<>>
  BY DEF Arguments
<1>2. n \in Nat /\ n >= 1
  BY HashBoundsAssumption
<1>3. args \in Seq(Fields) /\ Len(args) = n
  BY <1>2
<1>. QED BY <1>2, <1>3

(* The commands start. *)
LEMMA RequestPreserves ==
    ASSUME IInv, NEW w \in Workers, Request(w)
    PROVE  IInv'
<1>. PICK k \in Keys :
        \/ \E args \in Arguments : BeginHSet(w, k, args) \/ BeginHDel(w, k, args)
        \/ \E f \in Fields : BeginHIncrBy(w, k, f)
        \/ BeginHLen(w, k)
  BY DEF Request
<1>. USE DEF IInv
<1>1. ASSUME NEW args \in Arguments, BeginHSet(w, k, args) \/ BeginHDel(w, k, args)
      PROVE  IInv'
  <2>1. PICK label \in {"set", "del"} : Start(w, k, label, args, 0, "idle")
    BY <1>1 DEF BeginHSet, BeginHDel
  <2>2. args \in Seq(Fields) /\ args # <<>>
    BY ArgumentsAreSequences
  <2>3. UNCHANGED <<store, pending, drift, answered>>
    BY <1>1 DEF BeginHSet, BeginHDel, Start
  <2>4. label \in Labels
    BY DEF Labels
  <2>5. /\ LocalTypes' /\ Elsewhere(w) /\ pc'[w] = label /\ todo'[w] = args
        /\ resume'[w] = "idle"
    BY <2>1, <2>2, <2>4, StartMoves
  <2>6. Placed(w)' /\ SharedTypes'
    BY <2>2, <2>3, <2>5 DEF Placed, SharedTypes, store
  <2>7. \A v \in Workers : Placed(v)'
    BY <2>5, <2>6, PlacedElsewhere
  <2>8. \A v \in Workers : Fresh(v)'
    BY <2>3, <2>5, QuietKeepsFresh DEF store
  <2>. QED BY <2>3, <2>5, <2>6, <2>7, <2>8
<1>2. ASSUME NEW f \in Fields, BeginHIncrBy(w, k, f)
      PROVE  IInv'
  <2>1. <<f>> \in Seq(Fields) /\ <<f>> # <<>>
    OBVIOUS
  <2>2. PICK label \in {"get", "add"}, amount \in {0, 1}, args \in Seq(Fields) :
            /\ Start(w, k, label, args, amount, "store")
            /\ args # <<>>
            /\ label = "add" => amount = 1
    BY <1>2, <2>1 DEF BeginHIncrBy
  <2>3. UNCHANGED <<store, pending, drift, answered>>
    BY <1>2 DEF BeginHIncrBy, Start
  <2>4. label \in Labels /\ amount \in Int
    BY DEF Labels
  <2>5. /\ LocalTypes' /\ Elsewhere(w) /\ pc'[w] = label /\ todo'[w] = args
        /\ delta'[w] = amount /\ resume'[w] = "store"
    BY <2>2, <2>4, StartMoves
  <2>6. Placed(w)' /\ SharedTypes'
    BY <2>2, <2>3, <2>5 DEF Placed, SharedTypes, store
  <2>7. \A v \in Workers : Placed(v)'
    BY <2>5, <2>6, PlacedElsewhere
  <2>8. \A v \in Workers : Fresh(v)'
    BY <2>3, <2>5, QuietKeepsFresh DEF store
  <2>. QED BY <2>3, <2>5, <2>6, <2>7, <2>8
<1>3. ASSUME BeginHLen(w, k)
      PROVE  IInv'
  <2>1. Start(w, k, "flush", <<>>, 0, "read") /\ Witness
    BY <1>3 DEF BeginHLen
  <2>2. <<>> \in Seq(Fields) /\ 0 \in Int /\ "flush" \in Labels
    BY DEF Labels
  <2>3. UNCHANGED <<store, pending, drift>>
    BY <2>1 DEF Start
  <2>5. /\ LocalTypes' /\ Elsewhere(w) /\ pc'[w] = "flush"
        /\ resume'[w] = "read"
    BY <2>1, <2>2, StartMoves
  <2>6. Placed(w)' /\ SharedTypes'
    BY <2>3, <2>5 DEF Placed, SharedTypes, store
  <2>7. \A v \in Workers : Placed(v)'
    BY <2>5, <2>6, PlacedElsewhere
  <2>8. \A l \in Keys : meta'[l] = meta[l]
    BY <2>3 DEF store
  <2>9. answered' \in [Workers -> SUBSET Int] /\ \A v \in Workers : Fresh(v)'
    BY <2>1, <2>5, <2>6, <2>8, WitnessKeepsFresh
  <2>. QED BY <2>5, <2>6, <2>7, <2>9
<1>. QED BY <1>1, <1>2, <1>3

(* The loops of HSET and HDEL. *)
LEMMA TurnPreserves ==
    ASSUME IInv, NEW w \in Workers, NEW present \in BOOLEAN,
           NEW amount \in {-1, 1},
           pc[w] \in {"set", "del"}, Turn(w, present, amount)
    PROVE  IInv'
<1>. DEFINE k == onKey[w]
            f == Head(todo[w])
            d == delta[w] + (IF (f \in fields[k]) = present THEN 0 ELSE amount)
            label == AfterArgs(w, Tail(todo[w]), d)
<1>. USE DEF IInv
<1>1. todo[w] # <<>> /\ resume[w] = "idle" /\ k \in Keys
  BY DEF Placed, LocalTypes
<1>2. todo[w] \in Seq(Fields)
  BY DEF LocalTypes
<1>3. f \in Fields /\ Tail(todo[w]) \in Seq(Fields)
  BY <1>1, <1>2
<1>4. d \in Int
  BY DEF LocalTypes
<1>5. label \in Labels
  BY DEF AfterArgs, Labels
<1>6. /\ pc' = [pc EXCEPT ![w] = label]
      /\ todo' = [todo EXCEPT ![w] = Tail(@)]
      /\ delta' = [delta EXCEPT ![w] = d]
      /\ fields' = [fields EXCEPT ![k] = IF present THEN @ \cup {f} ELSE @ \ {f}]
      /\ UNCHANGED <<meta, pending, onKey, resume, answered, drift>>
  BY DEF Turn
<1>7. LocalTypes'
  BY <1>3, <1>4, <1>5, <1>6 DEF LocalTypes
<1>8. Elsewhere(w)
  BY <1>6 DEF LocalTypes, Elsewhere
<1>9. SharedTypes'
  BY <1>1, <1>3, <1>6 DEF SharedTypes
<1>10. /\ pc'[w] = label /\ todo'[w] = Tail(todo[w]) /\ delta'[w] = d
       /\ resume'[w] = "idle"
  BY <1>1, <1>6 DEF LocalTypes
<1>11. Placed(w)'
  BY <1>10 DEF Placed, AfterArgs
<1>12. \A v \in Workers : Placed(v)'
  BY <1>8, <1>11, PlacedElsewhere
<1>13. \A v \in Workers : Fresh(v)'
  BY <1>6, <1>8, <1>10, QuietKeepsFresh
<1>. QED BY <1>6, <1>7, <1>9, <1>12, <1>13

(* A worker that moves on from a place where it reads no count, and touches *)
(* no count.                                                                *)
LEMMA QuietMovePreserves ==
    ASSUME IInv, NEW w \in Workers, NEW label \in Labels, GoTo(w, label),
           SharedTypes', UNCHANGED <<meta, pending>>,
           \/ answered' = answered
           \/ answered' = [answered EXCEPT ![w] = {}],
           label \in {"idle", "flush", "store"},
           label # "idle" => resume[w] # "read",
           label = "store" => resume[w] = "store"
    PROVE  IInv'
<1>. USE DEF IInv
<1>1. /\ LocalTypes' /\ Elsewhere(w) /\ pc'[w] = label
      /\ label # "idle" => todo'[w] = todo[w] /\ resume'[w] = resume[w]
      /\ label = "idle" => resume'[w] = "idle"
  BY GoToMoves
<1>2. Placed(w)'
  BY <1>1 DEF Placed
<1>3. \A v \in Workers : Placed(v)'
  BY <1>1, <1>2, PlacedElsewhere
<1>4. /\ answered' \in [Workers -> SUBSET Int]
      /\ \A v \in Workers \ {w} : answered'[v] = answered[v]
  OBVIOUS
<1>5. \A v \in Workers : Fresh(v)'
  BY <1>1, <1>4, QuietKeepsFresh
<1>. QED BY <1>1, <1>3, <1>4, <1>5

(* A worker that moves on after a locked access to the tracker. *)
LEMMA TrackerMovePreserves ==
    ASSUME IInv, NEW w \in Workers, NEW label \in Labels, GoTo(w, label),
           SharedTypes', Witness,
           \/ label = "maybe" /\ resume[w] # "read" /\ UNCHANGED meta
           \/ /\ label = resume[w]
              /\ \A k \in Keys : pending'[k] = 0 /\ meta'[k] \in {meta[k], Recorded(k)}
    PROVE  IInv'
<1>. USE DEF IInv
<1>1. /\ LocalTypes' /\ Elsewhere(w) /\ pc'[w] = label /\ onKey'[w] = onKey[w]
      /\ label # "idle" => todo'[w] = todo[w] /\ resume'[w] = resume[w]
      /\ label = "idle" => resume'[w] = "idle"
  BY GoToMoves
<1>2. Placed(w)'
  BY <1>1 DEF Placed, LocalTypes
<1>3. \A v \in Workers : Placed(v)'
  BY <1>1, <1>2, PlacedElsewhere
<1>4. \A k \in Keys : meta'[k] \in {meta[k], Recorded(k), Recorded(k)'}
  OBVIOUS
<1>5. resume'[w] = "read" /\ pc'[w] = "read" =>
         meta'[onKey'[w]] = Recorded(onKey[w])'
  <2>1. onKey'[w] \in Keys
    BY <1>1 DEF LocalTypes
  <2>2. Recorded(onKey[w])' = meta'[onKey'[w]] + pending'[onKey'[w]]
    BY DEF Recorded
  <2>3. meta'[onKey'[w]] \in Int
    BY <2>1 DEF SharedTypes
  <2>. QED BY <1>1, <2>1, <2>2, <2>3
<1>6. answered' \in [Workers -> SUBSET Int] /\ \A v \in Workers : Fresh(v)'
  BY <1>1, <1>3, <1>4, <1>5, WitnessKeepsFresh
<1>. QED BY <1>1, <1>3, <1>6

(* The steps of the commands. *)
LEMMA StepPreserves ==
    ASSUME IInv, NEW w \in Workers, Step(w)
    PROVE  IInv'
<1>. USE DEF IInv
<1>1. ASSUME SetField(w) \/ DelField(w)
      PROVE  IInv'
  BY <1>1, TurnPreserves DEF SetField, DelField, At
<1>2. ASSUME SetFails(w) \/ StoreFails(w)
      PROVE  IInv'
  <2>1. onKey[w] \in Keys /\ delta[w] \in Int
    BY DEF LocalTypes
  <2>2. SharedTypes'
    BY <1>2, <2>1 DEF SetFails, StoreFails, SharedTypes, store
  <2>. QED BY <1>2, <2>2, QuietMovePreserves
  DEF SetFails, StoreFails, Labels, store
<1>3. ASSUME AddUpdate(w)
      PROVE  IInv'
  <2>1. onKey[w] \in Keys /\ delta[w] \in Int
    BY DEF LocalTypes
  <2>2. SharedTypes'
    BY <1>3, <2>1 DEF AddUpdate, SharedTypes, store
  <2>3. resume[w] # "read"
    BY <1>3 DEF AddUpdate, At, Placed
  <2>. QED BY <1>3, <2>2, <2>3, TrackerMovePreserves
  DEF AddUpdate, Labels, store
<1>4. ASSUME MaybeFlush(w)
      PROVE  IInv'
  <2>1. resume[w] \in {"idle", "store"}
    BY <1>4 DEF MaybeFlush, At, Placed, LocalTypes
  <2>2. PICK label \in {"idle", "flush", "store"} :
            GoTo(w, label) /\ (label = "store" => resume[w] = "store")
    BY <1>4, <2>1 DEF MaybeFlush
  <2>3. SharedTypes'
    BY <1>4 DEF MaybeFlush, SharedTypes, store
  <2>. QED BY <1>4, <2>1, <2>2, <2>3, QuietMovePreserves
  DEF MaybeFlush, Labels, store
<1>5. ASSUME NEW lost \in SUBSET Keys,
             At(w, "flush"), GoTo(w, resume[w]), Witness,
             pending' = [k \in Keys |-> 0],
             meta' = [k \in Keys |->
                        meta[k] + (IF k \in lost THEN 0 ELSE pending[k])],
             UNCHANGED fields, drift' \in [Keys -> Int]
      PROVE  IInv'
  <2>1. \A k \in Keys : meta[k] \in Int /\ pending[k] \in Int
    BY DEF SharedTypes
  <2>2. SharedTypes'
    BY <1>5, <2>1 DEF SharedTypes
  <2>3. \A k \in Keys : pending'[k] = 0 /\ meta'[k] \in {meta[k], Recorded(k)}
    BY <1>5, <2>1 DEF Recorded
  <2>4. resume[w] \in Labels
    BY DEF LocalTypes, Labels
  <2>. QED BY <1>5, <2>2, <2>3, <2>4, TrackerMovePreserves
<1>6. ASSUME Flush(w)
      PROVE  IInv'
  <2>1. meta' = [k \in Keys |-> meta[k] + (IF k \in {} THEN 0 ELSE pending[k])]
    BY <1>6 DEF Flush
  <2>2. drift' \in [Keys -> Int]
    BY <1>6 DEF Flush, SharedTypes
  <2>3. {} \in SUBSET Keys
    OBVIOUS
  <2>4. /\ At(w, "flush") /\ GoTo(w, resume[w]) /\ Witness
        /\ pending' = [k \in Keys |-> 0] /\ UNCHANGED fields
    BY <1>6 DEF Flush
  <2>. QED BY <1>5, <2>1, <2>2, <2>3, <2>4
<1>7. ASSUME NEW k \in Keys, FlushFails(w, k)
      PROVE  IInv'
  <2>1. meta' = [l \in Keys |-> meta[l] + (IF l \in {k} THEN 0 ELSE pending[l])]
    BY <1>7 DEF FlushFails
  <2>2. drift' \in [Keys -> Int]
    BY <1>7 DEF FlushFails, SharedTypes
  <2>. QED BY <1>5, <1>7, <2>1, <2>2 DEF FlushFails
<1>8. ASSUME ReadLen(w) \/ GetField(w)
      PROVE  IInv'
  <2>1. SharedTypes'
    BY <1>8 DEF ReadLen, GetField, SharedTypes, store
  <2>2. At(w, "get") => resume[w] = "store"
    BY DEF At, Placed
  <2>. QED BY <1>8, <2>1, <2>2, QuietMovePreserves
  DEF ReadLen, GetField, Labels, store
<1>9. ASSUME StoreField(w)
      PROVE  IInv'
  <2>1. onKey[w] \in Keys /\ delta[w] \in Int /\ todo[w] \in Seq(Fields)
    BY DEF LocalTypes
  <2>2. todo[w] # <<>>
    BY <1>9 DEF StoreField, At, Placed
  <2>3. Head(todo[w]) \in Fields
    BY <2>1, <2>2
  <2>4. PICK created \in {0, 1} :
           /\ fields' = [fields EXCEPT ![onKey[w]] = @ \cup {Head(todo[w])}]
           /\ drift' = [drift EXCEPT ![onKey[w]] = @ + delta[w] - created]
           /\ UNCHANGED <<meta, pending>>
    BY <1>9 DEF StoreField
  <2>5. drift' \in [Keys -> Int]
    BY <2>1, <2>4 DEF SharedTypes
  <2>6. fields' \in [Keys -> SUBSET Fields]
    BY <2>1, <2>3, <2>4 DEF SharedTypes
  <2>7. SharedTypes'
    BY <2>4, <2>5, <2>6 DEF SharedTypes
  <2>. QED BY <1>9, <2>7, QuietMovePreserves DEF StoreField, Labels
<1>. QED BY <1>1, <1>2, <1>3, <1>4, <1>6, <1>7, <1>8, <1>9 DEF Step

(* A restart loses what the tracker holds, and nobody is reading then. *)
LEMMA RestartPreserves == IInv /\ Restart => IInv'
<1>. SUFFICES ASSUME IInv, Restart PROVE IInv'
  OBVIOUS
<1>. USE DEF IInv
<1>1. SharedTypes'
  BY DEF Restart, SharedTypes, store
<1>2. LocalTypes' /\ (\A w \in Workers : Placed(w)')
  BY DEF Restart, LocalTypes, Placed, locals
<1>3. \A w \in Workers : resume'[w] # "read"
  BY DEF Restart, At, Placed, locals
<1>. QED BY <1>1, <1>2, <1>3 DEF Restart, Fresh

(* A server that starts has empty tables. *)
LEMMA InitInvariant == Init => IInv
<1>. SUFFICES ASSUME Init PROVE IInv
  OBVIOUS
<1>1. <<>> \in Seq(Fields)
  OBVIOUS
<1>2. SharedTypes /\ LocalTypes /\ answered \in [Workers -> SUBSET Int]
  BY <1>1 DEF Init, SharedTypes, LocalTypes, Labels
<1>. QED BY <1>2 DEF Init, IInv, Placed, Fresh

(* The invariant holds of every execution. *)
LEMMA Invariance == Spec => []IInv
<1>1. IInv /\ UNCHANGED vars => IInv'
  BY DEF IInv, SharedTypes, LocalTypes, Placed, Fresh, Recorded, vars, store, locals
<1>2. IInv /\ [Next]_vars => IInv'
  BY <1>1, RequestPreserves, StepPreserves, RestartPreserves DEF Next
<1>. QED BY <1>2, InitInvariant, PTL DEF Spec

(* The tables and the commands keep their shapes; a command in its loop has *)
(* an argument left, and one that goes to the tracker has counted something.*)
THEOREM TypeCorrect == Spec => []TypeOK
<1>1. IInv => TypeOK
  BY DEF IInv, SharedTypes, LocalTypes, Placed, TypeOK, At
<1>. QED BY <1>1, Invariance, PTL

(* HLEN replies with a count the hash had between the call and the reply,   *)
(* whatever the other workers write, flush or lose meanwhile.               *)
THEOREM LenIsFresh == Spec => []LenFresh
<1>1. IInv => LenFresh
  BY DEF IInv, LocalTypes, Placed, Fresh, LenFresh, At
<1>. QED BY <1>1, Invariance, PTL

----------------------------------------------------------------------------
(* The counts.  What HLEN would report of a hash, and what commands have    *)
(* under way for it, add up to the number of its fields and the drift: a    *)
(* step of a worker changes one term of the sum, and the two sides by the   *)
(* same amount.                                                             *)

CountInv ==
    /\ \A k \in Keys : IsFiniteSet(fields[k])
    /\ \A w \in Workers : pc[w] = "get" => delta[w] = 0
    /\ CountAccounted

LEMMA ShareType ==
    ASSUME LocalTypes, LocalTypes', NEW w \in Workers, NEW k
    PROVE  Share(w, k) \in Int /\ Share(w, k)' \in Int
<1>1. /\ delta[w] \in Int /\ - delta[w] \in Int /\ 0 \in Int
      /\ delta'[w] \in Int /\ - delta'[w] \in Int
  BY DEF LocalTypes
<1>. QED BY <1>1 DEF Share, InFlight

(* What is under way changes by what the worker has under way. *)
LEMMA InFlightMoves ==
    ASSUME LocalTypes, LocalTypes', NEW w \in Workers, Elsewhere(w), NEW k \in Keys
    PROVE  /\ InFlightOn(k) \in Int
           /\ InFlightOn(k)' = InFlightOn(k) + Share(w, k)' - Share(w, k)
<1>1. PICK f : f = [v \in Workers |-> Share(v, k)]
  OBVIOUS
<1>2. PICK h : h = [v \in Workers |-> Share(v, k)']
  OBVIOUS
<1>3. f \in [Workers -> Int] /\ f[w] = Share(w, k)
  BY <1>1, ShareType
<1>4. \A v \in Workers : Share(v, k)' \in Int
  BY ShareType
<1>5. h \in [Workers -> Int] /\ h[w] = Share(w, k)'
  BY <1>2, <1>4
<1>6. \A v \in Workers \ {w} : h[v] = f[v]
  <2>1. SUFFICES ASSUME NEW v \in Workers \ {w} PROVE Share(v, k)' = Share(v, k)
    BY <1>1, <1>2
  <2>. QED BY DEF Elsewhere, Share, InFlight
<1>7. /\ SumFunctionOnSet(f, Workers) \in Int
      /\ SumFunctionOnSet(h, Workers) = SumFunctionOnSet(f, Workers) + h[w] - f[w]
  BY <1>3, <1>5, <1>6, WorkersAssumption, SumChanged
<1>8. InFlightOn(k) = SumFunctionOnSet(f, Workers)
  BY <1>1 DEF InFlightOn, SumFunction
<1>9. InFlightOn(k)' = SumFunctionOnSet(h, Workers)
  BY <1>2 DEF InFlightOn, SumFunction
<1>. QED BY <1>3, <1>5, <1>7, <1>8, <1>9

(* A step that changes both sides alike. *)
LEMMA BalancedStep ==
    ASSUME IInv, IInv', CountInv, NEW w \in Workers, Elsewhere(w),
           pc'[w] = "get" => delta'[w] = 0,
           \A k \in Keys :
               /\ IsFiniteSet(fields'[k])
               /\ meta'[k] + pending'[k] - (meta[k] + pending[k])
                        + Share(w, k)' - Share(w, k)
                    = Cardinality(fields'[k]) - Cardinality(fields[k])
                        + drift'[k] - drift[k]
    PROVE  CountInv'
<1>1. ASSUME NEW k \in Keys
      PROVE  Recorded(k)' + InFlightOn(k)' = Cardinality(fields'[k]) + drift'[k]
  <2>1. /\ InFlightOn(k) \in Int
        /\ InFlightOn(k)' = InFlightOn(k) + Share(w, k)' - Share(w, k)
    BY InFlightMoves DEF IInv
  <2>2. Share(w, k) \in Int
    BY ShareType DEF IInv
  <2>3. Share(w, k)' \in Int
    BY ShareType DEF IInv
  <2>4. /\ meta[k] \in Int /\ pending[k] \in Int /\ drift[k] \in Int
        /\ meta'[k] \in Int /\ pending'[k] \in Int /\ drift'[k] \in Int
    BY DEF IInv, SharedTypes
  <2>5. Cardinality(fields[k]) \in Int /\ Cardinality(fields'[k]) \in Int
    BY FS_CardinalityType DEF CountInv
  <2>6. meta[k] + pending[k] + InFlightOn(k) = Cardinality(fields[k]) + drift[k]
    BY DEF CountInv, CountAccounted, Recorded
  <2>7. Recorded(k)' = meta'[k] + pending'[k]
    BY DEF Recorded
  <2>. QED BY <2>1, <2>2, <2>3, <2>4, <2>5, <2>6, <2>7
<1>2. CountAccounted'
  BY <1>1 DEF CountAccounted
<1>3. \A v \in Workers : pc'[v] = "get" => delta'[v] = 0
  BY DEF CountInv, Elsewhere
<1>. QED BY <1>2, <1>3 DEF CountInv

(* A step that changes no table and no field, and leaves what the worker    *)
(* has under way as it is.                                                  *)
LEMMA CountsUntouched ==
    ASSUME IInv, IInv', CountInv, NEW w \in Workers, Elsewhere(w),
           UNCHANGED <<fields, meta, pending, drift>>,
           pc'[w] = "get" => delta'[w] = 0,
           \A k \in Keys : Share(w, k)' = Share(w, k)
    PROVE  CountInv'
<1>1. \A k \in Keys : /\ meta[k] \in Int /\ pending[k] \in Int /\ drift[k] \in Int
                      /\ Share(w, k) \in Int
  BY ShareType DEF IInv, SharedTypes
<1>2. \A k \in Keys : IsFiniteSet(fields[k]) /\ Cardinality(fields[k]) \in Int
  BY FS_CardinalityType DEF CountInv
<1>3. \A k \in Keys :
         /\ IsFiniteSet(fields'[k])
         /\ meta'[k] + pending'[k] - (meta[k] + pending[k]) + Share(w, k)' - Share(w, k)
                = Cardinality(fields'[k]) - Cardinality(fields[k]) + drift'[k] - drift[k]
  BY <1>1, <1>2
<1>. QED BY <1>3, BalancedStep

(* The commands start with nothing under way. *)
LEMMA RequestCounts ==
    ASSUME IInv, IInv', CountInv, NEW w \in Workers, Request(w)
    PROVE  CountInv'
<1>1. PICK k \in Keys, label \in {"set", "del", "get", "add", "flush"},
           args \in Seq(Fields), amount \in Int, back \in {"idle", "read", "store"} :
         /\ Start(w, k, label, args, amount, back)
         /\ label \in {"set", "del", "get", "flush"} => amount = 0
         /\ label = "add" => back = "store"
  <2>1. ASSUME NEW k \in Keys, NEW args \in Arguments, BeginHSet(w, k, args)
        PROVE  Start(w, k, "set", args, 0, "idle") /\ args \in Seq(Fields)
    BY <2>1, ArgumentsAreSequences DEF BeginHSet
  <2>2. ASSUME NEW k \in Keys, NEW args \in Arguments, BeginHDel(w, k, args)
        PROVE  Start(w, k, "del", args, 0, "idle") /\ args \in Seq(Fields)
    BY <2>2, ArgumentsAreSequences DEF BeginHDel
  <2>3. ASSUME NEW k \in Keys, NEW f \in Fields, BeginHIncrBy(w, k, f)
        PROVE  \/ Start(w, k, "get", <<f>>, 0, "store")
               \/ Start(w, k, "add", <<f>>, 1, "store")
    BY <2>3 DEF BeginHIncrBy
  <2>4. ASSUME NEW k \in Keys, BeginHLen(w, k)
        PROVE  Start(w, k, "flush", <<>>, 0, "read")
    BY <2>4 DEF BeginHLen
  <2>5. 0 \in Int /\ 1 \in Int /\ <<>> \in Seq(Fields) /\ \A f \in Fields : <<f>> \in Seq(Fields)
    OBVIOUS
  <2>. QED BY <2>1, <2>2, <2>3, <2>4, <2>5 DEF Request
<1>2. /\ Elsewhere(w) /\ pc'[w] = label /\ onKey'[w] = k
      /\ delta'[w] = amount /\ resume'[w] = back
  BY <1>1, StartMoves DEF IInv, Labels
<1>3. pc[w] = "idle" /\ UNCHANGED <<fields, meta, pending, drift>>
  BY <1>1 DEF Start, At, store
<1>4. \A l \in Keys : Share(w, l) = 0 /\ Share(w, l)' = 0
  BY <1>1, <1>2, <1>3 DEF Share, InFlight
<1>. QED BY <1>1, <1>2, <1>3, <1>4, CountsUntouched

(* HSET and HDEL count a field when it is new, or was there. *)
LEMMA TurnCounts ==
    ASSUME IInv, IInv', CountInv, NEW w \in Workers,
           \/ pc[w] = "set" /\ Turn(w, TRUE, 1)
           \/ pc[w] = "del" /\ Turn(w, FALSE, -1)
    PROVE  CountInv'
<1>. DEFINE k == onKey[w]
            f == Head(todo[w])
<1>1. PICK present \in BOOLEAN, amount \in {-1, 1} :
         /\ amount = IF present THEN 1 ELSE -1
         /\ pc[w] \in {"set", "del"} /\ Turn(w, present, amount)
  OBVIOUS
<1>2. k \in Keys /\ delta[w] \in Int /\ resume[w] = "idle"
  BY <1>1 DEF IInv, LocalTypes, Placed
<1>3. PICK counted \in {-1, 0, 1} :
         /\ counted = IF (f \in fields[k]) = present THEN 0 ELSE amount
         /\ delta' = [delta EXCEPT ![w] = delta[w] + counted]
         /\ pc' = [pc EXCEPT ![w] = AfterArgs(w, Tail(todo[w]), delta[w] + counted)]
  <2>1. PICK counted : counted = IF (f \in fields[k]) = present THEN 0 ELSE amount
    OBVIOUS
  <2>2. counted \in {-1, 0, 1}
    BY <2>1
  <2>. QED BY <1>1, <2>1, <2>2 DEF Turn
<1>4. /\ fields' = [fields EXCEPT ![k] = IF present THEN @ \cup {f} ELSE @ \ {f}]
      /\ UNCHANGED <<meta, pending, onKey, resume, drift>>
      /\ todo' = [todo EXCEPT ![w] = Tail(@)]
  BY <1>1 DEF Turn
<1>5. Elsewhere(w)
  BY <1>3, <1>4 DEF IInv, LocalTypes, Elsewhere
<1>6. /\ pc'[w] \in {"set", "del", "add", "idle"}
      /\ pc'[w] = "idle" => delta[w] + counted = 0
      /\ delta'[w] = delta[w] + counted /\ resume'[w] = "idle" /\ onKey'[w] = k
  BY <1>1, <1>2, <1>3, <1>4 DEF IInv, LocalTypes, AfterArgs
<1>7. /\ IsFiniteSet(fields[k]) /\ IsFiniteSet(fields'[k])
      /\ Cardinality(fields[k]) \in Int
      /\ Cardinality(fields'[k]) = Cardinality(fields[k]) + counted
  <2>1. IsFiniteSet(fields[k]) /\ Cardinality(fields[k]) \in Int
    BY <1>2, FS_CardinalityType DEF CountInv
  <2>2. fields'[k] = IF present THEN fields[k] \cup {f} ELSE fields[k] \ {f}
    BY <1>2, <1>4 DEF IInv, SharedTypes
  <2>3. /\ IsFiniteSet(fields[k] \cup {f})
        /\ Cardinality(fields[k] \cup {f}) =
              IF f \in fields[k] THEN Cardinality(fields[k]) ELSE Cardinality(fields[k]) + 1
    BY <2>1, FS_AddElement
  <2>4. /\ IsFiniteSet(fields[k] \ {f})
        /\ Cardinality(fields[k] \ {f}) =
              IF f \in fields[k] THEN Cardinality(fields[k]) - 1 ELSE Cardinality(fields[k])
    BY <2>1, FS_RemoveElement
  <2>. QED BY <1>1, <1>3, <2>1, <2>2, <2>3, <2>4
<1>8. /\ Share(w, k) = delta[w]
      /\ Share(w, k)' = delta[w] + counted
  BY <1>1, <1>2, <1>6 DEF Share, InFlight
<1>9. ASSUME NEW l \in Keys
      PROVE  /\ IsFiniteSet(fields'[l])
             /\ meta'[l] + pending'[l] - (meta[l] + pending[l])
                      + Share(w, l)' - Share(w, l)
                  = Cardinality(fields'[l]) - Cardinality(fields[l])
                      + drift'[l] - drift[l]
  <2>1. meta[l] \in Int /\ pending[l] \in Int /\ drift[l] \in Int
    BY DEF IInv, SharedTypes
  <2>2. CASE l = k
    <3>1. /\ IsFiniteSet(fields'[l]) /\ Cardinality(fields[l]) \in Int
          /\ Cardinality(fields'[l]) = Cardinality(fields[l]) + counted
          /\ Share(w, l) = delta[w] /\ Share(w, l)' = delta[w] + counted
          /\ meta'[l] = meta[l] /\ pending'[l] = pending[l] /\ drift'[l] = drift[l]
      BY <1>4, <1>7, <1>8, <2>2
    <3>. QED BY <1>2, <2>1, <3>1
  <2>3. CASE l # k
    <3>1. fields'[l] = fields[l] /\ Share(w, l)' = 0 /\ Share(w, l) = 0
      BY <1>4, <1>6, <2>3 DEF Share, IInv, SharedTypes
    <3>2. IsFiniteSet(fields[l]) /\ Cardinality(fields[l]) \in Int
      BY FS_CardinalityType DEF CountInv
    <3>. QED BY <1>4, <2>1, <3>1, <3>2
  <2>. QED BY <2>2, <2>3
<1>. QED BY <1>5, <1>6, <1>9, BalancedStep

(* The tracker and the flushes move amounts from the worker to the table,   *)
(* and from the table to the stored count.                                  *)
LEMMA TrackerCounts ==
    ASSUME IInv, IInv', CountInv, NEW w \in Workers,
           \/ AddUpdate(w) \/ Flush(w) \/ \E k \in Keys : FlushFails(w, k)
    PROVE  CountInv'
<1>1. /\ onKey[w] \in Keys /\ delta[w] \in Int
      /\ resume[w] \in {"idle", "read", "store"} /\ resume[w] \in Labels
      /\ Placed(w)
  BY DEF IInv, LocalTypes, Labels
<1>2. PICK label \in Labels : GoTo(w, label) /\ label \notin {"get", "set", "del", "add"}
  BY <1>1 DEF AddUpdate, Flush, FlushFails, Labels
<1>3. /\ Elsewhere(w) /\ pc'[w] = label /\ onKey'[w] = onKey[w]
      /\ label # "idle" => delta'[w] = delta[w] /\ resume'[w] = resume[w]
  BY <1>2, GoToMoves DEF IInv
<1>4. \A k \in Keys : /\ IsFiniteSet(fields[k]) /\ Cardinality(fields[k]) \in Int
                      /\ meta[k] \in Int /\ pending[k] \in Int /\ drift[k] \in Int
  BY FS_CardinalityType DEF CountInv, IInv, SharedTypes
<1>5. fields' = fields
  BY DEF AddUpdate, Flush, FlushFails, store
<1>6. CASE AddUpdate(w)
  <2>1. /\ pc[w] = "add" /\ pc'[w] = "maybe" /\ delta'[w] = delta[w]
        /\ resume'[w] = resume[w] /\ resume[w] \in {"idle", "store"}
    BY <1>1, <1>3, <1>6, GoToMoves DEF AddUpdate, At, Placed, GoTo, IInv, LocalTypes, locals
  <2>2. ASSUME NEW k \in Keys
        PROVE  /\ meta'[k] = meta[k] /\ drift'[k] = drift[k]
               /\ pending'[k] = IF k = onKey[w] THEN pending[k] + delta[w] ELSE pending[k]
               /\ Share(w, k)' - Share(w, k) = IF k = onKey[w] THEN - delta[w] ELSE 0
    <3>1. /\ meta'[k] = meta[k] /\ drift'[k] = drift[k]
          /\ pending'[k] = IF k = onKey[w] THEN pending[k] + delta[w] ELSE pending[k]
      BY <1>1, <1>4, <1>6 DEF AddUpdate, store, IInv, SharedTypes
    <3>2. Share(w, k)' - Share(w, k) = IF k = onKey[w] THEN - delta[w] ELSE 0
      BY <1>1, <1>3, <2>1 DEF Share, InFlight
    <3>. QED BY <3>1, <3>2
  <2>3. \A k \in Keys : Share(w, k) \in Int /\ Share(w, k)' \in Int
    BY ShareType DEF IInv
  <2>4. ASSUME NEW k \in Keys
        PROVE  /\ IsFiniteSet(fields'[k])
               /\ meta'[k] + pending'[k] - (meta[k] + pending[k])
                        + Share(w, k)' - Share(w, k)
                    = Cardinality(fields'[k]) - Cardinality(fields[k])
                        + drift'[k] - drift[k]
    <3>1. /\ Share(w, k) \in Int /\ Share(w, k)' \in Int
          /\ meta'[k] = meta[k] /\ drift'[k] = drift[k]
          /\ pending'[k] - pending[k] = - (Share(w, k)' - Share(w, k))
          /\ pending'[k] \in Int
      BY <1>1, <1>4, <2>2, <2>3
    <3>. QED BY <1>4, <1>5, <3>1
  <2>. QED BY <1>3, <2>1, <2>4, BalancedStep
<1>7. ASSUME NEW lost \in SUBSET Keys, At(w, "flush"), label = resume[w],
             pending' = [k \in Keys |-> 0],
             \A k \in Keys :
                IF k \in lost
                THEN meta'[k] = meta[k] /\ drift'[k] = drift[k] - pending[k]
                ELSE meta'[k] = meta[k] + pending[k] /\ drift'[k] = drift[k]
      PROVE  CountInv'
  <2>1. \A k \in Keys : /\ Share(w, k)' = Share(w, k)
                        /\ Share(w, k) \in Int
    <3>1. \A k \in Keys : Share(w, k) \in Int
      BY ShareType DEF IInv
    <3>2. \A k \in Keys : Share(w, k)' = Share(w, k)
      BY <1>1, <1>2, <1>3, <1>7 DEF Share, InFlight, At, Placed
    <3>. QED BY <3>1, <3>2
  <2>2. ASSUME NEW k \in Keys
        PROVE  /\ IsFiniteSet(fields'[k])
               /\ meta'[k] + pending'[k] - (meta[k] + pending[k])
                        + Share(w, k)' - Share(w, k)
                    = Cardinality(fields'[k]) - Cardinality(fields[k])
                        + drift'[k] - drift[k]
    BY <1>4, <1>5, <1>7, <2>1
  <2>. QED BY <1>2, <1>3, <2>2, BalancedStep
<1>8. CASE Flush(w)
  <2>1. /\ At(w, "flush") /\ GoTo(w, resume[w]) /\ pending' = [k \in Keys |-> 0]
        /\ meta' = [k \in Keys |-> meta[k] + pending[k]] /\ drift' = drift
    BY <1>8 DEF Flush
  <2>2. label = resume[w]
    BY <1>2, <2>1, <1>1, <1>3, GoToMoves DEF IInv
  <2>. QED BY <1>7, <2>1, <2>2, {} \in SUBSET Keys
<1>9. ASSUME NEW k \in Keys, FlushFails(w, k) PROVE CountInv'
  <2>1. /\ At(w, "flush") /\ GoTo(w, resume[w]) /\ pending' = [l \in Keys |-> 0]
        /\ meta' = [l \in Keys |-> meta[l] + (IF l = k THEN 0 ELSE pending[l])]
        /\ drift' = [drift EXCEPT ![k] = @ - pending[k]]
    BY <1>9 DEF FlushFails
  <2>2. label = resume[w]
    BY <1>2, <2>1, <1>1, <1>3, GoToMoves DEF IInv
  <2>3. \A l \in Keys :
           IF l \in {k}
           THEN meta'[l] = meta[l] /\ drift'[l] = drift[l] - pending[l]
           ELSE meta'[l] = meta[l] + pending[l] /\ drift'[l] = drift[l]
    BY <1>4, <2>1 DEF IInv, SharedTypes
  <2>. QED BY <1>7, <2>1, <2>2, <2>3, {k} \in SUBSET Keys
<1>. QED BY <1>6, <1>8, <1>9

(* A refused write, and a HINCRBY that writes a field it counted or not,    *)
(* put the count off by what the drift records.                             *)
LEMMA DriftCounts ==
    ASSUME IInv, IInv', CountInv, NEW w \in Workers,
           SetFails(w) \/ StoreFails(w) \/ StoreField(w)
    PROVE  CountInv'
<1>. DEFINE k == onKey[w]
<1>1. /\ k \in Keys /\ delta[w] \in Int /\ Placed(w)
  BY DEF IInv, LocalTypes
<1>2. /\ Elsewhere(w) /\ pc'[w] = "idle" /\ onKey'[w] = k
      /\ UNCHANGED <<meta, pending>>
  BY GoToMoves DEF IInv, Labels, SetFails, StoreFails, StoreField, store
<1>3. \A l \in Keys : /\ IsFiniteSet(fields[l]) /\ Cardinality(fields[l]) \in Int
                      /\ meta[l] \in Int /\ pending[l] \in Int /\ drift[l] \in Int
  BY FS_CardinalityType DEF CountInv, IInv, SharedTypes
<1>4. \A l \in Keys : Share(w, l)' = 0
  BY <1>2 DEF Share, InFlight
<1>5. \A l \in Keys : Share(w, l) =
         IF l # k THEN 0 ELSE IF pc[w] = "set" THEN delta[w] ELSE - delta[w]
  <2>1. \/ pc[w] = "set" /\ resume[w] = "idle"
        \/ pc[w] = "store" /\ resume[w] = "store"
    BY <1>1 DEF SetFails, StoreFails, StoreField, At, Placed
  <2>. QED BY <2>1 DEF Share, InFlight
<1>6. ASSUME NEW grown \in {0, 1}, NEW off \in Int,
             IsFiniteSet(fields'[k]),
             Cardinality(fields'[k]) = Cardinality(fields[k]) + grown,
             drift'[k] = drift[k] + off,
             off + grown = IF pc[w] = "set" THEN - delta[w] ELSE delta[w],
             \A l \in Keys \ {k} : fields'[l] = fields[l] /\ drift'[l] = drift[l]
      PROVE  CountInv'
  <2>1. ASSUME NEW l \in Keys
        PROVE  /\ IsFiniteSet(fields'[l])
               /\ meta'[l] + pending'[l] - (meta[l] + pending[l])
                        + Share(w, l)' - Share(w, l)
                    = Cardinality(fields'[l]) - Cardinality(fields[l])
                        + drift'[l] - drift[l]
    <3>1. /\ meta'[l] = meta[l] /\ pending'[l] = pending[l] /\ Share(w, l)' = 0
      BY <1>2, <1>4
    <3>2. CASE l = k
      <4>1. /\ IsFiniteSet(fields'[l])
            /\ Cardinality(fields'[l]) = Cardinality(fields[l]) + grown
            /\ drift'[l] = drift[l] + off
            /\ off + grown = - Share(w, l) /\ Share(w, l) \in Int
        BY <1>1, <1>5, <1>6, <3>2
      <4>. QED BY <1>3, <3>1, <4>1
    <3>3. CASE l # k
      BY <1>3, <1>5, <1>6, <3>1, <3>3
    <3>. QED BY <3>2, <3>3
  <2>. QED BY <1>2, <2>1, BalancedStep
<1>7. CASE SetFails(w) \/ StoreFails(w)
  <2>1. PICK off \in Int :
            /\ off = IF pc[w] = "set" THEN - delta[w] ELSE delta[w]
            /\ drift' = [drift EXCEPT ![k] = @ + off]
    BY <1>1, <1>3, <1>7 DEF SetFails, StoreFails, At, IInv, SharedTypes
  <2>2. fields' = fields
    BY <1>7 DEF SetFails, StoreFails, store
  <2>3. /\ Cardinality(fields'[k]) = Cardinality(fields[k]) + 0 /\ IsFiniteSet(fields'[k])
        /\ drift'[k] = drift[k] + off
        /\ \A l \in Keys \ {k} : fields'[l] = fields[l] /\ drift'[l] = drift[l]
    BY <1>1, <1>3, <2>1, <2>2 DEF IInv, SharedTypes
  <2>4. off + 0 = IF pc[w] = "set" THEN - delta[w] ELSE delta[w]
    BY <2>1
  <2>. QED BY <1>6, <2>3, <2>4
<1>8. CASE StoreField(w)
  <2>. DEFINE f == Head(todo[w])
  <2>1. PICK created \in {0, 1} :
           /\ created = IF f \in fields[k] THEN 0 ELSE 1
           /\ fields' = [fields EXCEPT ![k] = @ \cup {f}]
           /\ drift' = [drift EXCEPT ![k] = @ + delta[w] - created]
           /\ pc[w] = "store"
    BY <1>8 DEF StoreField, At
  <2>2. /\ IsFiniteSet(fields[k] \cup {f})
        /\ Cardinality(fields[k] \cup {f}) =
              IF f \in fields[k] THEN Cardinality(fields[k]) ELSE Cardinality(fields[k]) + 1
    BY <1>1, <1>3, FS_AddElement
  <2>3. /\ IsFiniteSet(fields'[k])
        /\ Cardinality(fields'[k]) = Cardinality(fields[k]) + created
    <3>1. fields'[k] = fields[k] \cup {f}
      BY <1>1, <2>1 DEF IInv, SharedTypes
    <3>2. Cardinality(fields[k]) \in Int
      BY <1>1, <1>3
    <3>3. CASE f \in fields[k]
      <4>1. created = 0
        BY <2>1, <3>3
      <4>. HIDE DEF f
      <4>. QED BY <2>2, <3>1, <3>2, <3>3, <4>1
    <3>4. CASE f \notin fields[k]
      <4>1. created = 1
        BY <2>1, <3>4
      <4>. HIDE DEF f
      <4>. QED BY <2>2, <3>1, <3>2, <3>4, <4>1
    <3>. QED BY <3>3, <3>4
  <2>4. /\ drift'[k] = drift[k] + (delta[w] - created)
        /\ delta[w] - created \in Int
        /\ (delta[w] - created) + created = delta[w]
        /\ \A l \in Keys \ {k} : fields'[l] = fields[l] /\ drift'[l] = drift[l]
    BY <1>1, <1>3, <2>1 DEF IInv, SharedTypes
  <2>. QED BY <1>6, <2>1, <2>3, <2>4
<1>. QED BY <1>7, <1>8

(* The steps that only go on. *)
LEMMA MoveCounts ==
    ASSUME IInv, IInv', CountInv, NEW w \in Workers,
           MaybeFlush(w) \/ ReadLen(w) \/ GetField(w)
    PROVE  CountInv'
<1>1. Placed(w) /\ pc[w] = "get" => delta[w] = 0
  BY DEF CountInv
<1>2. Placed(w) /\ resume[w] \in {"idle", "read", "store"} /\ delta[w] \in Int
  BY DEF IInv, LocalTypes
<1>3. PICK label \in {"idle", "flush", "store"} :
         /\ GoTo(w, label)
         /\ pc[w] = "maybe" => label \in {"flush", resume[w]}
         /\ pc[w] = "read" => label = "idle"
         /\ pc[w] = "get" => label \in {"store", "idle"}
         /\ pc[w] \in {"maybe", "read", "get"}
         /\ UNCHANGED <<fields, meta, pending, drift>>
  BY <1>2 DEF MaybeFlush, ReadLen, GetField, Placed, At, store
<1>4. /\ Elsewhere(w) /\ pc'[w] = label /\ onKey'[w] = onKey[w]
      /\ label # "idle" => delta'[w] = delta[w] /\ resume'[w] = resume[w]
  BY <1>3, GoToMoves DEF IInv, Labels
<1>5. InFlight(w)' = InFlight(w)
  BY <1>1, <1>2, <1>3, <1>4 DEF InFlight, Placed
<1>6. \A k \in Keys : Share(w, k)' = Share(w, k)
  BY <1>4, <1>5 DEF Share
<1>. QED BY <1>3, <1>4, <1>6, CountsUntouched

(* A restart comes when nothing is under way. *)
LEMMA RestartCounts ==
    ASSUME IInv, CountInv, Restart
    PROVE  CountInv'
<1>1. /\ pending' = [k \in Keys |-> 0]
      /\ drift' = [k \in Keys |-> drift[k] - pending[k]]
      /\ UNCHANGED <<fields, meta, pc, onKey, delta, resume>>
  BY DEF Restart, store, locals
<1>2. \A k \in Keys : InFlightOn(k)' = InFlightOn(k)
  BY <1>1 DEF InFlightOn, Share, InFlight
<1>3. \A k \in Keys : InFlightOn(k) \in Int
  <2>1. SUFFICES ASSUME NEW k \in Keys PROVE InFlightOn(k) = 0
    OBVIOUS
  <2>2. \A w \in Workers : Share(w, k) = 0
    BY DEF Restart, At, Share, InFlight
  <2>3. [w \in Workers |-> Share(w, k)] \in [Workers -> {0}]
    BY <2>2
  <2>4. SumFunctionOnSet([w \in Workers |-> Share(w, k)], Workers) = 0
    BY <2>3, WorkersAssumption, SumOfZeros
  <2>. QED BY <2>4 DEF InFlightOn, SumFunction
<1>4. \A k \in Keys : /\ Cardinality(fields[k]) \in Int
                      /\ meta[k] \in Int /\ pending[k] \in Int /\ drift[k] \in Int
  BY FS_CardinalityType DEF CountInv, IInv, SharedTypes
<1>5. \A k \in Keys : Recorded(k)' = meta[k]
  BY <1>1, <1>4 DEF Recorded
<1>6. \A k \in Keys : meta[k] + pending[k] + InFlightOn(k) = Cardinality(fields[k]) + drift[k]
  BY DEF CountInv, CountAccounted, Recorded
<1>7. \A k \in Keys : Recorded(k)' + InFlightOn(k)' = Cardinality(fields'[k]) + drift'[k]
  <2>1. SUFFICES ASSUME NEW k \in Keys
                 PROVE  Recorded(k)' + InFlightOn(k)' = Cardinality(fields'[k]) + drift'[k]
    OBVIOUS
  <2>2. /\ Recorded(k)' = meta[k] /\ InFlightOn(k)' = InFlightOn(k)
        /\ fields' = fields /\ drift'[k] = drift[k] - pending[k]
    BY <1>1, <1>2, <1>5
  <2>3. /\ InFlightOn(k) \in Int /\ Cardinality(fields[k]) \in Int
        /\ meta[k] \in Int /\ pending[k] \in Int /\ drift[k] \in Int
        /\ meta[k] + pending[k] + InFlightOn(k) = Cardinality(fields[k]) + drift[k]
    BY <1>3, <1>4, <1>6
  <2>. HIDE DEF InFlightOn, Recorded
  <2>4. meta[k] + InFlightOn(k) = Cardinality(fields[k]) + (drift[k] - pending[k])
    BY <2>3
  <2>. QED BY <2>2, <2>4
<1>8. CountAccounted'
  BY <1>7 DEF CountAccounted
<1>. QED BY <1>1, <1>8 DEF CountInv

LEMMA InitCounts == Init => CountInv
<1>. SUFFICES ASSUME Init PROVE CountInv
  OBVIOUS
<1>1. \A k \in Keys : /\ IsFiniteSet(fields[k]) /\ Cardinality(fields[k]) = 0
                      /\ meta[k] = 0 /\ pending[k] = 0 /\ drift[k] = 0
  BY FS_EmptySet DEF Init
<1>2. ASSUME NEW k \in Keys PROVE InFlightOn(k) = 0
  <2>1. \A w \in Workers : Share(w, k) = 0
    BY DEF Init, Share, InFlight
  <2>2. [w \in Workers |-> Share(w, k)] \in [Workers -> {0}]
    BY <2>1
  <2>3. SumFunctionOnSet([w \in Workers |-> Share(w, k)], Workers) = 0
    BY <2>2, WorkersAssumption, SumOfZeros
  <2>. QED BY <2>3 DEF InFlightOn, SumFunction
<1>3. \A w \in Workers : pc[w] # "get"
  BY DEF Init
<1>. QED BY <1>1, <1>2, <1>3 DEF CountInv, CountAccounted, Recorded

(* The count HLEN is going to report is the number of fields in the store,  *)
(* but for what commands have under way and for the drift of known causes.  *)
THEOREM CountIsAccounted == Spec => []CountAccounted
<1>1. IInv /\ IInv' /\ CountInv /\ [Next]_vars => CountInv'
  <2>1. CASE UNCHANGED vars
    BY <2>1 DEF vars, store, locals, CountInv, CountAccounted, Recorded, InFlightOn,
                Share, InFlight
  <2>2. ASSUME IInv, IInv', CountInv, NEW w \in Workers, Step(w) PROVE CountInv'
    BY <2>2, TurnCounts, TrackerCounts, DriftCounts, MoveCounts
    DEF Step, SetField, DelField, At
  <2>. QED BY <2>1, <2>2, RequestCounts, RestartCounts DEF Next
<1>2. CountInv => CountAccounted
  BY DEF CountInv
<1>. QED BY <1>1, <1>2, Invariance, InitCounts, PTL DEF Spec
=============================================================================
