---------------------------- MODULE ServerProofs ----------------------------
(* The registry of clients lists exactly the open connections and those of  *)
(* failed workers, and the counter of connections counts them, but for the  *)
(* known exceptions: for any number of workers and clients, errors of       *)
(* accept and failing workers, before, during and after a shutdown.         *)
EXTENDS Server, FiniteSetTheorems, TLAPS

(* What RegistryExact says, entry by entry. *)
Listed ==
    /\ clients \subseteq Clients \X Workers
    /\ \A c \in Clients, w \in Workers :
           <<c, w>> \in clients <=> Holds(w, c) \/ <<c, w>> \in abandoned

(* Closing a connection removes the entries of the client whatever worker   *)
(* they name; they are the right ones because a client is in one place:     *)
(* waiting, with one worker, or left behind by one that failed.             *)
OneHolder ==
    \A w, v \in Workers : \A c \in Clients : Holds(w, c) /\ Holds(v, c) => w = v

NotHeld ==
    \A w, v \in Workers : \A c \in Clients :
        Holds(w, c) => c \in arrived \ backlog /\ <<c, v>> \notin abandoned

LeftBehind ==
    \A w \in Workers : \A c \in Clients :
        <<c, w>> \in abandoned => c \in arrived \ backlog

(* What a worker is busy with. *)
Busy ==
    \A w \in Workers :
        /\ stage[w] = "count" => current[w] \in Clients \ connections[w]
        /\ stage[w] = "close" => current[w] \in connections[w]
        /\ stage[w] = "uncount" => current[w] \in Clients

(* The inductive invariant. *)
IInv ==
    /\ TypeOK
    /\ backlog \subseteq arrived
    /\ Listed
    /\ OneHolder
    /\ NotHeld
    /\ LeftBehind
    /\ Busy

(* The worker goes to a place with a client; the others stay. *)
LEMMA GotoMoves ==
    ASSUME TypeOK, NEW w \in Workers, NEW place, NEW c \in Clients \cup {None},
           Goto(w, place, c)
    PROVE  /\ stage'[w] = place /\ current'[w] = c
           /\ \A v \in Workers \ {w} : stage'[v] = stage[v] /\ current'[v] = current[v]
BY DEF Goto, TypeOK

(* A step in which no worker gains or loses a connection, and no client     *)
(* waits that did not. *)
LEMMA SameHolders ==
    ASSUME IInv, TypeOK', UNCHANGED <<clients, abandoned>>,
           backlog' \subseteq backlog, arrived \subseteq arrived',
           \A v \in Workers : \A c \in Clients : Holds(v, c)' <=> Holds(v, c)
    PROVE  Listed' /\ OneHolder' /\ NotHeld' /\ LeftBehind'
<1>. USE DEF IInv
<1>1. Listed'
  BY DEF Listed
<1>2. OneHolder'
  BY DEF OneHolder
<1>3. NotHeld'
  BY DEF NotHeld
<1>4. LeftBehind'
  BY DEF LeftBehind
<1>. QED BY <1>1, <1>2, <1>3, <1>4

(* A worker goes on without a client, and without touching its table. *)
LEMMA MovePreserves ==
    ASSUME IInv, NEW w \in Workers,
           NEW place \in {"top", "poll", "accept", "cleanup"},
           Goto(w, place, None), stage[w] # "count", TypeOK',
           UNCHANGED <<clients, connections, backlog, arrived, abandoned>>
    PROVE  IInv'
<1>1. \A v \in Workers : \A c \in Clients : Holds(v, c)' <=> Holds(v, c)
  BY GotoMoves DEF IInv, Holds
<1>2. Busy'
  BY GotoMoves DEF IInv, Busy
<1>. QED BY <1>1, <1>2, SameHolders DEF IInv

(* The steps that only move a worker along. *)
LEMMA IdleStepsPreserve ==
    ASSUME IInv, NEW w \in Workers,
           \/ EnterPoll(w) \/ PollListener(w) \/ PollNothing(w)
           \/ AcceptNone(w) \/ AcceptFails(w) \/ SeeShutdown(w)
    PROVE  IInv'
<1>1. CASE EnterPoll(w)
  <2>1. TypeOK'
    BY <1>1 DEF EnterPoll, Goto, IInv, TypeOK, books, network, faults
  <2>. QED BY <1>1, <2>1, MovePreserves DEF EnterPoll, books, network, faults
<1>2. CASE PollListener(w)
  <2>1. TypeOK'
    BY <1>2 DEF PollListener, Goto, IInv, TypeOK, books, faults
  <2>. QED BY <1>2, <2>1, MovePreserves DEF PollListener, books, faults
<1>3. CASE PollNothing(w)
  <2>1. TypeOK'
    BY <1>3 DEF PollNothing, Goto, IInv, TypeOK, books, network, faults
  <2>. QED BY <1>3, <2>1, MovePreserves DEF PollNothing, books, network, faults
<1>4. CASE AcceptNone(w)
  <2>1. TypeOK'
    BY <1>4 DEF AcceptNone, Goto, IInv, TypeOK, books, network, faults
  <2>. QED BY <1>4, <2>1, MovePreserves DEF AcceptNone, books, network, faults
<1>5. CASE AcceptFails(w)
  <2>1. TypeOK'
    BY <1>5, ServerBoundsAssumption
    DEF AcceptFails, Goto, IInv, TypeOK, books, network
  <2>. QED BY <1>5, <2>1, MovePreserves DEF AcceptFails, books, network
<1>6. CASE SeeShutdown(w)
  <2>1. TypeOK'
    BY <1>6 DEF SeeShutdown, Goto, IInv, TypeOK, books, network, faults
  <2>. QED BY <1>6, <2>1, MovePreserves DEF SeeShutdown, books, network, faults
<1>. QED BY <1>1, <1>2, <1>3, <1>4, <1>5, <1>6

(* The clients, and the signal. *)
LEMMA ConnectPreserves ==
    ASSUME IInv, NEW c \in Clients, Connect(c)
    PROVE  IInv'
<1>. USE DEF IInv
<1>1. TypeOK'
  BY DEF Connect, TypeOK, books
<1>2. \A v \in Workers : \A d \in Clients : Holds(v, d)' <=> Holds(v, d)
  BY DEF Connect, Holds, books
<1>3. /\ backlog' \subseteq backlog \cup {c} /\ arrived' = arrived \cup {c}
      /\ c \notin arrived /\ UNCHANGED <<clients, connections, stage, current, abandoned>>
  BY DEF Connect, books
<1>4. Listed'
  BY <1>2, <1>3 DEF Listed
<1>5. OneHolder'
  BY <1>2, <1>3 DEF OneHolder
<1>6. NotHeld'
  BY <1>2, <1>3 DEF NotHeld
<1>7. LeftBehind'
  BY <1>3 DEF LeftBehind
<1>8. Busy'
  BY <1>3 DEF Busy
<1>. QED BY <1>1, <1>3, <1>4, <1>5, <1>6, <1>7, <1>8

LEMMA OutsidePreserves ==
    ASSUME IInv, Shutdown \/ \E c \in Clients : HangUp(c)
    PROVE  IInv'
<1>1. TypeOK'
  BY DEF Shutdown, HangUp, IInv, TypeOK, books, network, faults
<1>2. UNCHANGED <<clients, connections, stage, current, backlog, arrived, abandoned>>
  BY DEF Shutdown, HangUp, books, network, faults
<1>3. \A v \in Workers : \A c \in Clients : Holds(v, c)' <=> Holds(v, c)
  BY <1>2 DEF Holds
<1>4. Busy'
  BY <1>2 DEF IInv, Busy
<1>. QED BY <1>1, <1>2, <1>3, <1>4, SameHolders DEF IInv

(* A connection leaves the backlog for the worker that accepts it. *)
LEMMA AcceptPreserves ==
    ASSUME IInv, NEW w \in Workers, Accept(w)
    PROVE  IInv'
<1>. USE DEF IInv
<1>1. PICK c \in backlog : /\ backlog' = backlog \ {c}
                            /\ clients' = clients \cup {<<c, w>>}
                            /\ Goto(w, "count", c)
  BY DEF Accept
<1>2. c \in Clients /\ c \in arrived
  BY DEF TypeOK
<1>3. UNCHANGED <<connections, arrived, abandoned>> /\ stage[w] = "accept"
  BY DEF Accept, faults
<1>4. TypeOK'
  BY <1>1, <1>2 DEF Accept, Goto, TypeOK, faults
<1>5. \A v \in Workers : \A d \in Clients :
          Holds(v, d)' <=> Holds(v, d) \/ (v = w /\ d = c)
  BY <1>1, <1>2, <1>3, GotoMoves DEF Holds
<1>6. Listed'
  BY <1>1, <1>2, <1>3, <1>5 DEF Listed
<1>7. OneHolder'
  BY <1>5 DEF OneHolder, NotHeld
<1>8. NotHeld'
  BY <1>1, <1>2, <1>3, <1>5 DEF NotHeld, LeftBehind
<1>9. LeftBehind'
  BY <1>1, <1>3 DEF LeftBehind
<1>10. c \notin connections[w]
  BY <1>2 DEF NotHeld, Holds
<1>11. Busy'
  BY <1>1, <1>2, <1>3, <1>10, GotoMoves DEF Busy
<1>. QED BY <1>1, <1>3, <1>4, <1>6, <1>7, <1>8, <1>9, <1>11

(* The connection enters the worker's table. *)
LEMMA CountPreserves ==
    ASSUME IInv, NEW w \in Workers, Count(w)
    PROVE  IInv'
<1>. USE DEF IInv
<1>1. /\ current[w] \in Clients
      /\ connections' = [connections EXCEPT ![w] = @ \cup {current[w]}]
      /\ Goto(w, "accept", None) /\ stage[w] = "count"
      /\ UNCHANGED <<clients, backlog, arrived, abandoned>>
  BY DEF Count, Busy, network, faults
<1>2. TypeOK'
  BY <1>1 DEF Count, Goto, TypeOK, network, faults
<1>3. \A v \in Workers : \A c \in Clients : Holds(v, c)' <=> Holds(v, c)
  BY <1>1, GotoMoves DEF Holds, TypeOK
<1>4. Busy'
  BY <1>1, GotoMoves DEF Busy, TypeOK
<1>. QED BY <1>1, <1>2, <1>3, <1>4, SameHolders

(* A worker turns to a connection of its own. *)
LEMMA PollClientPreserves ==
    ASSUME IInv, NEW w \in Workers, PollClient(w)
    PROVE  IInv'
<1>. USE DEF IInv
<1>1. PICK c \in connections[w] : Goto(w, "close", c)
  BY DEF PollClient
<1>2. /\ c \in Clients /\ stage[w] = "poll"
      /\ UNCHANGED <<clients, connections, backlog, arrived, abandoned>>
  BY DEF PollClient, TypeOK, books, network, faults
<1>3. TypeOK'
  BY <1>1, <1>2 DEF PollClient, Goto, TypeOK, books, network, faults
<1>4. \A v \in Workers : \A d \in Clients : Holds(v, d)' <=> Holds(v, d)
  BY <1>1, <1>2, GotoMoves DEF Holds
<1>5. Busy'
  BY <1>1, <1>2, GotoMoves DEF Busy
<1>. QED BY <1>2, <1>3, <1>4, <1>5, SameHolders

(* The end of a connection, in the event loop or in the cleanup: it leaves  *)
(* the table, and every entry of the client leaves the registry.            *)
LEMMA ClosePreserves ==
    ASSUME IInv, TypeOK', NEW w \in Workers, NEW c \in connections[w],
           stage[w] # "count", stage'[w] \notin {"count", "close"},
           stage'[w] = "uncount" => current'[w] = c,
           \A v \in Workers \ {w} : stage'[v] = stage[v] /\ current'[v] = current[v],
           connections' = [connections EXCEPT ![w] = @ \ {c}],
           clients' = {e \in clients : e[1] # c},
           UNCHANGED <<backlog, arrived, abandoned>>
    PROVE  IInv'
<1>. USE DEF IInv
<1>1. c \in Clients /\ Holds(w, c)
  BY DEF TypeOK, Holds
<1>2. \A v \in Workers : \A d \in Clients :
          Holds(v, d)' <=> Holds(v, d) /\ ~(v = w /\ d = c)
  BY DEF Holds, TypeOK
<1>3. \A v \in Workers : <<c, v>> \in clients => v = w
  BY <1>1 DEF Listed, OneHolder, NotHeld
<1>4. \A d \in Clients, v \in Workers :
          <<d, v>> \in clients' <=> <<d, v>> \in clients /\ d # c
  OBVIOUS
<1>5. Listed'
  <2>1. clients' \subseteq Clients \X Workers
    BY DEF Listed
  <2>2. ASSUME NEW d \in Clients, NEW v \in Workers
        PROVE  <<d, v>> \in clients' <=> Holds(v, d)' \/ <<d, v>> \in abandoned'
    BY <1>1, <1>2, <1>3, <1>4 DEF Listed, NotHeld, OneHolder
  <2>. QED BY <2>1, <2>2 DEF Listed
<1>6. OneHolder'
  BY <1>2 DEF OneHolder
<1>7. NotHeld'
  BY <1>2 DEF NotHeld
<1>8. LeftBehind'
  BY DEF LeftBehind
<1>9. Busy'
  BY DEF Busy, TypeOK
<1>. QED BY <1>5, <1>6, <1>7, <1>8, <1>9

LEMMA UnregisterPreserves ==
    ASSUME IInv, NEW w \in Workers, Unregister(w)
    PROVE  IInv'
<1>. USE DEF IInv
<1>1. current[w] \in connections[w] /\ current[w] \in Clients
  BY DEF Unregister, Busy, TypeOK
<1>2. TypeOK'
  BY <1>1 DEF Unregister, Goto, TypeOK, network, faults
<1>3. /\ stage'[w] = "uncount" /\ current'[w] = current[w]
      /\ \A v \in Workers \ {w} : stage'[v] = stage[v] /\ current'[v] = current[v]
  BY <1>1, GotoMoves DEF Unregister
<1>. QED BY <1>1, <1>2, <1>3, ClosePreserves DEF Unregister, network, faults

LEMMA CleanupPreserves ==
    ASSUME IInv, NEW w \in Workers, Cleanup(w)
    PROVE  IInv'
<1>. USE DEF IInv
<1>1. PICK c \in connections[w] :
          /\ connections' = [connections EXCEPT ![w] = @ \ {c}]
          /\ clients' = {e \in clients : e[1] # c}
          /\ closed' = closed \cup {c}
          /\ dropped' = dropped \cup {c}
  BY DEF Cleanup
<1>2. TypeOK'
  BY <1>1 DEF Cleanup, TypeOK
<1>. QED BY <1>1, <1>2, ClosePreserves DEF Cleanup

LEMMA UncountPreserves ==
    ASSUME IInv, NEW w \in Workers, Uncount(w)
    PROVE  IInv'
<1>. USE DEF IInv
<1>1. /\ stage[w] = "uncount" /\ Goto(w, "top", None)
      /\ UNCHANGED <<clients, connections, backlog, arrived, abandoned>>
  BY DEF Uncount, faults
<1>2. current[w] \in Clients
  BY <1>1 DEF Busy
<1>3. TypeOK'
  BY <1>1, <1>2 DEF Uncount, Goto, TypeOK, faults
<1>. QED BY <1>1, <1>3, MovePreserves

(* A worker that ends takes the listener with it, and the backlog. *)
LEMMA StopPreserves ==
    ASSUME IInv, NEW w \in Workers, Stop(w)
    PROVE  IInv'
<1>. USE DEF IInv
<1>1. /\ stage[w] = "cleanup" /\ Goto(w, "stopped", None) /\ backlog' = {}
      /\ UNCHANGED <<clients, connections, arrived, abandoned>>
  BY DEF Stop, CloseListener, books, faults
<1>2. TypeOK'
  BY <1>1 DEF Stop, CloseListener, Goto, TypeOK, books, faults
<1>3. \A v \in Workers : \A d \in Clients : Holds(v, d)' <=> Holds(v, d)
  BY <1>1, GotoMoves DEF Holds
<1>4. Busy'
  BY <1>1, GotoMoves DEF Busy
<1>. QED BY <1>1, <1>2, <1>3, <1>4, SameHolders

(* What a failed worker had is abandoned, and stays listed. *)
LEMMA FailPreserves ==
    ASSUME IInv, NEW w \in Workers, stage[w] \in {"poll", "accept"}, Fail(w, {})
    PROVE  IInv'
<1>. USE DEF IInv
<1>1. /\ Goto(w, "failed", None) /\ backlog' = {}
      /\ connections' = [connections EXCEPT ![w] = {}]
      /\ abandoned' = abandoned \cup (connections[w] \X {w})
      /\ UNCHANGED <<clients, arrived>>
  BY DEF Fail, CloseListener
<1>2. TypeOK'
  <2>1. failures' \in 0 .. MaxFailures
    BY ServerBoundsAssumption DEF Fail, TypeOK
  <2>2. connections[w] \subseteq Clients /\ abandoned' \subseteq Clients \X Workers
    BY <1>1 DEF TypeOK
  <2>3. closed' \subseteq Clients
    BY <2>2 DEF Fail, CloseListener, TypeOK
  <2>4. connections' \in [Workers -> SUBSET Clients]
    BY <1>1 DEF TypeOK
  <2>5. /\ stage' \in [Workers -> {"top", "poll", "accept", "count", "close",
                                  "uncount", "cleanup", "stopped", "failed"}]
        /\ current' \in [Workers -> Clients \cup {None}]
        /\ ready' \in [Workers -> BOOLEAN]
    BY <1>1 DEF Fail, CloseListener, Goto, TypeOK
  <2>. QED BY <2>1, <2>2, <2>3, <2>4, <2>5 DEF Fail, CloseListener, TypeOK
<1>3. \A v \in Workers : \A d \in Clients : Holds(v, d)' <=> Holds(v, d) /\ v # w
  BY <1>1, GotoMoves DEF Holds, TypeOK
<1>4. \A d \in Clients : d \in connections[w] <=> Holds(w, d)
  BY DEF Holds
<1>5. \A d \in Clients, v \in Workers :
          <<d, v>> \in abandoned' <=> <<d, v>> \in abandoned \/ (v = w /\ Holds(w, d))
  BY <1>1, <1>4
<1>6. Listed'
  BY <1>1, <1>3, <1>5 DEF Listed
<1>7. OneHolder'
  BY <1>3 DEF OneHolder
<1>8. NotHeld'
  BY <1>1, <1>3, <1>5 DEF NotHeld, OneHolder
<1>9. LeftBehind'
  BY <1>1, <1>5 DEF LeftBehind, NotHeld
<1>10. Busy'
  BY <1>1, GotoMoves DEF Busy, TypeOK
<1>. QED BY <1>1, <1>2, <1>6, <1>7, <1>8, <1>9, <1>10

(* A server that starts has no clients. *)
LEMMA InitInvariant == Init => IInv
<1>. SUFFICES ASSUME Init PROVE IInv
  OBVIOUS
<1>1. TypeOK
  <2>1. 0 \in 0 .. MaxErrors /\ 0 \in 0 .. MaxFailures
    BY ServerBoundsAssumption
  <2>2. connections \in [Workers -> SUBSET Clients]
    BY DEF Init
  <2>3. /\ stage \in [Workers -> {"top", "poll", "accept", "count", "close",
                                 "uncount", "cleanup", "stopped", "failed"}]
        /\ current \in [Workers -> Clients \cup {None}]
        /\ ready \in [Workers -> BOOLEAN]
    BY DEF Init
  <2>4. shutdown \in BOOLEAN /\ listening \in BOOLEAN /\ stuck \in BOOLEAN
    BY Zenon DEF Init
  <2>5. active \in Int /\ errors = 0 /\ failures = 0
    BY DEF Init
  <2>6. /\ clients = {} /\ backlog = {} /\ arrived = {} /\ hungUp = {}
        /\ closed = {} /\ abandoned = {} /\ dropped = {}
    BY DEF Init
  <2>. QED BY <2>1, <2>2, <2>3, <2>4, <2>5, <2>6 DEF TypeOK
<1>. QED BY <1>1 DEF Init, IInv, Listed, OneHolder, NotHeld, LeftBehind, Busy, Holds

(* The invariant holds of every execution. *)
LEMMA Invariance == Spec => []IInv
<1>1. IInv /\ UNCHANGED vars => IInv'
  BY DEF IInv, TypeOK, Listed, OneHolder, NotHeld, LeftBehind, Busy, Holds,
         vars, books, network, faults
<1>2. ASSUME IInv, NEW w \in Workers,
             Step(w) \/ AcceptFails(w) \/ PollFails(w) \/ SetupFails(w)
      PROVE  IInv'
  BY <1>2, IdleStepsPreserve, AcceptPreserves, CountPreserves, PollClientPreserves,
     UnregisterPreserves, UncountPreserves, CleanupPreserves, StopPreserves,
     FailPreserves
  DEF Step, PollFails, SetupFails
<1>3. IInv /\ [Next]_vars => IInv'
  BY <1>1, <1>2, ConnectPreserves, OutsidePreserves DEF Next
<1>. QED BY <1>3, InitInvariant, PTL DEF Spec

(* The registry, the tables of the workers and the network keep their       *)
(* shapes.                                                                  *)
THEOREM TypeCorrect == Spec => []TypeOK
<1>. QED BY Invariance, PTL DEF IInv

(* The registry lists every open connection under its worker, and nothing   *)
(* else but what failed workers left: closing one client's connection never *)
(* takes the entry of another, and no entry is forgotten.                   *)
THEOREM RegistryIsExact == Spec => []RegistryExact
<1>1. ASSUME IInv PROVE RegistryExact
  <2>1. \A c \in Clients, w \in Workers :
            <<c, w>> \in clients <=> Holds(w, c) \/ <<c, w>> \in abandoned
    BY <1>1 DEF IInv, Listed
  <2>2. clients \subseteq Clients \X Workers /\ abandoned \subseteq Clients \X Workers
    BY <1>1 DEF IInv, Listed, TypeOK
  <2>. QED BY <2>1, <2>2 DEF RegistryExact
<1>. QED BY <1>1, Invariance, PTL

----------------------------------------------------------------------------
(* The counter of connections. *)

(* What the counter is made of is finite, and a client that a stopping      *)
(* worker has closed is nowhere else.                                       *)
Countable ==
    /\ IsFiniteSet(OpenConnections) /\ IsFiniteSet(Uncounting)
    /\ IsFiniteSet(abandoned) /\ IsFiniteSet(dropped)

DroppedApart ==
    /\ dropped \subseteq arrived \ backlog
    /\ \A w \in Workers : \A c \in Clients : Holds(w, c) => c \notin dropped

CountInv == Countable /\ DroppedApart /\ CountExplained

LEMMA InitCountInv == Init => CountInv
<1>. SUFFICES ASSUME Init PROVE CountInv
  OBVIOUS
<1>1. /\ OpenConnections = {} /\ Uncounting = {} /\ abandoned = {} /\ dropped = {}
      /\ active = 0
  BY DEF Init, OpenConnections, Uncounting
<1>2. DroppedApart
  BY <1>1 DEF DroppedApart
<1>. QED BY <1>1, <1>2, FS_EmptySet DEF CountInv, Countable, CountExplained

(* A step that keeps the books keeps what they say. *)
LEMMA BooksKept ==
    ASSUME CountInv,
           UNCHANGED <<active, OpenConnections, Uncounting, abandoned, dropped>>
    PROVE  Countable' /\ CountExplained'
BY DEF CountInv, Countable, CountExplained

(* Nobody is held who was not, and nobody waits who did not. *)
LEMMA DroppedApartKept ==
    ASSUME CountInv, UNCHANGED dropped,
           backlog' \subseteq backlog, arrived \subseteq arrived',
           \A v \in Workers : \A c \in Clients :
               Holds(v, c)' => Holds(v, c) \/ c \in backlog
    PROVE  DroppedApart'
BY DEF CountInv, DroppedApart

(* A worker that comes from and goes to a place where it counts nothing.    *)
LEMMA MoveKeepsBooks ==
    ASSUME IInv, NEW w \in Workers, NEW place, NEW c \in Clients \cup {None},
           Goto(w, place, c), place # "uncount", stage[w] # "uncount"
    PROVE  UNCHANGED Uncounting
BY GotoMoves DEF IInv, Uncounting

(* The steps that leave the tables and the counter alone. *)
LEMMA QuietKeepsCount ==
    ASSUME IInv, CountInv,
           \/ \E c \in Clients : Connect(c) \/ HangUp(c)
           \/ Shutdown
           \/ \E w \in Workers :
                 \/ EnterPoll(w) \/ PollListener(w) \/ PollClient(w)
                 \/ PollNothing(w) \/ Accept(w) \/ AcceptNone(w)
                 \/ AcceptFails(w) \/ SeeShutdown(w) \/ Stop(w)
    PROVE  CountInv'
<1>1. UNCHANGED <<active, connections, abandoned, dropped>>
  BY DEF Connect, HangUp, Shutdown, EnterPoll, PollListener, PollClient,
         PollNothing, Accept, AcceptNone, AcceptFails, SeeShutdown, Stop,
         books, faults
<1>2. UNCHANGED OpenConnections
  BY <1>1 DEF OpenConnections
<1>3. CASE \/ \E c \in Clients : Connect(c) \/ HangUp(c)
           \/ Shutdown
  <2>1. UNCHANGED <<stage, current>>
    BY <1>3 DEF Connect, HangUp, Shutdown
  <2>2. UNCHANGED Uncounting
    BY <2>1 DEF Uncounting
  <2>3. \A v \in Workers : \A c \in Clients : Holds(v, c)' => Holds(v, c)
    BY <1>1, <2>1 DEF Holds
  <2>4. DroppedApart'
    <3>1. ASSUME NEW c \in Clients, Connect(c)
          PROVE  /\ c \notin arrived
                 /\ backlog' \subseteq backlog \cup {c}
                 /\ arrived' = arrived \cup {c}
      BY <3>1 DEF Connect
    <3>2. CASE \E c \in Clients : Connect(c)
      <4>1. dropped \subseteq arrived' \ backlog'
        BY <3>1, <3>2 DEF CountInv, DroppedApart
      <4>. QED BY <1>1, <2>3, <4>1 DEF CountInv, DroppedApart
    <3>3. CASE (\E c \in Clients : HangUp(c)) \/ Shutdown
      <4>1. UNCHANGED <<backlog, arrived>>
        BY <3>3 DEF HangUp, Shutdown, network
      <4>. QED BY <1>1, <2>3, <4>1 DEF CountInv, DroppedApart
    <3>. QED BY <1>3, <3>2, <3>3
  <2>. QED BY <1>1, <1>2, <2>2, <2>4, BooksKept DEF CountInv
<1>4. ASSUME NEW w \in Workers,
             \/ EnterPoll(w) \/ PollListener(w) \/ PollClient(w)
             \/ PollNothing(w) \/ Accept(w) \/ AcceptNone(w)
             \/ AcceptFails(w) \/ SeeShutdown(w) \/ Stop(w)
      PROVE  CountInv'
  <2>. DEFINE Places == {"top", "poll", "accept", "count", "close", "cleanup",
                        "stopped"}
  <2>. DEFINE Gone(place, c) ==
            /\ Goto(w, place, c)
            /\ place # "uncount" /\ (place = "count" => c \in backlog)
  <2>1. PICK place \in Places, c \in Clients \cup {None} : Gone(place, c)
    <3>1. ASSUME NEW place \in {"top", "poll", "accept", "cleanup", "stopped"},
                 Goto(w, place, None)
          PROVE  \E p \in Places, c \in Clients \cup {None} : Gone(p, c)
      BY <3>1
    <3>2. CASE PollClient(w)
      <4>1. PICK c \in Clients : Goto(w, "close", c)
        BY <3>2 DEF PollClient, IInv, TypeOK
      <4>. QED BY <4>1
    <3>3. CASE Accept(w)
      <4>1. PICK c \in backlog : Goto(w, "count", c)
        BY <3>3 DEF Accept
      <4>2. c \in Clients
        BY DEF IInv, TypeOK
      <4>. QED BY <4>1, <4>2
    <3>4. CASE PollListener(w) \/ AcceptNone(w) \/ AcceptFails(w)
      BY <3>1, <3>4 DEF PollListener, AcceptNone, AcceptFails
    <3>5. CASE EnterPoll(w) \/ PollNothing(w) \/ SeeShutdown(w) \/ Stop(w)
      BY <3>1, <3>5 DEF EnterPoll, PollNothing, SeeShutdown, Stop
    <3>. QED BY <1>4, <3>2, <3>3, <3>4, <3>5
  <2>2. stage[w] # "uncount" /\ stage[w] # "count"
    BY <1>4 DEF EnterPoll, PollListener, PollClient, PollNothing, Accept,
                AcceptNone, AcceptFails, SeeShutdown, Stop
  <2>3. UNCHANGED Uncounting
    BY <2>1, <2>2, MoveKeepsBooks
  <2>4. backlog' \subseteq backlog /\ arrived' = arrived
    BY <1>4 DEF EnterPoll, PollListener, PollClient, PollNothing, Accept,
                AcceptNone, AcceptFails, SeeShutdown, Stop, CloseListener, network
  <2>5. \A v \in Workers : \A d \in Clients :
            Holds(v, d)' => Holds(v, d) \/ d \in backlog
    BY <1>1, <2>1, GotoMoves DEF Holds, IInv
  <2>. QED BY <1>1, <1>2, <2>3, <2>4, <2>5, BooksKept, DroppedApartKept DEF CountInv
<1>. QED BY <1>3, <1>4

(* A connection is counted as it enters the worker's table. *)
LEMMA CountKeepsCount ==
    ASSUME IInv, CountInv, NEW w \in Workers, Count(w)
    PROVE  CountInv'
<1>. DEFINE c == current[w]
<1>1. /\ c \in Clients \ connections[w] /\ Holds(w, c)
      /\ connections' = [connections EXCEPT ![w] = @ \cup {c}]
      /\ active' = active + 1 /\ stage[w] = "count" /\ Goto(w, "accept", None)
      /\ UNCHANGED <<abandoned, dropped, backlog, arrived>>
  BY DEF Count, IInv, Busy, Holds, network, faults
<1>2. OpenConnections' = OpenConnections \cup {<<c, w>>}
  BY <1>1 DEF OpenConnections, IInv, TypeOK
<1>3. <<c, w>> \notin OpenConnections
  BY <1>1 DEF OpenConnections
<1>4. UNCHANGED Uncounting
  BY <1>1, MoveKeepsBooks
<1>5. DroppedApart'
  <2>1. \A v \in Workers : \A d \in Clients : Holds(v, d)' => Holds(v, d)
    BY <1>1, GotoMoves DEF Holds, IInv, TypeOK
  <2>. QED BY <1>1, <2>1, DroppedApartKept
<1>6. /\ IsFiniteSet(OpenConnections')
      /\ Cardinality(OpenConnections') = Cardinality(OpenConnections) + 1
  BY <1>2, <1>3, FS_AddElement DEF CountInv, Countable
<1>7. Countable'
  BY <1>1, <1>4, <1>6 DEF CountInv, Countable
<1>8. CountExplained'
  BY <1>1, <1>4, <1>6, FS_CardinalityType DEF CountInv, Countable, CountExplained
<1>. QED BY <1>5, <1>7, <1>8 DEF CountInv

(* A connection that leaves the table is still counted, once. *)
LEMMA UnregisterKeepsCount ==
    ASSUME IInv, CountInv, NEW w \in Workers, Unregister(w)
    PROVE  CountInv'
<1>. DEFINE c == current[w]
<1>1. /\ c \in Clients /\ c \in connections[w] /\ stage[w] = "close"
      /\ connections' = [connections EXCEPT ![w] = @ \ {c}]
      /\ Goto(w, "uncount", c)
      /\ UNCHANGED <<active, abandoned, dropped, backlog, arrived>>
  <2>1. /\ c \in Clients /\ c \in connections[w] /\ stage[w] = "close"
    BY DEF Unregister, IInv, Busy, TypeOK
  <2>. QED BY <2>1 DEF Unregister, network, faults
<1>2. OpenConnections' = OpenConnections \ {<<c, w>>} /\ <<c, w>> \in OpenConnections
  BY <1>1 DEF OpenConnections, IInv, TypeOK
<1>3. Uncounting' = Uncounting \cup {w} /\ w \notin Uncounting
  BY <1>1, GotoMoves DEF Uncounting, IInv
<1>4. DroppedApart'
  <2>1. \A v \in Workers : \A d \in Clients : Holds(v, d)' => Holds(v, d)
    BY <1>1, GotoMoves DEF Holds, IInv, TypeOK
  <2>. QED BY <1>1, <2>1, DroppedApartKept
<1>5. /\ IsFiniteSet(OpenConnections') /\ IsFiniteSet(Uncounting')
      /\ Cardinality(OpenConnections') = Cardinality(OpenConnections) - 1
      /\ Cardinality(Uncounting') = Cardinality(Uncounting) + 1
  BY <1>2, <1>3, FS_AddElement, FS_RemoveElement DEF CountInv, Countable
<1>6. Countable'
  BY <1>1, <1>5 DEF CountInv, Countable
<1>7. CountExplained'
  BY <1>1, <1>5, FS_CardinalityType DEF CountInv, Countable, CountExplained
<1>. QED BY <1>4, <1>6, <1>7 DEF CountInv

LEMMA UncountKeepsCount ==
    ASSUME IInv, CountInv, NEW w \in Workers, Uncount(w)
    PROVE  CountInv'
<1>1. /\ stage[w] = "uncount" /\ Goto(w, "top", None) /\ active' = active - 1
      /\ UNCHANGED <<connections, abandoned, dropped, backlog, arrived>>
  BY DEF Uncount, faults
<1>2. UNCHANGED OpenConnections
  BY <1>1 DEF OpenConnections
<1>3. Uncounting' = Uncounting \ {w} /\ w \in Uncounting
  BY <1>1, GotoMoves DEF Uncounting, IInv
<1>4. DroppedApart'
  <2>1. \A v \in Workers : \A d \in Clients : Holds(v, d)' => Holds(v, d)
    BY <1>1, GotoMoves DEF Holds, IInv, TypeOK
  <2>. QED BY <1>1, <2>1, DroppedApartKept
<1>5. /\ IsFiniteSet(Uncounting')
      /\ Cardinality(Uncounting') = Cardinality(Uncounting) - 1
  BY <1>3, FS_RemoveElement DEF CountInv, Countable
<1>6. Countable'
  BY <1>1, <1>2, <1>5 DEF CountInv, Countable
<1>7. CountExplained'
  BY <1>1, <1>2, <1>5, FS_CardinalityType DEF CountInv, Countable, CountExplained
<1>. QED BY <1>4, <1>6, <1>7 DEF CountInv

(* What a stopping worker closes goes from the table to the dropped. *)
LEMMA CleanupKeepsCount ==
    ASSUME IInv, CountInv, NEW w \in Workers, Cleanup(w)
    PROVE  CountInv'
<1>1. PICK c \in connections[w] :
          /\ connections' = [connections EXCEPT ![w] = @ \ {c}]
          /\ dropped' = dropped \cup {c}
  BY DEF Cleanup
<1>2. /\ c \in Clients /\ Holds(w, c)
      /\ UNCHANGED <<active, stage, current, abandoned, backlog, arrived>>
  BY DEF Cleanup, Holds, IInv, TypeOK
<1>3. OpenConnections' = OpenConnections \ {<<c, w>>} /\ <<c, w>> \in OpenConnections
  BY <1>1, <1>2 DEF OpenConnections, IInv, TypeOK
<1>4. UNCHANGED Uncounting
  BY <1>2 DEF Uncounting
<1>5. c \notin dropped
  BY <1>2 DEF CountInv, DroppedApart
<1>6. DroppedApart'
  <2>1. \A v \in Workers : \A d \in Clients :
            Holds(v, d)' => Holds(v, d) /\ ~(v = w /\ d = c)
    BY <1>1, <1>2 DEF Holds, IInv, TypeOK, Cleanup
  <2>2. \A v \in Workers : Holds(v, c) => v = w
    BY <1>2 DEF IInv, OneHolder
  <2>3. c \in arrived \ backlog
    BY <1>2 DEF IInv, NotHeld
  <2>. QED BY <1>1, <1>2, <2>1, <2>2, <2>3 DEF CountInv, DroppedApart
<1>7. /\ IsFiniteSet(OpenConnections') /\ IsFiniteSet(dropped')
      /\ Cardinality(OpenConnections') = Cardinality(OpenConnections) - 1
      /\ Cardinality(dropped') = Cardinality(dropped) + 1
  BY <1>1, <1>3, <1>5, FS_AddElement, FS_RemoveElement DEF CountInv, Countable
<1>8. Countable'
  BY <1>2, <1>4, <1>7 DEF CountInv, Countable
<1>9. CountExplained'
  BY <1>2, <1>4, <1>7, FS_CardinalityType DEF CountInv, Countable, CountExplained
<1>. QED BY <1>6, <1>8, <1>9 DEF CountInv

(* What a failed worker had goes from the table to the abandoned. *)
LEMMA FailKeepsCount ==
    ASSUME IInv, CountInv, NEW w \in Workers, stage[w] \in {"poll", "accept"},
           Fail(w, {})
    PROVE  CountInv'
<1>. DEFINE lost == connections[w] \X {w}
<1>1. /\ Goto(w, "failed", None) /\ backlog' = {}
      /\ connections' = [connections EXCEPT ![w] = {}]
      /\ abandoned' = abandoned \cup lost
      /\ UNCHANGED <<active, arrived, dropped>>
  BY DEF Fail, CloseListener
<1>2. OpenConnections' = OpenConnections \ lost /\ lost \subseteq OpenConnections
  BY <1>1 DEF OpenConnections, IInv, TypeOK
<1>3. abandoned \cap lost = {}
  <2>1. \A c \in connections[w] : c \in Clients /\ Holds(w, c)
    BY DEF IInv, TypeOK, Holds
  <2>2. ASSUME NEW e \in lost, e \in abandoned PROVE FALSE
    <3>1. PICK c \in connections[w] : e = <<c, w>>
      BY <2>2
    <3>2. c \in Clients /\ Holds(w, c) /\ <<c, w>> \in abandoned
      BY <2>1, <2>2, <3>1
    <3>. QED BY <3>2 DEF IInv, NotHeld
  <2>. QED BY <2>2
<1>4. UNCHANGED Uncounting
  BY <1>1, MoveKeepsBooks
<1>5. DroppedApart'
  <2>1. \A v \in Workers : \A d \in Clients : Holds(v, d)' => Holds(v, d)
    BY <1>1, GotoMoves DEF Holds, IInv, TypeOK
  <2>. QED BY <1>1, <2>1, DroppedApartKept
<1>. HIDE DEF lost
<1>6. /\ IsFiniteSet(lost) /\ Cardinality(lost) \in Nat
      /\ IsFiniteSet(OpenConnections') /\ IsFiniteSet(abandoned')
  BY <1>1, <1>2, FS_Subset, FS_Union, FS_CardinalityType DEF CountInv, Countable
<1>7. Cardinality(OpenConnections') = Cardinality(OpenConnections) - Cardinality(lost)
  <2>1. OpenConnections \cap lost = lost
    BY <1>2
  <2>2. IsFiniteSet(OpenConnections)
    BY DEF CountInv, Countable
  <2>3. Cardinality(OpenConnections \ lost)
            = Cardinality(OpenConnections) - Cardinality(OpenConnections \cap lost)
    BY <1>6, <2>2, FS_Difference
  <2>. QED BY <1>2, <2>1, <2>3
<1>8. Cardinality(abandoned') = Cardinality(abandoned) + Cardinality(lost)
  <2>1. IsFiniteSet(abandoned)
    BY DEF CountInv, Countable
  <2>2. Cardinality(abandoned \cup lost)
            = Cardinality(abandoned) + Cardinality(lost) - Cardinality({})
    BY <1>3, <1>6, <2>1, FS_Union
  <2>3. Cardinality(abandoned) \in Nat
    BY <2>1, FS_CardinalityType
  <2>. QED BY <1>1, <1>6, <2>2, <2>3, FS_EmptySet
<1>9. Countable'
  BY <1>1, <1>4, <1>6 DEF CountInv, Countable
<1>10. CountExplained'
  BY <1>1, <1>4, <1>6, <1>7, <1>8, FS_CardinalityType
  DEF CountInv, Countable, CountExplained
<1>. QED BY <1>5, <1>9, <1>10 DEF CountInv

(* active_connections counts every open connection and no other but the     *)
(* three known kinds: one about to be uncounted, those of failed workers    *)
(* and those closed by a shutdown.  In particular it never wraps around.    *)
THEOREM CountIsExplained == Spec => []CountExplained
<1>1. CountInv /\ UNCHANGED vars => CountInv'
  BY DEF CountInv, Countable, DroppedApart, CountExplained, OpenConnections,
         Uncounting, Holds, vars, books, network, faults
<1>2. IInv /\ CountInv /\ [Next]_vars => CountInv'
  BY <1>1, QuietKeepsCount, CountKeepsCount, UnregisterKeepsCount,
     UncountKeepsCount, CleanupKeepsCount, FailKeepsCount
  DEF Next, Step, PollFails, SetupFails
<1>3. CountInv => CountExplained
  BY DEF CountInv
<1>. QED BY <1>2, <1>3, InitCountInv, Invariance, PTL DEF Spec
=============================================================================
