------------------------------- MODULE Server -------------------------------
(* The life of the server's connections and workers (server.rs) and the     *)
(* registry of clients (client_registry.rs): accept, close, the failure of  *)
(* a worker, shutdown.                                                      *)
(*                                                                          *)
(* All workers own the same file descriptor of the listener, and each one   *)
(* closes it when it ends.  Each waits for the listener in a poll of its    *)
(* own, which is edge-triggered.  What happens on an open connection is in  *)
(* the module Connection; here it opens, hangs up and is closed.            *)
EXTENDS Integers, FiniteSets

CONSTANTS
    Workers,
    Clients,        \* clients, each of which connects once
    None,           \* no client
    MaxErrors,      \* bound on the errors of accept
    MaxFailures     \* bound on the workers that fail

ASSUME ServerBoundsAssumption ==
    /\ None \notin Clients
    /\ MaxErrors \in Nat /\ MaxFailures \in Nat

VARIABLES
    shutdown,       \* Server.shutdown
    active,         \* Server.active_connections
    clients,        \* ClientRegistry: the clients listed, with their workers
    connections,    \* the connections of each worker
    stage,          \* where each worker is
    current,        \* the client it is busy with
    listening,      \* whether the listener is open
    ready,          \* whether the poll of a worker has the listener to report
    backlog,        \* clients that wait to be accepted
    arrived,        \* clients that have connected
    hungUp,         \* clients that have hung up
    closed,         \* clients the server has closed or refused
    errors,         \* number of errors of accept so far
    failures,       \* number of workers that have failed so far
    stuck,          \* history: accept has failed since the last arrival
    abandoned,      \* history: what failed workers had open
    dropped         \* history: what stopping workers have closed

books   == <<active, clients, connections>>
network == <<listening, ready, backlog, arrived, hungUp, closed>>
faults  == <<errors, failures, stuck, abandoned, dropped>>
vars    == <<shutdown, books, stage, current, network, faults>>

TypeOK ==
    /\ shutdown \in BOOLEAN /\ listening \in BOOLEAN /\ stuck \in BOOLEAN
    /\ active \in Int
    /\ clients \subseteq Clients \X Workers
    /\ connections \in [Workers -> SUBSET Clients]
    /\ stage \in [Workers -> {"top", "poll", "accept", "count", "close",
                              "uncount", "cleanup", "stopped", "failed"}]
    /\ current \in [Workers -> Clients \cup {None}]
    /\ ready \in [Workers -> BOOLEAN]
    /\ backlog \subseteq Clients /\ arrived \subseteq Clients
    /\ hungUp \subseteq Clients /\ closed \subseteq Clients
    /\ errors \in 0 .. MaxErrors /\ failures \in 0 .. MaxFailures
    /\ abandoned \subseteq Clients \X Workers
    /\ dropped \subseteq Clients

Init ==
    /\ shutdown = FALSE
    /\ active = 0
    /\ clients = {}
    /\ connections = [w \in Workers |-> {}]
    /\ stage = [w \in Workers |-> "top"]
    /\ current = [w \in Workers |-> None]
    /\ listening = TRUE
    /\ ready = [w \in Workers |-> FALSE]
    /\ backlog = {} /\ arrived = {} /\ hungUp = {} /\ closed = {}
    /\ errors = 0 /\ failures = 0
    /\ stuck = FALSE /\ abandoned = {} /\ dropped = {}

Goto(w, place, c) ==
    /\ stage' = [stage EXCEPT ![w] = place]
    /\ current' = [current EXCEPT ![w] = c]

----------------------------------------------------------------------------
(* Clients and kernel. *)

(* Every poll is told that the listener has somebody. *)
Connect(c) ==
    /\ c \notin arrived
    /\ arrived' = arrived \cup {c}
    /\ IF listening
       THEN /\ backlog' = backlog \cup {c}
            /\ ready' = [w \in Workers |-> stage[w] \notin {"stopped", "failed"}]
            /\ stuck' = FALSE
            /\ UNCHANGED closed
       ELSE /\ closed' = closed \cup {c}
            /\ UNCHANGED <<backlog, ready, stuck>>
    /\ UNCHANGED <<shutdown, books, stage, current, listening, hungUp, errors,
                   failures, abandoned, dropped>>

HangUp(c) ==
    /\ c \in arrived \ (hungUp \cup closed)
    /\ hungUp' = hungUp \cup {c}
    /\ UNCHANGED <<shutdown, books, stage, current, listening, ready, backlog,
                   arrived, closed, faults>>

(* Server.shutdown, from the handler of a signal. *)
Shutdown ==
    /\ ~shutdown
    /\ shutdown' = TRUE
    /\ UNCHANGED <<books, stage, current, network, faults>>

(* The one descriptor of the listener is closed, for all workers: who waits *)
(* in the backlog is reset, and the polls have nothing to report.  (That    *)
(* the number is used again, for something the other workers then close, is *)
(* left out.)                                                               *)
CloseListener(gone) ==
    /\ listening' = FALSE
    /\ ready' = [w \in Workers |-> FALSE]
    /\ backlog' = {}
    /\ closed' = closed \cup backlog \cup gone

----------------------------------------------------------------------------
(* The event loop. *)

(* The flag is looked at before poll, which may last while it is set. *)
EnterPoll(w) ==
    /\ stage[w] = "top" /\ ~shutdown
    /\ Goto(w, "poll", None)
    /\ UNCHANGED <<shutdown, books, network, faults>>

PollListener(w) ==
    /\ stage[w] = "poll"
    /\ ready[w]
    /\ ready' = [ready EXCEPT ![w] = FALSE]
    /\ Goto(w, "accept", None)
    /\ UNCHANGED <<shutdown, books, listening, backlog, arrived, hungUp, closed,
                   faults>>

(* A client has hung up, or is to be closed for another reason. *)
PollClient(w) ==
    /\ stage[w] = "poll"
    /\ \E c \in connections[w] \cap hungUp : Goto(w, "close", c)
    /\ UNCHANGED <<shutdown, books, network, faults>>

(* The timeout of 100 ms. *)
PollNothing(w) ==
    /\ stage[w] = "poll"
    /\ ~ready[w] /\ connections[w] \cap hungUp = {}
    /\ Goto(w, "top", None)
    /\ UNCHANGED <<shutdown, books, network, faults>>

(* Mutation of Accept: one connection per event. *)
AcceptOne(w) ==
    /\ stage[w] = "accept"
    /\ \E c \in backlog :
           /\ backlog' = backlog \ {c}
           /\ clients' = clients \cup {<<c, w>>}
           /\ connections' = [connections EXCEPT ![w] = @ \cup {c}]
           /\ active' = active + 1
    /\ Goto(w, "top", None)
    /\ UNCHANGED <<shutdown, listening, ready, arrived, hungUp, closed, faults>>

(* A connection is accepted, set up and listed. *)
Accept(w) ==
    /\ stage[w] = "accept"
    /\ \E c \in backlog :
           /\ backlog' = backlog \ {c}
           /\ clients' = clients \cup {<<c, w>>}
           /\ Goto(w, "count", c)
    /\ UNCHANGED <<shutdown, active, connections, listening, ready, arrived,
                   hungUp, closed, faults>>

Count(w) ==
    /\ stage[w] = "count"
    /\ connections' = [connections EXCEPT ![w] = @ \cup {current[w]}]
    /\ active' = active + 1
    /\ Goto(w, "accept", None)
    /\ UNCHANGED <<shutdown, clients, network, faults>>

(* WouldBlock; or the descriptor is no listener any more, which is logged.  *)
AcceptNone(w) ==
    /\ stage[w] = "accept"
    /\ backlog = {}
    /\ Goto(w, "top", None)
    /\ UNCHANGED <<shutdown, books, network, faults>>

(* Another error (no descriptors left, say) ends the loop of accepts.  The  *)
(* poll reports the listener again when somebody else arrives.              *)
AcceptFails(w) ==
    /\ stage[w] = "accept"
    /\ backlog # {}
    /\ errors < MaxErrors
    /\ errors' = errors + 1
    /\ stuck' = TRUE
    /\ Goto(w, "top", None)
    /\ UNCHANGED <<shutdown, books, network, failures, abandoned, dropped>>

(* Mutation of Unregister: a connection is closed and stays listed. *)
UnregisterNot(w) ==
    /\ stage[w] = "close"
    /\ connections' = [connections EXCEPT ![w] = @ \ {current[w]}]
    /\ Goto(w, "uncount", current[w])
    /\ UNCHANGED <<shutdown, active, clients, network, faults>>

(* The end of a connection: its subscriptions (module Subscriptions), its   *)
(* entry in the registry, its socket and then its count.                    *)
Unregister(w) ==
    /\ stage[w] = "close"
    /\ connections' = [connections EXCEPT ![w] = @ \ {current[w]}]
    /\ clients' = {e \in clients : e[1] # current[w]}
    /\ Goto(w, "uncount", current[w])
    /\ UNCHANGED <<shutdown, active, network, faults>>

(* Mutation of Uncount: the count is left to the shutdown. *)
UncountNot(w) ==
    /\ stage[w] = "uncount"
    /\ closed' = closed \cup {current[w]}
    /\ Goto(w, "top", None)
    /\ UNCHANGED <<shutdown, books, listening, ready, backlog, arrived, hungUp,
                   faults>>

Uncount(w) ==
    /\ stage[w] = "uncount"
    /\ active' = active - 1
    /\ closed' = closed \cup {current[w]}
    /\ Goto(w, "top", None)
    /\ UNCHANGED <<shutdown, clients, connections, listening, ready, backlog,
                   arrived, hungUp, faults>>

----------------------------------------------------------------------------
(* The end of a worker. *)

(* Mutation of SeeShutdown: a worker that has connections goes on. *)
SeeShutdownWhenIdle(w) ==
    /\ stage[w] = "top" /\ shutdown
    /\ connections[w] = {}
    /\ Goto(w, "cleanup", None)
    /\ UNCHANGED <<shutdown, books, network, faults>>

SeeShutdown(w) ==
    /\ stage[w] = "top" /\ shutdown
    /\ Goto(w, "cleanup", None)
    /\ UNCHANGED <<shutdown, books, network, faults>>

(* The cleanup closes the connections one by one and counts none of them.   *)
Cleanup(w) ==
    /\ stage[w] = "cleanup"
    /\ \E c \in connections[w] :
           /\ connections' = [connections EXCEPT ![w] = @ \ {c}]
           /\ clients' = {e \in clients : e[1] # c}
           /\ closed' = closed \cup {c}
           /\ dropped' = dropped \cup {c}
    /\ UNCHANGED <<shutdown, active, stage, current, listening, ready, backlog,
                   arrived, hungUp, errors, failures, stuck, abandoned>>

Stop(w) ==
    /\ stage[w] = "cleanup"
    /\ connections[w] = {}
    /\ Goto(w, "stopped", None)
    /\ CloseListener({})
    /\ UNCHANGED <<shutdown, books, arrived, hungUp, faults>>

(* A worker returns from its loop with an error: its sockets are closed,    *)
(* without any cleanup.                                                     *)
Fail(w, accepted) ==
    /\ failures < MaxFailures
    /\ failures' = failures + 1
    /\ Goto(w, "failed", None)
    /\ connections' = [connections EXCEPT ![w] = {}]
    /\ abandoned' = abandoned \cup (connections[w] \X {w})
    /\ CloseListener(connections[w] \cup accepted)
    /\ UNCHANGED <<shutdown, active, clients, arrived, hungUp, errors, stuck,
                   dropped>>

(* An error of poll. *)
PollFails(w) == stage[w] = "poll" /\ Fail(w, {})

(* An error of set_nodelay or register on a connection just accepted. *)
SetupFails(w) == stage[w] = "accept" /\ backlog # {} /\ Fail(w, {})

----------------------------------------------------------------------------

(* A step of a worker in which nothing goes wrong. *)
Step(w) ==
    \/ EnterPoll(w) \/ PollListener(w) \/ PollClient(w) \/ PollNothing(w)
    \/ Accept(w) \/ Count(w) \/ AcceptNone(w)
    \/ Unregister(w) \/ Uncount(w)
    \/ SeeShutdown(w) \/ Cleanup(w) \/ Stop(w)

Next ==
    \/ \E c \in Clients : Connect(c) \/ HangUp(c)
    \/ Shutdown
    \/ \E w \in Workers :
           Step(w) \/ AcceptFails(w) \/ PollFails(w) \/ SetupFails(w)

(* No step of a worker blocks: the sockets do not, and poll returns after   *)
(* 100 ms at the latest.                                                    *)
Spec == Init /\ [][Next]_vars /\ \A w \in Workers : WF_vars(Step(w))

----------------------------------------------------------------------------
(* Properties. *)

(* The worker has the connection, in its table or not there yet. *)
Holds(w, c) ==
    \/ c \in connections[w]
    \/ stage[w] = "count" /\ current[w] = c

(* The registry lists the clients that are connected, and no others, each   *)
(* with its worker: an entry goes when its connection does, whoever closes  *)
(* it, except with a worker that fails, whose entries stay for ever.        *)
RegistryExact ==
    clients = {e \in Clients \X Workers : Holds(e[2], e[1])} \cup abandoned

(* The connections in the tables of the workers. *)
OpenConnections == {e \in Clients \X Workers : e[1] \in connections[e[2]]}

(* Workers that have closed a connection and not yet counted it. *)
Uncounting == {w \in Workers : stage[w] = "uncount"}

(* active_connections is the number of open connections, but for one that   *)
(* is being closed, those of failed workers, which stay counted, and those  *)
(* a shutdown closes, which stay counted too.                               *)
CountExplained ==
    active = Cardinality(OpenConnections) + Cardinality(Uncounting)
                 + Cardinality(abandoned) + Cardinality(dropped)

(* Whoever waits to be accepted is accepted, or is reset because a worker   *)
(* has ended and taken the listener with it; unless accept has failed and   *)
(* nobody has arrived since, for nothing tells the workers to try again.    *)
EventuallyAccepted ==
    \A c \in Clients : c \in backlog ~> (c \notin backlog \/ stuck)

(* After a shutdown all workers end, and nobody stays listed but through    *)
(* workers that have failed.                                                *)
EventuallyStopped ==
    shutdown ~> /\ \A w \in Workers : stage[w] \in {"stopped", "failed"}
                /\ clients = abandoned
=============================================================================
