------------------------ MODULE SubscriptionsHistory ------------------------
(* Module Subscriptions with a history of the workers that ever subscribed  *)
(* to a topic.  The history reads the tables and constrains no step.        *)
EXTENDS Subscriptions

VARIABLE usedBy

historyVars == <<vars, usedBy>>

HistoryInit == Init /\ usedBy = [x \in Topics |-> {}]

HistoryNext ==
    /\ Next
    /\ usedBy' = [x \in Topics |->
                     usedBy[x] \cup {t \in Threads : subs'[t][x] # {}}]

HistorySpec == HistoryInit /\ [][HistoryNext]_historyVars

(* A topic that only ever had subscribers on one worker is registered       *)
(* exactly: the worker is in the registry as soon as the subscription is    *)
(* complete, and the count is the number of subscribers.  The windows of    *)
(* the removals hurt only topics shared by workers.                         *)
ExactForOneWorker ==
    \A t \in Threads, x \in Topics :
        usedBy[x] \subseteq {t} =>
            /\ Count(x) = Cardinality(Subscribers(x))
            /\ subs[t][x] # {} =>
                  \/ t \in Interested(x)
                  \/ At(t, "addInterest") /\ task[t].topic = x
=============================================================================
