------------------------------- MODULE Deque -------------------------------
(* What the list commands promise: a sequence that grows and shrinks at its *)
(* two ends, one value at a time ("Push values to the head of list", "Pop   *)
(* values from the tail of list").                                          *)
EXTENDS Naturals, Sequences, SequencesExt

CONSTANTS
    Clients,
    Values

VARIABLES
    list,       \* the list, head first
    popped      \* what each client has popped, in the order it did

dequeVars == <<list, popped>>

DequeInit ==
    /\ list = <<>>
    /\ popped = [c \in Clients |-> <<>>]

Push(v) ==
    /\ list' \in {<<v>> \o list, Append(list, v)}
    /\ UNCHANGED popped

PopHead(c) ==
    /\ list # <<>>
    /\ list' = Tail(list)
    /\ popped' = [popped EXCEPT ![c] = Append(@, Head(list))]

PopTail(c) ==
    /\ list # <<>>
    /\ list' = Front(list)
    /\ popped' = [popped EXCEPT ![c] = Append(@, Last(list))]

DequeNext ==
    \/ \E v \in Values : Push(v)
    \/ \E c \in Clients : PopHead(c) \/ PopTail(c)

DequeSpec == DequeInit /\ [][DequeNext]_dequeVars
=============================================================================
