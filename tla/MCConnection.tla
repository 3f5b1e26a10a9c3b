---------------------------- MODULE MCConnection ----------------------------
(* One channel is enough: what matters is whether there are subscriptions. *)
EXTENDS Connection

CONSTANT c1

Request(kind) == [kind |-> kind, channel |-> c1]

AllRequests == {Request(kind) : kind \in Kinds}
=============================================================================
