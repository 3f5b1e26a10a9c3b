--------------------------- MODULE MCTransactions ---------------------------
(* Two connections, two keys; the commands are MSET, DEL and CAS.           *)
EXTENDS Transactions, TLC

CONSTANTS c1, c2, k1, k2, v1

MCConns    == {c1, c2}
MCKeys     == {k1, k2}
MCValues   == {v1}
MCSet      == <<SetKey(k1, v1), SetKey(k2, v1)>>
MCCommands == {MCSet, <<DelKey(k2)>>, <<CasKey(k1, v1, v1)>>}

Symmetry == Permutations(MCConns)
=============================================================================
