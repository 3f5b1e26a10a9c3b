-------------------------- MODULE MCSubscriptions --------------------------
(* Two workers whose connections share one channel and one pattern.         *)
EXTENDS SubscriptionsHistory, TLC

CONSTANTS t1, t2, c1, c2, c3, ch1, p1

MCThreads  == {t1, t2}
MCConns    == {c1, c2, c3}
MCChannels == {ch1}
MCPatterns == {p1}

Symmetry == Permutations(MCThreads) \cup Permutations(MCConns)
=============================================================================
