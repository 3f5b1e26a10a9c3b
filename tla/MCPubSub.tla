------------------------------ MODULE MCPubSub ------------------------------
(* Two workers, the channel "aa" and the pattern "*a*".  The walk of the    *)
(* trie comes to it in two ways (WaysFrom of module PatternTrie).  The      *)
(* inboxes are small enough to overflow.                                    *)
EXTENDS PubSub

CONSTANTS t1, t2, ch1, p1

MCThreads  == {t1, t2}
MCConns    == 1 .. 3
MCChannels == {ch1}
MCPatterns == {p1}
MCWays     == [hit \in MCPatterns \X MCChannels |-> 2]
=============================================================================
