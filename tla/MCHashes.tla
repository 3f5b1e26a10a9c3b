------------------------------ MODULE MCHashes ------------------------------
(* Two workers on two hashes, with refused writes and a restart. *)
EXTENDS Hashes, TLC

Symmetry == Permutations(Workers) \cup Permutations(Fields)
=============================================================================
