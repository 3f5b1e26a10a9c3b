------------------------------ MODULE MCLists ------------------------------
(* One worker for the sequential meaning, several for the interleavings. *)
EXTENDS Lists, TLC

CONSTANTS w1, w2, w3

OneWorker    == {w1}
ThreeWorkers == {w1, w2, w3}

BothSides == {"left", "right"}
AtTail    == {"right"}
AtHead    == {"left"}

Symmetry == Permutations(Workers)
=============================================================================
