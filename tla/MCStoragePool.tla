--------------------------- MODULE MCStoragePool ---------------------------
(* StoragePool on a small instance.                                          *)
EXTENDS StoragePool, TLC

CONSTANTS c1, c2, o1, o2, a1, a2, a3

TwoControllers == {c1, c2}
TwoOperators == {o1, o2}
ThreeAttempts == {a1, a2, a3}

Symmetry ==
    Permutations(Controllers) \cup Permutations(Operators) \cup Permutations(Attempts)
=============================================================================
