--------------------------- MODULE MCPairedBackup ---------------------------
(* PairedBackup on a small instance.                                         *)
EXTENDS PairedBackup, TLC

CONSTANTS p1, p2

TwoPoints == {p1, p2}

Symmetry == Permutations(Outputs)
=============================================================================
