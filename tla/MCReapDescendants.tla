------------------------- MODULE MCReapDescendants -------------------------
(* ReapDescendants on a small instance.                                      *)
EXTENDS ReapDescendants

CONSTANTS p1, p2, p3, exit0, exit1

ThreePids == {p1, p2, p3}
TwoStatuses == {exit0, exit1}
=============================================================================
