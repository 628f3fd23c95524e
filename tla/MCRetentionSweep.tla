-------------------------- MODULE MCRetentionSweep --------------------------
(* RetentionSweep on a small instance.                                       *)
EXTENDS RetentionSweep

CONSTANTS b1, b2

TwoBuilds == {b1, b2}
=============================================================================
