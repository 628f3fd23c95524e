--------------------------- MODULE MCEffectLedger ---------------------------
(* EffectLedger on a small instance.                                         *)
EXTENDS EffectLedger, TLC

CONSTANTS a1, a2, w1, w2

OneAttempt == {a1}
TwoAttempts == {a1, a2}
TwoOwners == {w1, w2}
=============================================================================
