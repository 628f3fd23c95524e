--------------------------- MODULE MCEffectListing ---------------------------
(***************************************************************************)
(* EffectListing for TLC: three effects, two classifying sessions, pages   *)
(* of one row, chunks of two.                                              *)
(***************************************************************************)
EXTENDS EffectListing, TLC

Sessions == Permutations(Classifiers)
=============================================================================
