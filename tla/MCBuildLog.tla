----------------------------- MODULE MCBuildLog -----------------------------
(* BuildLog on a small instance.                                             *)
EXTENDS BuildLog

\* Empty, whole, oversized and incomplete frames: with one content byte allowed
\* the second frame of the first stream is too long.
SmallOutputs == {<<1, 0, 2, 2, 0, 0>>, <<0, 1, 0, 2>>, <<>>}
=============================================================================
