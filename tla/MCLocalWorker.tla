--------------------------- MODULE MCLocalWorker ---------------------------
(* LocalWorker on a small instance.                                          *)
EXTENDS LocalWorker

CONSTANTS w1, w2

TwoWorkers == {w1, w2}
=============================================================================
