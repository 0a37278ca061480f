---------------------------- MODULE MCWorkerPool ----------------------------
(***************************************************************************)
(* An instance of WorkerPool for TLC.                                      *)
(***************************************************************************)
EXTENDS WorkerPool

CONSTANTS w1, w2, s1, s2, p1, p2
=============================================================================
