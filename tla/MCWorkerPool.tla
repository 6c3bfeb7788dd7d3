---------------------------- MODULE MCWorkerPool ----------------------------
(* Instances of WorkerPool for TLC.                                         *)
EXTENDS WorkerPool, TLC

CONSTANTS c1, c2, c3, w1, w2, w3

OneWorker == <<w1>>

=============================================================================
