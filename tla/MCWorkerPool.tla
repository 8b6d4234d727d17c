---------------------------- MODULE MCWorkerPool ----------------------------
(* A small instance of WorkerPool: three threads, four tasks, of which none, *)
(* one or two raise.                                                         *)
EXTENDS WorkerPool

CONSTANTS w1, w2, w3

MCWorkers == {w1, w2, w3}
MCFailingSets == {{}, {3}, {2, 4}}
==============================================================================
