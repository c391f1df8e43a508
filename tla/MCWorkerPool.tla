---------------------------- MODULE MCWorkerPool ----------------------------
(* An instance of WorkerPool for TLC: enough messages to fill jobChan, the  *)
(* loops and the batch.                                                     *)
EXTENDS WorkerPool

MCMessages == 1 .. 8
MCBacklog == [i \in 1 .. 8 |-> i]
MCPoolSize == Cardinality(Loops)
=============================================================================
