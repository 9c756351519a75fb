---------------------------- MODULE MCWorkerPool ----------------------------
(* Instances of WorkerPool for TLC: interchangeable workers.               *)
EXTENDS WorkerPool, TLC

WorkerSymmetry == Permutations(Workers)

=============================================================================
