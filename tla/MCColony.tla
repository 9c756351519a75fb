------------------------------ MODULE MCColony ------------------------------
(* Instances of Colony for TLC: interchangeable workers.                   *)
EXTENDS Colony, TLC

WorkerSymmetry == Permutations(Workers)

=============================================================================
