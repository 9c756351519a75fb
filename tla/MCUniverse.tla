----------------------------- MODULE MCUniverse -----------------------------
(* Instances of Universe for TLC: interchangeable workers.                 *)
EXTENDS Universe, TLC

WorkerSymmetry == Permutations(Workers)

=============================================================================
