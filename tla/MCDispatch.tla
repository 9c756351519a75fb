----------------------------- MODULE MCDispatch -----------------------------
(* Instances of Dispatch for TLC: a slow light ant with a bucket smaller   *)
(* than the batch wanted, and a fast heavy one.                            *)
EXTENDS Dispatch, TLC

Slow == 1
Fast == 2
MCAnts == {Slow, Fast}
MCWeight == (Slow :> 1) @@ (Fast :> 2)
MCUnevenWeight == (Slow :> 1) @@ (Fast :> 3)
MCRate == (Slow :> 1) @@ (Fast :> 3)
MCCapacity == (Slow :> 2) @@ (Fast :> 6)

=============================================================================
