------------------------------- MODULE MCOpLog -------------------------------
(***************************************************************************)
(* The instance of OpLog that TLC runs: one device with both writes in     *)
(* flight at once, a write of two ops, of which the second is quarantined, *)
(* and a write of one that Postgres refuses.                               *)
(***************************************************************************)
EXTENDS OpLog

CONSTANTS c1, w1, w2

OwnerOne == (w1 :> c1) @@ (w2 :> c1)
OpsMixed == (w1 :> 2) @@ (w2 :> 1)

SecondOp == {<<w1, 2>>}
OtherOp == {<<w2, 1>>}
=============================================================================
