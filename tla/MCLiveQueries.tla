--------------------------- MODULE MCLiveQueries ---------------------------
(***************************************************************************)
(* The instance of LiveQueries that TLC runs: a write in one tab and an    *)
(* exec in the other.                                                      *)
(***************************************************************************)
EXTENDS LiveQueries, TLC

CONSTANTS t1, t2, c1, c2

OwnerTwo == (c1 :> t1) @@ (c2 :> t2)
KindBoth == (c1 :> "write") @@ (c2 :> "exec")
=============================================================================
