------------------------------- MODULE MCMerge -------------------------------
(***************************************************************************)
(* The instances of Merge that TLC runs.  Nothing in Merge tells one       *)
(* device from another, and no temporal property but action properties is  *)
(* checked, so the devices may be permuted.                                *)
(***************************************************************************)
EXTENDS Merge, TLC

Devices == Permutations(Client)
=============================================================================
