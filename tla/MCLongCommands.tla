--------------------------- MODULE MCLongCommands ---------------------------
(***************************************************************************)
(* The instance of LongCommands that TLC runs: two stack jobs under one    *)
(* key.                                                                    *)
(***************************************************************************)
EXTENDS LongCommands

CONSTANTS j1, j2

KeyShared == (j1 :> "e2e") @@ (j2 :> "e2e")
=============================================================================
