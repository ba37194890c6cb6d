------------------------------- MODULE MCTabs -------------------------------
(***************************************************************************)
(* The instances of Tabs that TLC runs: three tabs and two calls.          *)
(***************************************************************************)
EXTENDS Tabs, TLC

CONSTANTS t1, t2, t3, c1, c2

\* A query and a write, at once in one tab.
OwnerOne == (c1 :> t3) @@ (c2 :> t3)
KindMixed == (c1 :> "query") @@ (c2 :> "write")

\* Two queries, each in a tab of its own.
OwnerTwo == (c1 :> t2) @@ (c2 :> t3)
KindQueries == (c1 :> "query") @@ (c2 :> "query")
=============================================================================
