------------------------------ MODULE RowMerge ------------------------------
(***************************************************************************)
(* The merge of one primary key: what the generated SyncRow statements do  *)
(* to its row and its tombstone, on the server and on a device.            *)
(*                                                                         *)
(* A stamp is the instant an op carries, the LWW axis, and stands for the  *)
(* content written with it; 0 is no row, or no tombstone.                  *)
(***************************************************************************)
EXTENDS Naturals, Sequences, SequencesExt

Cell == [at : Nat, tomb : Nat]
EmptyCell == [at |-> 0, tomb |-> 0]
Live(cell) == cell.at > 0

\* How far a cell has come: no write at or below this can change its row.
Reach(cell) == IF cell.at > cell.tomb THEN cell.at ELSE cell.tomb

\* An op of the wire, with a row or with the null payload of a delete.
Op == [kind : {"upsert", "delete"}, at : Nat \ {0}]
Upsert(t) == [kind |-> "upsert", at |-> t]
Delete(t) == [kind |-> "delete", at |-> t]

----------------------------------------------------------------------------
(* The statements. *)

\* Mutant: only the tombstone guards the insert, the row itself does not.
GuardedUpsertSeenUnordered(cell, t, tomb) ==
  IF t > tomb THEN [cell EXCEPT !.at = t] ELSE cell

\* guarded_upsert_sql, where the statement has seen the tombstone tomb: the row
\* lands unless that tombstone or the row in place is as new.
GuardedUpsertSeen(cell, t, tomb) ==
  IF t > tomb /\ t > cell.at THEN [cell EXCEPT !.at = t] ELSE cell

GuardedUpsert(cell, t) == GuardedUpsertSeen(cell, t, cell.tomb)

\* tombstone_clear_sql.
TombstoneClear(cell, t) == IF cell.tomb < t THEN [cell EXCEPT !.tomb = 0] ELSE cell

\* The upsert of a tombstone, never regressing a newer one.
TombstoneRaise(cell, t) == IF cell.tomb < t THEN [cell EXCEPT !.tomb = t] ELSE cell

\* Mutant: a delete removes the row whatever its age.
DeleteRowAnyAge(cell, t) ==
  IF Live(cell) THEN TombstoneRaise([cell EXCEPT !.at = 0], t) ELSE cell

\* delete_sql: an older row goes, and only what was removed gets a tombstone.
DeleteRow(cell, t) ==
  IF Live(cell) /\ cell.at < t THEN TombstoneRaise([cell EXCEPT !.at = 0], t) ELSE cell

----------------------------------------------------------------------------
(* The appliers. *)

\* apply_one on the server, and a batch of one on a device.
ApplyOne(cell, op) ==
  IF op.kind = "delete"
    THEN DeleteRow(cell, op.at)
    ELSE TombstoneClear(GuardedUpsert(cell, op.at), op.at)

\* The statement of a local write: an upsert leaves its tombstone in place.
LocalStep(cell, op) ==
  IF op.kind = "delete" THEN DeleteRow(cell, op.at) ELSE GuardedUpsert(cell, op.at)

\* A snapshot's tombstone (0 for none) and row (0 for none), in that order.
ApplySnapshot(cell, t, tomb) ==
  LET c == TombstoneRaise(cell, tomb)
  IN  IF t > 0 THEN ApplyOne(c, Upsert(t)) ELSE c

\* Mutant: the last op in log order stands for the window.
CollapseStepLast(final, op) == op

\* The collapse of apply_ops: of the op the key has so far and the next one in
\* log order, the one that stands for both.
CollapseStep(final, op) == IF op.at > final.at THEN op ELSE final

\* The whole window of one key, replayed.
Collapse(ops) == FoldLeft(CollapseStep, Head(ops), Tail(ops))

\* What the collapse keeps of a window: an op that no other is newer than.
IsNewest(op, ops) == op \in ops /\ \A o \in ops : o.at <= op.at
=============================================================================
