---------------------------- MODULE MergeProofs ----------------------------
(***************************************************************************)
(* The merge of a row loses no upsert and converges on the newest one, for *)
(* every number of devices, stamps and log entries; the collapse of a      *)
(* window keeps its newest op, for windows of any length.                  *)
(***************************************************************************)
EXTENDS Merge, SeqLemmas

USE StampAssumption, MaxLogAssumption DEF StampAssumption, MaxLogAssumption

----------------------------------------------------------------------------
(* The statements. *)

\* A delete removes an older row for a tombstone, or does nothing.
LEMMA DeleteRowReach ==
  ASSUME NEW cell_ \in Cell, NEW t \in Nat \ {0}
  PROVE  /\ DeleteRow(cell_, t) \in Cell
         /\ Reach(DeleteRow(cell_, t)) >= Reach(cell_)
         /\ DeleteRow(cell_, t).at \in {0, cell_.at}
         /\ DeleteRow(cell_, t).tomb \in {cell_.tomb, t}
<1>1. cell_.at \in Nat /\ cell_.tomb \in Nat
  BY DEF Cell
<1>2. CASE Live(cell_) /\ cell_.at < t
  <2>1. DeleteRow(cell_, t) = [at |-> 0, tomb |-> IF cell_.tomb < t THEN t ELSE cell_.tomb]
    BY <1>2 DEF DeleteRow, TombstoneRaise, Cell
  <2>. QED
    BY <1>1, <1>2, <2>1 DEF Reach, Cell
<1>3. CASE ~(Live(cell_) /\ cell_.at < t)
  BY <1>1, <1>3 DEF DeleteRow, Reach
<1>. QED
  BY <1>2, <1>3

\* An op on a cell leaves a cell that has come at least as far, and an upsert
\* brings it to its own stamp: it is in the row, or something newer is.
LEMMA ApplyOneReach ==
  ASSUME NEW cell_ \in Cell, NEW op \in Op
  PROVE  /\ ApplyOne(cell_, op) \in Cell
         /\ Reach(ApplyOne(cell_, op)) >= Reach(cell_)
         /\ op.kind = "upsert" => Reach(ApplyOne(cell_, op)) >= op.at
         /\ ApplyOne(cell_, op).at \in {0, cell_.at} \cup (IF op.kind = "upsert" THEN {op.at} ELSE {})
         /\ ApplyOne(cell_, op).tomb \in {0, cell_.tomb} \cup (IF op.kind = "delete" THEN {op.at} ELSE {})
<1>1. CASE op.kind = "delete"
  BY <1>1, DeleteRowReach DEF ApplyOne, Op
<1>2. CASE op.kind = "upsert"
  BY <1>2 DEF ApplyOne, GuardedUpsert, GuardedUpsertSeen, TombstoneClear, Reach, Cell, Op
<1>. QED
  BY <1>1, <1>2 DEF Op

\* A guarded upsert whose tombstone is left in place.
LEMMA GuardedUpsertReach ==
  ASSUME NEW cell_ \in Cell, NEW t \in Nat \ {0}
  PROVE  /\ GuardedUpsert(cell_, t) \in Cell
         /\ Reach(GuardedUpsert(cell_, t)) >= Reach(cell_)
         /\ GuardedUpsert(cell_, t).at \in {cell_.at, t}
         /\ GuardedUpsert(cell_, t).tomb = cell_.tomb
BY DEF GuardedUpsert, GuardedUpsertSeen, Reach, Cell

\* A local write.
LEMMA LocalStepReach ==
  ASSUME NEW cell_ \in Cell, NEW op \in Op
  PROVE  /\ LocalStep(cell_, op) \in Cell
         /\ Reach(LocalStep(cell_, op)) >= Reach(cell_)
         /\ LocalStep(cell_, op).at \in {0, cell_.at} \cup (IF op.kind = "upsert" THEN {op.at} ELSE {})
         /\ LocalStep(cell_, op).tomb \in {0, cell_.tomb} \cup (IF op.kind = "delete" THEN {op.at} ELSE {})
<1>1. CASE op.kind = "delete"
  BY <1>1, DeleteRowReach DEF LocalStep, Op
<1>2. CASE op.kind = "upsert"
  BY <1>2, GuardedUpsertReach DEF LocalStep, Op
<1>. QED
  BY <1>1, <1>2 DEF Op

\* A snapshot brings a cell at least to the row it carries.
LEMMA ApplySnapshotReach ==
  ASSUME NEW cell_ \in Cell, NEW t \in Nat, NEW tomb \in Nat
  PROVE  /\ ApplySnapshot(cell_, t, tomb) \in Cell
         /\ Reach(ApplySnapshot(cell_, t, tomb)) >= Reach(cell_)
         /\ Reach(ApplySnapshot(cell_, t, tomb)) >= t
         /\ ApplySnapshot(cell_, t, tomb).at \in {0, cell_.at, t}
         /\ ApplySnapshot(cell_, t, tomb).tomb \in {0, cell_.tomb, tomb}
<1>. DEFINE c == TombstoneRaise(cell_, tomb)
<1>1. c \in Cell /\ Reach(c) >= Reach(cell_) /\ c.at = cell_.at /\ c.tomb \in {cell_.tomb, tomb}
  BY DEF TombstoneRaise, Reach, Cell
<1>2. CASE t > 0
  <2>1. Upsert(t) \in Op /\ Upsert(t).kind = "upsert" /\ Upsert(t).at = t
    BY <1>2 DEF Upsert, Op
  <2>2. ApplySnapshot(cell_, t, tomb) = ApplyOne(c, Upsert(t))
    BY <1>2 DEF ApplySnapshot
  <2>3. Reach(ApplyOne(c, Upsert(t))) \in Nat /\ Reach(c) \in Nat /\ Reach(cell_) \in Nat
    BY <1>1, <2>1, ApplyOneReach DEF Reach, Cell
  <2>. HIDE DEF c
  <2>. QED
    BY <1>1, <2>1, <2>2, <2>3, ApplyOneReach
<1>3. CASE t = 0
  BY <1>1, <1>3 DEF ApplySnapshot, Reach, Cell
<1>. QED
  BY <1>2, <1>3

\* Two overlapping pushes on the server's row.
LEMMA OverlapReach ==
  ASSUME NEW cell_ \in Cell, NEW up \in Op, NEW del \in Op,
         up.kind = "upsert", del.kind = "delete", Live(cell_), cell_.at < del.at,
         NEW new, new = TombstoneClear(GuardedUpsertSeen(ApplyOne(cell_, del), up.at, cell_.tomb), up.at)
  PROVE  /\ new \in Cell
         /\ Reach(new) >= Reach(cell_) /\ Reach(new) >= up.at
         /\ new.at \in {0, up.at} /\ new.tomb \in {0, cell_.tomb, del.at}
<1>. DEFINE c == ApplyOne(cell_, del)
<1>1. c = [at |-> 0, tomb |-> IF cell_.tomb < del.at THEN del.at ELSE cell_.tomb]
  BY DEF ApplyOne, DeleteRow, TombstoneRaise, Cell, Op
<1>2. cell_.at \in Nat /\ cell_.tomb \in Nat /\ up.at \in Nat /\ up.at > 0 /\ del.at \in Nat
  BY DEF Cell, Op
<1>3. CASE up.at > cell_.tomb
  BY <1>1, <1>2, <1>3 DEF TombstoneClear, GuardedUpsertSeen, Reach, Cell
<1>4. CASE ~(up.at > cell_.tomb)
  BY <1>1, <1>2, <1>4 DEF TombstoneClear, GuardedUpsertSeen, Reach, Cell
<1>. QED
  BY <1>3, <1>4
----------------------------------------------------------------------------
(* The log and the positions in it. *)

\* Every stretch of the log holds ops of the log.
LEMMA WindowLogged ==
  ASSUME TypeOK, NEW i \in Nat, NEW k \in 0 .. Len(log)
  PROVE  Window(i, k) \subseteq Logged /\ Logged \subseteq Op
<1>1. log \in Seq(Op) /\ DOMAIN log = 1 .. Len(log) /\ Len(log) \in Nat
  BY DEF TypeOK
<1>2. i + 1 .. k \subseteq 1 .. Len(log)
  BY <1>1
<1>3. \A j \in 1 .. Len(log) : log[j] \in Op
  BY <1>1
<1>. QED
  BY <1>1, <1>2, <1>3 DEF Window, Logged, ToSet

\* The whole log is its longest prefix.
LEMMA WindowAll ==
  ASSUME TypeOK
  PROVE  Window(0, Len(log)) = Logged
<1>1. log \in Seq(Op) /\ DOMAIN log = 1 .. Len(log) /\ 0 + 1 = 1
  BY DEF TypeOK
<1>. QED
  BY <1>1 DEF Window, Logged, ToSet

\* A log that only grew keeps its prefixes, and what stands of them can only
\* shrink: the new entries may hold a delete.
LEMMA LogExtends ==
  ASSUME TypeOK, log' \in Seq(Op), Len(log) <= Len(log'),
         \A i \in 1 .. Len(log) : log'[i] = log[i]
  PROVE  /\ Logged \subseteq Logged'
         /\ \A n \in 0 .. Len(log) : Standing(n)' \subseteq Standing(n)
<1>1. log \in Seq(Op) /\ DOMAIN log = 1 .. Len(log) /\ Len(log) \in Nat
  BY DEF TypeOK
<1>2. DOMAIN log' = 1 .. Len(log') /\ Len(log') \in Nat
  OBVIOUS
<1>3. Logged \subseteq Logged'
  BY <1>1, <1>2 DEF Logged, ToSet
<1>4. ASSUME NEW n \in 0 .. Len(log)
      PROVE  Standing(n)' \subseteq Standing(n)
  <2>1. \A i \in 0 + 1 .. n : log'[i] = log[i]
    BY <1>1
  <2>2. Window(0, n)' = Window(0, n)
    BY <2>1 DEF Window
  <2>. QED
    BY <1>3, <2>2 DEF Standing
<1>. QED
  BY <1>3, <1>4

\* Appending an op extends the log with it.
LEMMA LogAppends ==
  ASSUME TypeOK, NEW op \in Op, log' = Append(log, op)
  PROVE  /\ log' \in Seq(Op) /\ Len(log') = Len(log) + 1
         /\ Logged' = Logged \cup {op}
         /\ \A n \in 0 .. Len(log) : Standing(n)' \subseteq Standing(n)
<1>1. log \in Seq(Op) /\ Len(log) \in Nat
  BY DEF TypeOK
<1>2. log' \in Seq(Op) /\ Len(log') = Len(log) + 1 /\ \A i \in 1 .. Len(log) : log'[i] = log[i]
  BY <1>1
<1>3. Logged' = Logged \cup {op}
  BY <1>1, ToSetAppend DEF Logged
<1>. QED
  BY <1>1, <1>2, <1>3, LogExtends

\* So does appending two.
LEMMA LogAppendsTwo ==
  ASSUME TypeOK, NEW a \in Op, NEW b \in Op, log' = Append(Append(log, a), b)
  PROVE  /\ log' \in Seq(Op) /\ Len(log') = Len(log) + 2
         /\ Logged' = Logged \cup {a, b}
         /\ \A n \in 0 .. Len(log) : Standing(n)' \subseteq Standing(n)
<1>1. log \in Seq(Op) /\ Len(log) \in Nat
  BY DEF TypeOK
<1>. DEFINE once == Append(log, a)
<1>2. once \in Seq(Op) /\ Len(once) = Len(log) + 1 /\ \A i \in 1 .. Len(log) : once[i] = log[i]
  BY <1>1
<1>3. ToSet(once) = Logged \cup {a}
  BY <1>1, ToSetAppend DEF Logged
<1>4. log' = Append(once, b)
  OBVIOUS
<1>. HIDE DEF once
<1>5. log' \in Seq(Op) /\ Len(log') = Len(once) + 1 /\ \A i \in 1 .. Len(once) : log'[i] = once[i]
  BY <1>2, <1>4
<1>6. ToSet(log') = ToSet(once) \cup {b}
  BY <1>2, <1>4, ToSetAppend
<1>7. \A i \in 1 .. Len(log) : log'[i] = log[i]
  BY <1>1, <1>2, <1>5
<1>. QED
  BY <1>1, <1>2, <1>3, <1>5, <1>6, <1>7, LogExtends DEF Logged

----------------------------------------------------------------------------
(* The origin of a row. *)

\* A row stays traced to an op as more ops are known.
LEMMA TracedGrows ==
  ASSUME NEW x, NEW A, NEW B, A \subseteq B, Traced(x, A)
  PROVE  Traced(x, B)
BY DEF Traced

\* Whatever an op leaves is its own work or was there before.
LEMMA TracedApply ==
  ASSUME NEW x \in Cell, NEW op \in Op, NEW A, op \in A, Traced(x, A)
  PROVE  /\ Traced(ApplyOne(x, op), A)
         /\ Traced(LocalStep(x, op), A)
         /\ op.kind = "upsert" => Traced(GuardedUpsert(x, op.at), A)
<1>1. op.at \in Nat \ {0}
  BY DEF Op
<1>2. Traced(ApplyOne(x, op), A)
  BY ApplyOneReach DEF Traced, Cell
<1>3. Traced(LocalStep(x, op), A)
  BY LocalStepReach DEF Traced, Cell
<1>4. op.kind = "upsert" => Traced(GuardedUpsert(x, op.at), A)
  BY <1>1, GuardedUpsertReach DEF Traced, Cell
<1>. QED
  BY <1>2, <1>3, <1>4

\* A device whose cell moves forward, and whose cursor moves to a position its
\* cell has reached, keeps what a device owes to the log.
LEMMA CellMoves ==
  ASSUME MergeInv, NEW c \in Client, NEW x \in Cell, NEW k \in 0 .. Len(log),
         log' = log, Written \subseteq Written',
         cell' = [cell EXCEPT ![c] = x], cursor' = [cursor EXCEPT ![c] = k],
         Traced(x, Written'),
         \A u \in Standing(k) : Reach(x) >= u.at
  PROVE  /\ cell' \in [Client -> Cell] /\ cursor' \in [Client -> 0 .. Len(log')]
         /\ CellReached' /\ CellTraced'
<1>1. cell \in [Client -> Cell] /\ cursor \in [Client -> 0 .. Len(log)]
  BY DEF MergeInv, TypeOK
<1>2. cell' \in [Client -> Cell] /\ cursor' \in [Client -> 0 .. Len(log')]
  BY <1>1
<1>4. ASSUME NEW d \in Client
      PROVE  /\ (\A u \in Standing(cursor[d]) : Reach(cell[d]) >= u.at)'
             /\ Traced(cell[d], Written)'
  <2>0. Standing(cursor[d])' = Standing(cursor'[d])
    BY DEF Standing, Window, Logged
  <2>1. CASE d = c
    BY <1>1, <2>0, <2>1
  <2>2. CASE d # c
    <3>1. cell'[d] = cell[d] /\ cursor'[d] = cursor[d]
      BY <1>1, <2>2
    <3>2. Traced(cell[d], Written) /\ \A u \in Standing(cursor[d]) : Reach(cell[d]) >= u.at
      BY DEF MergeInv, CellTraced, CellReached
    <3>. QED
      BY <2>0, <3>1, <3>2, TracedGrows
  <2>. QED
    BY <2>1, <2>2
<1>. QED
  BY <1>2, <1>4 DEF CellReached, CellTraced
\* A device that does not move keeps it while the log grows.
LEMMA CellStays ==
  ASSUME MergeInv, UNCHANGED <<cell, cursor>>, Len(log') \in Nat, Len(log) <= Len(log'),
         Written \subseteq Written',
         \A n \in 0 .. Len(log) : Standing(n)' \subseteq Standing(n)
  PROVE  /\ cell' \in [Client -> Cell] /\ cursor' \in [Client -> 0 .. Len(log')]
         /\ CellReached' /\ CellTraced'
<1>1. cell \in [Client -> Cell] /\ cursor \in [Client -> 0 .. Len(log)] /\ Len(log) \in Nat
  BY DEF MergeInv, TypeOK
<1>2. cell' \in [Client -> Cell] /\ cursor' \in [Client -> 0 .. Len(log')]
  BY <1>1
<1>3. ASSUME NEW d \in Client
      PROVE  /\ (\A u \in Standing(cursor[d]) : Reach(cell[d]) >= u.at)'
             /\ Traced(cell[d], Written)'
  <2>2. PICK n \in 0 .. Len(log) : n = cursor[d]
    BY <1>1
  <2>3. Standing(cursor[d])' \subseteq Standing(cursor[d])
    <3>1. Standing(cursor[d])' = Standing(n)'
      BY <2>2 DEF Standing, Window
    <3>. QED
      BY <2>2, <3>1
  <2>4. \A u \in Standing(cursor[d]) : Reach(cell[d]) >= u.at
    BY DEF MergeInv, CellReached
  <2>5. Traced(cell[d], Written)
    BY DEF MergeInv, CellTraced
  <2>6. (\A u \in Standing(cursor[d]) : Reach(cell[d]) >= u.at)'
    BY <2>3, <2>4 DEF Reach
  <2>7. Traced(cell[d], Written)'
    BY <2>5, TracedGrows DEF Traced
  <2>. QED
    BY <2>6, <2>7
<1>. QED
  BY <1>2, <1>3 DEF CellReached, CellTraced

\* The stored rows stay good for their seq while the log grows.
LEMMA StoredStays ==
  ASSUME MergeInv, stored' = stored, Len(log') \in Nat, Len(log) <= Len(log'),
         Logged \subseteq Logged',
         \A n \in 0 .. Len(log) : Standing(n)' \subseteq Standing(n)
  PROVE  /\ stored' \in [seq : 0 .. Len(log'), at : Nat]
         /\ StoredReached' /\ StoredTraced'
<1>1. stored \in [seq : 0 .. Len(log), at : Nat] /\ Len(log) \in Nat
  BY DEF MergeInv, TypeOK
<1>2. stored' \in [seq : 0 .. Len(log'), at : Nat]
  BY <1>1
<1>3. PICK n \in 0 .. Len(log) : n = stored.seq
  BY <1>1
<1>4. Standing(stored.seq)' = Standing(n)'
  BY <1>3 DEF Standing, Window
<1>5. StoredReached'
  BY <1>3, <1>4 DEF MergeInv, StoredReached
<1>6. StoredTraced'
  BY DEF MergeInv, StoredTraced
<1>. QED
  BY <1>2, <1>5, <1>6

\* What stays of the server's side when the log does not change.
LEMMA ServerStays ==
  ASSUME MergeInv, UNCHANGED <<store, log>>
  PROVE  /\ store' \in Cell /\ log' \in Seq(Op)
         /\ StoreReached' /\ StoreTraced'
         /\ Logged' = Logged
         /\ \A n \in 0 .. Len(log) : Standing(n)' \subseteq Standing(n)
<1>1. Logged' = Logged
  BY DEF Logged
<1>2. store' \in Cell /\ log' \in Seq(Op)
  BY DEF MergeInv, TypeOK
<1>3. StoreReached' /\ StoreTraced'
  BY <1>1 DEF MergeInv, StoreReached, StoreTraced, Traced, Reach
<1>. QED
  BY <1>1, <1>2, <1>3 DEF Standing, Window

\* The written ops only grow when the log does and the outboxes stay.
LEMMA WrittenGrows ==
  ASSUME outbox' = outbox, Logged \subseteq Logged'
  PROVE  Written \subseteq Written'
BY DEF Written

----------------------------------------------------------------------------
(* The steps. *)

\* The invariant holds of the initial rows.
LEMMA InitMerge == Init => MergeInv
<1>. SUFFICES ASSUME Init PROVE MergeInv
  OBVIOUS
<1>1. Len(log) = 0 /\ \A c \in Client : Len(outbox[c]) = 0
  BY DEF Init
<1>2. TypeOK
  BY <1>1 DEF Init, TypeOK, Cell, EmptyCell, NoGeneration
<1>3. Logged = {}
  BY DEF Init, Logged, ToSet
<1>4. Standing(0) = {}
  BY DEF Standing, Window
<1>5. StoreReached /\ StoredReached /\ CellReached
  BY <1>3, <1>4 DEF Init, NoGeneration, StoreReached, StoredReached, CellReached
<1>6. SentLogged
  BY DEF Init, SentLogged
<1>7. StoreTraced /\ StoredTraced /\ CellTraced
  BY DEF Init, StoreTraced, StoredTraced, CellTraced, Traced, EmptyCell, NoGeneration
<1>. QED
  BY <1>2, <1>5, <1>6, <1>7 DEF MergeInv

\* A local write: the outbox grows at its end, the cell moves forward or stays.
LEMMA WriteKeeps ==
  ASSUME MergeInv, NEW c \in Client, NEW op \in Op, Write(c, op)
  PROVE  MergeInv'
<1>1. /\ TypeOK /\ outbox[c] \in Seq(Op) /\ cell[c] \in Cell /\ cursor[c] \in 0 .. Len(log)
      /\ outbox \in [Client -> Seq(Op)] /\ sent[c] \in Nat /\ sent[c] <= Len(outbox[c])
      /\ sent \in [Client -> Nat] /\ Len(log) \in Nat /\ log \in Seq(Op)
  BY DEF MergeInv, TypeOK
<1>2. outbox' = [outbox EXCEPT ![c] = Append(@, op)] /\ UNCHANGED <<store, log, stored, sent, cursor>>
  BY DEF Write
<1>3. /\ outbox'[c] = Append(outbox[c], op) /\ \A d \in Client : d # c => outbox'[d] = outbox[d]
      /\ outbox' \in [Client -> Seq(Op)]
  BY <1>1, <1>2
<1>4. ToSet(outbox'[c]) = ToSet(outbox[c]) \cup {op}
  BY <1>1, <1>3, ToSetAppend
<1>5. Logged' = Logged
  BY <1>2 DEF Logged
<1>6. Written' = Written \cup {op}
  <2>1. \A x : x \in Written <=> x \in Logged \/ \E d \in Client : x \in ToSet(outbox[d])
    BY DEF Written
  <2>2. \A x : x \in Written' <=> x \in Logged' \/ \E d \in Client : x \in ToSet(outbox'[d])
    BY DEF Written
  <2>3. \A x, d : d \in Client => (x \in ToSet(outbox'[d]) <=> x \in ToSet(outbox[d]) \/ (d = c /\ x = op))
    BY <1>3, <1>4
  <2>4. \A x : x \in Written' <=> x \in Written \cup {op}
    BY <1>5, <2>1, <2>2, <2>3
  <2>. QED
    BY <2>4
<1>7. /\ store' \in Cell /\ log' \in Seq(Op) /\ StoreReached' /\ StoreTraced'
      /\ stored' \in [seq : 0 .. Len(log'), at : Nat] /\ StoredReached' /\ StoredTraced'
  BY <1>1, <1>2, ServerStays, StoredStays
<1>8. cell' \in [Client -> Cell] /\ cursor' \in [Client -> 0 .. Len(log')] /\ CellReached' /\ CellTraced'
  <2>1. CASE UNCHANGED cell
    BY <1>1, <1>2, <1>6, <2>1, CellStays, ServerStays
  <2>2. CASE cell' = [cell EXCEPT ![c] = LocalStep(@, op)]
    <3>1. cell' = [cell EXCEPT ![c] = LocalStep(cell[c], op)] /\ cursor' = [cursor EXCEPT ![c] = cursor[c]]
      BY <1>1, <1>2, <2>2 DEF MergeInv, TypeOK
    <3>2. LocalStep(cell[c], op) \in Cell /\ Reach(LocalStep(cell[c], op)) >= Reach(cell[c])
      BY <1>1, LocalStepReach
    <3>3. Traced(LocalStep(cell[c], op), Written')
      <4>1. Traced(cell[c], Written')
        BY <1>6, TracedGrows DEF MergeInv, CellTraced
      <4>. QED
        BY <1>1, <1>6, <4>1, TracedApply
    <3>4. \A u \in Standing(cursor[c]) : Reach(LocalStep(cell[c], op)) >= u.at
      <4>1. \A u \in Standing(cursor[c]) : Reach(cell[c]) >= u.at /\ u.at \in Nat
        BY <1>1, WindowLogged DEF MergeInv, CellReached, Standing, Op
      <4>2. Reach(cell[c]) \in Nat /\ Reach(LocalStep(cell[c], op)) \in Nat
        BY <1>1, <3>2 DEF Reach, Cell
      <4>. QED
        BY <3>2, <4>1, <4>2
    <3>. HIDE DEF MergeInv
    <3>. QED
      BY <1>1, <1>2, <1>6, <3>1, <3>2, <3>3, <3>4, CellMoves
  <2>. QED
    BY <2>1, <2>2 DEF Write
<1>9. SentLogged' /\ \A d \in Client : sent'[d] <= Len(outbox'[d])
  <2>1. \A d \in Client : sent[d] <= Len(outbox[d]) /\ sent[d] \in Nat
    BY DEF MergeInv, TypeOK
  <2>2. \A i \in 1 .. Len(outbox[c]) : outbox'[c][i] = outbox[c][i]
    BY <1>1, <1>3
  <2>3. Len(outbox'[c]) = Len(outbox[c]) + 1 /\ Len(outbox[c]) \in Nat
    BY <1>1, <1>3
  <2>4. ASSUME NEW d \in Client, NEW i \in 1 .. sent[d]
        PROVE  outbox'[d][i] = outbox[d][i]
    <3>1. CASE d = c
      <4>1. i \in 1 .. Len(outbox[c])
        BY <2>1, <2>3, <3>1
      <4>. QED
        BY <2>2, <3>1, <4>1
    <3>2. CASE d # c
      BY <1>3, <3>2
    <3>. QED
      BY <3>1, <3>2
  <2>. QED
    BY <1>2, <1>3, <1>5, <2>1, <2>3, <2>4 DEF MergeInv, SentLogged
<1>10. sent' \in [Client -> Nat]
  BY <1>1, <1>2
<1>. QED
  BY <1>3, <1>7, <1>8, <1>9, <1>10 DEF MergeInv, TypeOK
\* A push: the log gets the op, and the server's row has reached it.
LEMMA PushKeeps ==
  ASSUME MergeInv, NEW c \in Client, Push(c)
  PROVE  MergeInv'
<1>. DEFINE op == outbox[c][sent[c] + 1]
<1>1. /\ TypeOK /\ store \in Cell /\ log \in Seq(Op) /\ Len(log) \in Nat
      /\ outbox \in [Client -> Seq(Op)] /\ sent \in [Client -> Nat]
      /\ \A d \in Client : sent[d] <= Len(outbox[d])
  BY DEF MergeInv, TypeOK
<1>2. /\ sent[c] < Len(outbox[c]) /\ store' = ApplyOne(store, op) /\ log' = Append(log, op)
      /\ sent' = [sent EXCEPT ![c] = @ + 1] /\ UNCHANGED <<stored, cell, outbox, cursor>>
  BY DEF Push
<1>3. op \in Op
  BY <1>1, <1>2
<1>. HIDE DEF op
<1>4. /\ log' \in Seq(Op) /\ Len(log') = Len(log) + 1 /\ Logged' = Logged \cup {op}
      /\ \A n \in 0 .. Len(log) : Standing(n)' \subseteq Standing(n)
  BY <1>1, <1>2, <1>3, LogAppends
<1>5. /\ stored' \in [seq : 0 .. Len(log'), at : Nat] /\ StoredReached' /\ StoredTraced'
      /\ cell' \in [Client -> Cell] /\ cursor' \in [Client -> 0 .. Len(log')]
      /\ CellReached' /\ CellTraced'
  BY <1>1, <1>2, <1>4, StoredStays, CellStays, WrittenGrows
<1>6. /\ store' \in Cell /\ Reach(store') >= Reach(store)
      /\ op.kind = "upsert" => Reach(store') >= op.at
      /\ Reach(store) \in Nat /\ Reach(store') \in Nat
  BY <1>1, <1>2, <1>3, ApplyOneReach DEF Reach, Cell
<1>7. StoreReached'
  <2>1. \A u \in Logged : u.kind = "upsert" => Reach(store) >= u.at /\ u.at \in Nat
    BY <1>1, WindowLogged DEF MergeInv, StoreReached, Op
  <2>2. \A u \in Logged' : u.kind = "upsert" => Reach(store') >= u.at
    BY <1>4, <1>6, <2>1
  <2>. QED
    BY <2>2 DEF StoreReached, Reach
<1>8. StoreTraced'
  <2>1. Traced(store, Logged')
    BY <1>4, TracedGrows DEF MergeInv, StoreTraced
  <2>2. Traced(store', Logged')
    BY <1>1, <1>2, <1>3, <1>4, <2>1, TracedApply
  <2>. QED
    BY <2>2 DEF StoreTraced, Traced
<1>9. /\ sent' \in [Client -> Nat] /\ \A d \in Client : sent'[d] <= Len(outbox'[d])
      /\ \A d \in Client : d # c => sent'[d] = sent[d]
      /\ sent'[c] = sent[c] + 1 /\ sent[c] \in Nat
  BY <1>1, <1>2
<1>10. SentLogged'
  <2>1. ASSUME NEW d \in Client, NEW i \in 1 .. sent'[d]
        PROVE  outbox'[d][i] \in Logged'
    <3>1. CASE i \in 1 .. sent[d]
      BY <1>2, <1>4, <3>1 DEF MergeInv, SentLogged
    <3>2. CASE i \notin 1 .. sent[d]
      <4>1. d = c /\ i = sent[c] + 1
        BY <1>9, <3>2
      <4>. QED
        BY <1>2, <1>4, <4>1 DEF op
    <3>. QED
      BY <3>1, <3>2
  <2>. QED
    BY <2>1 DEF SentLogged
<1>. QED
  BY <1>1, <1>2, <1>4, <1>5, <1>6, <1>7, <1>8, <1>9, <1>10 DEF MergeInv, TypeOK

\* Two overlapping pushes do the same for both.
LEMMA PushOverlapKeeps ==
  ASSUME MergeInv, NEW c \in Client, NEW d \in Client, PushOverlap(c, d)
  PROVE  MergeInv' /\ Reach(store') >= Reach(store)
<1>. DEFINE up == outbox[c][sent[c] + 1]
            del == outbox[d][sent[d] + 1]
<1>1. /\ TypeOK /\ store \in Cell /\ log \in Seq(Op) /\ Len(log) \in Nat
      /\ outbox \in [Client -> Seq(Op)] /\ sent \in [Client -> Nat]
      /\ \A e \in Client : sent[e] <= Len(outbox[e])
  BY DEF MergeInv, TypeOK
<1>2. /\ c # d /\ sent[c] < Len(outbox[c]) /\ sent[d] < Len(outbox[d])
      /\ up.kind = "upsert" /\ del.kind = "delete" /\ Live(store) /\ store.at < del.at
      /\ store' = TombstoneClear(GuardedUpsertSeen(ApplyOne(store, del), up.at, store.tomb), up.at)
      /\ log' = Append(Append(log, del), up)
      /\ sent' = [sent EXCEPT ![c] = @ + 1, ![d] = @ + 1] /\ UNCHANGED <<stored, cell, outbox, cursor>>
  BY DEF PushOverlap
<1>3. up \in Op /\ del \in Op
  BY <1>1, <1>2
<1>. HIDE DEF up, del
<1>4. /\ log' \in Seq(Op) /\ Len(log') = Len(log) + 2 /\ Logged' = Logged \cup {del, up}
      /\ \A n \in 0 .. Len(log) : Standing(n)' \subseteq Standing(n)
  BY <1>1, <1>2, <1>3, LogAppendsTwo
<1>5. /\ stored' \in [seq : 0 .. Len(log'), at : Nat] /\ StoredReached' /\ StoredTraced'
      /\ cell' \in [Client -> Cell] /\ cursor' \in [Client -> 0 .. Len(log')]
      /\ CellReached' /\ CellTraced'
  BY <1>1, <1>2, <1>4, StoredStays, CellStays, WrittenGrows
<1>6. /\ store' \in Cell /\ Reach(store') >= Reach(store) /\ Reach(store') >= up.at
      /\ store'.at \in {0, up.at} /\ store'.tomb \in {0, store.tomb, del.at}
  BY <1>1, <1>2, <1>3, OverlapReach
<1>7. StoreReached'
  <2>1. \A u \in Logged : u.kind = "upsert" => Reach(store) >= u.at /\ u.at \in Nat
    BY <1>1, WindowLogged DEF MergeInv, StoreReached, Op
  <2>2. Reach(store) \in Nat /\ Reach(store') \in Nat
    BY <1>1, <1>6 DEF Reach, Cell
  <2>3. \A u \in Logged' : u.kind = "upsert" => Reach(store') >= u.at
    BY <1>2, <1>4, <1>6, <2>1, <2>2
  <2>. QED
    BY <2>3 DEF StoreReached, Reach
<1>8. StoreTraced'
  <2>1. store.tomb > 0 => \E o \in Logged' : o.kind = "delete" /\ o.at = store.tomb
    BY <1>4 DEF MergeInv, StoreTraced, Traced
  <2>2. Traced(store', Logged')
    BY <1>2, <1>4, <1>6, <2>1 DEF Traced
  <2>. QED
    BY <2>2 DEF StoreTraced, Traced
<1>9. /\ sent' \in [Client -> Nat] /\ \A e \in Client : sent'[e] <= Len(outbox'[e])
      /\ \A e \in Client : e \notin {c, d} => sent'[e] = sent[e]
      /\ sent'[c] = sent[c] + 1 /\ sent'[d] = sent[d] + 1 /\ sent[c] \in Nat /\ sent[d] \in Nat
  <2>1. sent[c] \in Nat /\ sent[d] \in Nat /\ sent[c] + 1 \in Nat /\ sent[d] + 1 \in Nat
    BY <1>1
  <2>2. \A e \in Client : sent'[e] = IF e \in {c, d} THEN sent[e] + 1 ELSE sent[e]
    BY <1>1, <1>2
  <2>3. sent' \in [Client -> Nat]
    <3>1. [sent EXCEPT ![c] = @ + 1] \in [Client -> Nat]
      BY <1>1, <2>1
    <3>. QED
      BY <1>2, <2>1, <3>1
  <2>4. ASSUME NEW e \in Client PROVE sent'[e] <= Len(outbox'[e])
    <3>1. CASE e \in {c, d}
      <4>1. sent[e] \in Nat /\ sent[e] < Len(outbox[e]) /\ Len(outbox[e]) \in Nat
        BY <1>1, <1>2, <3>1
      <4>2. sent'[e] = sent[e] + 1 /\ outbox'[e] = outbox[e]
        BY <1>2, <2>2, <3>1
      <4>. QED
        BY <4>1, <4>2
    <3>2. CASE e \notin {c, d}
      BY <1>1, <1>2, <2>2, <3>2
    <3>. QED
      BY <3>1, <3>2
  <2>. QED
    BY <2>1, <2>2, <2>3, <2>4
<1>10. SentLogged'
  <2>1. ASSUME NEW e \in Client, NEW i \in 1 .. sent'[e]
        PROVE  outbox'[e][i] \in Logged'
    <3>1. CASE i \in 1 .. sent[e]
      BY <1>2, <1>4, <3>1 DEF MergeInv, SentLogged
    <3>2. CASE i \notin 1 .. sent[e]
      <4>1. e \in {c, d} /\ i = sent[e] + 1
        BY <1>9, <3>2
      <4>. QED
        BY <1>2, <1>4, <4>1 DEF up, del
    <3>. QED
      BY <3>1, <3>2
  <2>. QED
    BY <2>1 DEF SentLogged
<1>. QED
  BY <1>1, <1>2, <1>4, <1>5, <1>6, <1>7, <1>8, <1>9, <1>10 DEF MergeInv, TypeOK

\* An acknowledgement retires an op the log has: what was written stays.
LEMMA AckKeeps ==
  ASSUME MergeInv, NEW c \in Client, Ack(c)
  PROVE  MergeInv'
<1>1. /\ TypeOK /\ outbox \in [Client -> Seq(Op)] /\ sent \in [Client -> Nat] /\ Len(log) \in Nat
      /\ \A d \in Client : sent[d] <= Len(outbox[d])
  BY DEF MergeInv, TypeOK
<1>2. /\ sent[c] > 0 /\ outbox' = [outbox EXCEPT ![c] = Tail(@)]
      /\ sent' = [sent EXCEPT ![c] = @ - 1] /\ UNCHANGED <<store, log, stored, cell, cursor>>
  BY DEF Ack
<1>3. outbox[c] \in Seq(Op) /\ outbox[c] # <<>> /\ Len(outbox[c]) \in Nat
  BY <1>1, <1>2
<1>4. /\ Tail(outbox[c]) \in Seq(Op) /\ Len(Tail(outbox[c])) = Len(outbox[c]) - 1
      /\ \A i \in 1 .. Len(outbox[c]) - 1 : Tail(outbox[c])[i] = outbox[c][i + 1]
  BY <1>3
<1>5. /\ outbox' \in [Client -> Seq(Op)] /\ outbox'[c] = Tail(outbox[c])
      /\ \A d \in Client : d # c => outbox'[d] = outbox[d] /\ sent'[d] = sent[d]
      /\ sent' \in [Client -> Nat] /\ sent'[c] = sent[c] - 1 /\ sent[c] \in Nat
  BY <1>1, <1>2, <1>4
<1>6. outbox[c][1] \in Logged
  BY <1>2, <1>5 DEF MergeInv, SentLogged
<1>7. Logged' = Logged
  BY <1>2 DEF Logged
<1>8. Written \subseteq Written'
  <2>1. ToSet(outbox[c]) \subseteq ToSet(Tail(outbox[c])) \cup {outbox[c][1]}
    <3>1. \A i \in 1 .. Len(outbox[c]) : i # 1 => i - 1 \in 1 .. Len(outbox[c]) - 1 /\ i = (i - 1) + 1
      BY <1>3
    <3>2. DOMAIN outbox[c] = 1 .. Len(outbox[c]) /\ DOMAIN Tail(outbox[c]) = 1 .. Len(outbox[c]) - 1
      BY <1>3, <1>4
    <3>3. ASSUME NEW i \in 1 .. Len(outbox[c]), i # 1
          PROVE  outbox[c][i] \in ToSet(Tail(outbox[c]))
      <4>1. Tail(outbox[c])[i - 1] = outbox[c][i]
        BY <1>4, <3>1, <3>3
      <4>. QED
        BY <3>1, <3>2, <3>3, <4>1 DEF ToSet
    <3>4. \A x \in ToSet(outbox[c]) : \E i \in 1 .. Len(outbox[c]) : x = outbox[c][i]
      BY <3>2 DEF ToSet
    <3>. QED
      BY <3>3, <3>4
  <2>2. \A x : x \in Written <=> x \in Logged \/ \E d \in Client : x \in ToSet(outbox[d])
    BY DEF Written
  <2>3. \A x : x \in Written' <=> x \in Logged' \/ \E d \in Client : x \in ToSet(outbox'[d])
    BY DEF Written
  <2>4. \A x, d : d \in Client /\ x \in ToSet(outbox[d]) => x \in ToSet(outbox'[d]) \/ x \in Logged
    BY <1>5, <1>6, <2>1
  <2>. QED
    BY <1>7, <2>2, <2>3, <2>4
<1>9. /\ store' \in Cell /\ log' \in Seq(Op) /\ StoreReached' /\ StoreTraced'
      /\ stored' \in [seq : 0 .. Len(log'), at : Nat] /\ StoredReached' /\ StoredTraced'
      /\ cell' \in [Client -> Cell] /\ cursor' \in [Client -> 0 .. Len(log')]
      /\ CellReached' /\ CellTraced'
  BY <1>1, <1>2, <1>7, <1>8, ServerStays, StoredStays, CellStays
<1>10. SentLogged'
  <2>1. ASSUME NEW d \in Client, NEW i \in 1 .. sent'[d]
        PROVE  outbox'[d][i] \in Logged'
    <3>1. CASE d = c
      <4>1. i \in 1 .. Len(outbox[c]) - 1 /\ i + 1 \in 1 .. sent[c]
        BY <1>1, <1>3, <1>5, <3>1
      <4>2. outbox[c][i + 1] \in Logged
        BY <4>1 DEF MergeInv, SentLogged
      <4>. QED
        BY <1>4, <1>5, <1>7, <3>1, <4>1, <4>2
    <3>2. CASE d # c
      BY <1>5, <1>7, <3>2 DEF MergeInv, SentLogged
    <3>. QED
      BY <3>1, <3>2
  <2>. QED
    BY <2>1 DEF SentLogged
<1>11. ASSUME NEW d \in Client PROVE sent'[d] <= Len(outbox'[d])
  <2>1. sent[d] \in Nat /\ sent[d] <= Len(outbox[d])
    BY <1>1
  <2>2. CASE d = c
    BY <1>3, <1>4, <1>5, <2>1, <2>2
  <2>3. CASE d # c
    BY <1>5, <2>1, <2>3
  <2>. QED
    BY <2>2, <2>3
<1>. QED
  BY <1>5, <1>9, <1>10, <1>11 DEF MergeInv, TypeOK

\* A new connection starts the pushes over.
LEMMA ReconnectKeeps ==
  ASSUME MergeInv, NEW c \in Client, Reconnect(c)
  PROVE  MergeInv'
<1>1. /\ TypeOK /\ outbox \in [Client -> Seq(Op)] /\ sent \in [Client -> Nat] /\ Len(log) \in Nat
      /\ \A d \in Client : sent[d] <= Len(outbox[d])
  BY DEF MergeInv, TypeOK
<1>2. sent' = [sent EXCEPT ![c] = 0] /\ UNCHANGED <<store, log, stored, cell, outbox, cursor>>
  BY DEF Reconnect
<1>3. Logged' = Logged
  BY <1>2 DEF Logged
<1>4. /\ store' \in Cell /\ log' \in Seq(Op) /\ StoreReached' /\ StoreTraced'
      /\ stored' \in [seq : 0 .. Len(log'), at : Nat] /\ StoredReached' /\ StoredTraced'
      /\ cell' \in [Client -> Cell] /\ cursor' \in [Client -> 0 .. Len(log')]
      /\ CellReached' /\ CellTraced'
  BY <1>1, <1>2, <1>3, ServerStays, StoredStays, CellStays, WrittenGrows
<1>5. sent' \in [Client -> Nat] /\ \A d \in Client : sent'[d] \in {0, sent[d]}
  BY <1>1, <1>2
<1>6. \A d \in Client : sent'[d] <= Len(outbox'[d])
  BY <1>1, <1>2, <1>5
<1>7. SentLogged'
  <2>1. ASSUME NEW d \in Client, NEW i \in 1 .. sent'[d]
        PROVE  outbox'[d][i] \in Logged'
    <3>1. sent[d] \in Nat /\ (sent'[d] = 0 \/ sent'[d] = sent[d])
      BY <1>1, <1>5
    <3>2. sent'[d] = sent[d]
      BY <3>1
    <3>. QED
      BY <1>2, <1>3, <3>2 DEF MergeInv, SentLogged
  <2>. QED
    BY <2>1 DEF SentLogged
<1>. QED
  BY <1>1, <1>2, <1>4, <1>5, <1>6, <1>7 DEF MergeInv, TypeOK
\* The newest op of a window brings a cell that reached what stands before the
\* window to what stands at its end: an upsert that a newer op stands for is
\* beaten, or the newer one is an upsert itself.
LEMMA WindowReach ==
  ASSUME MergeInv, NEW c \in Client, NEW k \in cursor[c] + 1 .. Len(log),
         NEW op \in Window(cursor[c], k), IsNewest(op, Window(cursor[c], k)),
         NEW x \in Cell, Reach(x) >= Reach(cell[c]),
         op.kind = "upsert" => Reach(x) >= op.at
  PROVE  \A u \in Standing(k) : Reach(x) >= u.at
<1>1. /\ TypeOK /\ cursor[c] \in 0 .. Len(log) /\ cell[c] \in Cell /\ Len(log) \in Nat
      /\ k \in 0 .. Len(log)
  BY DEF MergeInv, TypeOK
<1>2. op \in Logged /\ op \in Op /\ Window(0, k) \subseteq Logged /\ Logged \subseteq Op
  BY <1>1, WindowLogged
<1>3. Reach(x) \in Nat /\ Reach(cell[c]) \in Nat /\ op.at \in Nat
  BY <1>1, <1>2 DEF Reach, Cell, Op
<1>. SUFFICES ASSUME NEW u \in Standing(k) PROVE Reach(x) >= u.at
  OBVIOUS
<1>4. u \in Window(0, k) /\ u.at \in Nat /\ u.kind = "upsert"
  BY <1>2 DEF Standing, Op
<1>5. CASE u \in Window(0, cursor[c])
  <2>1. u \in Standing(cursor[c])
    BY <1>5 DEF Standing
  <2>. QED
    BY <1>3, <1>4, <2>1 DEF MergeInv, CellReached
<1>6. CASE u \in Window(cursor[c], k)
  <2>1. u.at <= op.at
    BY <1>6 DEF IsNewest
  <2>2. op.kind # "delete"
    BY <1>2, <1>3, <1>4, <2>1 DEF Standing
  <2>. QED
    BY <1>2, <1>3, <1>4, <2>1, <2>2 DEF Op
<1>7. Window(0, k) \subseteq Window(0, cursor[c]) \cup Window(cursor[c], k)
  <2>1. \A i \in 0 + 1 .. k : i \in 0 + 1 .. cursor[c] \/ i \in cursor[c] + 1 .. k
    BY <1>1
  <2>. QED
    BY <2>1 DEF Window
<1>. QED
  BY <1>4, <1>5, <1>6, <1>7

\* A step of one device that leaves the server alone keeps the invariant if the
\* device's own cell and cursor do.
LEMMA DeviceSteps ==
  ASSUME MergeInv, NEW c \in Client, NEW x \in Cell, NEW k \in 0 .. Len(log),
         UNCHANGED <<store, log, stored, outbox, sent>>,
         cell' = [cell EXCEPT ![c] = x], cursor' = [cursor EXCEPT ![c] = k],
         Traced(x, Written),
         \A u \in Standing(k) : Reach(x) >= u.at
  PROVE  MergeInv'
<1>1. /\ TypeOK /\ outbox \in [Client -> Seq(Op)] /\ sent \in [Client -> Nat] /\ Len(log) \in Nat
      /\ \A d \in Client : sent[d] <= Len(outbox[d])
  BY DEF MergeInv, TypeOK
<1>2. Logged' = Logged
  BY DEF Logged
<1>3. Written' = Written
  BY <1>2 DEF Written
<1>4. cell' \in [Client -> Cell] /\ cursor' \in [Client -> 0 .. Len(log')] /\ CellReached' /\ CellTraced'
  BY <1>3, CellMoves
<1>5. /\ store' \in Cell /\ log' \in Seq(Op) /\ StoreReached' /\ StoreTraced'
      /\ stored' \in [seq : 0 .. Len(log'), at : Nat] /\ StoredReached' /\ StoredTraced'
  BY <1>1, <1>2, ServerStays, StoredStays
<1>6. SentLogged'
  BY <1>2 DEF MergeInv, SentLogged
<1>. QED
  BY <1>1, <1>4, <1>5, <1>6 DEF MergeInv, TypeOK

\* A replayed window: the cell has reached its end, and the cursor says so.
LEMMA ReplayKeeps ==
  ASSUME MergeInv, NEW c \in Client, NEW k \in 1 .. Len(log), Replay(c, k)
  PROVE  MergeInv' /\ \A d \in Client : Reach(cell'[d]) >= Reach(cell[d])
<1>1. TypeOK /\ cell[c] \in Cell /\ cell \in [Client -> Cell] /\ cursor[c] \in 0 .. Len(log) /\ Len(log) \in Nat
  BY DEF MergeInv, TypeOK
<1>2. PICK op \in Window(cursor[c], k) :
        IsNewest(op, Window(cursor[c], k)) /\ cell' = [cell EXCEPT ![c] = ApplyOne(@, op)]
  BY DEF Replay
<1>3. /\ k \in cursor[c] + 1 .. Len(log) /\ k \in 0 .. Len(log)
      /\ cursor' = [cursor EXCEPT ![c] = k] /\ UNCHANGED <<store, log, stored, outbox, sent>>
  BY <1>1 DEF Replay
<1>4. op \in Logged /\ op \in Op /\ op \in Written
  BY <1>1, <1>3, WindowLogged DEF Written
<1>. DEFINE x == ApplyOne(cell[c], op)
<1>5. x \in Cell /\ Reach(x) >= Reach(cell[c])
  BY <1>1, <1>4, ApplyOneReach
<1>6. op.kind = "upsert" => Reach(x) >= op.at
  BY <1>1, <1>4, ApplyOneReach
<1>7. Traced(x, Written)
  BY <1>1, <1>4, TracedApply DEF MergeInv, CellTraced
<1>8. cell' = [cell EXCEPT ![c] = x]
  BY <1>1, <1>2
<1>. HIDE DEF x
<1>9. \A u \in Standing(k) : Reach(x) >= u.at
  BY <1>2, <1>3, <1>5, <1>6, WindowReach
<1>10. MergeInv'
  BY <1>3, <1>5, <1>7, <1>8, <1>9, DeviceSteps
<1>11. \A d \in Client : Reach(cell[d]) \in Nat /\ cell'[d] = IF d = c THEN x ELSE cell[d]
  BY <1>1, <1>8 DEF Reach, Cell
<1>. QED
  BY <1>5, <1>10, <1>11

\* An interrupted one moves the cell and not the cursor.
LEMMA ReplayInterruptedKeeps ==
  ASSUME MergeInv, NEW c \in Client, NEW k \in 1 .. Len(log), ReplayInterrupted(c, k)
  PROVE  MergeInv' /\ \A d \in Client : Reach(cell'[d]) >= Reach(cell[d])
<1>1. /\ TypeOK /\ cell[c] \in Cell /\ cell \in [Client -> Cell] /\ cursor[c] \in 0 .. Len(log)
      /\ Len(log) \in Nat /\ cursor \in [Client -> 0 .. Len(log)]
  BY DEF MergeInv, TypeOK
<1>2. PICK op \in Window(cursor[c], k) :
        \/ cell' = [cell EXCEPT ![c] = ApplyOne(@, op)]
        \/ op.kind = "upsert" /\ cell' = [cell EXCEPT ![c] = GuardedUpsert(@, op.at)]
  BY DEF ReplayInterrupted
<1>3. /\ k \in 0 .. Len(log) /\ cursor' = [cursor EXCEPT ![c] = cursor[c]]
      /\ UNCHANGED <<store, log, stored, outbox, sent>>
  BY <1>1 DEF ReplayInterrupted
<1>4. op \in Op /\ op \in Written /\ op.at \in Nat \ {0}
  <2>1. op \in Op /\ op \in Written
    BY <1>1, <1>3, WindowLogged DEF Written
  <2>. QED
    BY <2>1 DEF Op
<1>5. PICK x \in Cell : /\ Reach(x) >= Reach(cell[c]) /\ Traced(x, Written)
                        /\ cell' = [cell EXCEPT ![c] = x]
  <2>1. Traced(cell[c], Written)
    BY DEF MergeInv, CellTraced
  <2>2. CASE cell' = [cell EXCEPT ![c] = ApplyOne(@, op)]
    <3>1. cell' = [cell EXCEPT ![c] = ApplyOne(cell[c], op)]
      BY <1>1, <2>2
    <3>. QED
      BY <1>1, <1>4, <2>1, <3>1, ApplyOneReach, TracedApply
  <2>3. CASE op.kind = "upsert" /\ cell' = [cell EXCEPT ![c] = GuardedUpsert(@, op.at)]
    <3>1. cell' = [cell EXCEPT ![c] = GuardedUpsert(cell[c], op.at)]
      BY <1>1, <2>3
    <3>. QED
      BY <1>1, <1>4, <2>1, <2>3, <3>1, GuardedUpsertReach, TracedApply
  <2>. QED
    BY <1>2, <2>2, <2>3
<1>6. Reach(cell[c]) \in Nat /\ Reach(x) \in Nat
  BY <1>1 DEF Reach, Cell
<1>7. \A u \in Standing(cursor[c]) : Reach(x) >= u.at
  <2>1. \A u \in Standing(cursor[c]) : Reach(cell[c]) >= u.at /\ u.at \in Nat
    BY <1>1, WindowLogged DEF MergeInv, CellReached, Standing, Op
  <2>. QED
    BY <1>5, <1>6, <2>1
<1>8. MergeInv'
  BY <1>1, <1>3, <1>5, <1>7, DeviceSteps
<1>9. \A d \in Client : Reach(cell[d]) \in Nat /\ cell'[d] = IF d = c THEN x ELSE cell[d]
  BY <1>1, <1>5 DEF Reach, Cell
<1>. QED
  BY <1>5, <1>8, <1>9
\* A generation: the server's row stands for the log up to its seq.
LEMMA RebuildKeeps ==
  ASSUME MergeInv, NEW h \in 0 .. Len(log), Rebuild(h)
  PROVE  MergeInv'
<1>1. /\ TypeOK /\ store \in Cell /\ Len(log) \in Nat
      /\ outbox \in [Client -> Seq(Op)] /\ sent \in [Client -> Nat]
      /\ \A d \in Client : sent[d] <= Len(outbox[d])
  BY DEF MergeInv, TypeOK
<1>2. stored' = [seq |-> h, at |-> store.at] /\ UNCHANGED <<store, log, cell, outbox, sent, cursor>>
  BY DEF Rebuild
<1>3. Logged' = Logged
  BY <1>2 DEF Logged
<1>4. /\ store' \in Cell /\ log' \in Seq(Op) /\ StoreReached' /\ StoreTraced'
      /\ cell' \in [Client -> Cell] /\ cursor' \in [Client -> 0 .. Len(log')]
      /\ CellReached' /\ CellTraced'
  BY <1>1, <1>2, <1>3, ServerStays, CellStays, WrittenGrows
<1>5. stored' \in [seq : 0 .. Len(log'), at : Nat]
  BY <1>1, <1>2 DEF Cell
<1>6. StoredReached'
  <2>1. ASSUME NEW u \in Standing(h) PROVE store.at >= u.at
    <3>1. u \in Logged /\ u.kind = "upsert" /\ u.at \in Nat
      BY <1>1, WindowLogged DEF Standing, Op
    <3>2. Reach(store) >= u.at
      BY <3>1 DEF MergeInv, StoreReached
    <3>3. store.tomb > 0 => store.tomb < u.at
      <4>1. store.tomb > 0 => \E o \in Logged : o.kind = "delete" /\ o.at = store.tomb
        BY DEF MergeInv, StoreTraced, Traced
      <4>. QED
        BY <4>1 DEF Standing
    <3>4. u.at > 0
      BY <1>1, <3>1, WindowLogged DEF Op
    <3>. QED
      BY <1>1, <3>1, <3>2, <3>3, <3>4 DEF Reach, Cell
  <2>2. Standing(stored.seq)' = Standing(h) /\ stored'.at = store.at
    BY <1>2 DEF Standing, Window, Logged
  <2>. QED
    BY <2>1, <2>2 DEF StoredReached
<1>7. StoredTraced'
  BY <1>2, <1>3 DEF MergeInv, StoreTraced, StoredTraced, Traced
<1>8. SentLogged'
  BY <1>2, <1>3 DEF MergeInv, SentLogged
<1>. QED
  BY <1>1, <1>2, <1>4, <1>5, <1>6, <1>7, <1>8 DEF MergeInv, TypeOK

\* A snapshot: the device reaches the stored row, which stands for the prefix it
\* goes on from, even where its cursor moves back.
LEMMA SnapshotKeeps ==
  ASSUME MergeInv, NEW c \in Client, Snapshot(c)
  PROVE  MergeInv' /\ \A d \in Client : Reach(cell'[d]) >= Reach(cell[d])
<1>1. /\ TypeOK /\ cell[c] \in Cell /\ cell \in [Client -> Cell] /\ store \in Cell
      /\ stored \in [seq : 0 .. Len(log), at : Nat] /\ stored.at \in Nat /\ store.tomb \in Nat
      /\ stored.seq \in 0 .. Len(log)
  BY DEF MergeInv, TypeOK, Cell
<1>. DEFINE x == ApplySnapshot(cell[c], stored.at, store.tomb)
<1>2. /\ cell' = [cell EXCEPT ![c] = x] /\ cursor' = [cursor EXCEPT ![c] = stored.seq]
      /\ UNCHANGED <<store, log, stored, outbox, sent>>
  BY <1>1 DEF Snapshot
<1>3. /\ x \in Cell /\ Reach(x) >= Reach(cell[c]) /\ Reach(x) >= stored.at
      /\ x.at \in {0, cell[c].at, stored.at} /\ x.tomb \in {0, cell[c].tomb, store.tomb}
  BY <1>1, ApplySnapshotReach
<1>. HIDE DEF x
<1>4. Reach(x) \in Nat
  BY <1>3 DEF Reach, Cell
<1>5. Traced(x, Written)
  <2>1. Traced(cell[c], Written) /\ Traced(store, Written)
    BY TracedGrows DEF MergeInv, CellTraced, StoreTraced, Written
  <2>2. stored.at > 0 => \E o \in Written : o.at = stored.at
    BY DEF MergeInv, StoredTraced, Written
  <2>. QED
    BY <1>3, <2>1, <2>2 DEF Traced
<1>6. \A u \in Standing(stored.seq) : Reach(x) >= u.at
  <2>1. \A u \in Standing(stored.seq) : stored.at >= u.at /\ u.at \in Nat
    BY <1>1, WindowLogged DEF MergeInv, StoredReached, Standing, Op
  <2>. QED
    BY <1>1, <1>3, <1>4, <2>1
<1>7. MergeInv'
  BY <1>1, <1>2, <1>3, <1>5, <1>6, DeviceSteps
<1>8. \A d \in Client : Reach(cell[d]) \in Nat /\ cell'[d] = IF d = c THEN x ELSE cell[d]
  BY <1>1, <1>2 DEF Reach, Cell
<1>. QED
  BY <1>3, <1>7, <1>8

\* Every step keeps the invariant and lets no replica fall back.
LEMMA NextKeeps ==
  ASSUME MergeInv, [Next]_vars
  PROVE  /\ MergeInv'
         /\ Reach(store') >= Reach(store)
         /\ \A c \in Client : Reach(cell'[c]) >= Reach(cell[c])
<1>1. /\ store \in Cell /\ cell \in [Client -> Cell] /\ Reach(store) \in Nat
      /\ \A c \in Client : cell[c] \in Cell /\ Reach(cell[c]) \in Nat
  BY DEF MergeInv, TypeOK, Reach, Cell
<1>2. CASE UNCHANGED vars
  <2>1. MergeInv'
    BY <1>2 DEF vars, MergeInv, TypeOK, StoreReached, StoredReached, CellReached, SentLogged,
      StoreTraced, StoredTraced, CellTraced, Traced, Standing, Window, Logged, Written, Reach
  <2>. QED
    BY <1>1, <1>2, <2>1 DEF vars
<1>3. ASSUME NEW c \in Client, NEW op \in Op, Write(c, op)
      PROVE  MergeInv' /\ Reach(store') >= Reach(store) /\ \A d \in Client : Reach(cell'[d]) >= Reach(cell[d])
  <2>1. cell' = [cell EXCEPT ![c] = LocalStep(cell[c], op)] \/ UNCHANGED cell
    BY <1>1, <1>3 DEF Write
  <2>2. Reach(LocalStep(cell[c], op)) >= Reach(cell[c])
    BY <1>1, LocalStepReach
  <2>3. \A d \in Client : Reach(cell'[d]) >= Reach(cell[d])
    BY <1>1, <2>1, <2>2
  <2>4. UNCHANGED store
    BY <1>3 DEF Write
  <2>. QED
    BY <1>1, <1>3, <2>3, <2>4, WriteKeeps
<1>4. ASSUME NEW c \in Client, Push(c)
      PROVE  MergeInv' /\ Reach(store') >= Reach(store) /\ UNCHANGED cell
  <2>1. outbox[c][sent[c] + 1] \in Op
    BY <1>4 DEF Push, MergeInv, TypeOK
  <2>. QED
    BY <1>1, <1>4, <2>1, PushKeeps, ApplyOneReach DEF Push
<1>5. ASSUME NEW c \in Client, NEW d \in Client, PushOverlap(c, d)
      PROVE  MergeInv' /\ Reach(store') >= Reach(store) /\ UNCHANGED cell
  BY <1>5, PushOverlapKeeps DEF PushOverlap
<1>6. ASSUME NEW c \in Client, Ack(c) \/ Reconnect(c)
      PROVE  MergeInv' /\ UNCHANGED <<store, cell>>
  BY <1>6, AckKeeps, ReconnectKeeps DEF Ack, Reconnect
<1>7. ASSUME NEW c \in Client, NEW k \in 1 .. Len(log), Replay(c, k) \/ ReplayInterrupted(c, k)
      PROVE  MergeInv' /\ UNCHANGED store /\ \A d \in Client : Reach(cell'[d]) >= Reach(cell[d])
  BY <1>7, ReplayKeeps, ReplayInterruptedKeeps DEF Replay, ReplayInterrupted
<1>8. ASSUME NEW c \in Client, Snapshot(c)
      PROVE  MergeInv' /\ UNCHANGED store /\ \A d \in Client : Reach(cell'[d]) >= Reach(cell[d])
  BY <1>8, SnapshotKeeps DEF Snapshot
<1>9. ASSUME NEW h \in 0 .. Len(log), Rebuild(h)
      PROVE  MergeInv' /\ UNCHANGED <<store, cell>>
  BY <1>9, RebuildKeeps DEF Rebuild
<1>10. \A t \in Stamp : Upsert(t) \in Op /\ Delete(t) \in Op
  BY DEF Upsert, Delete, Op
<1>11. \A c \in Client : Reach(cell[c]) >= Reach(cell[c]) /\ Reach(store) >= Reach(store)
  BY <1>1
<1>12. CASE \E c \in Client : \E t \in Stamp : Write(c, Upsert(t)) \/ Write(c, Delete(t))
  BY <1>3, <1>10, <1>12
<1>13. CASE \E c \in Client : Push(c) \/ \E d \in Client : PushOverlap(c, d)
  BY <1>4, <1>5, <1>11, <1>13
<1>14. CASE \E c \in Client : Ack(c) \/ Reconnect(c)
  BY <1>1, <1>6, <1>14
<1>15. CASE \E c \in Client : \E k \in 1 .. Len(log) : Replay(c, k) \/ ReplayInterrupted(c, k)
  BY <1>1, <1>7, <1>15
<1>16. CASE \E c \in Client : Snapshot(c)
  BY <1>1, <1>8, <1>16
<1>17. CASE \E h \in 0 .. Len(log) : Rebuild(h)
  BY <1>1, <1>9, <1>17
<1>. QED
  BY <1>2, <1>12, <1>13, <1>14, <1>15, <1>16, <1>17 DEF Next

----------------------------------------------------------------------------
(* The theorems. *)

\* The log accounts for every replica at the position it stands at, in every
\* reachable state.
THEOREM MergeCorrect == Spec => []MergeInv
<1>1. MergeInv /\ [Next]_vars => MergeInv'
  BY NextKeeps
<1>. QED
  BY InitMerge, <1>1, PTL DEF Spec

\* The replicas keep their types: positions lie in the log, counts in the outbox.
THEOREM MergeTypes == Spec => []TypeOK
<1>1. MergeInv => TypeOK
  BY DEF MergeInv
<1>. QED
  BY MergeCorrect, <1>1, PTL

\* No push, window, crash or snapshot makes a replica fall back.
THEOREM ReplicasNeverRegress == Spec => ReachGrows
<1>1. MergeInv /\ [Next]_vars =>
        [/\ Reach(store') >= Reach(store)
         /\ \A c \in Client : Reach(cell'[c]) >= Reach(cell[c])]_vars
  BY NextKeeps
<1>. QED
  BY MergeCorrect, <1>1, PTL DEF Spec, ReachGrows

\* A replica at a position of the log has every upsert before it that no delete
\* beats.
THEOREM NothingLost == Spec => []NoUpsertLost
<1>1. MergeInv => NoUpsertLost
  <2>. SUFFICES ASSUME MergeInv PROVE NoUpsertLost
    OBVIOUS
  <2>1. TypeOK /\ Len(log) \in 0 .. Len(log)
    BY DEF MergeInv, TypeOK
  <2>2. \A u \in Standing(Len(log)) : u \in Logged /\ u.kind = "upsert"
    BY <2>1, WindowLogged DEF Standing
  <2>. QED
    BY <2>2 DEF MergeInv, StoreReached, CellReached, NoUpsertLost
<1>. QED
  BY MergeCorrect, <1>1, PTL

\* With every op pushed and replayed, all replicas show the newest upsert.
THEOREM ReplicasConverge == Spec => []NewestUpsertWins
<1>1. MergeInv => NewestUpsertWins
  <2>. SUFFICES ASSUME MergeInv, Quiescent, NEW u \in Standing(Len(log)), IsNewest(u, Logged)
                PROVE  store.at = u.at /\ \A c \in Client : cell[c].at = u.at
    BY DEF NewestUpsertWins
  <2>1. TypeOK /\ Len(log) \in 0 .. Len(log)
    BY DEF MergeInv, TypeOK
  <2>2. Logged \subseteq Op /\ u \in Logged /\ u.kind = "upsert" /\ u.at \in Nat /\ u.at > 0
    BY <2>1, WindowLogged DEF Standing, Op
  <2>3. ASSUME NEW x \in Cell, Traced(x, Logged), Reach(x) >= u.at
        PROVE  x.at = u.at
    <3>1. x.at \in Nat /\ x.tomb \in Nat
      BY DEF Cell
    <3>2. x.at <= u.at
      BY <2>2, <2>3, <3>1 DEF Traced, IsNewest
    <3>3. x.tomb < u.at
      BY <2>2, <2>3, <3>1 DEF Traced, Standing
    <3>. QED
      BY <2>2, <2>3, <3>1, <3>2, <3>3 DEF Reach
  <2>4. store \in Cell /\ Traced(store, Logged) /\ Reach(store) >= u.at
    BY <2>2 DEF MergeInv, TypeOK, StoreTraced, StoreReached
  <2>5. Written = Logged
    <3>1. \A c \in Client : ToSet(outbox[c]) = {}
      BY DEF Quiescent, ToSet
    <3>. QED
      BY <3>1 DEF Written
  <2>6. ASSUME NEW c \in Client
        PROVE  cell[c] \in Cell /\ Traced(cell[c], Logged) /\ Reach(cell[c]) >= u.at
    BY <2>5 DEF MergeInv, TypeOK, CellTraced, CellReached, Quiescent
  <2>. QED
    BY <2>3, <2>4, <2>6
<1>. QED
  BY MergeCorrect, <1>1, PTL

\* A repeated push of an upsert leaves the server's row alone.
THEOREM RedeliveryIsHarmless == Spec => RedeliveryHarmless
<1>1. ASSUME MergeInv, NEW c \in Client, Push(c),
             outbox[c][sent[c] + 1].kind = "upsert", outbox[c][sent[c] + 1] \in Logged
      PROVE  store'.at = store.at
  <2>. DEFINE op == outbox[c][sent[c] + 1]
  <2>1. store \in Cell /\ store.at \in Nat /\ store.tomb \in Nat /\ TypeOK
    BY <1>1 DEF MergeInv, TypeOK, Cell
  <2>2. store' = ApplyOne(store, op)
    BY <1>1 DEF Push
  <2>3. op \in Op /\ op.kind = "upsert" /\ op.at \in Nat
    BY <1>1, <2>1, WindowLogged DEF Op
  <2>4. Reach(store) >= op.at
    BY <1>1 DEF MergeInv, StoreReached
  <2>. HIDE DEF op
  <2>5. GuardedUpsert(store, op.at) = store
    BY <2>1, <2>3, <2>4 DEF Reach, GuardedUpsert, GuardedUpsertSeen
  <2>. QED
    BY <2>1, <2>2, <2>3, <2>5 DEF ApplyOne, TombstoneClear, Cell
<1>2. MergeInv /\ [Next]_vars =>
        [\A c \in Client : Push(c) =>
           LET op == outbox[c][sent[c] + 1]
           IN  op.kind = "upsert" /\ op \in Logged => store'.at = store.at]_vars
  BY <1>1
<1>. QED
  BY MergeCorrect, <1>2, PTL DEF Spec, RedeliveryHarmless

----------------------------------------------------------------------------
(* The collapse of a window. *)

\* One step of the fold that Collapse is, from the places below the last of s.
CollapseOf(base, rest, f, s) ==
  IF s = {} THEN base ELSE CollapseStep(f[s \ {Max(s)}], rest[Max(s)])

\* f is that fold, on the places up to k.
IsCollapseTo(base, rest, k, f) == f = [s \in SUBSET (1 .. k) |-> CollapseOf(base, rest, f, s)]

\* Collapse is such a function on all places of the rest of the window, if any is.
LEMMA CollapseUnfolds ==
  ASSUME NEW ops
  PROVE  Collapse(ops) =
           (CHOOSE f : f = [s \in SUBSET DOMAIN Tail(ops) |-> CollapseOf(Head(ops), Tail(ops), f, s)])[DOMAIN Tail(ops)]
BY Zenon DEF Collapse, FoldLeft, MapThenFoldSet, CollapseOf

\* There is one, for a window of any length.
LEMMA CollapseExists ==
  ASSUME NEW base, NEW rest, NEW n \in Nat
  PROVE  \E f : IsCollapseTo(base, rest, n, f)
<1>. DEFINE P == {k \in Nat : \E f : IsCollapseTo(base, rest, k, f)}
<1>1. 0 \in P
  <2>. DEFINE f == [s \in SUBSET (1 .. 0) |-> base]
  <2>1. \A s \in SUBSET (1 .. 0) : s = {}
    OBVIOUS
  <2>2. IsCollapseTo(base, rest, 0, f)
    BY <2>1 DEF IsCollapseTo, CollapseOf
  <2>. HIDE DEF f
  <2>. QED
    BY <2>2
<1>2. ASSUME NEW k \in Nat, k \in P
      PROVE  k + 1 \in P
  <2>1. PICK f : IsCollapseTo(base, rest, k, f)
    BY <1>2
  <2>. DEFINE g == [s \in SUBSET (1 .. k + 1) |->
                      IF k + 1 \in s THEN CollapseStep(f[s \ {k + 1}], rest[k + 1]) ELSE f[s]]
  <2>2. ASSUME NEW s \in SUBSET (1 .. k + 1)
        PROVE  g[s] = CollapseOf(base, rest, g, s)
    <3>1. CASE k + 1 \in s
      <4>1. Max(s) \in s /\ \A x \in s : x <= Max(s)
        BY <3>1, MaxUpTo, s \in SUBSET (0 .. k + 1), k + 1 \in Nat
      <4>2. Max(s) = k + 1
        <5>1. Max(s) \in 1 .. k + 1 /\ k + 1 <= Max(s)
          BY <3>1, <4>1
        <5>. QED
          BY <5>1
      <4>3. s \ {k + 1} \in SUBSET (1 .. k) /\ s \ {k + 1} \in SUBSET (1 .. k + 1)
        OBVIOUS
      <4>4. g[s \ {k + 1}] = f[s \ {k + 1}]
        BY <4>3
      <4>. QED
        BY <3>1, <4>2, <4>4 DEF CollapseOf
    <3>2. CASE k + 1 \notin s
      <4>1. s \in SUBSET (1 .. k)
        BY <3>2
      <4>2. g[s] = CollapseOf(base, rest, f, s)
        BY <2>1, <3>2, <4>1 DEF IsCollapseTo
      <4>3. k + 1 \notin s \ {Max(s)} /\ s \ {Max(s)} \in SUBSET (1 .. k + 1)
        BY <3>2
      <4>4. g[s \ {Max(s)}] = f[s \ {Max(s)}]
        BY <4>3
      <4>. QED
        BY <4>2, <4>4 DEF CollapseOf
    <3>. QED
      BY <3>1, <3>2
  <2>3. IsCollapseTo(base, rest, k + 1, g)
    BY <2>2 DEF IsCollapseTo
  <2>. HIDE DEF g
  <2>. QED
    BY <2>3
<1>. HIDE DEF P
<1>3. \A k \in 0 .. n : k \in P
  BY <1>1, <1>2, InductionUpTo
<1>. QED
  BY <1>3 DEF P

\* The collapse of a window of any length keeps an op that no other is newer than:
\* after k steps it has the newest of the first k + 1.
LEMMA CollapseNewest ==
  ASSUME NEW ops \in Seq(Op), ops # <<>>
  PROVE  IsNewest(Collapse(ops), ToSet(ops))
<1>. DEFINE base == Head(ops)
            rest == Tail(ops)
            n == Len(rest)
            f == CHOOSE g : IsCollapseTo(base, rest, n, g)
            P == {k \in Nat : IsNewest(f[1 .. k], {base} \cup {rest[i] : i \in 1 .. k})}
<1>1. /\ base \in Op /\ rest \in Seq(Op) /\ n \in Nat /\ DOMAIN rest = 1 .. n
      /\ Len(ops) = n + 1 /\ \A i \in 1 .. n : rest[i] = ops[i + 1] /\ rest[i] \in Op
      /\ base = ops[1]
  OBVIOUS
<1>2. Collapse(ops) = f[1 .. n]
  BY <1>1, CollapseUnfolds DEF IsCollapseTo
<1>3. IsCollapseTo(base, rest, n, f)
  BY <1>1, CollapseExists
<1>. HIDE DEF f
<1>4. 0 \in P
  <2>1. 1 .. 0 = {} /\ {} \in SUBSET (1 .. n)
    OBVIOUS
  <2>2. f[1 .. 0] = base
    BY <1>3, <2>1 DEF IsCollapseTo, CollapseOf
  <2>. QED
    BY <1>1, <2>1, <2>2 DEF IsNewest, Op
<1>5. ASSUME NEW k \in Nat, k < n, k \in P
      PROVE  k + 1 \in P
  <2>1. /\ 1 .. k + 1 \in SUBSET (0 .. k + 1) /\ 1 .. k + 1 \in SUBSET (1 .. n)
        /\ k + 1 \in 1 .. k + 1 /\ k + 1 \in Nat /\ (1 .. k + 1) \ {k + 1} = 1 .. k
    <3>. HIDE DEF n, P, base, rest
    <3>. QED
      BY <1>1, <1>5
  <2>2. Max(1 .. k + 1) = k + 1
    <3>1. Max(1 .. k + 1) \in 1 .. k + 1 /\ k + 1 <= Max(1 .. k + 1)
      BY <2>1, MaxUpTo
    <3>. QED
      BY <3>1
  <2>3. f[1 .. k + 1] = CollapseStep(f[1 .. k], rest[k + 1])
    <3>1. f[1 .. k + 1] = CollapseOf(base, rest, f, 1 .. k + 1)
      BY <1>3, <2>1 DEF IsCollapseTo
    <3>. QED
      BY <2>1, <2>2, <3>1 DEF CollapseOf
  <2>. DEFINE seen == {base} \cup {rest[i] : i \in 1 .. k}
  <2>4. {base} \cup {rest[i] : i \in 1 .. k + 1} = seen \cup {rest[k + 1]}
    BY 1 .. k + 1 = (1 .. k) \cup {k + 1}
  <2>5. rest[k + 1] \in Op /\ seen \in SUBSET Op
    BY <1>1, <1>5
  <2>6. IsNewest(f[1 .. k], seen)
    BY <1>5
  <2>7. IsNewest(f[1 .. k + 1], seen \cup {rest[k + 1]})
    <3>. HIDE DEF seen, P, base, rest, n
    <3>1. \A o \in Op : o.at \in Nat
      BY DEF Op
    <3>. QED
      BY <2>3, <2>5, <2>6, <3>1 DEF IsNewest, CollapseStep
  <2>8. IsNewest(f[1 .. k + 1], {base} \cup {rest[i] : i \in 1 .. k + 1})
    BY <2>4, <2>7
  <2>9. k + 1 \in Nat
    OBVIOUS
  <2>. HIDE DEF seen, base, rest, n
  <2>. QED
    BY <2>8, <2>9
<1>. HIDE DEF P
<1>6. n \in P
  BY <1>1, <1>4, <1>5, InductionUpTo
<1>7. {base} \cup {rest[i] : i \in 1 .. n} = ToSet(ops)
  <2>1. DOMAIN ops = {1} \cup {i + 1 : i \in 1 .. n}
    <3>1. DOMAIN ops = 1 .. n + 1 /\ n \in Nat
      BY <1>1
    <3>. HIDE DEF n
    <3>2. \A j \in 1 .. n + 1 : j = 1 \/ (j - 1 \in 1 .. n /\ j = (j - 1) + 1)
      BY <3>1
    <3>3. \A i \in 1 .. n : i + 1 \in 1 .. n + 1
      BY <3>1
    <3>4. 1 \in 1 .. n + 1
      BY <3>1
    <3>. QED
      BY <3>1, <3>2, <3>3, <3>4
  <2>. QED
    BY <1>1, <2>1 DEF ToSet
<1>. QED
  BY <1>2, <1>6, <1>7 DEF P

\* apply.rs:88: whatever stretch of the log a device replays, what the collapse
\* leaves of it is the newest op in it.
THEOREM CollapseIsNewest == Spec => []CollapseKeepsNewest
<1>1. ASSUME TypeOK, NEW i \in 1 .. Len(log), NEW k \in 1 .. Len(log), i <= k
      PROVE  IsNewest(Collapse(SubSeq(log, i, k)), Window(i - 1, k))
  <2>. DEFINE ops == SubSeq(log, i, k)
  <2>1. log \in Seq(Op)
    BY <1>1 DEF TypeOK
  <2>2. /\ ops \in Seq(Op) /\ Len(ops) = k - i + 1
        /\ \A j \in 1 .. k - i + 1 : ops[j] = log[i + j - 1]
    BY <1>1, <2>1
  <2>3. ops # <<>> /\ DOMAIN ops = 1 .. k - i + 1
    BY <1>1, <2>2
  <2>4. ToSet(ops) = Window(i - 1, k)
    <3>1. \A j \in 1 .. k - i + 1 : i + j - 1 \in (i - 1) + 1 .. k
      BY <1>1, <2>1
    <3>2. \A j \in (i - 1) + 1 .. k : j - i + 1 \in 1 .. k - i + 1 /\ i + (j - i + 1) - 1 = j
      BY <1>1, <2>1
    <3>. HIDE DEF ops
    <3>3. ToSet(ops) \subseteq Window(i - 1, k)
      BY <2>2, <2>3, <3>1 DEF ToSet, Window
    <3>4. ASSUME NEW j \in (i - 1) + 1 .. k
          PROVE  log[j] \in ToSet(ops)
      <4>1. j - i + 1 \in DOMAIN ops /\ ops[j - i + 1] = log[j]
        BY <2>2, <2>3, <3>2
      <4>. QED
        BY <4>1 DEF ToSet
    <3>. QED
      BY <3>3, <3>4 DEF Window
  <2>. HIDE DEF ops
  <2>5. IsNewest(Collapse(ops), ToSet(ops))
    BY <2>2, <2>3, CollapseNewest
  <2>. QED
    BY <2>4, <2>5 DEF ops
<1>2. TypeOK => CollapseKeepsNewest
  BY <1>1 DEF CollapseKeepsNewest
<1>. QED
  BY <1>2, MergeTypes, PTL
=============================================================================
