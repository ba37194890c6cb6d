------------------------------- MODULE Merge -------------------------------
(***************************************************************************)
(* One row written on several devices and merged through the server's log: *)
(* every push is applied and logged in one transaction, every device       *)
(* replays windows of the log or takes a snapshot, and pushes and windows  *)
(* may be repeated.  The connection itself is abstracted to what it does   *)
(* to the order of pushes (see OpLog) and of windows (see Replay).         *)
(***************************************************************************)
EXTENDS RowMerge

CONSTANTS
  Client,       \* the devices
  Stamp,        \* the instants their clocks may read, in any order
  MaxLog,       \* bound: entries of sync_log
  Overlaps      \* do push transactions of this instance overlap

ASSUME StampAssumption == Stamp \subseteq Nat \ {0}
ASSUME MaxLogAssumption == MaxLog \in Nat /\ Overlaps \in BOOLEAN

VARIABLES
  store,        \* the server's row and tombstone
  log,          \* sync_log
  stored,       \* the generation in the snapshots table: its seq and its row
  cell,         \* each device's row and tombstone
  outbox,       \* each device's pending ops, oldest first
  sent,         \* how many of them the current connection has pushed
  cursor        \* the prefix of the log each device has taken in

vars == <<store, log, stored, cell, outbox, sent, cursor>>

NoGeneration == [seq |-> 0, at |-> 0]

TypeOK ==
  /\ store \in Cell
  /\ log \in Seq(Op)
  /\ stored \in [seq : 0 .. Len(log), at : Nat]
  /\ cell \in [Client -> Cell]
  /\ outbox \in [Client -> Seq(Op)]
  /\ sent \in [Client -> Nat]
  /\ \A c \in Client : sent[c] <= Len(outbox[c])
  /\ cursor \in [Client -> 0 .. Len(log)]

Init ==
  /\ store = EmptyCell
  /\ log = <<>>
  /\ stored = NoGeneration
  /\ cell = [c \in Client |-> EmptyCell]
  /\ outbox = [c \in Client |-> <<>>]
  /\ sent = [c \in Client |-> 0]
  /\ cursor = [c \in Client |-> 0]

Logged == ToSet(log)
Written == Logged \cup UNION {ToSet(outbox[c]) : c \in Client}

\* The ops of a stretch of the log.
Window(i, k) == {log[j] : j \in i + 1 .. k}

----------------------------------------------------------------------------
(* The device's writes and pushes. *)

\* Engine::upsert and delete: the op joins the op log, then the local statement
\* runs, unless the tab dies in between.  Stamps of different writes differ; one
\* device creates the row, the others edit and delete it once they have met it.
Write(c, op) ==
  /\ \A o \in Written : o.at # op.at
  /\ op.kind = "upsert" => Written = {} \/ cell[c] # EmptyCell
  /\ op.kind = "delete" => Live(cell[c])
  /\ outbox' = [outbox EXCEPT ![c] = Append(@, op)]
  /\ \/ cell' = [cell EXCEPT ![c] = LocalStep(@, op)]
     \/ UNCHANGED cell
  /\ UNCHANGED <<store, log, stored, sent, cursor>>

\* The push transaction of the device's next op: applied, then logged.
Push(c) ==
  /\ sent[c] < Len(outbox[c]) /\ Len(log) < MaxLog
  /\ LET op == outbox[c][sent[c] + 1] IN
       /\ store' = ApplyOne(store, op)
       /\ log' = Append(log, op)
  /\ sent' = [sent EXCEPT ![c] = @ + 1]
  /\ UNCHANGED <<stored, cell, outbox, cursor>>

\* Two push transactions on the same row overlap: the upsert of c, waiting for
\* the delete of d to commit, has already looked for a tombstone.
PushOverlap(c, d) ==
  /\ Overlaps /\ c # d
  /\ sent[c] < Len(outbox[c]) /\ sent[d] < Len(outbox[d]) /\ Len(log) + 1 < MaxLog
  /\ LET up == outbox[c][sent[c] + 1]
         del == outbox[d][sent[d] + 1]
     IN  /\ up.kind = "upsert" /\ del.kind = "delete"
         /\ Live(store) /\ store.at < del.at
         /\ store' = TombstoneClear(GuardedUpsertSeen(ApplyOne(store, del), up.at, store.tomb), up.at)
         /\ log' = Append(Append(log, del), up)
  /\ sent' = [sent EXCEPT ![c] = @ + 1, ![d] = @ + 1]
  /\ UNCHANGED <<stored, cell, outbox, cursor>>

\* Mutant: the Ack retires the row but the connection still counts it.
AckStillCounted(c) ==
  /\ sent[c] > 0
  /\ outbox' = [outbox EXCEPT ![c] = Tail(@)]
  /\ UNCHANGED <<store, log, stored, cell, sent, cursor>>

\* The Ack of the oldest pushed op retires it.
Ack(c) ==
  /\ sent[c] > 0
  /\ outbox' = [outbox EXCEPT ![c] = Tail(@)]
  /\ sent' = [sent EXCEPT ![c] = @ - 1]
  /\ UNCHANGED <<store, log, stored, cell, cursor>>

\* Mutant: what the log of the device holds is taken for pushed.
ReconnectAsSent(c) ==
  /\ sent[c] < Len(outbox[c])
  /\ sent' = [sent EXCEPT ![c] = Len(outbox[c])]
  /\ UNCHANGED <<store, log, stored, cell, outbox, cursor>>

\* A new connection pushes every op that was not acknowledged again.
Reconnect(c) ==
  /\ sent[c] > 0
  /\ sent' = [sent EXCEPT ![c] = 0]
  /\ UNCHANGED <<store, log, stored, cell, outbox, cursor>>

----------------------------------------------------------------------------
(* The device's replay. *)

\* Mutant: the cursor jumps to the head of the log, past the window.
ReplayToHead(c, k) ==
  /\ k \in cursor[c] + 1 .. Len(log)
  /\ \E op \in Window(cursor[c], k) :
       /\ IsNewest(op, Window(cursor[c], k))
       /\ cell' = [cell EXCEPT ![c] = ApplyOne(@, op)]
  /\ cursor' = [cursor EXCEPT ![c] = Len(log)]
  /\ UNCHANGED <<store, log, stored, outbox, sent>>

\* apply_ops on a window of the log, then the cursor is saved.
Replay(c, k) ==
  /\ k \in cursor[c] + 1 .. Len(log)
  /\ \E op \in Window(cursor[c], k) :
       /\ IsNewest(op, Window(cursor[c], k))
       /\ cell' = [cell EXCEPT ![c] = ApplyOne(@, op)]
  /\ cursor' = [cursor EXCEPT ![c] = k]
  /\ UNCHANGED <<store, log, stored, outbox, sent>>

\* The same, interrupted: the tab dies before the cursor is saved, or already
\* between the upsert and the clearing of its tombstone.
ReplayInterrupted(c, k) ==
  /\ k \in cursor[c] + 1 .. Len(log)
  /\ \E op \in Window(cursor[c], k) :
       /\ IsNewest(op, Window(cursor[c], k))
       /\ \/ cell' = [cell EXCEPT ![c] = ApplyOne(@, op)]
          \/ op.kind = "upsert" /\ cell' = [cell EXCEPT ![c] = GuardedUpsert(@, op.at)]
  /\ UNCHANGED <<store, log, stored, outbox, sent, cursor>>

\* rebuild_snapshots: the head is read first, so a push may commit before the
\* rows are read.
Rebuild(h) ==
  /\ h \in 0 .. Len(log) /\ Len(log) <= h + 1
  /\ stored' = [seq |-> h, at |-> store.at]
  /\ UNCHANGED <<store, log, cell, outbox, sent, cursor>>

\* A far-behind device gets the stored rows with the current tombstones, and
\* goes on from the generation's seq, which its own cursor may be past.
Snapshot(c) ==
  /\ stored # NoGeneration
  /\ cell' = [cell EXCEPT ![c] = ApplySnapshot(@, stored.at, store.tomb)]
  /\ cursor' = [cursor EXCEPT ![c] = stored.seq]
  /\ UNCHANGED <<store, log, stored, outbox, sent>>

Next ==
  \/ \E c \in Client :
       \/ \E t \in Stamp : Write(c, Upsert(t)) \/ Write(c, Delete(t))
       \/ Push(c) \/ Ack(c) \/ Reconnect(c)
       \/ \E d \in Client : PushOverlap(c, d)
       \/ \E k \in 1 .. Len(log) : Replay(c, k) \/ ReplayInterrupted(c, k)
       \/ Snapshot(c)
  \/ \E h \in 0 .. Len(log) : Rebuild(h)

Spec == Init /\ [][Next]_vars

----------------------------------------------------------------------------
(* What the merge guarantees. *)

\* No replica ever falls back behind what it has taken in: an older write, an
\* older delete, a repeated push or window, or a stale snapshot finds the row or
\* the tombstone in its way.
ReachGrows ==
  [][/\ Reach(store') >= Reach(store)
     /\ \A c \in Client : Reach(cell'[c]) >= Reach(cell[c])]_vars

\* The upserts of a prefix of the log that no logged delete beats.
Standing(n) ==
  {u \in Window(0, n) : /\ u.kind = "upsert"
                        /\ \A d \in Logged : d.kind = "delete" => d.at < u.at}

\* Whatever the order of pushes, windows, crashes and snapshots, a replica that
\* has taken in a prefix of the log has reached every upsert of it that no
\* delete beats: none is skipped, and none is lost to an older write.
NoUpsertLost ==
  /\ \A u \in Standing(Len(log)) : Reach(store) >= u.at
  /\ \A c \in Client : \A u \in Standing(cursor[c]) : Reach(cell[c]) >= u.at

(* Why none is lost, as an invariant that every step preserves. *)

\* An upsert in the log has reached the server's row, however it fared there.
StoreReached == \A u \in Logged : u.kind = "upsert" => Reach(store) >= u.at

\* The stored rows hold what stands of the log up to their seq, and a device
\* has reached what stands of the log up to its cursor.
StoredReached == \A u \in Standing(stored.seq) : stored.at >= u.at
CellReached == \A c \in Client : \A u \in Standing(cursor[c]) : Reach(cell[c]) >= u.at

\* What the connection has pushed is in the log.
SentLogged == \A c \in Client : \A i \in 1 .. sent[c] : outbox[c][i] \in Logged

\* A row or a tombstone is the work of an op: of a logged one on the server and
\* in the stored rows, of any written one on a device.
Traced(x, ops) ==
  /\ x.at > 0 => \E o \in ops : o.at = x.at
  /\ x.tomb > 0 => \E o \in ops : o.kind = "delete" /\ o.at = x.tomb
StoreTraced == Traced(store, Logged)
StoredTraced == stored.at > 0 => \E o \in Logged : o.at = stored.at
CellTraced == \A c \in Client : Traced(cell[c], Written)

\* The log accounts for the server's row, and the log up to a position accounts
\* for whoever stands at that position.
MergeInv ==
  /\ TypeOK
  /\ StoreReached /\ StoredReached /\ CellReached
  /\ SentLogged
  /\ StoreTraced /\ StoredTraced /\ CellTraced

Quiescent == \A c \in Client : outbox[c] = <<>> /\ cursor[c] = Len(log)

\* Once every op is pushed and replayed, an upsert that is the newest of all ops
\* is the row on the server and on every device.
NewestUpsertWins ==
  Quiescent =>
    \A u \in Standing(Len(log)) : IsNewest(u, Logged) =>
      store.at = u.at /\ \A c \in Client : cell[c].at = u.at

\* README.md:20-22: redelivery is harmless.  A push that repeats an upsert the
\* log already has never changes the server's row.
RedeliveryHarmless ==
  [][\A c \in Client : Push(c) =>
       LET op == outbox[c][sent[c] + 1]
       IN  op.kind = "upsert" /\ op \in Logged => store'.at = store.at]_vars

\* The collapse of apply_ops keeps the newest op of every window of the log.
CollapseKeepsNewest ==
  \A i, k \in 1 .. Len(log) : i <= k =>
    IsNewest(Collapse(SubSeq(log, i, k)), Window(i - 1, k))

\* README.md:23-25: every upsert checks a tombstone first, "so a stale edit can
\* never resurrect a deleted row": the server's row is never older than a delete
\* it has applied.
NoResurrection ==
  Live(store) => \A d \in Logged : d.kind = "delete" => d.at <= store.at
=============================================================================
