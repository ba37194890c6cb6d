------------------------------- MODULE Replay -------------------------------
(***************************************************************************)
(* The pull half of the sync protocol, for one device: pushes commit into  *)
(* sync_log, the session answers the device's Pulls with a window of the   *)
(* log or with the stored snapshot, the connection's stream driver sends   *)
(* windows of its own, retention prunes the log, and the device moves its  *)
(* cursor over what it applies.                                            *)
(*                                                                         *)
(* An op is the seq sync_log gave it.  Ops are on different rows, so what  *)
(* a device has of the server's state is the set of ops it has applied     *)
(* (module Merge is about ops on one row).                                 *)
(***************************************************************************)
EXTENDS Integers, Sequences, SequencesExt, FiniteSetsExt

CONSTANTS
  Window,          \* the LIMIT of pull_since
  SnapshotAfter,   \* SNAPSHOT_AFTER_OPS
  MaxLag,          \* SNAPSHOT_MAX_LAG
  Streams,         \* does the driver get to stream while a session is up
  Overlaps,        \* do push transactions of other sessions overlap
  MaxSeq,          \* bound: seqs allocated
  MaxFaults,       \* bound: failed applies, lost connections, dead tabs
  MaxPrunes,       \* bound: runs of the retention job
  MaxRebuilds      \* bound: snapshots built for other devices

ASSUME LimitsAssumption ==
  /\ Window \in Nat \ {0}
  /\ SnapshotAfter \in Nat /\ MaxLag \in Nat
  /\ MaxSeq \in Nat /\ MaxFaults \in Nat /\ MaxPrunes \in Nat /\ MaxRebuilds \in Nat
ASSUME ModesAssumption == Streams \in BOOLEAN /\ Overlaps \in BOOLEAN

VARIABLES
  nextSeq,      \* the last value of sync_log's sequence
  open,         \* seqs of push transactions that have not ended
  committed,    \* seqs committed, ever
  log,          \* those of them sync_log still has
  stored,       \* the snapshots table: a generation's seq and the ops in its rows
  applied,      \* ops whose effect the device's database has (durable)
  saved,        \* the cursor in the device's meta table (durable)
  cursor,       \* Engine::cursor
  sock,         \* the device's connection
  up,           \* the since of each Pull the server has not read
  down,         \* frames the device has not handled
  task,         \* the Pull the session is answering
  spent,        \* Session::snapshotted
  streamCursor, \* how far the driver has streamed
  out,          \* Events of the driver that wait for the socket loop
  faults,       \* counts against MaxFaults
  prunes,       \* counts against MaxPrunes
  rebuilds      \* counts against MaxRebuilds

txVars == <<nextSeq, open, committed, log>>
deviceVars == <<applied, saved, cursor>>
sessionVars == <<sock, up, down, task, spent, streamCursor, out>>
boundVars == <<prunes, rebuilds>>
vars == <<txVars, stored, deviceVars, sessionVars, faults, boundVars>>

Idle == [how |-> "idle", since |-> -1]
NoGeneration == [seq |-> -1, ops |-> {}]
Seqs == 1 .. MaxSeq
Frame == [kind : {"events", "snapshot", "ack"}, ops : SUBSET Seqs, cursor : 0 .. MaxSeq]

TypeOK ==
  /\ nextSeq \in 0 .. MaxSeq
  /\ open \subseteq 1 .. nextSeq /\ committed \subseteq 1 .. nextSeq
  /\ log \subseteq committed
  /\ stored \in {NoGeneration} \cup [seq : 0 .. MaxSeq, ops : SUBSET Seqs]
  /\ applied \subseteq committed
  /\ saved \in -1 .. MaxSeq /\ cursor \in -1 .. MaxSeq
  /\ sock \in {"closed", "open"}
  /\ up \in Seq(-1 .. MaxSeq)
  /\ down \in Seq(Frame) /\ out \in Seq(Frame)
  /\ task \in [how : {"idle", "replay", "snapshot"}, since : -1 .. MaxSeq]
  /\ spent \in BOOLEAN
  /\ streamCursor \in 0 .. MaxSeq
  /\ faults \in 0 .. MaxFaults /\ prunes \in 0 .. MaxPrunes /\ rebuilds \in 0 .. MaxRebuilds

Init ==
  /\ nextSeq = 0 /\ open = {} /\ committed = {} /\ log = {}
  /\ stored = NoGeneration
  /\ applied = {} /\ saved = -1 /\ cursor = -1
  /\ sock = "closed" /\ up = <<>> /\ down = <<>> /\ task = Idle
  /\ spent = FALSE /\ streamCursor = 0 /\ out = <<>>
  /\ faults = 0 /\ prunes = 0 /\ rebuilds = 0

Fault == faults < MaxFaults /\ faults' = faults + 1

----------------------------------------------------------------------------
(* The log. *)

\* current_cursor: MAX(seq) of what the log still has, 0 when it is empty.
CurrentCursor == IF log = {} THEN 0 ELSE Max(log)

\* Pulls a window like pull_since, with the head of the log for a cursor.
PullSinceHead(since) ==
  LET rows == {s \in log : s > since /\ Cardinality({r \in log : since < r /\ r <= s}) <= Window}
  IN  [kind |-> "events", ops |-> rows, cursor |-> CurrentCursor]

\* pull_since: the first rows after since, and the seq the batch reaches.
PullSince(since) ==
  LET rows == {s \in log : s > since /\ Cardinality({r \in log : since < r /\ r <= s}) <= Window}
  IN  [kind |-> "events", ops |-> rows, cursor |-> IF rows = {} THEN CurrentCursor ELSE Max(rows)]

\* A push transaction of another device takes the next seq.
Begin ==
  /\ nextSeq < MaxSeq /\ (open = {} \/ Overlaps)
  /\ nextSeq' = nextSeq + 1
  /\ open' = open \cup {nextSeq + 1}
  /\ UNCHANGED <<committed, log, stored, deviceVars, sessionVars, faults, boundVars>>

\* It commits.
Commit(s) ==
  /\ s \in open
  /\ open' = open \ {s}
  /\ committed' = committed \cup {s} /\ log' = log \cup {s}
  /\ UNCHANGED <<nextSeq, stored, deviceVars, sessionVars, faults, boundVars>>

\* Mutant: the row of sync_log is written outside the transaction.
RollbackLogged(s) ==
  /\ s \in open
  /\ open' = open \ {s}
  /\ log' = log \cup {s}
  /\ UNCHANGED <<nextSeq, committed, stored, deviceVars, sessionVars, faults, boundVars>>

\* It rolls back: the seq is gone.
Rollback(s) ==
  /\ s \in open
  /\ open' = open \ {s}
  /\ UNCHANGED <<nextSeq, committed, log, stored, deviceVars, sessionVars, faults, boundVars>>

\* prune_sync_log.
Prune(s) ==
  /\ s \in log /\ prunes < MaxPrunes
  /\ prunes' = prunes + 1
  /\ log' = {r \in log : r > s}
  /\ UNCHANGED <<nextSeq, open, committed, stored, deviceVars, sessionVars, faults, rebuilds>>

----------------------------------------------------------------------------
(* The session and its driver. *)

\* A connection opens: the driver starts at the head, and session sends a Pull.
Connect ==
  /\ sock = "closed"
  /\ sock' = "open" /\ up' = <<cursor>> /\ down' = <<>> /\ task' = Idle
  /\ spent' = FALSE /\ streamCursor' = CurrentCursor /\ out' = <<>>
  /\ UNCHANGED <<txVars, stored, deviceVars, faults, boundVars>>

\* on_text on a Push of the device: committed, logged and acknowledged.
AnswerPush ==
  /\ sock = "open" /\ task = Idle
  /\ nextSeq < MaxSeq /\ (open = {} \/ Overlaps)
  /\ nextSeq' = nextSeq + 1
  /\ committed' = committed \cup {nextSeq + 1} /\ log' = log \cup {nextSeq + 1}
  /\ down' = Append(down, [kind |-> "ack", ops |-> {}, cursor |-> 0])
  /\ UNCHANGED <<open, stored, deviceVars, faults, boundVars>>
  /\ UNCHANGED <<sock, up, task, spent, streamCursor, out>>

\* on_text on a Pull: the head and the floor decide between the snapshot, once
\* per connection, and a replay.
DecidePull ==
  /\ sock = "open" /\ task = Idle /\ up # <<>>
  /\ LET since == Head(up)
         far == CurrentCursor - since > SnapshotAfter
         prunedAway == log # {} /\ since + 1 < Min(log)
     IN  IF (far \/ prunedAway) /\ ~spent
           THEN task' = [how |-> "snapshot", since |-> since] /\ spent' = TRUE
           ELSE task' = [how |-> "replay", since |-> since] /\ UNCHANGED spent
  /\ up' = Tail(up)
  /\ UNCHANGED <<txVars, stored, deviceVars, faults, boundVars>>
  /\ UNCHANGED <<sock, down, streamCursor, out>>

\* The replay reads the log after that decision.
AnswerReplay ==
  /\ sock = "open" /\ task.how = "replay"
  /\ task' = Idle
  /\ down' = Append(down, PullSince(task.since))
  /\ UNCHANGED <<txVars, stored, deviceVars, faults, boundVars>>
  /\ UNCHANGED <<sock, up, spent, streamCursor, out>>

\* rebuild_snapshots: the head of the log and the live tables.
Generation == [seq |-> CurrentCursor, ops |-> committed]

\* A session of another device has it rebuilt.
Rebuild ==
  /\ rebuilds < MaxRebuilds /\ rebuilds' = rebuilds + 1
  /\ stored' = Generation
  /\ UNCHANGED <<txVars, deviceVars, sessionVars, faults, prunes>>

\* Mutant: a snapshot is loaded, never built.
AnswerSnapshotStored ==
  /\ sock = "open" /\ task.how = "snapshot"
  /\ stored # NoGeneration /\ CurrentCursor - stored.seq <= MaxLag
  /\ task' = Idle
  /\ down' = Append(down, [kind |-> "snapshot", ops |-> stored.ops, cursor |-> stored.seq])
  /\ UNCHANGED <<txVars, stored, deviceVars, faults, boundVars>>
  /\ UNCHANGED <<sock, up, spent, streamCursor, out>>

\* load_or_build_snapshot: the stored generation while it is fresh, or a new one.
\* Time is not modelled, so a stored one may be found too old.
AnswerSnapshot ==
  /\ sock = "open" /\ task.how = "snapshot"
  /\ task' = Idle
  /\ \/ stored # NoGeneration /\ CurrentCursor - stored.seq <= MaxLag /\ UNCHANGED stored
     \/ stored' = Generation
  /\ down' = Append(down, [kind |-> "snapshot", ops |-> stored'.ops, cursor |-> stored'.seq])
  /\ UNCHANGED <<txVars, deviceVars, faults, boundVars>>
  /\ UNCHANGED <<sock, up, spent, streamCursor, out>>

\* The driver, woken or at its tick, hands a window to the socket loop...
Stream ==
  /\ Streams /\ sock = "open" /\ PullSince(streamCursor).ops # {}
  /\ streamCursor' = PullSince(streamCursor).cursor
  /\ out' = Append(out, PullSince(streamCursor))
  /\ UNCHANGED <<txVars, stored, deviceVars, faults, boundVars>>
  /\ UNCHANGED <<sock, up, down, task, spent>>

\* ...which sends it between two answers.
Relay ==
  /\ sock = "open" /\ task = Idle /\ out # <<>>
  /\ down' = Append(down, Head(out))
  /\ out' = Tail(out)
  /\ UNCHANGED <<txVars, stored, deviceVars, faults, boundVars>>
  /\ UNCHANGED <<sock, up, task, spent, streamCursor>>

----------------------------------------------------------------------------
(* handle_msg on the device. *)

\* The cursor moves to c; it is saved only if that is forward, and the save's
\* own failure is ignored.
SetCursor(c) ==
  /\ cursor' = c
  /\ \/ saved' = (IF c > cursor THEN c ELSE saved) /\ UNCHANGED faults
     \/ c > cursor /\ Fault /\ UNCHANGED saved

Received(kind) == sock = "open" /\ down # <<>> /\ Head(down).kind = kind

\* An Ack pulls again (feature ack-pull).
HandleAck ==
  /\ Received("ack")
  /\ down' = Tail(down) /\ up' = Append(up, cursor)
  /\ UNCHANGED <<txVars, stored, deviceVars, faults, boundVars>>
  /\ UNCHANGED <<sock, task, spent, streamCursor, out>>

\* Mutant: a replayed batch is not followed by another Pull.
HandleEventsOnce ==
  /\ Received("events")
  /\ LET f == Head(down) IN
       /\ applied' = applied \cup f.ops
       /\ SetCursor(f.cursor)
  /\ down' = Tail(down)
  /\ UNCHANGED <<txVars, stored, boundVars, sock, up, task, spent, streamCursor, out>>

\* Events are applied, the cursor follows, and the device pulls until a batch is
\* empty.
HandleEvents ==
  /\ Received("events")
  /\ LET f == Head(down) IN
       /\ applied' = applied \cup f.ops
       /\ SetCursor(f.cursor)
       /\ up' = IF f.ops # {} THEN Append(up, f.cursor) ELSE up
  /\ down' = Tail(down)
  /\ UNCHANGED <<txVars, stored, boundVars, sock, task, spent, streamCursor, out>>

\* Mutant: the cursor moves before the batch is applied, and stays there.
HandleEventsFailsMoved ==
  /\ Received("events") /\ Head(down).ops # {}
  /\ \E some \in SUBSET Head(down).ops : applied' = applied \cup some
  /\ cursor' = Head(down).cursor /\ UNCHANGED saved
  /\ Fault
  /\ down' = Tail(down)
  /\ UNCHANGED <<txVars, stored, boundVars, sock, up, task, spent, streamCursor, out>>

\* A table of the batch fails to apply: the others are written, the cursor stays
\* and nothing is pulled.
HandleEventsFails ==
  /\ Received("events") /\ Head(down).ops # {}
  /\ Fault
  /\ \E some \in SUBSET Head(down).ops : applied' = applied \cup some
  /\ down' = Tail(down)
  /\ UNCHANGED <<txVars, stored, saved, cursor, boundVars, sock, up, task, spent, streamCursor, out>>

\* A snapshot is applied, and the device goes on from its seq.
HandleSnapshot ==
  /\ Received("snapshot")
  /\ LET f == Head(down) IN
       /\ applied' = applied \cup f.ops
       /\ SetCursor(f.cursor)
       /\ up' = Append(up, f.cursor)
  /\ down' = Tail(down)
  /\ UNCHANGED <<txVars, stored, boundVars, sock, task, spent, streamCursor, out>>

\* The socket is gone, with everything on it.
CloseSocket ==
  /\ sock' = "closed" /\ up' = <<>> /\ down' = <<>> /\ task' = Idle /\ out' = <<>>
  /\ UNCHANGED <<txVars, stored, spent, streamCursor, boundVars>>

\* A part of a snapshot fails to apply: the socket is closed to start over.
HandleSnapshotFails ==
  /\ Received("snapshot")
  /\ Fault
  /\ \E some \in SUBSET Head(down).ops : applied' = applied \cup some
  /\ CloseSocket
  /\ UNCHANGED <<saved, cursor>>

\* The network drops the connection, or the server's loop breaks.
Disconnect ==
  /\ sock = "open"
  /\ Fault
  /\ CloseSocket
  /\ UNCHANGED deviceVars

\* The tab dies or reloads, maybe in the middle of an apply; the next engine
\* starts from the saved cursor.
Crash ==
  /\ Fault
  /\ \/ UNCHANGED applied
     \/ down # <<>> /\ \E some \in SUBSET Head(down).ops : applied' = applied \cup some
  /\ cursor' = saved
  /\ CloseSocket
  /\ UNCHANGED saved

----------------------------------------------------------------------------
Next ==
  \/ Begin
  \/ \E s \in Seqs : Commit(s) \/ Rollback(s) \/ Prune(s)
  \/ Connect \/ AnswerPush \/ DecidePull \/ AnswerReplay
  \/ AnswerSnapshot \/ Rebuild
  \/ Stream \/ Relay
  \/ HandleAck \/ HandleEvents \/ HandleEventsFails \/ HandleSnapshot \/ HandleSnapshotFails
  \/ Disconnect \/ Crash

Spec == Init /\ [][Next]_vars

\* The reconnect loop, the session, the driver and its fallback tick, and the
\* device's mailbox keep going; pushes and faults owe nothing.
Fairness ==
  /\ WF_vars(Connect) /\ WF_vars(DecidePull) /\ WF_vars(AnswerReplay) /\ WF_vars(AnswerSnapshot)
  /\ WF_vars(Stream) /\ WF_vars(Relay)
  /\ WF_vars(HandleAck) /\ WF_vars(HandleEvents) /\ WF_vars(HandleSnapshot)

FairSpec == Spec /\ Fairness

----------------------------------------------------------------------------
(* What the replay guarantees. *)

\* The ops a device has passed over: at or below a cursor of its, not applied.
PassedOver == {s \in committed : (s <= cursor \/ s <= saved) /\ s \notin applied}

\* sync.rs:276-283: the cursor must not advance past data the device never
\* wrote.  No cursor, in memory or saved, is ever past an op the log still has
\* and the device lacks: no later Pull would ask for it.
NothingPassedOver == PassedOver \cap log = {}

\* The same, once no frame is left that could still bring the op: between two
\* connections, what a device has passed over is lost to it.
NothingStranded == sock = "closed" => PassedOver \cap log = {}

----------------------------------------------------------------------------
(* Why nothing is passed over, as an invariant of the pull half (Streams and   *)
(* Overlaps both off).                                                         *)

\* Nothing can still commit at or below a position.
Settled(position) == position <= nextSeq /\ \A o \in open : position < o

\* What is left of the log up to a position is on the device, or in the ops that
\* come with the position.
Covered(position, ops) == {s \in log : s <= position} \subseteq applied \cup ops

Sound(position, ops) == Settled(position) /\ Covered(position, ops) /\ ops \subseteq committed

\* The stored rows hold what is left of the log up to their seq.
GenerationCovers ==
  /\ Settled(stored.seq)
  /\ {s \in log : s <= stored.seq} \subseteq stored.ops
  /\ stored.ops \subseteq committed

\* Pushes commit in the order of their seqs.
CommitsInOrder ==
  /\ \A o, p \in open : o = p
  /\ \A o \in open : \A s \in committed : s < o

\* Every position on its way, in a Pull, a task or a frame, is one to which the
\* device will have everything when it gets there.
ReplayInv ==
  /\ TypeOK
  /\ Sound(cursor, {}) /\ Sound(saved, {})
  /\ \A i \in DOMAIN up : Sound(up[i], {})
  /\ Sound(task.since, {})
  /\ \A i \in DOMAIN down : Sound(down[i].cursor, down[i].ops)
  /\ GenerationCovers
  /\ CommitsInOrder
  /\ out = <<>>

----------------------------------------------------------------------------
(* Why nothing is left behind when the driver does stream (Overlaps off): what *)
(* the cursors have passed over is still coming, until a fault.                *)

\* The frames the device has yet to handle.
InFlight == ToSet(down) \cup ToSet(out)

\* A frame that has op s, or that the device pulls again after, from below s.
Brings(f, s) ==
  /\ f.kind # "ack"
  /\ s \in f.ops \/ (f.cursor < s /\ (f.ops # {} \/ f.kind = "snapshot"))

\* A Pull the session has yet to answer, or a frame the device has yet to handle,
\* reaches op s.
Coming(s) ==
  \/ \E since \in ToSet(up) : since < s
  \/ task.how # "idle" /\ task.since < s
  \/ \E f \in InFlight : Brings(f, s)

\* What is left of the log up to a position is on the device, or coming.
Accounted(position) ==
  Settled(position) /\ \A s \in log : s <= position => s \in applied \/ Coming(s)

\* Every position of the device, of the session and of the driver is accounted for.
StreamInv ==
  /\ TypeOK
  /\ GenerationCovers
  /\ CommitsInOrder
  /\ sock = "closed" => up = <<>> /\ down = <<>> /\ out = <<>> /\ task = Idle
  /\ Accounted(cursor) /\ Accounted(saved) /\ Accounted(task.since)
  /\ \A since \in ToSet(up) : Accounted(since)
  /\ \A f \in InFlight : Accounted(f.cursor) /\ f.ops \subseteq committed
  /\ sock = "open" => Accounted(streamCursor)

\* The ops that a cursor of the device, or the driver's, has passed while the device
\* lacks them, and that nothing on its way will bring.
Forgotten ==
  {s \in log \ applied : /\ s <= cursor \/ s <= saved \/ (sock = "open" /\ s <= streamCursor)
                        /\ ~Coming(s)}

\* sync.rs:276-283, with the driver streaming: its batches may take the cursor past
\* ops the device lacks, but while nothing has failed these are still coming.
NothingForgotten == faults = 0 => Forgotten = {}

\* An op is left to nobody in two ways only: a batch fails to apply and nothing
\* pulls it again, or the connection is lost while an op passed over was coming.
OnlyFaultsStrand ==
  [][StreamInv => \/ StreamInv'
                  \/ HandleEventsFails
                  \/ sock' = "closed" /\ PassedOver \cap log # {}]_vars

\* Every committed op reaches the device, unless a fault leaves it to nobody.
CatchesUp == \A s \in Seqs : s \in committed ~> s \in applied \cup Forgotten
=============================================================================
