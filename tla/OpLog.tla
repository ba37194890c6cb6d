------------------------------- MODULE OpLog -------------------------------
(***************************************************************************)
(* The durable op log of a device and the push half of the sync protocol:  *)
(* Engine::write and push_local persist an op in pending_ops before any    *)
(* send, flush_pending resends every pending row on connect, the server's  *)
(* socket loop runs each Push in one transaction and acknowledges it, and  *)
(* only the Ack retires the row.                                           *)
(*                                                                         *)
(* A write is one call of Engine::write with a list of ops; op number i of *)
(* write w travels under its own batch id, so <<w, i>> names the op, its   *)
(* pending row and its Push and Ack frames.  What an op says is abstracted *)
(* to how the server's apply of it ends: normally, with a payload that     *)
(* does not parse (BadJson), or with a statement Postgres refuses (BadSql).*)
(***************************************************************************)
EXTENDS Integers, Sequences, SequencesExt

CONSTANTS
  Client,        \* devices: one leader tab with its PGlite database each
  Write,         \* calls of Engine::write
  Owner,         \* the device each write is made on
  Ops,           \* how many ops a write pushes before its local statements
  BadJson,       \* ops whose payload the applier cannot parse
  BadSql,        \* ops whose generated statement Postgres refuses
  MaxFaults,     \* bound: disconnects, crashes, server failures and restarts
  MaxDbFaults    \* bound: failed statements of the device's own database

Batch == UNION {{w} \X (1 .. Ops[w]) : w \in Write}

ASSUME OpsAssumption == Ops \in [Write -> Nat \ {0}]
ASSUME OwnerAssumption == Owner \in [Write -> Client]
ASSUME BoundsAssumption == MaxFaults \in Nat /\ MaxDbFaults \in Nat

VARIABLES
  pending,       \* pending_ops of each device in seq order (durable)
  written,       \* writes whose local statements ran (durable)
  call,          \* where each Engine::write call stands
  pos,           \* the op of the write its push_local is at
  lost,          \* ops whose INSERT failed, reported on LAST_ERROR
  sock,          \* the device's socket: is its ready_state OPEN
  flush,         \* the session's connect flush
  replay,        \* the pending rows the flush has read and not yet sent
  up,            \* Push frames of the current connection the server has not read
  down,          \* Ack frames of the current connection not yet handled
  serving,       \* the server's socket loop for the current connection runs
  late,          \* Push frames buffered on connections their device abandoned
  log,           \* ops committed to sync_log
  quarantine,    \* ops committed to quarantine instead
  faults,        \* counts against MaxFaults
  dbFaults       \* counts against MaxDbFaults

deviceVars == <<pending, written, call, pos, lost>>
sessionVars == <<sock, flush, replay, up, down, serving>>
serverVars == <<late, log, quarantine>>
vars == <<deviceVars, sessionVars, serverVars, faults, dbFaults>>

Pending == UNION {ToSet(pending[c]) : c \in Client}
AtServer == log \cup quarantine

TypeOK ==
  /\ pending \in [Client -> Seq(Batch)]
  /\ written \subseteq Write
  /\ call \in [Write -> {"idle", "insert", "send", "steps", "done", "dead"}]
  /\ pos \in [Write -> Nat]
  /\ \A w \in Write : pos[w] \in 1 .. Ops[w]
  /\ lost \subseteq Batch
  /\ sock \in [Client -> {"closed", "open"}]
  /\ flush \in [Client -> {"todo", "read", "done"}]
  /\ replay \in [Client -> Seq(Batch)]
  /\ up \in [Client -> Seq(Batch)]
  /\ down \in [Client -> Seq(Batch)]
  /\ serving \in [Client -> BOOLEAN]
  /\ late \subseteq Batch
  /\ log \subseteq Batch
  /\ quarantine \subseteq Batch
  /\ faults \in 0 .. MaxFaults
  /\ dbFaults \in 0 .. MaxDbFaults

Init ==
  /\ pending = [c \in Client |-> <<>>]
  /\ written = {}
  /\ call = [w \in Write |-> "idle"]
  /\ pos = [w \in Write |-> 1]
  /\ lost = {}
  /\ sock = [c \in Client |-> "closed"]
  /\ flush = [c \in Client |-> "todo"]
  /\ replay = [c \in Client |-> <<>>]
  /\ up = [c \in Client |-> <<>>]
  /\ down = [c \in Client |-> <<>>]
  /\ serving = [c \in Client |-> FALSE]
  /\ late = {}
  /\ log = {}
  /\ quarantine = {}
  /\ faults = 0
  /\ dbFaults = 0

----------------------------------------------------------------------------
(* The write path of the device. *)

Fault == faults < MaxFaults /\ faults' = faults + 1
DbFault == dbFaults < MaxDbFaults /\ dbFaults' = dbFaults + 1

\* Mutant: the local statements run before the ops are pushed.
BeginWriteStepsFirst(w) ==
  /\ call[w] = "idle"
  /\ call' = [call EXCEPT ![w] = "insert"]
  /\ written' = written \cup {w}
  /\ UNCHANGED <<pending, pos, lost, sessionVars, serverVars, faults, dbFaults>>

\* Engine::write is called: the ops are pushed first, one by one.
BeginWrite(w) ==
  /\ call[w] = "idle"
  /\ call' = [call EXCEPT ![w] = "insert"]
  /\ UNCHANGED <<pending, written, pos, lost, sessionVars, serverVars, faults, dbFaults>>

\* Mutant: the loop over the ops runs one past the last.
NextOpPastEnd(w) ==
  IF pos[w] <= Ops[w]
    THEN /\ pos' = [pos EXCEPT ![w] = @ + 1]
         /\ call' = [call EXCEPT ![w] = "insert"]
    ELSE /\ call' = [call EXCEPT ![w] = "steps"]
         /\ UNCHANGED pos

\* push_local of op pos[w] returned: the next op, or the local statements.
NextOp(w) ==
  IF pos[w] < Ops[w]
    THEN /\ pos' = [pos EXCEPT ![w] = @ + 1]
         /\ call' = [call EXCEPT ![w] = "insert"]
    ELSE /\ call' = [call EXCEPT ![w] = "steps"]
         /\ UNCHANGED pos

\* push_local: the row is inserted under a fresh batch id before any send.
PushLocalInsert(w) ==
  /\ call[w] = "insert"
  /\ pending' = [pending EXCEPT ![Owner[w]] = Append(@, <<w, pos[w]>>)]
  /\ call' = [call EXCEPT ![w] = "send"]
  /\ UNCHANGED <<written, pos, lost, sessionVars, serverVars, faults, dbFaults>>

\* push_local when the INSERT fails: the error is published and push_local
\* returns without one, so write goes on to the next op and to its statements.
PushLocalInsertFails(w) ==
  /\ call[w] = "insert"
  /\ DbFault
  /\ lost' = lost \cup {<<w, pos[w]>>}
  /\ NextOp(w)
  /\ UNCHANGED <<pending, written, sessionVars, serverVars, faults>>

\* Mutant: push_local leaves the op to the flush until the flush is over.
PushLocalSendAfterFlush(w) ==
  LET c == Owner[w] IN
  /\ call[w] = "send"
  /\ NextOp(w)
  /\ up' = IF sock[c] = "open" /\ flush[c] = "done"
             THEN [up EXCEPT ![c] = Append(@, <<w, pos[w]>>)]
             ELSE up
  /\ UNCHANGED <<pending, written, lost, sock, flush, replay, down, serving>>
  /\ UNCHANGED <<serverVars, faults, dbFaults>>

\* push_local after the INSERT: a Push frame if the socket is open just now.
PushLocalSend(w) ==
  LET c == Owner[w] IN
  /\ call[w] = "send"
  /\ NextOp(w)
  /\ up' = IF sock[c] = "open"
             THEN [up EXCEPT ![c] = Append(@, <<w, pos[w]>>)]
             ELSE up
  /\ UNCHANGED <<pending, written, lost, sock, flush, replay, down, serving>>
  /\ UNCHANGED <<serverVars, faults, dbFaults>>

\* The local statements, once every op went through push_local; a statement
\* that fails ends the call with an error.
WriteSteps(w) ==
  /\ call[w] = "steps"
  /\ call' = [call EXCEPT ![w] = "done"]
  /\ \/ written' = written \cup {w} /\ UNCHANGED dbFaults
     \/ DbFault /\ UNCHANGED written
  /\ UNCHANGED <<pending, pos, lost, sessionVars, serverVars, faults>>

----------------------------------------------------------------------------
(* The session of the device. *)

\* run opens a socket and the handshake completes: a fresh connection with a
\* fresh server loop.
Connect(c) ==
  /\ sock[c] = "closed"
  /\ sock' = [sock EXCEPT ![c] = "open"]
  /\ serving' = [serving EXCEPT ![c] = TRUE]
  /\ UNCHANGED <<deviceVars, flush, replay, up, down, serverVars, faults, dbFaults>>

\* flush_pending: SELECT ... FROM pending_ops ORDER BY seq.
FlushRead(c) ==
  /\ sock[c] = "open" /\ flush[c] = "todo"
  /\ flush' = [flush EXCEPT ![c] = "read"]
  /\ replay' = [replay EXCEPT ![c] = pending[c]]
  /\ UNCHANGED <<deviceVars, sock, up, down, serving, serverVars, faults, dbFaults>>

\* flush_pending when the SELECT fails: it returns, and nothing flushes
\* again before the next connect.
FlushReadFails(c) ==
  /\ sock[c] = "open" /\ flush[c] = "todo"
  /\ DbFault
  /\ flush' = [flush EXCEPT ![c] = "done"]
  /\ UNCHANGED <<deviceVars, sock, replay, up, down, serving, serverVars, faults>>

\* Mutant: a row is deleted once the socket has accepted its Push.
FlushSendForgets(c) ==
  /\ sock[c] = "open" /\ flush[c] = "read"
  /\ flush' = [flush EXCEPT ![c] = "done"]
  /\ up' = [up EXCEPT ![c] = @ \o replay[c]]
  /\ replay' = [replay EXCEPT ![c] = <<>>]
  /\ pending' = [pending EXCEPT ![c] = SelectSeq(@, LAMBDA b : b \notin ToSet(replay[c]))]
  /\ UNCHANGED <<written, call, pos, lost, sock, down, serving, serverVars, faults, dbFaults>>

\* flush_pending after the SELECT: one Push per row, no await in between.
FlushSend(c) ==
  /\ sock[c] = "open" /\ flush[c] = "read"
  /\ flush' = [flush EXCEPT ![c] = "done"]
  /\ up' = [up EXCEPT ![c] = @ \o replay[c]]
  /\ replay' = [replay EXCEPT ![c] = <<>>]
  /\ UNCHANGED <<deviceVars, sock, down, serving, serverVars, faults, dbFaults>>

\* handle_msg on an Ack: DELETE the batch's rows; an Ack of a batch that has
\* none deletes nothing.
HandleAck(c) ==
  /\ sock[c] = "open" /\ flush[c] = "done" /\ down[c] # <<>>
  /\ down' = [down EXCEPT ![c] = Tail(@)]
  /\ \/ \E i \in DOMAIN pending[c] :
          /\ pending[c][i] = Head(down[c])
          /\ pending' = [pending EXCEPT ![c] = RemoveAt(@, i)]
     \/ /\ Head(down[c]) \notin ToSet(pending[c])
        /\ UNCHANGED pending
  /\ UNCHANGED <<written, call, pos, lost, sock, flush, replay, up, serving>>
  /\ UNCHANGED <<serverVars, faults, dbFaults>>

\* handle_msg on an Ack when the DELETE fails: logged, the row stays.
HandleAckFails(c) ==
  /\ sock[c] = "open" /\ flush[c] = "done" /\ down[c] # <<>>
  /\ DbFault
  /\ down' = [down EXCEPT ![c] = Tail(@)]
  /\ UNCHANGED <<deviceVars, sock, flush, replay, up, serving, serverVars, faults>>

\* Mutant: the flushed flag survives the connection.
CloseSocketStillFlushed(c) ==
  /\ sock' = [sock EXCEPT ![c] = "closed"]
  /\ UNCHANGED flush
  /\ replay' = [replay EXCEPT ![c] = <<>>]
  /\ up' = [up EXCEPT ![c] = <<>>]
  /\ down' = [down EXCEPT ![c] = <<>>]
  /\ serving' = [serving EXCEPT ![c] = FALSE]
  /\ late' = late \cup (IF serving[c] THEN ToSet(up[c]) ELSE {})
  /\ UNCHANGED <<log, quarantine>>

\* The socket is gone, and with it the session's flags and the frames the device
\* has not read; the next session starts with nothing flushed.
CloseSocket(c) ==
  /\ sock' = [sock EXCEPT ![c] = "closed"]
  /\ flush' = [flush EXCEPT ![c] = "todo"]
  /\ replay' = [replay EXCEPT ![c] = <<>>]
  /\ up' = [up EXCEPT ![c] = <<>>]
  /\ down' = [down EXCEPT ![c] = <<>>]
  /\ serving' = [serving EXCEPT ![c] = FALSE]
  \* A loop that still runs may read what already reached the server.
  /\ late' = late \cup (IF serving[c] THEN ToSet(up[c]) ELSE {})
  /\ UNCHANGED <<log, quarantine>>

\* The device learns that the server ended the connection.
Closed(c) ==
  /\ sock[c] = "open" /\ ~serving[c]
  /\ CloseSocket(c)
  /\ UNCHANGED <<deviceVars, faults, dbFaults>>

\* The network drops the connection.
Disconnect(c) ==
  /\ sock[c] = "open"
  /\ Fault
  /\ CloseSocket(c)
  /\ UNCHANGED <<deviceVars, dbFaults>>

\* The tab dies or reloads: its calls are gone, its database is not.
Crash(c) ==
  /\ Fault
  /\ CloseSocket(c)
  /\ call' = [w \in Write |->
       IF Owner[w] = c /\ call[w] \in {"insert", "send", "steps"} THEN "dead" ELSE call[w]]
  /\ UNCHANGED <<pending, written, pos, lost, dbFaults>>

----------------------------------------------------------------------------
(* The server's socket loop and push transaction. *)

\* push of one op: the transaction that commits it to sync_log, or to
\* quarantine when apply_one could not parse its payload.
Commit(b) ==
  \/ b \notin BadJson \cup BadSql /\ log' = log \cup {b} /\ UNCHANGED quarantine
  \/ b \in BadJson /\ quarantine' = quarantine \cup {b} /\ UNCHANGED log

\* Mutant: the Ack goes out whether or not the transaction committed.
ServerPushAcksEarly(c) ==
  /\ serving[c] /\ up[c] # <<>>
  /\ Commit(Head(up[c])) \/ UNCHANGED <<log, quarantine>>
  /\ up' = [up EXCEPT ![c] = Tail(@)]
  /\ down' = [down EXCEPT ![c] = Append(@, Head(up[c]))]
  /\ UNCHANGED <<deviceVars, sock, flush, replay, serving, late, faults, dbFaults>>

\* The loop reads a Push, the transaction commits, the Ack goes out.
ServerPush(c) ==
  /\ serving[c] /\ up[c] # <<>>
  /\ Commit(Head(up[c]))
  /\ up' = [up EXCEPT ![c] = Tail(@)]
  /\ down' = [down EXCEPT ![c] = Append(@, Head(up[c]))]
  /\ UNCHANGED <<deviceVars, sock, flush, replay, serving, late, faults, dbFaults>>

\* The loop breaks without an Ack, and the frames behind go unread.
Break(c) ==
  /\ serving' = [serving EXCEPT ![c] = FALSE]
  /\ up' = [up EXCEPT ![c] = <<>>]
  /\ UNCHANGED <<deviceVars, sock, flush, replay, down, late, dbFaults>>

\* A refused statement aborts the transaction, so the INSERT INTO quarantine
\* fails in its turn: push returns an Sql error and the loop breaks.
PushAborts(c) ==
  /\ serving[c] /\ up[c] # <<>> /\ Head(up[c]) \in BadSql
  /\ Break(c)
  /\ UNCHANGED <<log, quarantine, faults>>

\* Postgres fails or the handler's timeout elapses: the transaction may have
\* committed or not, and the loop breaks.
PushFails(c) ==
  /\ serving[c] /\ up[c] # <<>>
  /\ Fault
  /\ Commit(Head(up[c])) \/ UNCHANGED <<log, quarantine>>
  /\ Break(c)

\* A loop whose device is gone still runs a Push it had already received.
LatePush(b) ==
  /\ b \in late
  /\ late' = late \ {b}
  /\ Commit(b)
  /\ UNCHANGED <<deviceVars, sessionVars, faults, dbFaults>>

\* The server process restarts; what Postgres committed stays.
ServerRestart ==
  /\ Fault
  /\ serving' = [c \in Client |-> FALSE]
  /\ up' = [c \in Client |-> <<>>]
  /\ late' = {}
  /\ UNCHANGED <<deviceVars, sock, flush, replay, down, log, quarantine, dbFaults>>

----------------------------------------------------------------------------
Next ==
  \/ \E w \in Write :
       \/ BeginWrite(w) \/ PushLocalInsert(w) \/ PushLocalInsertFails(w)
       \/ PushLocalSend(w) \/ WriteSteps(w)
  \/ \E c \in Client :
       \/ Connect(c) \/ FlushRead(c) \/ FlushReadFails(c) \/ FlushSend(c)
       \/ HandleAck(c) \/ HandleAckFails(c)
       \/ Closed(c) \/ Disconnect(c) \/ Crash(c)
       \/ ServerPush(c) \/ PushAborts(c) \/ PushFails(c)
  \/ \E b \in Batch : LatePush(b)
  \/ ServerRestart

Spec == Init /\ [][Next]_vars

\* A started write, run's reconnect loop, the session and the server's loop keep
\* going; faults, the user and abandoned loops owe nothing.
Fairness ==
  /\ \A w \in Write : WF_vars(PushLocalInsert(w)) /\ WF_vars(PushLocalSend(w))
  /\ \A c \in Client :
       /\ WF_vars(Connect(c)) /\ WF_vars(FlushRead(c)) /\ WF_vars(FlushSend(c))
       /\ WF_vars(HandleAck(c)) /\ WF_vars(Closed(c))
       /\ WF_vars(ServerPush(c)) /\ WF_vars(PushAborts(c))

FairSpec == Spec /\ Fairness

----------------------------------------------------------------------------
(* What the op log guarantees. *)

Held == Pending \cup AtServer

Promised == INSTANCE Delivery WITH
  recorded  <- Held,
  delivered <- AtServer,
  settled   <- AtServer \ Pending

\* The detailed protocol keeps the promise of module Delivery: whatever is
\* dropped, repeated or crashes, a persisted op is never forgotten before the
\* server holds it, and an op the device has retired never comes back.
DurableDelivery == Promised!Spec

\* Engine::write runs its local statements only after each of its ops is in
\* the op log or its loss was published: a local row with no op behind it, the
\* state that no later sync repairs, is never silent.
WriteAhead ==
  \A w \in written : \A i \in 1 .. Ops[w] : <<w, i>> \in Held \cup lost

\* push_local and flush_pending race on the same rows.  Once the flush is over,
\* every pending row of a live connection was handed to it (its Push or its Ack
\* is on the way) or its push_local is about to send it: no row waits for a
\* reconnect that may never come, unless a local statement has failed.
SessionCoversBacklog ==
  \A c \in Client : sock[c] = "open" /\ flush[c] = "done" /\ serving[c] /\ dbFaults = 0 =>
    \A b \in ToSet(pending[c]) :
      \/ b \in ToSet(up[c]) \cup ToSet(down[c])
      \/ call[b[1]] = "send" /\ pos[b[1]] = b[2]

\* The comment of push (ops.rs:125-131): "the batch commits, the sender is never
\* wedged".  Every op that reached the op log is eventually at the server and
\* retired on the device, once faults stop, with two exceptions: a failed local
\* statement hides it from the flush, and an op Postgres refuses does wedge its
\* sender.
Settles ==
  \A b \in Batch : b \in Pending ~>
    b \in AtServer \ Pending \/ dbFaults > 0 \/ BadSql \cap Pending # {}

----------------------------------------------------------------------------
(* The inductive invariant behind DurableDelivery and WriteAhead. *)

\* A Push frame, wherever it is buffered, is of an op still held somewhere.
FramesHeld ==
  /\ \A c \in Client : ToSet(up[c]) \cup ToSet(replay[c]) \subseteq Held
  /\ late \subseteq Held

\* An Ack on its way is of an op the server has committed.
AcksCommitted == \A c \in Client : ToSet(down[c]) \subseteq AtServer

\* An op whose INSERT has not run is nowhere.
Unborn ==
  \A w \in Write : \A i \in 1 .. Ops[w] :
    i > pos[w] \/ (i = pos[w] /\ call[w] \in {"idle", "insert"}) => <<w, i>> \notin Held

\* The ops push_local is done with are held or reported, and the statements
\* run last.
CallProgress ==
  \A w \in Write :
    /\ \A i \in 1 .. pos[w] - 1 : <<w, i>> \in Held \cup lost
    /\ call[w] = "send" => <<w, pos[w]>> \in Held
    /\ call[w] \in {"steps", "done"} => pos[w] = Ops[w] /\ <<w, pos[w]>> \in Held \cup lost
    /\ w \in written => call[w] = "done"

\* The durable op log as a whole: frames, acknowledgements and calls agree with
\* what the device and the server hold.
OpLogInv ==
  /\ TypeOK
  /\ FramesHeld
  /\ AcksCommitted
  /\ Unborn
  /\ CallProgress
=============================================================================
