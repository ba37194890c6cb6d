---------------------------- MODULE OpLogProofs ----------------------------
(***************************************************************************)
(* The op log is durable and ahead of the local rows, for every number of  *)
(* devices, writes and faults.                                             *)
(***************************************************************************)
EXTENDS OpLog, SeqLemmas

USE OpsAssumption, OwnerAssumption, BoundsAssumption DEF OpsAssumption, OwnerAssumption, BoundsAssumption

----------------------------------------------------------------------------
(* Types. *)

\* The ops of a write have batch ids.
LEMMA BatchIds ==
  ASSUME NEW w \in Write, NEW i \in 1 .. Ops[w]
  PROVE  <<w, i>> \in Batch
BY DEF Batch

\* A batch id names a write and one of its ops.
LEMMA BatchParts ==
  ASSUME NEW b \in Batch
  PROVE  b[1] \in Write /\ b[2] \in 1 .. Ops[b[1]] /\ b = <<b[1], b[2]>>
BY DEF Batch

\* Moving to the next op stays within the write.
LEMMA NextOpType ==
  ASSUME TypeOK, NEW w \in Write, NextOp(w)
  PROVE  /\ call' \in [Write -> {"idle", "insert", "send", "steps", "done", "dead"}]
         /\ pos' \in [Write -> Nat]
         /\ \A v \in Write : pos'[v] \in 1 .. Ops[v]
<1>1. CASE pos[w] < Ops[w]
  <2>1. pos[w] \in Nat /\ pos[w] >= 1 /\ Ops[w] \in Nat
    BY DEF TypeOK
  <2>2. pos[w] + 1 \in 1 .. Ops[w]
    BY <1>1, <2>1
  <2>3. pos' = [pos EXCEPT ![w] = pos[w] + 1] /\ call' = [call EXCEPT ![w] = "insert"]
    BY <1>1 DEF NextOp
  <2>4. \A v \in Write : pos'[v] = IF v = w THEN pos[w] + 1 ELSE pos[v]
    BY <2>3 DEF TypeOK
  <2>. QED
    BY <2>1, <2>2, <2>3, <2>4 DEF TypeOK
<1>2. CASE ~(pos[w] < Ops[w])
  BY <1>2 DEF NextOp, TypeOK
<1>. QED
  BY <1>1, <1>2

\* Committing an op puts it, and nothing else, in one of the two tables.
LEMMA CommitType ==
  ASSUME TypeOK, NEW b \in Batch, Commit(b)
  PROVE  /\ log' \subseteq Batch /\ quarantine' \subseteq Batch
         /\ AtServer' = AtServer \cup {b}
BY DEF Commit, TypeOK, AtServer

\* Losing a socket leaves the session's channels empty.
LEMMA CloseSocketType ==
  ASSUME TypeOK, NEW c \in Client, CloseSocket(c)
  PROVE  /\ sock' \in [Client -> {"closed", "open"}]
         /\ flush' \in [Client -> {"todo", "read", "done"}]
         /\ replay' \in [Client -> Seq(Batch)]
         /\ up' \in [Client -> Seq(Batch)]
         /\ down' \in [Client -> Seq(Batch)]
         /\ serving' \in [Client -> BOOLEAN]
         /\ late' \subseteq Batch
         /\ log' \subseteq Batch /\ quarantine' \subseteq Batch
<1>1. ToSet(up[c]) \subseteq Batch
  BY DEF TypeOK, ToSet
<1>2. late' \subseteq Batch
  BY <1>1 DEF CloseSocket, TypeOK
<1>. QED
  BY <1>2 DEF CloseSocket, TypeOK

\* Every step keeps every variable in its type.
LEMMA TypeStep == TypeOK /\ [Next]_vars => TypeOK'
<1>. SUFFICES ASSUME TypeOK, [Next]_vars
              PROVE  TypeOK'
  OBVIOUS
<1>. USE DEF deviceVars, sessionVars, serverVars
<1>1. ASSUME NEW w \in Write, BeginWrite(w)
      PROVE  TypeOK'
  BY <1>1 DEF BeginWrite, TypeOK
<1>2. ASSUME NEW w \in Write, PushLocalInsert(w)
      PROVE  TypeOK'
  <2>1. <<w, pos[w]>> \in Batch
    BY BatchIds DEF TypeOK
  <2>2. Owner[w] \in Client
    OBVIOUS
  <2>3. Append(pending[Owner[w]], <<w, pos[w]>>) \in Seq(Batch)
    BY <2>1, <2>2 DEF TypeOK
  <2>4. pending' \in [Client -> Seq(Batch)]
    BY <1>2, <2>2, <2>3 DEF PushLocalInsert, TypeOK
  <2>. QED
    BY <1>2, <2>4 DEF PushLocalInsert, TypeOK
<1>3. ASSUME NEW w \in Write, PushLocalInsertFails(w)
      PROVE  TypeOK'
  <2>1. <<w, pos[w]>> \in Batch
    BY BatchIds DEF TypeOK
  <2>2. dbFaults' \in 0 .. MaxDbFaults
    BY <1>3 DEF PushLocalInsertFails, DbFault, TypeOK
  <2>. QED
    BY <1>3, <2>1, <2>2, NextOpType DEF PushLocalInsertFails, TypeOK
<1>4. ASSUME NEW w \in Write, PushLocalSend(w)
      PROVE  TypeOK'
  <2>1. <<w, pos[w]>> \in Batch /\ Owner[w] \in Client
    BY BatchIds DEF TypeOK
  <2>2. Append(up[Owner[w]], <<w, pos[w]>>) \in Seq(Batch)
    BY <2>1 DEF TypeOK
  <2>3. up' \in [Client -> Seq(Batch)]
    BY <1>4, <2>1, <2>2 DEF PushLocalSend, TypeOK
  <2>. QED
    BY <1>4, <2>3, NextOpType DEF PushLocalSend, TypeOK
<1>5. ASSUME NEW w \in Write, WriteSteps(w)
      PROVE  TypeOK'
  BY <1>5 DEF WriteSteps, DbFault, TypeOK
<1>6. ASSUME NEW c \in Client, Connect(c)
      PROVE  TypeOK'
  BY <1>6 DEF Connect, TypeOK
<1>7. ASSUME NEW c \in Client, FlushRead(c)
      PROVE  TypeOK'
  BY <1>7 DEF FlushRead, TypeOK
<1>8. ASSUME NEW c \in Client, FlushReadFails(c)
      PROVE  TypeOK'
  BY <1>8 DEF FlushReadFails, DbFault, TypeOK
<1>9. ASSUME NEW c \in Client, FlushSend(c)
      PROVE  TypeOK'
  <2>1. up[c] \o replay[c] \in Seq(Batch) /\ <<>> \in Seq(Batch)
    BY DEF TypeOK
  <2>. QED
    BY <1>9, <2>1 DEF FlushSend, TypeOK
<1>10. ASSUME NEW c \in Client, HandleAck(c)
       PROVE  TypeOK'
  <2>1. Tail(down[c]) \in Seq(Batch)
    BY <1>10, ToSetTail DEF HandleAck, TypeOK
  <2>2. \A i \in DOMAIN pending[c] : RemoveAt(pending[c], i) \in Seq(Batch)
    BY ToSetRemoveAt DEF TypeOK
  <2>3. pending' \in [Client -> Seq(Batch)]
    BY <1>10, <2>2 DEF HandleAck, TypeOK
  <2>. QED
    BY <1>10, <2>1, <2>3 DEF HandleAck, TypeOK
<1>11. ASSUME NEW c \in Client, HandleAckFails(c)
       PROVE  TypeOK'
  <2>1. Tail(down[c]) \in Seq(Batch)
    BY <1>11, ToSetTail DEF HandleAckFails, TypeOK
  <2>. QED
    BY <1>11, <2>1 DEF HandleAckFails, DbFault, TypeOK
<1>12. ASSUME NEW c \in Client, Closed(c)
       PROVE  TypeOK'
  BY <1>12, CloseSocketType DEF Closed, TypeOK
<1>13. ASSUME NEW c \in Client, Disconnect(c)
       PROVE  TypeOK'
  BY <1>13, CloseSocketType DEF Disconnect, Fault, TypeOK
<1>14. ASSUME NEW c \in Client, Crash(c)
       PROVE  TypeOK'
  <2>1. call' \in [Write -> {"idle", "insert", "send", "steps", "done", "dead"}]
    BY <1>14 DEF Crash, TypeOK
  <2>2. /\ CloseSocket(c)
        /\ faults' \in 0 .. MaxFaults
        /\ UNCHANGED <<pending, written, pos, lost, dbFaults>>
    BY <1>14 DEF Crash, Fault, TypeOK
  <2>. QED
    BY <2>1, <2>2, CloseSocketType DEF TypeOK
<1>15. ASSUME NEW c \in Client, ServerPush(c)
       PROVE  TypeOK'
  <2>1. Tail(up[c]) \in Seq(Batch) /\ Head(up[c]) \in Batch
    BY <1>15, ToSetTail DEF ServerPush, TypeOK
  <2>2. Append(down[c], Head(up[c])) \in Seq(Batch)
    BY <2>1 DEF TypeOK
  <2>. QED
    BY <1>15, <2>1, <2>2, CommitType DEF ServerPush, TypeOK
<1>16. ASSUME NEW c \in Client, PushAborts(c)
       PROVE  TypeOK'
  BY <1>16 DEF PushAborts, Break, TypeOK
<1>17. ASSUME NEW c \in Client, PushFails(c)
       PROVE  TypeOK'
  <2>1. Head(up[c]) \in Batch
    BY <1>17, ToSetTail DEF PushFails, TypeOK
  <2>2. log' \subseteq Batch /\ quarantine' \subseteq Batch
    BY <1>17, <2>1, CommitType DEF PushFails, TypeOK
  <2>. QED
    BY <1>17, <2>2 DEF PushFails, Break, Fault, TypeOK
<1>18. ASSUME NEW b \in Batch, LatePush(b)
       PROVE  TypeOK'
  BY <1>18, CommitType DEF LatePush, TypeOK
<1>19. CASE ServerRestart
  BY <1>19 DEF ServerRestart, Fault, TypeOK
<1>20. CASE UNCHANGED vars
  BY <1>20 DEF vars, TypeOK
<1>. QED
  BY <1>1, <1>2, <1>3, <1>4, <1>5, <1>6, <1>7, <1>8, <1>9, <1>10, <1>11, <1>12,
     <1>13, <1>14, <1>15, <1>16, <1>17, <1>18, <1>19, <1>20 DEF Next

\* The initial state has the types.
LEMMA TypeInit == Init => TypeOK
BY DEF Init, TypeOK

\* TypeOK holds in every reachable state of every instance.
THEOREM TypeCorrect == Spec => []TypeOK
BY TypeInit, TypeStep, PTL DEF Spec

----------------------------------------------------------------------------
(* What a step does to the op log and to the server's tables. *)

\* Inserting a row adds its op to what is pending.
LEMMA PendingAppend ==
  ASSUME TypeOK, NEW c \in Client, NEW b \in Batch,
         pending' = [pending EXCEPT ![c] = Append(@, b)]
  PROVE  Pending' = Pending \cup {b}
<1>1. ToSet(Append(pending[c], b)) = ToSet(pending[c]) \cup {b}
  BY ToSetAppend DEF TypeOK
<1>2. \A d \in Client : ToSet(pending'[d]) = ToSet(pending[d]) \cup (IF d = c THEN {b} ELSE {})
  BY <1>1 DEF TypeOK
<1>3. \A x : /\ x \in Pending <=> \E d \in Client : x \in ToSet(pending[d])
             /\ x \in Pending' <=> \E d \in Client : x \in ToSet(pending'[d])
  BY DEF Pending
<1>4. \A x : x \in Pending' <=> x \in Pending \/ x = b
  BY <1>2, <1>3
<1>. QED
  BY <1>4

\* Deleting a row takes at most its op out of what is pending.
LEMMA PendingRemove ==
  ASSUME TypeOK, NEW c \in Client, NEW i \in DOMAIN pending[c],
         pending' = [pending EXCEPT ![c] = RemoveAt(@, i)]
  PROVE  /\ Pending' \subseteq Pending
         /\ Pending \subseteq Pending' \cup {pending[c][i]}
<1>1. /\ ToSet(RemoveAt(pending[c], i)) \subseteq ToSet(pending[c])
      /\ ToSet(pending[c]) \subseteq ToSet(RemoveAt(pending[c], i)) \cup {pending[c][i]}
  BY ToSetRemoveAt DEF TypeOK
<1>2. \A d \in Client : /\ ToSet(pending'[d]) \subseteq ToSet(pending[d])
                         /\ ToSet(pending[d]) \subseteq ToSet(pending'[d]) \cup {pending[c][i]}
  BY <1>1 DEF TypeOK
<1>. QED
  BY <1>2 DEF Pending

\* What a step may do to the tables: leave them alone, insert a pending row for
\* the op a call is at, commit an op that is already held, or retire a row
\* whose op the server has.
TablesKept == UNCHANGED <<Pending, AtServer>>
RowInserted(w) ==
  /\ call[w] = "insert" /\ call' = [call EXCEPT ![w] = "send"]
  /\ Pending' = Pending \cup {<<w, pos[w]>>}
  /\ UNCHANGED <<AtServer, pos, lost, written>>
OpCommitted(b) ==
  /\ b \in Held
  /\ AtServer' = AtServer \cup {b}
  /\ UNCHANGED Pending
RowRetired(b) ==
  /\ b \in AtServer
  /\ Pending' \subseteq Pending
  /\ Pending \subseteq Pending' \cup {b}
  /\ UNCHANGED <<AtServer, call, pos, lost, written>>

TablesStep ==
  \/ TablesKept
  \/ \E w \in Write : RowInserted(w)
  \/ \E b \in Batch : OpCommitted(b)
  \/ \E b \in Batch : RowRetired(b)

\* The frame at the head of a connection is of a held op.
LEMMA HeadHeld ==
  ASSUME OpLogInv, NEW c \in Client, up[c] # <<>>
  PROVE  Head(up[c]) \in Batch /\ Head(up[c]) \in Held
<1>1. Head(up[c]) \in ToSet(up[c])
  BY ToSetTail DEF OpLogInv, TypeOK
<1>. QED
  BY <1>1 DEF OpLogInv, TypeOK, FramesHeld, ToSet

\* Every step is one of the four.
LEMMA TablesLemma == OpLogInv /\ [Next]_vars => TablesStep
<1>. SUFFICES ASSUME OpLogInv, [Next]_vars
              PROVE  TablesStep
  OBVIOUS
<1>0. TypeOK
  BY DEF OpLogInv
<1>. USE DEF deviceVars, sessionVars, serverVars
<1>1. ASSUME NEW w \in Write, PushLocalInsert(w)
      PROVE  TablesStep
  <2>1. <<w, pos[w]>> \in Batch /\ Owner[w] \in Client
    BY <1>0, BatchIds DEF TypeOK
  <2>2. Pending' = Pending \cup {<<w, pos[w]>>}
    BY <1>0, <1>1, <2>1, PendingAppend DEF PushLocalInsert
  <2>3. UNCHANGED <<AtServer, pos, lost, written>>
    BY <1>1 DEF PushLocalInsert, AtServer
  <2>4. call[w] = "insert" /\ call' = [call EXCEPT ![w] = "send"]
    BY <1>1 DEF PushLocalInsert
  <2>. QED
    BY <2>2, <2>3, <2>4 DEF TablesStep, RowInserted
<1>2. ASSUME NEW c \in Client, HandleAck(c)
      PROVE  TablesStep
  <2>1. UNCHANGED <<AtServer, call, pos, lost, written>>
    BY <1>2 DEF HandleAck, AtServer
  <2>2. CASE UNCHANGED pending
    BY <2>1, <2>2 DEF TablesStep, TablesKept, Pending
  <2>3. ASSUME NEW i \in DOMAIN pending[c], pending[c][i] = Head(down[c]),
               pending' = [pending EXCEPT ![c] = RemoveAt(@, i)]
        PROVE  TablesStep
    <3>1. Head(down[c]) \in ToSet(down[c])
      BY <1>0, <1>2, ToSetTail DEF HandleAck, TypeOK
    <3>2. Head(down[c]) \in AtServer /\ Head(down[c]) \in Batch
      BY <1>0, <3>1 DEF OpLogInv, AcksCommitted, TypeOK, ToSet
    <3>3. Pending' \subseteq Pending /\ Pending \subseteq Pending' \cup {Head(down[c])}
      BY <1>0, <2>3, PendingRemove
    <3>. QED
      BY <2>1, <3>2, <3>3 DEF TablesStep, RowRetired
  <2>. QED
    BY <1>2, <2>2, <2>3 DEF HandleAck
<1>3. ASSUME NEW c \in Client, ServerPush(c)
      PROVE  TablesStep
  <2>1. Head(up[c]) \in Batch /\ Head(up[c]) \in Held
    BY <1>3, HeadHeld DEF ServerPush
  <2>2. AtServer' = AtServer \cup {Head(up[c])}
    BY <1>0, <1>3, <2>1, CommitType DEF ServerPush
  <2>3. UNCHANGED Pending
    BY <1>3 DEF ServerPush, Pending
  <2>. QED
    BY <2>1, <2>2, <2>3 DEF TablesStep, OpCommitted
<1>4. ASSUME NEW c \in Client, PushFails(c)
      PROVE  TablesStep
  <2>1. Head(up[c]) \in Batch /\ Head(up[c]) \in Held
    BY <1>4, HeadHeld DEF PushFails
  <2>2. UNCHANGED Pending
    BY <1>4 DEF PushFails, Break, Pending
  <2>3. CASE Commit(Head(up[c]))
    <3>1. AtServer' = AtServer \cup {Head(up[c])}
      BY <1>0, <2>1, <2>3, CommitType
    <3>. QED
      BY <2>1, <2>2, <3>1 DEF TablesStep, OpCommitted
  <2>4. CASE UNCHANGED <<log, quarantine>>
    BY <2>2, <2>4 DEF TablesStep, TablesKept, AtServer
  <2>. QED
    BY <1>4, <2>3, <2>4 DEF PushFails
<1>5. ASSUME NEW b \in Batch, LatePush(b)
      PROVE  TablesStep
  <2>1. b \in Held
    BY <1>5 DEF LatePush, OpLogInv, FramesHeld
  <2>2. AtServer' = AtServer \cup {b}
    BY <1>0, <1>5, CommitType DEF LatePush
  <2>3. UNCHANGED Pending
    BY <1>5 DEF LatePush, Pending
  <2>. QED
    BY <2>1, <2>2, <2>3 DEF TablesStep, OpCommitted
<1>6. ASSUME UNCHANGED <<pending, log, quarantine>>
      PROVE  TablesStep
  BY <1>6 DEF TablesStep, TablesKept, Pending, AtServer
<1>7. ASSUME NEW w \in Write,
             BeginWrite(w) \/ PushLocalInsertFails(w) \/ PushLocalSend(w) \/ WriteSteps(w)
      PROVE  UNCHANGED <<pending, log, quarantine>>
  BY <1>7 DEF BeginWrite, PushLocalInsertFails, PushLocalSend, WriteSteps
<1>8. ASSUME NEW c \in Client,
             \/ Connect(c) \/ FlushRead(c) \/ FlushReadFails(c) \/ FlushSend(c)
             \/ HandleAckFails(c) \/ Closed(c) \/ Disconnect(c) \/ Crash(c) \/ PushAborts(c)
      PROVE  UNCHANGED <<pending, log, quarantine>>
  BY <1>8 DEF Connect, FlushRead, FlushReadFails, FlushSend, HandleAckFails, Closed,
              Disconnect, Crash, PushAborts, CloseSocket, Break
<1>9. ASSUME ServerRestart \/ UNCHANGED vars
      PROVE  UNCHANGED <<pending, log, quarantine>>
  BY <1>9 DEF ServerRestart, vars
<1>. QED
  BY <1>1, <1>2, <1>3, <1>4, <1>5, <1>6, <1>7, <1>8, <1>9 DEF Next

\* Nothing held is forgotten, nothing committed is undone.
LEMMA HeldGrows ==
  ASSUME OpLogInv, [Next]_vars
  PROVE  AtServer \subseteq AtServer' /\ Held \subseteq Held'
<1>1. TablesStep
  BY TablesLemma
<1>. QED
  BY <1>1 DEF TablesStep, TablesKept, RowInserted, OpCommitted, RowRetired, Held

----------------------------------------------------------------------------
(* The inductive invariant. *)

\* A step that leaves the Push channels alone keeps FramesHeld.
LEMMA FramesKept ==
  ASSUME FramesHeld, Held \subseteq Held', UNCHANGED <<up, replay, late>>
  PROVE  FramesHeld'
BY DEF FramesHeld

\* Losing a socket moves frames into late, and frames are held.
LEMMA FramesClosed ==
  ASSUME OpLogInv, Held \subseteq Held', NEW c \in Client, CloseSocket(c)
  PROVE  FramesHeld' /\ (AtServer \subseteq AtServer' => AcksCommitted')
<1>1. ToSet(<<>>) = {}
  BY DEF ToSet
<1>2. \A d \in Client : ToSet(up'[d]) \subseteq ToSet(up[d]) /\ ToSet(replay'[d]) \subseteq ToSet(replay[d])
                       /\ ToSet(down'[d]) \subseteq ToSet(down[d])
  BY <1>1 DEF CloseSocket, OpLogInv, TypeOK
<1>3. late' \subseteq late \cup ToSet(up[c])
  BY DEF CloseSocket
<1>4. FramesHeld'
  BY <1>2, <1>3 DEF OpLogInv, FramesHeld
<1>5. AtServer \subseteq AtServer' => AcksCommitted'
  BY <1>2 DEF OpLogInv, AcksCommitted
<1>. QED
  BY <1>4, <1>5

\* Push frames that are read or dropped leave the others held.
LEMMA FramesRead ==
  ASSUME OpLogInv, Held \subseteq Held', UNCHANGED <<replay, late>>,
         \A d \in Client : ToSet(up'[d]) \subseteq ToSet(up[d])
  PROVE  FramesHeld'
BY DEF OpLogInv, FramesHeld

\* A step that sends no Ack keeps AcksCommitted.
LEMMA AcksKept ==
  ASSUME AcksCommitted, AtServer \subseteq AtServer',
         \A d \in Client : ToSet(down'[d]) \subseteq ToSet(down[d])
  PROVE  AcksCommitted'
BY DEF AcksCommitted

\* A step of no call that inserts no row keeps Unborn and CallProgress.
LEMMA CallsKept ==
  ASSUME OpLogInv, Held \subseteq Held', Held' \subseteq Held,
         UNCHANGED <<call, pos, lost, written>>
  PROVE  Unborn' /\ CallProgress'
BY DEF OpLogInv, Unborn, CallProgress

\* push_local moving on, when the op it was at is held or was reported.
LEMMA CallMovesOn ==
  ASSUME OpLogInv, Held' = Held, NEW w \in Write, NextOp(w),
         call[w] \in {"insert", "send"}, lost \subseteq lost',
         <<w, pos[w]>> \in Held \cup lost', UNCHANGED written
  PROVE  Unborn' /\ CallProgress'
<1>0. TypeOK
  BY DEF OpLogInv
<1>1. pos[w] \in Nat /\ pos[w] >= 1 /\ pos[w] <= Ops[w] /\ Ops[w] \in Nat
  BY <1>0 DEF TypeOK
<1>2. \A v \in Write : v # w => pos'[v] = pos[v] /\ call'[v] = call[v]
  BY <1>0 DEF NextOp, TypeOK
<1>3. w \notin written
  BY DEF OpLogInv, CallProgress
<1>4. CASE pos[w] < Ops[w]
  <2>1. pos'[w] = pos[w] + 1 /\ call'[w] = "insert"
    BY <1>0, <1>4 DEF NextOp, TypeOK
  <2>2. \A i \in 1 .. Ops[w] : i >= pos[w] + 1 => i > pos[w]
    BY <1>1
  <2>3. Unborn'
    BY <1>1, <1>2, <2>1, <2>2 DEF OpLogInv, Unborn
  <2>4. \A i \in 1 .. pos[w] : <<w, i>> \in Held \cup lost'
    <3>1. \A i \in 1 .. pos[w] : i = pos[w] \/ i \in 1 .. pos[w] - 1
      BY <1>1
    <3>. QED
      BY <3>1 DEF OpLogInv, CallProgress
  <2>5. CallProgress'
    <3>1. pos'[w] - 1 = pos[w]
      BY <1>1, <2>1
    <3>. QED
      BY <1>2, <1>3, <2>1, <2>4, <3>1 DEF OpLogInv, CallProgress
  <2>. QED
    BY <2>3, <2>5
<1>5. CASE ~(pos[w] < Ops[w])
  <2>1. pos'[w] = pos[w] /\ call'[w] = "steps" /\ pos[w] = Ops[w]
    BY <1>0, <1>1, <1>5 DEF NextOp, TypeOK
  <2>2. Unborn'
    BY <1>1, <1>2, <2>1 DEF OpLogInv, Unborn
  <2>3. CallProgress'
    BY <1>2, <1>3, <2>1 DEF OpLogInv, CallProgress
  <2>. QED
    BY <2>2, <2>3
<1>. QED
  BY <1>4, <1>5

\* The invariant holds initially: nothing is held, no frame is on its way.
LEMMA InvInit == Init => OpLogInv
<1>. SUFFICES ASSUME Init PROVE OpLogInv
  OBVIOUS
<1>1. TypeOK
  BY TypeInit
<1>2. ToSet(<<>>) = {}
  BY DEF ToSet
<1>3. Held = {}
  BY <1>2 DEF Init, Held, Pending, AtServer
<1>4. FramesHeld /\ AcksCommitted
  BY <1>2 DEF Init, FramesHeld, AcksCommitted
<1>5. Unborn
  BY <1>3 DEF Unborn
<1>6. CallProgress
  BY DEF Init, CallProgress
<1>. QED
  BY <1>1, <1>4, <1>5, <1>6 DEF OpLogInv

\* Every step keeps the invariant.
LEMMA InvStep == OpLogInv /\ [Next]_vars => OpLogInv'
<1>. SUFFICES ASSUME OpLogInv, [Next]_vars
              PROVE  OpLogInv'
  OBVIOUS
<1>0. TypeOK /\ FramesHeld /\ AcksCommitted /\ TypeOK'
  BY TypeStep DEF OpLogInv
<1>a. AtServer \subseteq AtServer' /\ Held \subseteq Held'
  BY HeldGrows
<1>b. ToSet(<<>>) = {}
  BY DEF ToSet
<1>. USE DEF deviceVars, sessionVars, serverVars
<1>1. ASSUME NEW w \in Write, BeginWrite(w)
      PROVE  OpLogInv'
  <2>1. FramesHeld' /\ AcksCommitted'
    BY <1>0, <1>1, <1>a, FramesKept, AcksKept DEF BeginWrite
  <2>2. Held' = Held
    BY <1>1 DEF BeginWrite, Held, Pending, AtServer
  <2>3. Unborn'
    BY <1>0, <1>1, <2>2 DEF BeginWrite, OpLogInv, Unborn, TypeOK
  <2>4. CallProgress'
    BY <1>0, <1>1, <2>2 DEF BeginWrite, OpLogInv, CallProgress, TypeOK
  <2>. QED
    BY <1>0, <2>1, <2>3, <2>4 DEF OpLogInv
<1>2. ASSUME NEW w \in Write, PushLocalInsert(w)
      PROVE  OpLogInv'
  <2>1. FramesHeld' /\ AcksCommitted'
    BY <1>0, <1>2, <1>a, FramesKept, AcksKept DEF PushLocalInsert
  <2>2. Held' = Held \cup {<<w, pos[w]>>}
    <3>1. <<w, pos[w]>> \in Batch /\ Owner[w] \in Client
      BY <1>0, BatchIds DEF TypeOK
    <3>2. Pending' = Pending \cup {<<w, pos[w]>>}
      BY <1>0, <1>2, <3>1, PendingAppend DEF PushLocalInsert
    <3>. QED
      BY <1>2, <3>2 DEF PushLocalInsert, Held, AtServer
  <2>3. Unborn'
    BY <1>0, <1>2, <2>2 DEF PushLocalInsert, OpLogInv, Unborn, TypeOK
  <2>4. CallProgress'
    BY <1>0, <1>2, <2>2 DEF PushLocalInsert, OpLogInv, CallProgress, TypeOK
  <2>. QED
    BY <1>0, <2>1, <2>3, <2>4 DEF OpLogInv
<1>3. ASSUME NEW w \in Write, PushLocalInsertFails(w)
      PROVE  OpLogInv'
  <2>1. FramesHeld' /\ AcksCommitted'
    BY <1>0, <1>3, <1>a, FramesKept, AcksKept DEF PushLocalInsertFails
  <2>2. Held' = Held
    BY <1>3 DEF PushLocalInsertFails, Held, Pending, AtServer
  <2>3. Unborn' /\ CallProgress'
    BY <1>3, <2>2, CallMovesOn DEF PushLocalInsertFails
  <2>. QED
    BY <1>0, <2>1, <2>3 DEF OpLogInv
<1>4. ASSUME NEW w \in Write, PushLocalSend(w)
      PROVE  OpLogInv'
  <2>1. Held' = Held
    BY <1>4 DEF PushLocalSend, Held, Pending, AtServer
  <2>2. <<w, pos[w]>> \in Held
    BY <1>4 DEF PushLocalSend, OpLogInv, CallProgress
  <2>3. Unborn' /\ CallProgress'
    BY <1>4, <2>1, <2>2, CallMovesOn DEF PushLocalSend
  <2>4. \A d \in Client : ToSet(up'[d]) \subseteq ToSet(up[d]) \cup {<<w, pos[w]>>}
    <3>1. <<w, pos[w]>> \in Batch /\ Owner[w] \in Client
      BY <1>0, BatchIds DEF TypeOK
    <3>2. up[Owner[w]] \in Seq(Batch)
      BY <1>0, <3>1 DEF TypeOK
    <3>3. ToSet(Append(up[Owner[w]], <<w, pos[w]>>)) = ToSet(up[Owner[w]]) \cup {<<w, pos[w]>>}
      BY <3>1, <3>2, ToSetAppend
    <3>. QED
      BY <1>0, <1>4, <3>1, <3>3 DEF PushLocalSend, TypeOK
  <2>5. FramesHeld'
    BY <1>0, <1>4, <2>1, <2>2, <2>4 DEF PushLocalSend, FramesHeld
  <2>6. AcksCommitted'
    BY <1>0, <1>4, <1>a, AcksKept DEF PushLocalSend
  <2>. QED
    BY <1>0, <2>3, <2>5, <2>6 DEF OpLogInv
<1>5. ASSUME NEW w \in Write, WriteSteps(w)
      PROVE  OpLogInv'
  <2>1. FramesHeld' /\ AcksCommitted'
    BY <1>0, <1>5, <1>a, FramesKept, AcksKept DEF WriteSteps
  <2>2. Held' = Held
    BY <1>5 DEF WriteSteps, Held, Pending, AtServer
  <2>3. call' = [call EXCEPT ![w] = "done"] /\ call[w] = "steps" /\ UNCHANGED <<pos, lost>>
        /\ written' \subseteq written \cup {w}
    BY <1>5 DEF WriteSteps
  <2>4. Unborn'
    BY <1>0, <2>2, <2>3 DEF OpLogInv, Unborn, TypeOK
  <2>5. CallProgress'
    BY <1>0, <2>2, <2>3 DEF OpLogInv, CallProgress, TypeOK
  <2>. QED
    BY <1>0, <2>1, <2>4, <2>5 DEF OpLogInv
<1>c. ASSUME FramesHeld', AcksCommitted', UNCHANGED <<call, pos, lost, written>>, Held' \subseteq Held
      PROVE  OpLogInv'
  BY <1>0, <1>a, <1>c, CallsKept DEF OpLogInv
<1>6. ASSUME NEW c \in Client, Connect(c)
      PROVE  OpLogInv'
  <2>1. FramesHeld' /\ AcksCommitted'
    BY <1>0, <1>6, <1>a, FramesKept, AcksKept DEF Connect
  <2>. QED
    BY <1>6, <1>c, <2>1 DEF Connect, Held, Pending, AtServer
<1>7. ASSUME NEW c \in Client, FlushRead(c)
      PROVE  OpLogInv'
  <2>1. ToSet(pending[c]) \subseteq Held
    BY DEF Held, Pending
  <2>2. \A d \in Client : ToSet(replay'[d]) \subseteq ToSet(replay[d]) \cup ToSet(pending[c])
    BY <1>0, <1>7 DEF FlushRead, TypeOK
  <2>3. FramesHeld'
    BY <1>0, <1>7, <1>a, <2>1, <2>2 DEF FlushRead, FramesHeld
  <2>4. AcksCommitted'
    BY <1>0, <1>7, <1>a, AcksKept DEF FlushRead
  <2>. QED
    BY <1>7, <1>c, <2>3, <2>4 DEF FlushRead, Held, Pending, AtServer
<1>8. ASSUME NEW c \in Client, FlushReadFails(c)
      PROVE  OpLogInv'
  <2>1. FramesHeld' /\ AcksCommitted'
    BY <1>0, <1>8, <1>a, FramesKept, AcksKept DEF FlushReadFails
  <2>. QED
    BY <1>8, <1>c, <2>1 DEF FlushReadFails, Held, Pending, AtServer
<1>9. ASSUME NEW c \in Client, FlushSend(c)
      PROVE  OpLogInv'
  <2>1. ToSet(up[c] \o replay[c]) = ToSet(up[c]) \cup ToSet(replay[c])
    BY <1>0, ToSetConcat DEF TypeOK
  <2>2. \A d \in Client : /\ ToSet(up'[d]) \subseteq ToSet(up[d]) \cup ToSet(replay[d])
                          /\ ToSet(replay'[d]) \subseteq ToSet(replay[d])
    BY <1>0, <1>9, <1>b, <2>1 DEF FlushSend, TypeOK
  <2>3. FramesHeld'
    BY <1>0, <1>9, <1>a, <2>2 DEF FlushSend, FramesHeld
  <2>4. AcksCommitted'
    BY <1>0, <1>9, <1>a, AcksKept DEF FlushSend
  <2>. QED
    BY <1>9, <1>c, <2>3, <2>4 DEF FlushSend, Held, Pending, AtServer
<1>10. ASSUME NEW c \in Client, HandleAck(c)
       PROVE  OpLogInv'
  <2>1. FramesHeld'
    BY <1>0, <1>10, <1>a, FramesKept DEF HandleAck
  <2>2. \A d \in Client : ToSet(down'[d]) \subseteq ToSet(down[d])
    BY <1>0, <1>10, ToSetTail DEF HandleAck, TypeOK
  <2>3. AcksCommitted'
    BY <1>0, <1>a, <2>2, AcksKept
  <2>4. Pending' \subseteq Pending
    BY <1>0, <1>10, PendingRemove DEF HandleAck, Pending
  <2>5. Held' \subseteq Held
    BY <1>10, <2>4 DEF HandleAck, Held, AtServer
  <2>. QED
    BY <1>10, <1>c, <2>1, <2>3, <2>5 DEF HandleAck
<1>11. ASSUME NEW c \in Client, HandleAckFails(c)
       PROVE  OpLogInv'
  <2>1. FramesHeld'
    BY <1>0, <1>11, <1>a, FramesKept DEF HandleAckFails
  <2>2. \A d \in Client : ToSet(down'[d]) \subseteq ToSet(down[d])
    BY <1>0, <1>11, ToSetTail DEF HandleAckFails, TypeOK
  <2>3. AcksCommitted'
    BY <1>0, <1>a, <2>2, AcksKept
  <2>. QED
    BY <1>11, <1>c, <2>1, <2>3 DEF HandleAckFails, Held, Pending, AtServer
<1>12. ASSUME NEW c \in Client, CloseSocket(c), UNCHANGED pending
       PROVE  FramesHeld' /\ AcksCommitted' /\ Held' = Held
  BY <1>12, <1>a, FramesClosed DEF CloseSocket, Held, Pending, AtServer
<1>13. ASSUME NEW c \in Client, Closed(c) \/ Disconnect(c)
       PROVE  OpLogInv'
  BY <1>13, <1>12, <1>c DEF Closed, Disconnect
<1>14. ASSUME NEW c \in Client, Crash(c)
       PROVE  OpLogInv'
  <2>1. FramesHeld' /\ AcksCommitted' /\ Held' = Held
    BY <1>14, <1>12 DEF Crash
  <2>2. \A w \in Write : /\ pos'[w] = pos[w]
                         /\ call'[w] = call[w] \/ (call'[w] = "dead" /\ call[w] \in {"insert", "send", "steps"})
    BY <1>14 DEF Crash
  <2>3. Unborn'
    BY <2>1, <2>2 DEF OpLogInv, Unborn
  <2>4. UNCHANGED <<lost, written>>
    BY <1>14 DEF Crash
  <2>5. CallProgress'
    BY <2>1, <2>2, <2>4 DEF OpLogInv, CallProgress
  <2>. QED
    BY <1>0, <2>1, <2>3, <2>5 DEF OpLogInv
<1>15. ASSUME NEW c \in Client, ServerPush(c)
       PROVE  OpLogInv'
  <2>1. Head(up[c]) \in Batch /\ Head(up[c]) \in Held
    BY <1>15, HeadHeld DEF ServerPush
  <2>2. AtServer' = AtServer \cup {Head(up[c])} /\ Held' = Held
    BY <1>0, <1>15, <2>1, CommitType DEF ServerPush, Held, Pending
  <2>3. \A d \in Client : ToSet(up'[d]) \subseteq ToSet(up[d])
    BY <1>0, <1>15, ToSetTail DEF ServerPush, TypeOK
  <2>4. FramesHeld'
    BY <1>15, <1>a, <2>3, FramesRead DEF ServerPush
  <2>5. ToSet(Append(down[c], Head(up[c]))) = ToSet(down[c]) \cup {Head(up[c])}
    BY <1>0, <2>1, ToSetAppend DEF TypeOK
  <2>6. \A d \in Client : ToSet(down'[d]) \subseteq ToSet(down[d]) \cup {Head(up[c])}
    BY <1>0, <1>15, <2>5 DEF ServerPush, TypeOK
  <2>7. AcksCommitted'
    BY <1>0, <2>2, <2>6 DEF AcksCommitted
  <2>. QED
    BY <1>15, <1>c, <2>2, <2>4, <2>7 DEF ServerPush
<1>16. ASSUME NEW c \in Client, Break(c)
       PROVE  FramesHeld' /\ AcksCommitted' /\ UNCHANGED <<call, pos, lost, written>>
  <2>1. \A d \in Client : ToSet(up'[d]) \subseteq ToSet(up[d])
    BY <1>0, <1>16, <1>b DEF Break, TypeOK
  <2>2. FramesHeld'
    BY <1>16, <1>a, <2>1, FramesRead DEF Break
  <2>3. AcksCommitted'
    BY <1>0, <1>16, <1>a, AcksKept DEF Break
  <2>. QED
    BY <1>16, <2>2, <2>3 DEF Break
<1>17. ASSUME NEW c \in Client, PushAborts(c)
       PROVE  OpLogInv'
  BY <1>17, <1>16, <1>c DEF PushAborts, Break, Held, Pending, AtServer
<1>18. ASSUME NEW c \in Client, PushFails(c)
       PROVE  OpLogInv'
  <2>1. Head(up[c]) \in Batch /\ Head(up[c]) \in Held
    BY <1>18, HeadHeld DEF PushFails
  <2>2. AtServer' \subseteq AtServer \cup {Head(up[c])}
    BY <1>0, <1>18, <2>1, CommitType DEF PushFails, AtServer
  <2>3. Held' \subseteq Held
    BY <1>18, <2>1, <2>2 DEF PushFails, Break, Held, Pending
  <2>. QED
    BY <1>18, <1>16, <1>c, <2>3 DEF PushFails
<1>19. ASSUME NEW b \in Batch, LatePush(b)
       PROVE  OpLogInv'
  <2>1. b \in Held
    BY <1>0, <1>19 DEF LatePush, FramesHeld
  <2>2. AtServer' = AtServer \cup {b}
    BY <1>0, <1>19, CommitType DEF LatePush
  <2>3. Held' \subseteq Held
    BY <1>19, <2>1, <2>2 DEF LatePush, Held, Pending
  <2>4. FramesHeld'
    BY <1>0, <1>19, <1>a DEF LatePush, FramesHeld
  <2>5. AcksCommitted'
    BY <1>0, <1>19, <1>a, AcksKept DEF LatePush
  <2>. QED
    BY <1>19, <1>c, <2>3, <2>4, <2>5 DEF LatePush
<1>20. CASE ServerRestart
  <2>1. \A d \in Client : ToSet(up'[d]) \subseteq ToSet(up[d])
    BY <1>20, <1>b DEF ServerRestart
  <2>2. FramesHeld'
    BY <1>0, <1>20, <1>a, <2>1 DEF ServerRestart, FramesHeld
  <2>3. AcksCommitted'
    BY <1>0, <1>20, <1>a, AcksKept DEF ServerRestart
  <2>. QED
    BY <1>20, <1>c, <2>2, <2>3 DEF ServerRestart, Held, Pending, AtServer
<1>21. CASE UNCHANGED vars
  <2>1. FramesHeld' /\ AcksCommitted'
    BY <1>0, <1>21, <1>a, FramesKept, AcksKept DEF vars
  <2>. QED
    BY <1>21, <1>c, <2>1 DEF vars, Held, Pending, AtServer
<1>. QED
  BY <1>1, <1>2, <1>3, <1>4, <1>5, <1>6, <1>7, <1>8, <1>9, <1>10, <1>11, <1>13,
     <1>14, <1>15, <1>17, <1>18, <1>19, <1>20, <1>21 DEF Next

\* The invariant holds in every reachable state of every instance.
THEOREM OpLogCorrect == Spec => []OpLogInv
BY InvInit, InvStep, PTL DEF Spec

\* A local row never appears before each of its ops is in the op log or its loss
\* was published (Engine::write, in every interleaving with faults).
THEOREM WriteAheadHolds == Spec => []WriteAhead
<1>1. OpLogInv => WriteAhead
  <2>. SUFFICES ASSUME OpLogInv, NEW w \in written, NEW i \in 1 .. Ops[w]
                PROVE  <<w, i>> \in Held \cup lost
    BY DEF WriteAhead
  <2>1. w \in Write /\ call[w] = "done" /\ pos[w] = Ops[w]
    BY DEF OpLogInv, TypeOK, CallProgress
  <2>2. i = pos[w] \/ i \in 1 .. pos[w] - 1
    BY <2>1 DEF OpLogInv, TypeOK
  <2>. QED
    BY <2>1, <2>2 DEF OpLogInv, CallProgress
<1>. QED
  BY <1>1, OpLogCorrect, PTL

----------------------------------------------------------------------------
(* The op log implements module Delivery. *)

\* Every step records, delivers or settles one op, or changes none of the three
\* sets: a crash, a lost frame or a duplicate is invisible.
LEMMA DeliveryStep == OpLogInv /\ [Next]_vars => [Promised!Next]_(Promised!vars)
<1>. SUFFICES ASSUME OpLogInv, [Next]_vars
              PROVE  [Promised!Next]_(Promised!vars)
  OBVIOUS
<1>0. TypeOK
  BY DEF OpLogInv
<1>1. TablesStep
  BY TablesLemma
<1>2. CASE TablesKept
  BY <1>2 DEF TablesKept, Promised!vars, Held
<1>3. ASSUME NEW w \in Write, RowInserted(w)
      PROVE  Promised!Next
  <2>1. <<w, pos[w]>> \in Batch /\ <<w, pos[w]>> \notin Held
    BY <1>0, <1>3, BatchIds DEF RowInserted, OpLogInv, Unborn, TypeOK
  <2>2. Held' = Held \cup {<<w, pos[w]>>} /\ AtServer' = AtServer
        /\ (AtServer \ Pending)' = AtServer \ Pending
    BY <1>3, <2>1 DEF RowInserted, Held
  <2>. QED
    BY <2>1, <2>2 DEF Promised!Next, Promised!Record
<1>4. ASSUME NEW b \in Batch, OpCommitted(b)
      PROVE  [Promised!Next]_(Promised!vars)
  <2>1. Held' = Held
    BY <1>4 DEF OpCommitted, Held
  <2>2. CASE b \in AtServer
    BY <1>4, <2>1, <2>2 DEF OpCommitted, Promised!vars
  <2>3. CASE b \notin AtServer
    <3>1. b \in Pending
      BY <1>4, <2>3 DEF OpCommitted, Held
    <3>2. AtServer' = AtServer \cup {b} /\ (AtServer \ Pending)' = AtServer \ Pending
      BY <1>4, <3>1 DEF OpCommitted
    <3>. QED
      BY <1>4, <2>1, <2>3, <3>2 DEF OpCommitted, Promised!Next, Promised!Deliver
  <2>. QED
    BY <2>2, <2>3
<1>5. ASSUME NEW b \in Batch, RowRetired(b)
      PROVE  [Promised!Next]_(Promised!vars)
  <2>1. Held' = Held /\ AtServer' = AtServer
    BY <1>5 DEF RowRetired, Held
  <2>2. CASE Pending' = Pending
    BY <2>1, <2>2 DEF Promised!vars
  <2>3. CASE Pending' # Pending
    <3>1. b \in Pending /\ b \notin Pending'
      BY <1>5, <2>3 DEF RowRetired
    <3>2. (AtServer \ Pending)' = (AtServer \ Pending) \cup {b}
      BY <1>5, <3>1 DEF RowRetired
    <3>. QED
      BY <1>5, <2>1, <3>1, <3>2 DEF RowRetired, Promised!Next, Promised!Settle
  <2>. QED
    BY <2>2, <2>3
<1>. QED
  BY <1>1, <1>2, <1>3, <1>4, <1>5 DEF TablesStep

\* The op log keeps the promise of module Delivery, for every instance.
THEOREM OpLogDelivers == Spec => DurableDelivery
<1>1. Init => Promised!Init
  <2>1. ToSet(<<>>) = {}
    BY DEF ToSet
  <2>. QED
    BY <2>1 DEF Init, Promised!Init, Held, Pending, AtServer
<1>. QED
  BY <1>1, OpLogCorrect, DeliveryStep, PTL DEF Spec, DurableDelivery, Promised!Spec
----------------------------------------------------------------------------
(* The backlog of a session. *)

\* A row has a place of its own in its device's op log, and stays there.
Apart(s) == \A i, k \in DOMAIN s : s[i] = s[k] => i = k

RowsOwned ==
  \A c \in Client :
    Apart(pending[c]) /\ \A b \in ToSet(pending[c]) : Owner[b[1]] = c

\* SessionCoversBacklog, from the SELECT of the flush on.
OnTheWay(c, b) ==
  \/ b \in ToSet(up[c]) \cup ToSet(down[c])
  \/ flush[c] = "read" /\ b \in ToSet(replay[c])
  \/ call[b[1]] = "send" /\ pos[b[1]] = b[2]

Covering(c) == sock[c] = "open" /\ serving[c] /\ flush[c] # "todo" /\ dbFaults = 0

Backlog ==
  \A c \in Client :
    /\ sock[c] = "closed" => flush[c] = "todo"
    /\ Covering(c) => \A b \in ToSet(pending[c]) : OnTheWay(c, b)

BacklogInv == OpLogInv /\ RowsOwned /\ Backlog

\* A row that is appended, of an op that was not there, keeps the rows apart.
LEMMA RowAppended ==
  ASSUME TypeOK, RowsOwned, NEW c \in Client, NEW b \in Batch, Owner[b[1]] = c, b \notin ToSet(pending[c]),
         pending' = [pending EXCEPT ![c] = Append(@, b)]
  PROVE  /\ RowsOwned' /\ ToSet(pending'[c]) = ToSet(pending[c]) \cup {b}
         /\ \A d \in Client : d # c => pending'[d] = pending[d]
<1>. DEFINE s == pending[c]
<1>1. s \in Seq(Batch) /\ \A d \in Client : pending'[d] = IF d = c THEN Append(s, b) ELSE pending[d]
  BY DEF TypeOK
<1>2. ToSet(Append(s, b)) = ToSet(s) \cup {b}
  BY <1>1, ToSetAppend
<1>3. \A i \in DOMAIN s : s[i] # b
  BY DEF ToSet
<1>4. \A i, k \in DOMAIN s : s[i] = s[k] => i = k
  BY DEF RowsOwned, Apart
<1>. HIDE DEF s
<1>5. Apart(Append(s, b))
  BY <1>1, <1>3, <1>4 DEF Apart
<1>6. pending'[c] = Append(s, b) /\ \A d \in Client : d # c => pending'[d] = pending[d]
  BY <1>1
<1>7. ToSet(pending'[c]) = ToSet(s) \cup {b} /\ Apart(pending'[c])
  BY <1>2, <1>5, <1>6
<1>8. \A x \in ToSet(s) \cup {b} : Owner[x[1]] = c
  BY DEF RowsOwned, s
<1>9. RowsOwned'
  BY <1>6, <1>7, <1>8 DEF RowsOwned
<1>. QED
  BY <1>6, <1>7, <1>9 DEF s

\* A row that is deleted is gone, and the others stay apart.
LEMMA RowRemoved ==
  ASSUME TypeOK, RowsOwned, NEW c \in Client, NEW i \in DOMAIN pending[c],
         pending' = [pending EXCEPT ![c] = RemoveAt(@, i)]
  PROVE  /\ RowsOwned' /\ ToSet(pending'[c]) = ToSet(pending[c]) \ {pending[c][i]}
         /\ \A d \in Client : d # c => pending'[d] = pending[d]
<1>. DEFINE s == pending[c]
            r == RemoveAt(s, i)
<1>1. s \in Seq(Batch) /\ pending'[c] = r /\ \A d \in Client : d # c => pending'[d] = pending[d]
  BY DEF TypeOK
<1>2. \A j, k \in DOMAIN s : s[j] = s[k] => j = k
  BY DEF RowsOwned, Apart
<1>3. i \in DOMAIN s
  OBVIOUS
<1>4. ToSet(r) \subseteq ToSet(s) /\ ToSet(s) \subseteq ToSet(r) \cup {s[i]}
  BY <1>1, <1>3, ToSetRemoveAt
<1>. HIDE DEF s
<1>5. /\ DOMAIN r = 1 .. Len(s) - 1 /\ DOMAIN s = 1 .. Len(s) /\ Len(s) \in Nat
      /\ \A j \in DOMAIN r : r[j] = s[IF j < i THEN j ELSE j + 1]
  <2>. DEFINE l == SubSeq(s, 1, i - 1)
              t == SubSeq(s, i + 1, Len(s))
  <2>1. DOMAIN s = 1 .. Len(s) /\ Len(s) \in Nat /\ i \in 1 .. Len(s)
    BY <1>1, <1>3
  <2>2. l \in Seq(Batch) /\ Len(l) = i - 1 /\ \A j \in 1 .. i - 1 : l[j] = s[j]
    BY <1>1, <2>1
  <2>3. t \in Seq(Batch) /\ Len(t) = Len(s) - i /\ \A j \in 1 .. Len(s) - i : t[j] = s[i + j]
    BY <1>1, <2>1
  <2>4. r = l \o t
    BY DEF RemoveAt
  <2>. HIDE DEF l, t, r
  <2>5. DOMAIN r = 1 .. Len(l) + Len(t) /\ \A j \in 1 .. Len(l) + Len(t) : r[j] = IF j <= Len(l) THEN l[j] ELSE t[j - Len(l)]
    BY <2>2, <2>3, <2>4
  <2>6. DOMAIN r = 1 .. Len(s) - 1
    BY <2>1, <2>2, <2>3, <2>5
  <2>7. ASSUME NEW j \in DOMAIN r PROVE r[j] = s[IF j < i THEN j ELSE j + 1]
    <3>1. CASE j < i
      BY <2>1, <2>2, <2>3, <2>5, <2>6, <2>7, <3>1
    <3>2. CASE ~(j < i)
      <4>1. r[j] = t[j - Len(l)] /\ j - Len(l) = j + 1 - i /\ j + 1 - i \in 1 .. Len(s) - i
        <5>1. j \in 1 .. Len(l) + Len(t) /\ ~(j <= Len(l))
          BY <2>1, <2>2, <2>3, <2>6, <2>7, <3>2
        <5>2. r[j] = t[j - Len(l)]
          BY <2>5, <5>1
        <5>. QED
          BY <2>1, <2>2, <2>6, <2>7, <3>2, <5>2
      <4>2. t[j + 1 - i] = s[i + (j + 1 - i)] /\ i + (j + 1 - i) = j + 1
        BY <2>1, <2>3, <2>6, <2>7, <4>1
      <4>. QED
        BY <3>2, <4>1, <4>2
    <3>. QED
      BY <3>1, <3>2
  <2>. QED
    BY <2>1, <2>6, <2>7
<1>. HIDE DEF r
<1>6. \A j \in DOMAIN r : (IF j < i THEN j ELSE j + 1) \in DOMAIN s /\ (IF j < i THEN j ELSE j + 1) # i
  BY <1>3, <1>5
<1>7. \A j \in DOMAIN r : r[j] # s[i]
  BY <1>2, <1>3, <1>5, <1>6
<1>8. ToSet(r) = ToSet(s) \ {s[i]}
  BY <1>4, <1>7 DEF ToSet
<1>9. ASSUME NEW j \in DOMAIN r, NEW k \in DOMAIN r, r[j] = r[k] PROVE j = k
  <2>1. (IF j < i THEN j ELSE j + 1) = (IF k < i THEN k ELSE k + 1)
    BY <1>2, <1>5, <1>6, <1>9
  <2>. QED
    BY <1>3, <1>5, <2>1
<1>10. Apart(r)
  BY <1>9 DEF Apart
<1>11. \A x \in ToSet(s) : Owner[x[1]] = c
  BY DEF RowsOwned, s
<1>12. RowsOwned'
  BY <1>1, <1>8, <1>10, <1>11 DEF RowsOwned
<1>. QED
  BY <1>1, <1>8, <1>12 DEF s

\* A step that keeps the rows, and what is on the way to the server.
LEMMA BacklogKept ==
  ASSUME Backlog, UNCHANGED <<pending, sock, flush, replay, up, down, serving>>, dbFaults' # 0 \/ dbFaults' = dbFaults,
         \A w \in Write : call[w] = "send" => call'[w] = "send" /\ pos'[w] = pos[w],
         \A c \in Client : \A b \in ToSet(pending[c]) : b[1] \in Write
  PROVE  Backlog'
BY DEF Backlog, Covering, OnTheWay

\* A frame of a connection is its head, or behind it.
LEMMA HeadOrTail ==
  ASSUME NEW s \in Seq(Batch), s # <<>>
  PROVE  ToSet(s) \subseteq ToSet(Tail(s)) \cup {Head(s)} /\ Head(s) \in Batch
<1>1. ASSUME NEW i \in DOMAIN s PROVE s[i] \in ToSet(Tail(s)) \cup {Head(s)}
  <2>1. CASE i = 1
    BY <2>1
  <2>2. CASE i # 1
    <3>1. i - 1 \in DOMAIN Tail(s) /\ Tail(s)[i - 1] = s[i]
      BY <2>2
    <3>. QED
      BY <3>1 DEF ToSet
  <2>. QED
    BY <2>1, <2>2
<1>. QED
  BY <1>1, InTail DEF ToSet

\* Every step keeps the rows apart.
LEMMA NextRows ==
  ASSUME OpLogInv, RowsOwned, [Next]_vars
  PROVE  RowsOwned'
<1>1. TypeOK /\ Unborn
  BY DEF OpLogInv
<1>2. CASE UNCHANGED pending
  BY <1>2 DEF RowsOwned
<1>3. ASSUME NEW w \in Write, PushLocalInsert(w) PROVE RowsOwned'
  <2>1. <<w, pos[w]>> \in Batch /\ pos[w] \in 1 .. Ops[w] /\ call[w] = "insert"
    BY <1>1, <1>3, BatchIds DEF TypeOK, PushLocalInsert
  <2>2. <<w, pos[w]>> \notin ToSet(pending[Owner[w]])
    BY <1>1, <2>1 DEF Unborn, Held, Pending
  <2>3. pending' = [pending EXCEPT ![Owner[w]] = Append(@, <<w, pos[w]>>)]
    BY <1>3 DEF PushLocalInsert
  <2>. QED
    BY <1>1, <2>1, <2>2, <2>3, RowAppended
<1>4. ASSUME NEW c \in Client, HandleAck(c) PROVE RowsOwned'
  <2>1. ASSUME NEW i \in DOMAIN pending[c], pending' = [pending EXCEPT ![c] = RemoveAt(@, i)] PROVE RowsOwned'
    BY <1>1, <2>1, RowRemoved
  <2>. QED
    BY <1>2, <1>4, <2>1 DEF HandleAck
<1>5. \/ UNCHANGED pending
      \/ \E w \in Write : PushLocalInsert(w)
      \/ \E c \in Client : HandleAck(c)
  BY DEF Next, vars, deviceVars, BeginWrite, PushLocalInsertFails, PushLocalSend, WriteSteps, Connect,
         FlushRead, FlushReadFails, FlushSend, HandleAckFails, Closed, Disconnect, Crash, ServerPush,
         PushAborts, PushFails, Break, LatePush, ServerRestart
<1>. QED
  BY <1>2, <1>3, <1>4, <1>5

\* A connection that ends has its flush before it again.
LEMMA CloseBacklog ==
  ASSUME TypeOK, RowsOwned, Backlog, NEW c \in Client, CloseSocket(c), UNCHANGED <<pending, dbFaults, pos>>,
         \A w \in Write : Owner[w] # c => call'[w] = call[w]
  PROVE  Backlog'
<1>1. sock'[c] = "closed" /\ flush'[c] = "todo"
  BY DEF CloseSocket, TypeOK
<1>2. ASSUME NEW d \in Client, d # c
      PROVE  /\ sock'[d] = sock[d] /\ flush'[d] = flush[d] /\ replay'[d] = replay[d]
             /\ up'[d] = up[d] /\ down'[d] = down[d] /\ serving'[d] = serving[d]
  BY <1>2 DEF CloseSocket, TypeOK
<1>3. ASSUME NEW d \in Client, d # c, Covering(d)', NEW b \in ToSet(pending[d]) PROVE OnTheWay(d, b)'
  <2>1. b[1] \in Write /\ Owner[b[1]] # c
    <3>1. b \in Batch
      BY DEF TypeOK, ToSet
    <3>. QED
      BY <1>3, <3>1, BatchParts DEF RowsOwned
  <2>2. OnTheWay(d, b)
    BY <1>2, <1>3 DEF Backlog, Covering
  <2>. QED
    BY <1>2, <1>3, <2>1, <2>2 DEF OnTheWay
<1>. QED
  BY <1>1, <1>2, <1>3 DEF Backlog, Covering

\* Every step keeps the backlog of a live session covered.
LEMMA NextBacklog ==
  ASSUME OpLogInv, RowsOwned, Backlog, [Next]_vars
  PROVE  Backlog'
<1>1. TypeOK /\ Unborn
  BY DEF OpLogInv
<1>2. \A c \in Client : \A b \in ToSet(pending[c]) : b \in Batch /\ b[1] \in Write
  BY <1>1, BatchParts DEF TypeOK, ToSet
<1>3. ASSUME NEW w \in Write, BeginWrite(w) \/ WriteSteps(w) \/ PushLocalInsertFails(w) PROVE Backlog'
  <2>1. UNCHANGED <<pending, sock, flush, replay, up, down, serving>>
    BY <1>3 DEF BeginWrite, WriteSteps, PushLocalInsertFails, sessionVars
  <2>2. dbFaults' # 0 \/ dbFaults' = dbFaults
    BY <1>1, <1>3 DEF BeginWrite, WriteSteps, PushLocalInsertFails, DbFault, TypeOK
  <2>3. call[w] # "send" /\ \A v \in Write : v # w => call'[v] = call[v] /\ pos'[v] = pos[v]
    BY <1>1, <1>3 DEF BeginWrite, WriteSteps, PushLocalInsertFails, NextOp, TypeOK
  <2>. QED
    BY <1>2, <2>1, <2>2, <2>3, BacklogKept
<1>4. ASSUME NEW w \in Write, PushLocalInsert(w) PROVE Backlog'
  <2>. DEFINE c == Owner[w]  b == <<w, pos[w]>>
  <2>1. c \in Client /\ b \in Batch /\ Owner[b[1]] = c /\ call[w] = "insert" /\ pos[w] \in 1 .. Ops[w]
    BY <1>1, <1>4, BatchIds DEF TypeOK, PushLocalInsert
  <2>2. b \notin ToSet(pending[c])
    BY <1>1, <2>1 DEF Unborn, Held, Pending
  <2>3. ToSet(pending'[c]) = ToSet(pending[c]) \cup {b} /\ \A d \in Client : d # c => pending'[d] = pending[d]
    BY <1>1, <1>4, <2>1, <2>2, RowAppended DEF PushLocalInsert
  <2>4. UNCHANGED <<sock, flush, replay, up, down, serving, dbFaults, pos>>
    BY <1>4 DEF PushLocalInsert, sessionVars
  <2>5. call'[w] = "send" /\ \A v \in Write : call[v] = "send" => call'[v] = "send"
    BY <1>1, <1>4 DEF PushLocalInsert, TypeOK
  <2>6. \A d \in Client : \A x \in ToSet(pending[d]) : OnTheWay(d, x) => OnTheWay(d, x)'
    BY <1>2, <2>4, <2>5 DEF OnTheWay
  <2>7. OnTheWay(c, b)'
    BY <2>4, <2>5 DEF OnTheWay
  <2>. HIDE DEF b, c
  <2>8. \A d \in Client : (Covering(d)' <=> Covering(d)) /\ (sock'[d] = "closed" => flush'[d] = "todo")
    BY <2>4 DEF Backlog, Covering
  <2>9. ASSUME NEW d \in Client, Covering(d), NEW x \in ToSet(pending'[d]) PROVE OnTheWay(d, x)'
    <3>1. CASE d = c /\ x = b
      BY <2>4, <2>7, <3>1, <1>4, <2>5 DEF OnTheWay, b, c
    <3>2. CASE x \in ToSet(pending[d])
      BY <2>6, <2>9, <3>2 DEF Backlog
    <3>. QED
      BY <2>3, <2>9, <3>1, <3>2
  <2>. QED
    BY <2>8, <2>9 DEF Backlog
<1>5. ASSUME NEW w \in Write, PushLocalSend(w) PROVE Backlog'
  <2>. DEFINE c == Owner[w]  m == <<w, pos[w]>>
  <2>1. UNCHANGED <<pending, sock, flush, replay, down, serving, dbFaults>> /\ c \in Client /\ m \in Batch
    BY <1>1, <1>5, BatchIds DEF PushLocalSend, TypeOK
  <2>2. \A v \in Write : v # w => call'[v] = call[v] /\ pos'[v] = pos[v]
    BY <1>1, <1>5 DEF PushLocalSend, NextOp, TypeOK
  <2>3. ToSet(Append(up[c], m)) = ToSet(up[c]) \cup {m}
    <3>1. up[c] \in Seq(Batch)
      BY <1>1, <2>1 DEF TypeOK
    <3>. HIDE DEF c, m
    <3>. QED
      BY <2>1, <3>1, ToSetAppend
  <2>4. /\ \A d \in Client : d # c => up'[d] = up[d]
        /\ sock[c] = "open" => ToSet(up'[c]) = ToSet(up[c]) \cup {m}
    BY <1>1, <1>5, <2>3 DEF PushLocalSend, TypeOK
  <2>5. ASSUME NEW d \in Client, Covering(d)', NEW b \in ToSet(pending[d]) PROVE OnTheWay(d, b)'
    <3>1. OnTheWay(d, b) /\ sock[d] = "open"
      BY <2>1, <2>5 DEF Backlog, Covering
    <3>2. b \in Batch /\ b[1] \in Write /\ Owner[b[1]] = d /\ b = <<b[1], b[2]>>
      BY <1>2, BatchParts DEF RowsOwned
    <3>3. ToSet(up[d]) \subseteq ToSet(up'[d])
      BY <2>4, <3>1
    <3>4. CASE call[b[1]] = "send" /\ pos[b[1]] = b[2] /\ b[1] = w
      <4>1. d = c /\ b = m
        BY <3>2, <3>4
      <4>. QED
        BY <2>4, <3>1, <4>1 DEF OnTheWay
    <3>5. CASE b[1] # w \/ ~(call[b[1]] = "send" /\ pos[b[1]] = b[2])
      BY <2>1, <2>2, <3>1, <3>2, <3>3, <3>5 DEF OnTheWay
    <3>. QED
      BY <3>4, <3>5
  <2>. QED
    BY <2>1, <2>5 DEF Backlog, Covering
<1>6. ASSUME NEW c \in Client, Connect(c) PROVE Backlog'
  <2>1. UNCHANGED <<pending, flush, replay, up, down, dbFaults, call, pos>> /\ sock[c] = "closed"
    BY <1>6 DEF Connect, deviceVars
  <2>2. /\ \A d \in Client : d # c => sock'[d] = sock[d] /\ serving'[d] = serving[d]
        /\ sock'[c] = "open"
    BY <1>1, <1>6 DEF Connect, TypeOK
  <2>3. flush[c] = "todo"
    BY <2>1 DEF Backlog
  <2>. QED
    BY <2>1, <2>2, <2>3 DEF Backlog, Covering, OnTheWay
<1>7. ASSUME NEW c \in Client, FlushRead(c) PROVE Backlog'
  <2>1. UNCHANGED <<pending, sock, up, down, serving, dbFaults, call, pos>> /\ sock[c] = "open"
    BY <1>7 DEF FlushRead, deviceVars
  <2>2. /\ \A d \in Client : d # c => flush'[d] = flush[d] /\ replay'[d] = replay[d]
        /\ flush'[c] = "read" /\ replay'[c] = pending[c]
    BY <1>1, <1>7 DEF FlushRead, TypeOK
  <2>. QED
    BY <2>1, <2>2 DEF Backlog, Covering, OnTheWay
<1>8. ASSUME NEW c \in Client, FlushReadFails(c) PROVE Backlog'
  <2>1. sock' = sock /\ sock[c] = "open" /\ dbFaults' # 0
    BY <1>1, <1>8 DEF FlushReadFails, DbFault, TypeOK
  <2>2. \A d \in Client : d # c => flush'[d] = flush[d]
    BY <1>1, <1>8 DEF FlushReadFails, TypeOK
  <2>. QED
    BY <2>1, <2>2 DEF Backlog, Covering
<1>9. ASSUME NEW c \in Client, FlushSend(c) PROVE Backlog'
  <2>1. UNCHANGED <<pending, sock, down, serving, dbFaults, call, pos>> /\ flush[c] = "read" /\ sock[c] = "open"
    BY <1>9 DEF FlushSend, deviceVars
  <2>2. \A d \in Client : d # c => flush'[d] = flush[d] /\ replay'[d] = replay[d] /\ up'[d] = up[d]
    BY <1>1, <1>9 DEF FlushSend, TypeOK
  <2>3. flush'[c] = "done" /\ up'[c] = up[c] \o replay[c]
    BY <1>1, <1>9 DEF FlushSend, TypeOK
  <2>4. ToSet(up'[c]) = ToSet(up[c]) \cup ToSet(replay[c])
    BY <1>1, <2>3, ToSetConcat DEF TypeOK
  <2>5. ASSUME NEW d \in Client, Covering(d)', NEW b \in ToSet(pending[d]) PROVE OnTheWay(d, b)'
    <3>1. OnTheWay(d, b)
      BY <2>1, <2>2, <2>5 DEF Backlog, Covering
    <3>2. CASE d = c
      BY <2>1, <2>4, <3>1, <3>2 DEF OnTheWay
    <3>3. CASE d # c
      BY <2>1, <2>2, <3>1, <3>3 DEF OnTheWay
    <3>. QED
      BY <3>2, <3>3
  <2>6. \A d \in Client : sock'[d] = "closed" => flush'[d] = "todo"
    BY <2>1, <2>2 DEF Backlog
  <2>. QED
    BY <2>1, <2>5, <2>6 DEF Backlog
<1>10. ASSUME NEW c \in Client, HandleAck(c) PROVE Backlog'
  <2>. DEFINE a == Head(down[c])
  <2>1. /\ UNCHANGED <<sock, flush, replay, up, serving, dbFaults, call, pos>> /\ down[c] # <<>>
        /\ down'[c] = Tail(down[c]) /\ \A d \in Client : d # c => down'[d] = down[d]
    BY <1>1, <1>10 DEF HandleAck, TypeOK
  <2>2. ToSet(down[c]) \subseteq ToSet(Tail(down[c])) \cup {a}
    BY <1>1, <2>1, HeadOrTail DEF TypeOK
  <2>3. a \notin ToSet(pending'[c]) /\ ToSet(pending'[c]) \subseteq ToSet(pending[c]) /\ \A d \in Client : d # c => pending'[d] = pending[d]
    <3>1. ASSUME NEW i \in DOMAIN pending[c], pending[c][i] = a, pending' = [pending EXCEPT ![c] = RemoveAt(@, i)]
          PROVE  /\ ToSet(pending'[c]) = ToSet(pending[c]) \ {a} /\ \A d \in Client : d # c => pending'[d] = pending[d]
      BY <1>1, <3>1, RowRemoved
    <3>2. CASE a \notin ToSet(pending[c]) /\ UNCHANGED pending
      BY <3>2
    <3>. QED
      BY <1>10, <3>1, <3>2 DEF HandleAck
  <2>. HIDE DEF a
  <2>4. ASSUME NEW d \in Client, Covering(d), NEW b \in ToSet(pending'[d]) PROVE OnTheWay(d, b)'
    <3>1. OnTheWay(d, b)
      BY <2>3, <2>4 DEF Backlog
    <3>2. CASE d = c
      BY <2>1, <2>2, <2>3, <2>4, <3>1, <3>2 DEF OnTheWay
    <3>3. CASE d # c
      BY <2>1, <3>1, <3>3 DEF OnTheWay
    <3>. QED
      BY <3>2, <3>3
  <2>. QED
    BY <2>1, <2>4 DEF Backlog, Covering
<1>11. ASSUME NEW c \in Client, HandleAckFails(c) PROVE Backlog'
  <2>1. UNCHANGED <<sock, flush>> /\ dbFaults' # 0
    BY <1>1, <1>11 DEF HandleAckFails, DbFault, TypeOK
  <2>. QED
    BY <2>1 DEF Backlog, Covering
<1>12. ASSUME NEW c \in Client, Closed(c) \/ Disconnect(c) PROVE Backlog'
  <2>1. CloseSocket(c) /\ UNCHANGED <<pending, dbFaults, pos, call>>
    BY <1>12 DEF Closed, Disconnect, deviceVars
  <2>. QED
    BY <1>1, <2>1, CloseBacklog
<1>13. ASSUME NEW c \in Client, Crash(c) PROVE Backlog'
  <2>1. CloseSocket(c) /\ UNCHANGED <<pending, dbFaults, pos>> /\ \A w \in Write : Owner[w] # c => call'[w] = call[w]
    BY <1>1, <1>13 DEF Crash, TypeOK
  <2>. QED
    BY <1>1, <2>1, CloseBacklog
<1>14. ASSUME NEW c \in Client, ServerPush(c) PROVE Backlog'
  <2>. DEFINE h == Head(up[c])
  <2>1. UNCHANGED <<pending, sock, flush, replay, serving, dbFaults, call, pos>> /\ up[c] # <<>>
    BY <1>14 DEF ServerPush, deviceVars
  <2>2. /\ up'[c] = Tail(up[c]) /\ down'[c] = Append(down[c], h)
        /\ \A d \in Client : d # c => up'[d] = up[d] /\ down'[d] = down[d]
    BY <1>1, <1>14 DEF ServerPush, TypeOK
  <2>3. ToSet(up[c]) \subseteq ToSet(Tail(up[c])) \cup {h} /\ h \in Batch
    BY <1>1, <2>1, HeadOrTail DEF TypeOK
  <2>4. ToSet(Append(down[c], h)) = ToSet(down[c]) \cup {h}
    <3>1. down[c] \in Seq(Batch)
      BY <1>1 DEF TypeOK
    <3>. QED
      BY <2>3, <3>1, ToSetAppend
  <2>. HIDE DEF h
  <2>5. \A d \in Client : ToSet(up[d]) \cup ToSet(down[d]) \subseteq ToSet(up'[d]) \cup ToSet(down'[d])
    <3>1. ToSet(up[c]) \cup ToSet(down[c]) \subseteq ToSet(up'[c]) \cup ToSet(down'[c])
      BY <2>2, <2>3, <2>4
    <3>. QED
      BY <2>2, <3>1
  <2>. QED
    BY <2>1, <2>5 DEF Backlog, Covering, OnTheWay
<1>15. ASSUME NEW c \in Client, PushAborts(c) \/ PushFails(c) PROVE Backlog'
  <2>1. Break(c)
    BY <1>15 DEF PushAborts, PushFails
  <2>2. UNCHANGED <<pending, sock, flush, replay, down, dbFaults, call, pos>>
    BY <2>1 DEF Break, deviceVars
  <2>3. ~serving'[c] /\ \A d \in Client : d # c => up'[d] = up[d] /\ serving'[d] = serving[d]
    BY <1>1, <2>1 DEF Break, TypeOK
  <2>. QED
    BY <2>2, <2>3 DEF Backlog, Covering, OnTheWay
<1>16. CASE ServerRestart
  BY <1>16 DEF ServerRestart, Backlog, Covering
<1>17. ASSUME UNCHANGED <<pending, call, pos, sessionVars, dbFaults>> PROVE Backlog'
  BY <1>2, <1>17, BacklogKept DEF sessionVars
<1>18. ASSUME NEW b \in Batch, LatePush(b) PROVE Backlog'
  BY <1>17, <1>18 DEF LatePush, deviceVars
<1>19. CASE UNCHANGED vars
  BY <1>17, <1>19 DEF vars, deviceVars
<1>. QED
  BY <1>3, <1>4, <1>5, <1>6, <1>7, <1>8, <1>9, <1>10, <1>11, <1>12, <1>13, <1>14, <1>15, <1>16, <1>18, <1>19 DEF Next

\* No row of a live session waits for a reconnect, unless a local statement failed.
THEOREM BacklogCovered == Spec => []SessionCoversBacklog
<1>1. Init => BacklogInv
  <2>. SUFFICES ASSUME Init PROVE RowsOwned /\ Backlog
    BY InvInit DEF BacklogInv
  <2>1. \A c \in Client : pending[c] = <<>> /\ sock[c] = "closed" /\ flush[c] = "todo"
    BY DEF Init
  <2>. QED
    BY <2>1 DEF RowsOwned, Apart, Backlog, Covering, ToSet
<1>2. BacklogInv /\ [Next]_vars => BacklogInv'
  BY InvStep, NextRows, NextBacklog DEF BacklogInv
<1>3. BacklogInv => SessionCoversBacklog
  BY DEF BacklogInv, Backlog, Covering, OnTheWay, SessionCoversBacklog
<1>. QED
  BY <1>1, <1>2, <1>3, PTL DEF Spec
=============================================================================
