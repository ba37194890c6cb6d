------------------------- MODULE LongCommandsProofs -------------------------
(***************************************************************************)
(* The long-command runner, for any jobs, keys, restarts and faults: the   *)
(* state file is on its way to the jobs still to be reported, and no       *)
(* session is told twice of one.                                           *)
(***************************************************************************)
EXTENDS LongCommands, SeqLemmas

USE NoneAssumption, BoundsAssumption DEF NoneAssumption, BoundsAssumption

Phase == {"idle", "left"} \cup Started \cup Adopted \cup Ended

\* The mutations of a job under way.
Adds(j) == AddEntry(j) \in ToSet(chain)
Drops(j) == DropEntry(j) \in ToSet(chain)

\* The recovery is the first mutation, if any, and an entry is added before it
\* is dropped.
Ordered ==
  /\ \A i \in DOMAIN chain : chain[i] = Recover => i = 1
  /\ \A i, k \in DOMAIN chain : \A j \in Job :
       chain[i] = DropEntry(j) /\ chain[k] = AddEntry(j) => k < i

\* What the mutation under way has read.
Base == IF step = "ready" THEN IF Recovering THEN {} ELSE Readable ELSE snap

\* The mutation under way is of a piece with what it read.
Consistent ==
  /\ step = "read" => snap = Readable
  /\ stale # {} => Recovering /\ step # "ready"
  /\ \A j \in Job : phase[j] = "orphan" => Recovering /\ step = "read"

\* A job is in the file, or on its way to or from it, only in these phases.
Placed ==
  \A j \in Job :
    /\ Adds(j) \/ j \in file \/ j \in snap => phase[j] \notin {"idle", "spawned"}
    /\ Drops(j) => phase[j] \in {"finished", "removing", "woken", "unheard"}

\* Until the recovery has read the file, no job in it is of this plugin.
Untouched ==
  Recovering /\ step = "ready" =>
    \A j \in file : phase[j] \in {"left", "woken", "unheard"} /\ ~Drops(j)

\* While opencode is down there is no plugin.
Down ==
  ~up => chain = <<>> /\ \A j \in Job : phase[j] \in {"idle", "left", "woken", "unheard"}

\* Remembered, from the start of the recovery on.
OnItsWay ==
  up => \A j \in Job : j \in Tracked <=> (j \in Base \ stale \/ Adds(j)) /\ ~Drops(j)

FileInv == Ordered /\ Consistent /\ Placed /\ Untouched /\ Down /\ OnItsWay

----------------------------------------------------------------------------
(* Mutations. *)

\* The mutations differ, and are what they say.
LEMMA Mutations ==
  /\ Recover \in Mutation
  /\ \A j \in Job : AddEntry(j) \in Mutation /\ DropEntry(j) \in Mutation
  /\ \A j \in Job : AddEntry(j) # Recover /\ DropEntry(j) # Recover
  /\ \A j, k \in Job :
       /\ AddEntry(j) # DropEntry(k)
       /\ AddEntry(j) = AddEntry(k) => j = k
       /\ DropEntry(j) = DropEntry(k) => j = k
  /\ \A m \in Mutation : m = Recover \/ \E j \in Job : m = AddEntry(j) \/ m = DropEntry(j)
BY DEF Mutation, AddEntry, DropEntry, Recover

\* What they write.
LEMMA WrittenIs ==
  /\ Written(Recover) = snap \ stale
  /\ \A j \in Job : Written(AddEntry(j)) = snap \cup {j} /\ Written(DropEntry(j)) = snap \ {j}
BY DEF Written, AddEntry, DropEntry, Recover

\* A mutation is queued behind the others.
LEMMA Queued ==
  ASSUME chain \in Seq(Mutation), NEW m \in Mutation, chain' = Append(chain, m)
  PROVE  /\ chain' \in Seq(Mutation) /\ chain' # <<>>
         /\ ToSet(chain') = ToSet(chain) \cup {m}
         /\ m # Recover => (Recovering' <=> Recovering)
<1>1. ToSet(chain') = ToSet(chain) \cup {m} /\ chain' \in Seq(Mutation) /\ chain' # <<>>
  BY ToSetAppend
<1>2. chain # <<>> => Head(chain') = Head(chain)
  OBVIOUS
<1>3. chain = <<>> => Head(chain') = m
  OBVIOUS
<1>. QED
  BY <1>1, <1>2, <1>3 DEF Recovering

\* It keeps the order, unless it adds a job that is being dropped.
LEMMA QueuedOrdered ==
  ASSUME chain \in Seq(Mutation), Ordered, NEW m \in Mutation, chain' = Append(chain, m),
         m # Recover, \A j \in Job : m = AddEntry(j) => ~Drops(j)
  PROVE  Ordered'
<1>1. DOMAIN chain = 1 .. Len(chain) /\ DOMAIN chain' = 1 .. Len(chain) + 1 /\ Len(chain) \in Nat
  OBVIOUS
<1>2. chain'[Len(chain) + 1] = m /\ \A i \in 1 .. Len(chain) : chain'[i] = chain[i]
  OBVIOUS
<1>3. \A i \in DOMAIN chain' : chain'[i] = Recover => i = 1
  BY <1>1, <1>2 DEF Ordered
<1>4. ASSUME NEW i \in DOMAIN chain', NEW k \in DOMAIN chain', NEW j \in Job,
             chain'[i] = DropEntry(j), chain'[k] = AddEntry(j)
      PROVE  k < i
  <2>1. CASE i = Len(chain) + 1
    BY <1>1, <1>2, <1>4, <2>1, Mutations
  <2>2. CASE i \in 1 .. Len(chain) /\ k \in 1 .. Len(chain)
    BY <1>1, <1>2, <1>4, <2>2 DEF Ordered
  <2>3. CASE i \in 1 .. Len(chain) /\ k = Len(chain) + 1
    <3>1. chain[i] = DropEntry(j) /\ m = AddEntry(j)
      BY <1>2, <1>4, <2>3
    <3>2. Drops(j)
      BY <1>1, <2>3, <3>1 DEF Drops, ToSet
    <3>. QED
      BY <3>1, <3>2
  <2>. QED
    BY <1>1, <2>1, <2>2, <2>3
<1>. QED
  BY <1>3, <1>4 DEF Ordered

\* The first mutation is done, and the next one is no recovery.
LEMMA Dequeued ==
  ASSUME chain \in Seq(Mutation), Ordered, chain # <<>>, chain' = Tail(chain)
  PROVE  /\ chain' \in Seq(Mutation) /\ Head(chain) \in Mutation
         /\ ToSet(chain) = ToSet(chain') \cup {Head(chain)}
         /\ Ordered' /\ ~Recovering'
         /\ \A j \in Job : Head(chain) = DropEntry(j) => AddEntry(j) \notin ToSet(chain')
<1>1. /\ DOMAIN chain = 1 .. Len(chain) /\ Len(chain) \in Nat \ {0}
      /\ DOMAIN chain' = 1 .. Len(chain) - 1 /\ chain' \in Seq(Mutation)
      /\ Head(chain) = chain[1] /\ Head(chain) \in Mutation
  OBVIOUS
<1>2. \A i \in DOMAIN chain' : i + 1 \in DOMAIN chain /\ chain'[i] = chain[i + 1]
  OBVIOUS
<1>3. ToSet(chain) = ToSet(chain') \cup {Head(chain)}
  <2>1. ASSUME NEW i \in DOMAIN chain PROVE chain[i] \in ToSet(chain') \cup {Head(chain)}
    <3>1. CASE i = 1
      BY <1>1, <3>1
    <3>2. CASE i # 1
      <4>1. i - 1 \in DOMAIN chain' /\ chain[i] = chain'[i - 1]
        BY <1>1, <1>2, <3>2
      <4>. QED
        BY <4>1 DEF ToSet
    <3>. QED
      BY <3>1, <3>2
  <2>. QED
    BY <2>1, ToSetTail DEF ToSet
<1>4. Ordered'
  <2>1. \A i \in DOMAIN chain' : chain'[i] = Recover => i = 1
    BY <1>1, <1>2 DEF Ordered
  <2>2. ASSUME NEW i \in DOMAIN chain', NEW k \in DOMAIN chain', NEW j \in Job,
               chain'[i] = DropEntry(j), chain'[k] = AddEntry(j)
        PROVE  k < i
    <3>1. k + 1 < i + 1
      BY <1>2, <2>2 DEF Ordered
    <3>. QED
      BY <1>1, <3>1
  <2>. QED
    BY <2>1, <2>2 DEF Ordered
<1>5. ~Recovering'
  <2>. SUFFICES ASSUME chain' # <<>>, Head(chain') = Recover PROVE FALSE
    BY DEF Recovering
  <2>1. 1 \in DOMAIN chain' /\ Head(chain') = chain'[1]
    BY <1>1
  <2>. QED
    BY <1>1, <1>2, <2>1 DEF Ordered
<1>6. ASSUME NEW j \in Job, Head(chain) = DropEntry(j), AddEntry(j) \in ToSet(chain') PROVE FALSE
  <2>1. PICK k \in DOMAIN chain' : chain'[k] = AddEntry(j)
    BY <1>6 DEF ToSet
  <2>2. k + 1 \in DOMAIN chain /\ chain[k + 1] = AddEntry(j) /\ 1 \in DOMAIN chain
    BY <1>1, <1>2, <2>1
  <2>3. k + 1 < 1
    BY <1>1, <1>6, <2>2 DEF Ordered
  <2>. QED
    BY <1>1, <2>3
<1>. QED
  BY <1>1, <1>3, <1>4, <1>5, <1>6
----------------------------------------------------------------------------
(* Types. *)

\* A fault is counted within its bound.
LEMMA FaultType ==
  ASSUME TypeOK, Fault \/ UNCHANGED faults
  PROVE  faults' \in 0 .. MaxFaults
BY DEF TypeOK, Fault

\* One job moves to another phase.
LEMMA MovesType ==
  ASSUME TypeOK, NEW j \in Job, NEW from, NEW to \in Phase, Moves(j, from, to)
  PROVE  phase' \in [Job -> Phase] /\ \A i \in Job : phase'[i] = IF i = j THEN to ELSE phase[i]
BY DEF TypeOK, Moves, Phase

\* A session is woken or not, and the job is done.
LEMMA WakeType ==
  ASSUME TypeOK, NEW j \in Job, Wake(j)
  PROVE  /\ phase' \in [Job -> Phase] /\ wakes' \in [Job -> Nat]
         /\ faults' \in 0 .. MaxFaults
         /\ \A i \in Job : i # j => phase'[i] = phase[i] /\ wakes'[i] = wakes[i]
         /\ phase'[j] \in {"woken", "unheard"}
         /\ wakes'[j] = wakes[j] \/ (wakes'[j] = wakes[j] + 1 /\ phase'[j] = "woken")
<1>1. faults' \in 0 .. MaxFaults
  BY FaultType DEF Wake
<1>2. CASE phase' = [phase EXCEPT ![j] = "woken"] /\ wakes' = [wakes EXCEPT ![j] = @ + 1]
  BY <1>1, <1>2 DEF TypeOK, Phase, Ended
<1>3. CASE phase' = [phase EXCEPT ![j] = "unheard"] /\ UNCHANGED wakes
  BY <1>1, <1>3 DEF TypeOK, Phase, Ended
<1>. QED
  BY <1>2, <1>3 DEF Wake

\* The parts of the type invariant.
ChainType ==
  /\ chain \in Seq(Mutation) /\ step \in {"ready", "read", "writing"}
  /\ chain = <<>> => step = "ready"
  /\ snap \subseteq Job /\ stale \subseteq snap /\ awaits \in Job \cup {None}
  /\ file \subseteq Job /\ torn \in BOOLEAN
JobsType ==
  /\ proc \in [Job -> {"none", "alive", "exited"}] /\ phase \in [Job -> Phase]
  /\ running \in [Keys -> Job \cup {None}] /\ timer \in [Job -> {"off", "armed", "term"}]
  /\ wakes \in [Job -> Nat]
RestType ==
  /\ up \in BOOLEAN /\ shown \subseteq Job
  /\ restarts \in 0 .. MaxRestarts /\ faults \in 0 .. MaxFaults

\* TypeOK by parts.
LEMMA TypeParts == TypeOK <=> ChainType /\ JobsType /\ RestType
BY DEF TypeOK, ChainType, JobsType, RestType, Phase

\* A queued mutation keeps the chain well-typed.
LEMMA PersistType ==
  ASSUME ChainType, NEW m \in Mutation, chain' = Append(chain, m), UNCHANGED <<step, snap, stale, fileVars>>,
         awaits' \in Job \cup {None}
  PROVE  ChainType'
BY Queued DEF ChainType, fileVars

\* The initial states are well-typed.
LEMMA InitTypes == Init => TypeOK
<1>. SUFFICES ASSUME Init PROVE TypeOK
  OBVIOUS
<1>1. ChainType
  <2>1. <<Recover>> \in Seq(Mutation)
    BY Mutations
  <2>. QED
    BY <2>1 DEF Init, ChainType
<1>2. JobsType
  BY DEF Init, JobsType, Phase
<1>3. RestType
  BY DEF Init, RestType
<1>. QED
  BY <1>1, <1>2, <1>3, TypeParts

\* What changes the chain keeps it well-typed.
LEMMA ChainTypes ==
  ASSUME TypeOK, Ordered, [Next]_vars
  PROVE  ChainType'
<1>. USE DEF ChainType, TypeOK, chainVars, fileVars
<1>1. CASE UNCHANGED <<chainVars, fileVars>>
  BY <1>1
<1>2. ASSUME NEW j \in Job, Register(j) \/ Finish(j) \/ PollExit(j) \/ RecoverEnded(j) PROVE ChainType'
  <2>1. PICK m \in Mutation : chain' = Append(chain, m)
    BY <1>2, Mutations DEF Register, Finish, PollExit, RecoverEnded, Persist
  <2>2. UNCHANGED <<step, snap, stale, fileVars>> /\ awaits' \in Job \cup {None}
    BY <1>2 DEF Register, Finish, PollExit, RecoverEnded, Persist
  <2>. QED
    BY <2>1, <2>2, PersistType
<1>3. CASE ReadState
  BY <1>3 DEF ReadState, Readable
<1>4. CASE BeginWrite
  BY <1>4 DEF BeginWrite
<1>5. CASE EndWrite
  <2>1. chain # <<>> /\ chain' = Tail(chain) /\ UNCHANGED awaits
    BY <1>5 DEF EndWrite, NextMutation
  <2>2. step' = "ready" /\ snap' = {} /\ stale' = {} /\ torn' = FALSE /\ file' = Written(Head(chain))
    BY <1>5 DEF EndWrite, NextMutation
  <2>3. chain' \in Seq(Mutation) /\ Head(chain) \in Mutation
    BY <2>1, Dequeued
  <2>4. file' \subseteq Job
    <3>. DEFINE m == Head(chain)
    <3>1. snap \subseteq Job /\ m \in Mutation /\ file' = Written(m)
      BY <2>2, <2>3
    <3>. HIDE DEF m, TypeOK, ChainType
    <3>2. CASE m = Recover
      BY <3>1, <3>2, WrittenIs
    <3>3. ASSUME NEW j \in Job, m = AddEntry(j) \/ m = DropEntry(j) PROVE file' \subseteq Job
      BY <3>1, <3>3, WrittenIs
    <3>. QED
      BY <3>1, <3>2, <3>3, Mutations
  <2>. QED
    BY <2>1, <2>2, <2>3, <2>4
<1>6. CASE RecoverDone
  <2>1. chain # <<>> /\ chain' = Tail(chain) /\ UNCHANGED <<awaits, fileVars>>
    BY <1>6 DEF RecoverDone, Recovering, NextMutation
  <2>2. step' = "ready" /\ snap' = {} /\ stale' = {}
    BY <1>6 DEF RecoverDone, NextMutation
  <2>3. chain' \in Seq(Mutation)
    BY <2>1, Dequeued
  <2>. QED
    BY <2>1, <2>2, <2>3
<1>7. ASSUME NEW j \in Job, ReportOrphan(j) PROVE ChainType'
  BY <1>7 DEF ReportOrphan
<1>8. CASE Stop
  BY <1>8 DEF Stop
<1>9. CASE Restart
  <2>1. <<Recover>> \in Seq(Mutation) /\ <<Recover>> # <<>>
    BY Mutations
  <2>. QED
    BY <1>9, <2>1 DEF Restart
<1>. QED
  BY <1>1, <1>2, <1>3, <1>4, <1>5, <1>6, <1>7, <1>8, <1>9
  DEF Next, vars, Spawn, Watch, WatchFails, Exit, Timeout, Kill, Report, Adopt, Poll

\* The jobs, their processes and timers stay well-typed.
LEMMA JobsTypes ==
  ASSUME TypeOK, [Next]_vars
  PROVE  JobsType'
<1>. USE DEF JobsType, TypeOK, Phase, Started, Adopted, Ended
<1>1. ASSUME NEW j \in Job, Spawn(j) PROVE JobsType'
  BY <1>1 DEF Spawn, Moves
<1>2. ASSUME NEW j \in Job, Register(j) PROVE JobsType'
  <2>1. phase' \in [Job -> Phase]
    BY <1>2, MovesType DEF Register
  <2>2. running' \in [Keys -> Job \cup {None}] /\ timer' \in [Job -> {"off", "armed", "term"}]
    BY <1>2 DEF Register
  <2>. QED
    BY <1>2, <2>1, <2>2 DEF Register
<1>3. ASSUME NEW j \in Job, Watch(j) \/ WatchFails(j) \/ Adopt(j) \/ PollExit(j) \/ RecoverEnded(j) PROVE JobsType'
  <2>1. phase' \in [Job -> Phase]
    BY <1>3 DEF Watch, WatchFails, Adopt, PollExit, RecoverEnded, Moves
  <2>. QED
    BY <1>3, <2>1 DEF Watch, WatchFails, Adopt, PollExit, RecoverEnded
<1>4. ASSUME NEW j \in Job, Exit(j) \/ Timeout(j) \/ Kill(j) PROVE JobsType'
  <2>1. proc' \in [Job -> {"none", "alive", "exited"}] /\ timer' \in [Job -> {"off", "armed", "term"}]
    BY <1>4 DEF Exit, Timeout, Kill
  <2>. QED
    BY <1>4, <2>1 DEF Exit, Timeout, Kill
<1>5. ASSUME NEW j \in Job, Finish(j) PROVE JobsType'
  <2>1. phase' \in [Job -> Phase]
    BY <1>5, MovesType DEF Finish
  <2>2. running' \in [Keys -> Job \cup {None}] /\ timer' \in [Job -> {"off", "armed", "term"}]
    BY <1>5 DEF Finish
  <2>. QED
    BY <1>5, <2>1, <2>2 DEF Finish
<1>6. ASSUME NEW j \in Job, Report(j) \/ ReportOrphan(j) PROVE JobsType'
  <2>1. phase' \in [Job -> Phase] /\ wakes' \in [Job -> Nat]
    BY <1>6, WakeType DEF Report, ReportOrphan
  <2>. QED
    BY <1>6, <2>1 DEF Report, ReportOrphan
<1>7. CASE ReadState
  <2>1. phase' \in [Job -> Phase]
    BY <1>7 DEF ReadState
  <2>. QED
    BY <1>7, <2>1 DEF ReadState
<1>8. CASE BeginWrite \/ EndWrite \/ RecoverDone \/ Restart \/ Poll
  BY <1>8 DEF BeginWrite, EndWrite, RecoverDone, Restart, Poll
<1>9. CASE Stop
  <2>1. phase' \in [Job -> Phase]
    BY <1>9 DEF Stop
  <2>. QED
    BY <1>9, <2>1 DEF Stop
<1>10. CASE UNCHANGED vars
  BY <1>10 DEF vars
<1>. QED
  BY <1>1, <1>2, <1>3, <1>4, <1>5, <1>6, <1>7, <1>8, <1>9, <1>10 DEF Next

\* The rest does, too.
LEMMA RestTypes ==
  ASSUME TypeOK, [Next]_vars
  PROVE  RestType'
<1>. USE DEF RestType
<1>1. ASSUME Fault \/ UNCHANGED faults PROVE faults' \in 0 .. MaxFaults
  BY <1>1, FaultType
<1>2. Fault \/ UNCHANGED faults
  BY DEF Next, vars, boundVars, Spawn, Register, Watch, WatchFails, Exit, Timeout, Kill, Finish, Report, Wake,
         ReadState, BeginWrite, EndWrite, RecoverDone, Adopt, RecoverEnded, PollExit, ReportOrphan,
         Stop, Restart, Poll
<1>3. CASE Stop
  <2>1. restarts \in Nat /\ restarts < MaxRestarts /\ restarts' = restarts + 1
    BY <1>3 DEF Stop, TypeOK
  <2>2. up' \in BOOLEAN /\ shown' \subseteq Job
    BY <1>3 DEF Stop
  <2>. QED
    BY <1>1, <1>2, <2>1, <2>2
<1>4. CASE Restart
  BY <1>4 DEF Restart, TypeOK, boundVars
<1>5. CASE Poll
  BY <1>5 DEF Poll, TypeOK, boundVars
<1>6. CASE UNCHANGED <<up, shown, restarts>>
  BY <1>1, <1>2, <1>6 DEF TypeOK
<1>7. Stop \/ Restart \/ Poll \/ UNCHANGED <<up, shown, restarts>>
  BY DEF Next, vars, boundVars, Spawn, Register, Watch, WatchFails, Exit, Timeout, Kill, Finish, Report,
         ReadState, BeginWrite, EndWrite, RecoverDone, Adopt, RecoverEnded, PollExit, ReportOrphan
<1>. QED
  BY <1>3, <1>4, <1>5, <1>6, <1>7

\* Every action keeps the types.
LEMMA NextTypes ==
  ASSUME TypeOK, Ordered, [Next]_vars
  PROVE  TypeOK'
<1>1. ChainType' /\ JobsType' /\ RestType'
  BY ChainTypes, JobsTypes, RestTypes
<1>. QED
  BY <1>1 DEF TypeOK, ChainType, JobsType, RestType, Phase

----------------------------------------------------------------------------
(* The state file. *)

Reporting == {"starting", "watched", "unwatched", "orphan", "polling"}

\* A job that moves on between two mutations changes nothing for the file.
LEMMA MoveKeeps ==
  ASSUME TypeOK, FileInv, NEW j \in Job, up \/ phase[j] \notin {"idle", "left", "woken", "unheard"},
         UNCHANGED <<up, chain, step, snap, stale, file, torn>>,
         \A i \in Job : i # j => phase'[i] = phase[i],
         phase[j] \in Reporting <=> phase'[j] \in Reporting,
         phase'[j] \in {"idle", "spawned"} => phase[j] = "idle",
         phase[j] \in {"finished", "removing"} => phase'[j] \in {"finished", "removing", "woken", "unheard"},
         phase[j] \notin {"left", "woken", "unheard"}, phase'[j] # "orphan"
  PROVE  FileInv'
<1>. USE DEF FileInv
<1>1. /\ (Recovering' <=> Recovering) /\ Readable' = Readable /\ Base' = Base
      /\ \A i \in Job : (Adds(i)' <=> Adds(i)) /\ (Drops(i)' <=> Drops(i))
  BY DEF Recovering, Readable, Base, Adds, Drops
<1>2. Ordered'
  BY DEF Ordered
<1>3. Consistent'
  BY <1>1 DEF Consistent
<1>4. Placed'
  BY <1>1 DEF Placed
<1>5. Untouched'
  BY <1>1 DEF Untouched, TypeOK
<1>6. Down'
  BY DEF Down
<1>7. \A i \in Job : (i \in Tracked)' <=> i \in Tracked
  BY DEF Tracked, Reporting
<1>8. OnItsWay'
  BY <1>1, <1>7 DEF OnItsWay
<1>. QED
  BY <1>2, <1>3, <1>4, <1>5, <1>6, <1>8

\* An entry is added: the job is tracked from here on.
LEMMA RegisterKeeps ==
  ASSUME TypeOK, FileInv, NEW j \in Job, Register(j)
  PROVE  FileInv'
<1>. USE DEF FileInv
<1>1. UNCHANGED <<up, step, snap, stale, awaits, file, torn>> /\ chain' = Append(chain, AddEntry(j))
  BY DEF Register, Persist, fileVars
<1>2. phase[j] = "spawned" /\ phase' = [phase EXCEPT ![j] = "starting"]
  BY DEF Register, Moves
<1>3. \A i \in Job : phase'[i] = IF i = j THEN "starting" ELSE phase[i]
  BY <1>2 DEF TypeOK
<1>4. ~Drops(j) /\ ~Adds(j) /\ j \notin file /\ j \notin snap
  BY <1>2 DEF Placed
<1>5. /\ (Recovering' <=> Recovering)
      /\ ToSet(chain') = ToSet(chain) \cup {AddEntry(j)}
  BY <1>1, Queued, Mutations DEF TypeOK
<1>6. \A i \in Job : (Adds(i)' <=> Adds(i) \/ i = j) /\ (Drops(i)' <=> Drops(i))
  BY <1>5, Mutations DEF Adds, Drops
<1>7. Readable' = Readable /\ Base' = Base
  BY <1>1, <1>5 DEF Readable, Base
<1>8. Ordered'
  BY <1>1, <1>4, QueuedOrdered, Mutations DEF TypeOK
<1>9. Consistent'
  BY <1>1, <1>3, <1>5, <1>7 DEF Consistent
<1>10. Placed'
  BY <1>1, <1>3, <1>4, <1>6 DEF Placed
<1>11. Untouched'
  BY <1>1, <1>3, <1>4, <1>5, <1>6 DEF Untouched, TypeOK
<1>12. up /\ Down'
  BY <1>1, <1>2 DEF Down
<1>13. \A i \in Job : (i \in Tracked)' <=> i \in Tracked \/ i = j
  BY <1>2, <1>3 DEF Tracked
<1>14. OnItsWay'
  BY <1>1, <1>4, <1>6, <1>7, <1>13 DEF OnItsWay
<1>. QED
  BY <1>8, <1>9, <1>10, <1>11, <1>12, <1>14

\* An entry is dropped: the job is tracked no more.
LEMMA DropKeeps ==
  ASSUME TypeOK, FileInv, NEW j \in Job, UNCHANGED <<up, step, snap, stale, file, torn>>,
         chain' = Append(chain, DropEntry(j)), NEW to \in {"finished", "removing"},
         phase[j] \in {"watched", "polling", "orphan"}, phase' = [phase EXCEPT ![j] = to]
  PROVE  FileInv'
<1>. USE DEF FileInv
<1>1. \A i \in Job : phase'[i] = IF i = j THEN to ELSE phase[i]
  BY DEF TypeOK
<1>2. /\ (Recovering' <=> Recovering)
      /\ ToSet(chain') = ToSet(chain) \cup {DropEntry(j)}
  BY Queued, Mutations DEF TypeOK
<1>3. \A i \in Job : (Adds(i)' <=> Adds(i)) /\ (Drops(i)' <=> Drops(i) \/ i = j)
  BY <1>2, Mutations DEF Adds, Drops
<1>4. Readable' = Readable /\ Base' = Base
  BY <1>2 DEF Readable, Base
<1>5. Ordered'
  BY QueuedOrdered, Mutations DEF TypeOK
<1>6. Consistent'
  BY <1>1, <1>2, <1>4 DEF Consistent
<1>7. Placed'
  BY <1>1, <1>3 DEF Placed
<1>8. Untouched'
  BY <1>1, <1>2, <1>3 DEF Untouched, TypeOK
<1>9. up /\ Down'
  BY DEF Down
<1>10. \A i \in Job : (i \in Tracked)' <=> i \in Tracked /\ i # j
  BY <1>1 DEF Tracked
<1>11. OnItsWay'
  BY <1>3, <1>4, <1>10 DEF OnItsWay
<1>. QED
  BY <1>5, <1>6, <1>7, <1>8, <1>9, <1>11

\* A mutation reads the file; the recovery takes in what is not stale.
LEMMA ReadKeeps ==
  ASSUME TypeOK, FileInv, ReadState
  PROVE  FileInv'
<1>. USE DEF FileInv
<1>1. UNCHANGED <<up, chain, file, torn>> /\ chain # <<>>
  BY DEF ReadState, fileVars
<1>2. step = "ready" /\ step' = "read" /\ snap' = Readable
  BY DEF ReadState
<1>3. /\ (Recovering' <=> Recovering) /\ Readable' = Readable /\ Readable \subseteq file
      /\ \A i \in Job : (Adds(i)' <=> Adds(i)) /\ (Drops(i)' <=> Drops(i))
  BY <1>1 DEF Recovering, Readable, Adds, Drops
<1>4. Base' = Readable /\ stale = {} /\ stale' \subseteq Readable /\ (~Recovering => stale' = {})
  BY <1>2 DEF ReadState, Base, Consistent
<1>5. \A i \in Job : phase'[i] = IF Recovering /\ i \in Readable \ stale' THEN "orphan" ELSE phase[i]
  BY DEF ReadState
<1>6. Ordered'
  BY <1>1 DEF Ordered
<1>7. Consistent'
  BY <1>2, <1>3, <1>4, <1>5 DEF Consistent
<1>8. ASSUME NEW i \in Job, Recovering, i \in Readable
      PROVE  ~Drops(i) /\ phase[i] \in {"left", "woken", "unheard"}
  BY <1>2, <1>3, <1>8 DEF Untouched
<1>9. Placed'
  <2>. SUFFICES ASSUME NEW i \in Job
                PROVE  /\ Adds(i)' \/ i \in file' \/ i \in snap' => phase'[i] \notin {"idle", "spawned"}
                       /\ Drops(i)' => phase'[i] \in {"finished", "removing", "woken", "unheard"}
    BY DEF Placed
  <2>1. CASE phase'[i] = phase[i]
    BY <1>1, <1>2, <1>3, <2>1 DEF Placed
  <2>2. CASE Recovering /\ i \in Readable /\ phase'[i] = "orphan"
    BY <1>3, <1>8, <2>2
  <2>. QED
    BY <1>5, <2>1, <2>2
<1>10. Untouched'
  BY <1>2 DEF Untouched
<1>11. up /\ Down'
  BY <1>1 DEF Down
<1>12. ASSUME NEW i \in Job
       PROVE  (i \in Tracked)' <=> (i \in Base' \ stale' \/ Adds(i)') /\ ~Drops(i)'
  <2>1. i \in Tracked <=> (i \in Base \/ Adds(i)) /\ ~Drops(i)
    BY <1>4, <1>11 DEF OnItsWay
  <2>2. CASE Recovering /\ i \in Readable \ stale'
    <3>1. (i \in Tracked)'
      BY <1>5, <2>2 DEF Tracked
    <3>. QED
      BY <1>3, <1>4, <1>8, <2>2, <3>1
  <2>3. CASE Recovering /\ i \notin Readable \ stale'
    <3>1. (i \in Tracked)' <=> i \in Tracked
      BY <1>5, <2>3 DEF Tracked
    <3>2. Base = {}
      BY <1>2, <2>3 DEF Base
    <3>. QED
      BY <1>3, <1>4, <2>1, <2>3, <3>1, <3>2
  <2>4. CASE ~Recovering
    <3>1. (i \in Tracked)' <=> i \in Tracked
      BY <1>5, <2>4 DEF Tracked
    <3>2. Base = Readable
      BY <1>2, <2>4 DEF Base
    <3>. QED
      BY <1>3, <1>4, <2>1, <2>4, <3>1, <3>2
  <2>. QED
    BY <2>2, <2>3, <2>4
<1>13. OnItsWay'
  BY <1>12 DEF OnItsWay
<1>. QED
  BY <1>6, <1>7, <1>9, <1>10, <1>11, <1>13

\* A write begins: what was read stands.
LEMMA BeginKeeps ==
  ASSUME TypeOK, FileInv, BeginWrite
  PROVE  FileInv'
<1>. USE DEF FileInv
<1>1. UNCHANGED <<up, chain, phase, snap, stale, file>> /\ step = "read" /\ step' = "writing"
  BY DEF BeginWrite
<1>2. Recovering => Recovered
  BY DEF BeginWrite
<1>3. /\ (Recovering' <=> Recovering) /\ Base' = Base
      /\ \A i \in Job : (Adds(i)' <=> Adds(i)) /\ (Drops(i)' <=> Drops(i)) /\ ((i \in Tracked)' <=> i \in Tracked)
  BY <1>1 DEF Recovering, Base, Adds, Drops, Tracked
<1>4. \A i \in Job : phase[i] # "orphan"
  BY <1>2 DEF Recovered, Consistent
<1>5. Ordered' /\ Consistent' /\ Placed' /\ Untouched' /\ Down'
  BY <1>1, <1>3, <1>4 DEF Ordered, Consistent, Placed, Untouched, Down
<1>6. OnItsWay'
  BY <1>1, <1>3 DEF OnItsWay
<1>. QED
  BY <1>5, <1>6

\* A mutation is done: the file is what it wrote.
LEMMA EndKeeps ==
  ASSUME TypeOK, FileInv, EndWrite
  PROVE  FileInv'
<1>. USE DEF FileInv
<1>. DEFINE m == Head(chain)
<1>1. UNCHANGED <<up, phase>> /\ step = "writing" /\ step' = "ready" /\ chain' = Tail(chain) /\ chain # <<>>
  BY DEF EndWrite, NextMutation, TypeOK
<1>2. file' = Written(m) /\ ~torn' /\ snap' = {} /\ stale' = {}
  BY DEF EndWrite, NextMutation
<1>3. /\ m \in Mutation /\ ToSet(chain) = ToSet(chain') \cup {m}
      /\ Ordered' /\ ~Recovering'
      /\ \A j \in Job : m = DropEntry(j) => AddEntry(j) \notin ToSet(chain')
  BY <1>1, Dequeued DEF TypeOK
<1>4. Base' = file' /\ Readable' = file' /\ Base = snap
  BY <1>1, <1>2, <1>3 DEF Base, Readable
<1>5. m # Recover => stale = {}
  BY DEF Consistent, Recovering
<1>. HIDE DEF m
<1>6. \A i \in Job : phase[i] # "orphan"
  BY <1>1 DEF Consistent
<1>7. Consistent'
  BY <1>1, <1>2, <1>6 DEF Consistent
<1>8. \A i \in Job : /\ Adds(i) <=> Adds(i)' \/ m = AddEntry(i)
                     /\ Drops(i) <=> Drops(i)' \/ m = DropEntry(i)
  BY <1>3, Mutations DEF Adds, Drops
<1>9. ASSUME NEW i \in Job
      PROVE  /\ i \in file' => i \in snap \/ Adds(i)
             /\ (i \in file' \/ Adds(i)') /\ ~Drops(i)' <=> (i \in snap \ stale \/ Adds(i)) /\ ~Drops(i)
  <2>1. CASE m = Recover
    <3>1. file' = snap \ stale
      BY <1>2, <2>1, WrittenIs
    <3>2. (Adds(i)' <=> Adds(i)) /\ (Drops(i)' <=> Drops(i))
      BY <1>8, <2>1, Mutations
    <3>. QED
      BY <3>1, <3>2
  <2>2. ASSUME NEW j \in Job, m = AddEntry(j)
        PROVE  /\ i \in file' => i \in snap \/ Adds(i)
               /\ (i \in file' \/ Adds(i)') /\ ~Drops(i)' <=> (i \in snap \ stale \/ Adds(i)) /\ ~Drops(i)
    <3>1. file' = snap \cup {j} /\ stale = {}
      BY <1>2, <1>5, <2>2, WrittenIs, Mutations
    <3>2. (Adds(i) <=> Adds(i)' \/ i = j) /\ (Drops(i)' <=> Drops(i))
      BY <1>8, <2>2, Mutations
    <3>. QED
      BY <3>1, <3>2
  <2>3. ASSUME NEW j \in Job, m = DropEntry(j)
        PROVE  /\ i \in file' => i \in snap \/ Adds(i)
               /\ (i \in file' \/ Adds(i)') /\ ~Drops(i)' <=> (i \in snap \ stale \/ Adds(i)) /\ ~Drops(i)
    <3>1. file' = snap \ {j} /\ stale = {}
      BY <1>2, <1>5, <2>3, WrittenIs, Mutations
    <3>2. (Adds(i) <=> Adds(i)') /\ (Drops(i) <=> Drops(i)' \/ i = j)
      BY <1>8, <2>3, Mutations
    <3>3. i = j => ~Adds(i)'
      BY <1>3, <2>3 DEF Adds
    <3>. QED
      BY <3>1, <3>2, <3>3
  <2>. QED
    BY <1>3, <2>1, <2>2, <2>3, Mutations
<1>10. Placed'
  BY <1>1, <1>2, <1>8, <1>9 DEF Placed
<1>11. Untouched'
  BY <1>3 DEF Untouched
<1>12. up /\ Down'
  BY <1>1 DEF Down
<1>13. \A i \in Job : (i \in Tracked)' <=> i \in Tracked
  BY <1>1 DEF Tracked
<1>14. OnItsWay'
  BY <1>1, <1>2, <1>4, <1>9, <1>12, <1>13 DEF OnItsWay
<1>. QED
  BY <1>3, <1>7, <1>10, <1>11, <1>12, <1>14

\* The recovery is done without a write.
LEMMA RecoverDoneKeeps ==
  ASSUME TypeOK, FileInv, RecoverDone
  PROVE  FileInv'
<1>. USE DEF FileInv
<1>1. /\ UNCHANGED <<up, phase, file, torn>> /\ step = "read" /\ step' = "ready"
      /\ chain' = Tail(chain) /\ chain # <<>> /\ Head(chain) = Recover
      /\ snap' = {} /\ stale' = {} /\ stale = {}
  BY DEF RecoverDone, NextMutation, Recovering, fileVars
<1>2. /\ ToSet(chain) = ToSet(chain') \cup {Recover} /\ Ordered' /\ ~Recovering'
  BY <1>1, Dequeued DEF TypeOK
<1>3. snap = Readable /\ Readable' = Readable /\ Base = snap /\ Base' = Readable
  BY <1>1, <1>2 DEF Consistent, Readable, Base
<1>4. \A i \in Job : (Adds(i)' <=> Adds(i)) /\ (Drops(i)' <=> Drops(i)) /\ phase[i] # "orphan"
  <2>1. \A i \in Job : (Adds(i)' <=> Adds(i)) /\ (Drops(i)' <=> Drops(i))
    BY <1>2, Mutations DEF Adds, Drops
  <2>2. Recovered
    BY DEF RecoverDone
  <2>. QED
    BY <2>1, <2>2 DEF Recovered
<1>5. Consistent' /\ Placed' /\ Untouched'
  BY <1>1, <1>2, <1>4 DEF Consistent, Placed, Untouched
<1>6. up /\ Down'
  BY <1>1 DEF Down
<1>7. \A i \in Job : (i \in Tracked)' <=> i \in Tracked
  BY <1>1 DEF Tracked
<1>8. OnItsWay'
  BY <1>1, <1>3, <1>4, <1>6, <1>7 DEF OnItsWay
<1>. QED
  BY <1>2, <1>5, <1>6, <1>8

\* opencode stops: nothing of the plugin is left but the file.
LEMMA StopKeeps ==
  ASSUME TypeOK, FileInv, Stop
  PROVE  FileInv'
<1>. USE DEF FileInv
<1>1. ~up' /\ chain' = <<>> /\ step' = "ready" /\ snap' = {} /\ stale' = {} /\ file' = file
  BY DEF Stop, fileVars
<1>2. \A i \in Job : phase'[i] = IF phase[i] \in Started \cup Adopted THEN "left" ELSE phase[i]
  BY DEF Stop
<1>3. ~Recovering' /\ \A i \in Job : ~Adds(i)' /\ ~Drops(i)'
  BY <1>1 DEF Recovering, Adds, Drops, ToSet
<1>4. \A i \in Job : phase'[i] \in {"idle", "left", "woken", "unheard"}
  BY <1>2 DEF TypeOK, Started, Adopted, Ended
<1>5. \A i \in Job : phase'[i] = "idle" => phase[i] = "idle"
  BY <1>2
<1>6. Ordered' /\ Untouched' /\ Down' /\ OnItsWay'
  BY <1>1, <1>3, <1>4 DEF Ordered, Untouched, Down, OnItsWay
<1>7. Consistent'
  BY <1>1, <1>4 DEF Consistent
<1>8. Placed'
  BY <1>1, <1>3, <1>4, <1>5 DEF Placed
<1>. QED
  BY <1>6, <1>7, <1>8

\* It starts again: the recovery comes first.
LEMMA RestartKeeps ==
  ASSUME TypeOK, FileInv, Restart
  PROVE  FileInv'
<1>. USE DEF FileInv
<1>1. ~up /\ up' /\ chain' = <<Recover>> /\ UNCHANGED <<phase, step, snap, stale, file, torn>>
  BY DEF Restart, fileVars
<1>2. step = "ready" /\ stale = {} /\ \A i \in Job : phase[i] \in {"idle", "left", "woken", "unheard"}
  BY <1>1 DEF Down, Consistent, Recovering, TypeOK
<1>3. ToSet(chain') = {Recover} /\ Recovering'
  BY <1>1 DEF ToSet, Recovering
<1>4. \A i \in Job : ~Adds(i)' /\ ~Drops(i)'
  BY <1>3, Mutations DEF Adds, Drops
<1>5. Ordered'
  BY <1>1, Mutations DEF Ordered
<1>6. Consistent' /\ Placed' /\ Down'
  BY <1>1, <1>2, <1>4 DEF Consistent, Placed, Down
<1>7. Untouched'
  BY <1>1, <1>2, <1>4 DEF Untouched, Placed, TypeOK
<1>8. Base' = {} /\ \A i \in Job : ~(i \in Tracked)'
  BY <1>1, <1>2, <1>3 DEF Base, Tracked
<1>9. OnItsWay'
  BY <1>4, <1>8 DEF OnItsWay
<1>. QED
  BY <1>5, <1>6, <1>7, <1>9

\* Every step keeps the file on its way.
LEMMA NextFile ==
  ASSUME TypeOK, FileInv, [Next]_vars
  PROVE  FileInv'
<1>1. ASSUME NEW j \in Job, Spawn(j) PROVE FileInv'
  <2>1. /\ UNCHANGED <<up, chain, step, snap, stale, file, torn>> /\ up
        /\ phase[j] = "idle" /\ phase' = [phase EXCEPT ![j] = "spawned"]
    BY <1>1 DEF Spawn, Moves, chainVars, fileVars
  <2>. QED
    BY <2>1, MoveKeeps DEF Reporting, TypeOK
<1>2. ASSUME NEW j \in Job, Watch(j) \/ WatchFails(j) PROVE FileInv'
  <2>1. /\ UNCHANGED <<up, chain, step, snap, stale, file, torn>>
        /\ phase[j] = "starting"
        /\ phase' = [phase EXCEPT ![j] = "watched"] \/ phase' = [phase EXCEPT ![j] = "unwatched"]
    BY <1>2 DEF Watch, WatchFails, Moves, chainVars, fileVars
  <2>. QED
    BY <2>1, MoveKeeps DEF Reporting, TypeOK
<1>3. ASSUME NEW j \in Job, Report(j) \/ ReportOrphan(j) PROVE FileInv'
  <2>1. /\ UNCHANGED <<up, chain, step, snap, stale, file, torn>>
        /\ phase[j] \in {"finished", "removing"} /\ Wake(j)
    BY <1>3 DEF Report, ReportOrphan, chainVars, fileVars
  <2>2. phase'[j] \in {"woken", "unheard"} /\ \A i \in Job : i # j => phase'[i] = phase[i]
    BY <2>1, WakeType
  <2>. QED
    BY <2>1, <2>2, MoveKeeps DEF Reporting
<1>4. ASSUME NEW j \in Job, Adopt(j) PROVE FileInv'
  <2>1. /\ UNCHANGED <<up, chain, step, snap, stale, file, torn>>
        /\ phase[j] = "orphan" /\ phase' = [phase EXCEPT ![j] = "polling"]
    BY <1>4 DEF Adopt, Moves, chainVars, fileVars
  <2>. QED
    BY <2>1, MoveKeeps DEF Reporting, TypeOK
<1>5. ASSUME NEW j \in Job, Register(j) PROVE FileInv'
  BY <1>5, RegisterKeeps
<1>6. ASSUME NEW j \in Job, Finish(j) \/ PollExit(j) \/ RecoverEnded(j) PROVE FileInv'
  <2>1. UNCHANGED <<up, step, snap, stale, file, torn>> /\ chain' = Append(chain, DropEntry(j))
    BY <1>6 DEF Finish, PollExit, RecoverEnded, Persist, fileVars
  <2>2. /\ phase[j] \in {"watched", "polling", "orphan"}
        /\ phase' = [phase EXCEPT ![j] = "finished"] \/ phase' = [phase EXCEPT ![j] = "removing"]
    BY <1>6 DEF Finish, PollExit, RecoverEnded, Moves
  <2>. QED
    BY <2>1, <2>2, DropKeeps
<1>7. ASSUME UNCHANGED <<up, chain, step, snap, stale, file, torn, phase>> PROVE FileInv'
  BY <1>7 DEF FileInv, Ordered, Consistent, Placed, Untouched, Down, OnItsWay, Recovering, Readable, Base,
              Adds, Drops, Tracked
<1>8. ASSUME NEW j \in Job, Exit(j) \/ Timeout(j) \/ Kill(j) PROVE FileInv'
  BY <1>7, <1>8 DEF Exit, Timeout, Kill, chainVars, fileVars
<1>9. CASE Poll \/ UNCHANGED vars
  BY <1>7, <1>9 DEF Poll, vars, chainVars, fileVars
<1>10. CASE ReadState \/ BeginWrite \/ EndWrite \/ RecoverDone \/ Stop \/ Restart
  BY <1>10, ReadKeeps, BeginKeeps, EndKeeps, RecoverDoneKeeps, StopKeeps, RestartKeeps
<1>. QED
  BY <1>1, <1>2, <1>3, <1>4, <1>5, <1>6, <1>8, <1>9, <1>10 DEF Next

----------------------------------------------------------------------------
(* The messages. *)

\* The recovery that waits for a removal waits for itself.
Stuck == awaits # None => Recovering /\ step = "read" /\ Drops(awaits)

\* A reported job stays reported: its entry may be found again, and then it is
\* the one the recovery waits for.
Told ==
  \A j \in Job :
    /\ phase[j] \in {"finished", "removing"} => proc[j] = "exited"
    /\ wakes[j] # 0 =>
         /\ wakes[j] = 1 /\ proc[j] = "exited"
         /\ phase[j] \in {"woken", "left", "orphan"} \/ (phase[j] = "removing" /\ awaits = j)

LInv == TypeOK /\ FileInv /\ Stuck /\ Told

\* While it waits it waits for ever, unless opencode stops.
LEMMA NextStuck ==
  ASSUME LInv, [Next]_vars
  PROVE  Stuck'
<1>1. TypeOK /\ FileInv /\ Consistent /\ Stuck
  BY DEF LInv, FileInv
<1>2. ASSUME UNCHANGED <<chain, step, awaits>> PROVE Stuck'
  BY <1>1, <1>2 DEF Stuck, Recovering, Drops
<1>3. ASSUME NEW m \in Mutation, m # Recover, chain' = Append(chain, m), step' = step,
             awaits' = awaits \/ (m = DropEntry(awaits') /\ Recovering /\ step = "read")
      PROVE  Stuck'
  <2>1. (Recovering' <=> Recovering) /\ ToSet(chain') = ToSet(chain) \cup {m}
    BY <1>1, <1>3, Queued DEF TypeOK
  <2>. QED
    BY <1>1, <1>3, <2>1 DEF Stuck, Drops
<1>4. ASSUME NEW j \in Job, Register(j) PROVE Stuck'
  BY <1>3, <1>4, Mutations DEF Register, Persist
<1>5. ASSUME NEW j \in Job, Finish(j) \/ PollExit(j) PROVE Stuck'
  BY <1>3, <1>5, Mutations DEF Finish, PollExit, Persist
<1>6. ASSUME NEW j \in Job, RecoverEnded(j) PROVE Stuck'
  <2>1. chain' = Append(chain, DropEntry(j)) /\ step' = step /\ awaits' = j /\ phase[j] = "orphan"
    BY <1>6 DEF RecoverEnded, Moves
  <2>2. Recovering /\ step = "read"
    BY <1>1, <2>1 DEF Consistent
  <2>. QED
    BY <1>3, <2>1, <2>2, Mutations
<1>7. ASSUME NEW j \in Job, ReportOrphan(j) PROVE Stuck'
  <2>1. awaits # j /\ UNCHANGED <<chain, step, awaits>>
    BY <1>1, <1>7 DEF ReportOrphan, Stuck, Drops
  <2>. QED
    BY <1>2, <2>1
<1>8. CASE ReadState \/ BeginWrite \/ EndWrite \/ RecoverDone
  <2>1. awaits = None
    BY <1>1, <1>8 DEF ReadState, BeginWrite, EndWrite, RecoverDone, Recovered, Stuck
  <2>2. awaits' = awaits
    BY <1>8 DEF ReadState, BeginWrite, EndWrite, RecoverDone, NextMutation
  <2>. QED
    BY <2>1, <2>2 DEF Stuck
<1>9. CASE Stop
  BY <1>9 DEF Stop, Stuck
<1>10. CASE Restart
  <2>1. awaits = None
    BY <1>1, <1>10 DEF Restart, Stuck, FileInv, Down, Recovering
  <2>. QED
    BY <1>10, <2>1 DEF Restart, Stuck
<1>11. ASSUME NEW j \in Job, \/ Spawn(j) \/ Watch(j) \/ WatchFails(j) \/ Exit(j) \/ Timeout(j) \/ Kill(j)
                             \/ Report(j) \/ Adopt(j)
       PROVE  Stuck'
  BY <1>2, <1>11 DEF Spawn, Watch, WatchFails, Exit, Timeout, Kill, Report, Adopt, chainVars
<1>12. CASE Poll \/ UNCHANGED vars
  BY <1>2, <1>12 DEF Poll, vars, chainVars
<1>. QED
  BY <1>4, <1>5, <1>6, <1>7, <1>8, <1>9, <1>10, <1>11, <1>12 DEF Next

\* No step tells a session twice, or too early.
LEMMA NextTold ==
  ASSUME LInv, [Next]_vars
  PROVE  Told'
<1>1. TypeOK /\ Consistent /\ Stuck /\ Told
  BY DEF LInv, FileInv
<1>. USE DEF Told
<1>2. ASSUME NEW j \in Job, Spawn(j) PROVE Told'
  <2>1. \A i \in Job : /\ phase'[i] = IF i = j THEN "spawned" ELSE phase[i]
                       /\ proc'[i] = IF i = j THEN "alive" ELSE proc[i]
    BY <1>1, <1>2 DEF Spawn, Moves, TypeOK
  <2>2. UNCHANGED <<wakes, awaits>> /\ phase[j] = "idle"
    BY <1>2 DEF Spawn, Moves, chainVars
  <2>. QED
    BY <1>1, <2>1, <2>2
<1>3. ASSUME NEW j \in Job, Register(j) \/ Watch(j) \/ WatchFails(j) \/ Adopt(j) PROVE Told'
  <2>1. PICK to \in {"starting", "watched", "unwatched", "polling"} : phase' = [phase EXCEPT ![j] = to]
    BY <1>3 DEF Register, Watch, WatchFails, Adopt, Moves
  <2>2. \A i \in Job : phase'[i] = IF i = j THEN to ELSE phase[i]
    BY <1>1, <2>1 DEF TypeOK
  <2>3. UNCHANGED <<wakes, awaits, proc>>
    BY <1>3 DEF Register, Watch, WatchFails, Adopt, Persist, chainVars
  <2>4. phase[j] \in {"spawned", "starting"} \/ (phase[j] = "orphan" /\ proc[j] # "exited")
    BY <1>3 DEF Register, Watch, WatchFails, Adopt, Moves
  <2>. QED
    BY <1>1, <2>2, <2>3, <2>4
<1>4. ASSUME NEW j \in Job, Exit(j) \/ Timeout(j) \/ Kill(j) PROVE Told'
  <2>1. UNCHANGED <<phase, wakes, awaits>>
    BY <1>4 DEF Exit, Timeout, Kill, chainVars
  <2>2. \A i \in Job : proc[i] = "exited" => proc'[i] = "exited"
    BY <1>1, <1>4 DEF Exit, Timeout, Kill, TypeOK
  <2>. QED
    BY <1>1, <2>1, <2>2
<1>5. ASSUME NEW j \in Job, Finish(j) \/ PollExit(j) PROVE Told'
  <2>1. PICK to \in {"finished", "removing"} : phase' = [phase EXCEPT ![j] = to]
    BY <1>5 DEF Finish, PollExit, Moves
  <2>2. \A i \in Job : phase'[i] = IF i = j THEN to ELSE phase[i]
    BY <1>1, <2>1 DEF TypeOK
  <2>3. UNCHANGED <<wakes, awaits, proc>> /\ phase[j] \in {"watched", "polling"} /\ proc[j] = "exited"
    BY <1>5 DEF Finish, PollExit, Persist, Moves
  <2>. QED
    BY <1>1, <2>2, <2>3
<1>6. ASSUME NEW j \in Job, RecoverEnded(j) PROVE Told'
  <2>1. \A i \in Job : phase'[i] = IF i = j THEN "removing" ELSE phase[i]
    BY <1>1, <1>6 DEF RecoverEnded, Moves, TypeOK
  <2>2. UNCHANGED <<wakes, proc>> /\ awaits = None /\ awaits' = j /\ proc[j] = "exited"
    BY <1>6 DEF RecoverEnded
  <2>. QED
    BY <1>1, <2>1, <2>2
<1>7. ASSUME NEW j \in Job, Report(j) \/ ReportOrphan(j) PROVE Told'
  <2>1. UNCHANGED proc /\ phase[j] \in {"finished", "removing"} /\ Wake(j)
    BY <1>7 DEF Report, ReportOrphan
  <2>2. awaits' = awaits /\ ~(phase[j] = "removing" /\ awaits = j)
    BY <1>1, <1>7 DEF Report, ReportOrphan, Stuck, Drops, chainVars
  <2>3. wakes[j] = 0 /\ proc[j] = "exited"
    BY <1>1, <2>1, <2>2
  <2>4. /\ \A i \in Job : i # j => phase'[i] = phase[i] /\ wakes'[i] = wakes[i]
        /\ phase'[j] \in {"woken", "unheard"}
        /\ wakes'[j] = 0 \/ (wakes'[j] = 1 /\ phase'[j] = "woken")
    BY <1>1, <2>1, <2>3, WakeType
  <2>. QED
    BY <1>1, <2>1, <2>2, <2>3, <2>4
<1>8. CASE ReadState
  <2>1. awaits = None /\ UNCHANGED <<wakes, awaits, proc>>
    BY <1>1, <1>8 DEF ReadState, Stuck
  <2>2. \A i \in Job : phase'[i] = "orphan" \/ phase'[i] = phase[i]
    BY <1>8 DEF ReadState
  <2>3. \A i \in Job : phase'[i] = "orphan" /\ wakes[i] # 0 => wakes[i] = 1 /\ proc[i] = "exited"
    BY <1>1
  <2>. QED
    BY <1>1, <2>1, <2>2, <2>3
<1>9. CASE BeginWrite \/ EndWrite \/ RecoverDone \/ Restart
  BY <1>1, <1>9 DEF BeginWrite, EndWrite, RecoverDone, Restart, NextMutation
<1>10. CASE Stop
  <2>1. UNCHANGED <<wakes, proc>>
    BY <1>10 DEF Stop
  <2>2. \A i \in Job : phase'[i] = IF phase[i] \in Started \cup Adopted THEN "left" ELSE phase[i]
    BY <1>10 DEF Stop
  <2>. QED
    BY <1>1, <2>1, <2>2 DEF Started, Adopted
<1>11. CASE Poll \/ UNCHANGED vars
  BY <1>1, <1>11 DEF Poll, vars, chainVars
<1>. QED
  BY <1>2, <1>3, <1>4, <1>5, <1>6, <1>7, <1>8, <1>9, <1>10, <1>11 DEF Next

----------------------------------------------------------------------------
(* The theorems. *)

\* The invariant holds at the start.
LEMMA InitLInv == Init => LInv
<1>. SUFFICES ASSUME Init PROVE LInv
  OBVIOUS
<1>1. TypeOK
  BY InitTypes
<1>2. chain = <<Recover>> /\ step = "ready" /\ snap = {} /\ stale = {} /\ file = {} /\ awaits = None /\ up
  BY DEF Init
<1>3. \A j \in Job : phase[j] = "idle" /\ wakes[j] = 0
  BY DEF Init
<1>4. ToSet(chain) = {Recover} /\ Recovering
  BY <1>2 DEF ToSet, Recovering
<1>5. \A j \in Job : ~Adds(j) /\ ~Drops(j)
  BY <1>4, Mutations DEF Adds, Drops
<1>6. Ordered
  BY <1>2, Mutations DEF Ordered
<1>7. Consistent /\ Placed /\ Untouched /\ Down
  BY <1>2, <1>3, <1>5 DEF Consistent, Placed, Untouched, Down
<1>8. OnItsWay
  BY <1>2, <1>3, <1>4, <1>5 DEF OnItsWay, Base, Tracked
<1>9. Stuck /\ Told
  BY <1>2, <1>3 DEF Stuck, Told
<1>. QED
  BY <1>1, <1>6, <1>7, <1>8, <1>9 DEF LInv, FileInv

\* LInv is inductive.
THEOREM LongCommandsCorrect == Spec => []LInv
<1>1. LInv /\ [Next]_vars => LInv'
  <2>1. LInv => TypeOK /\ FileInv /\ Ordered
    BY DEF LInv, FileInv
  <2>. QED
    BY <2>1, NextTypes, NextFile, NextStuck, NextTold DEF LInv
<1>. QED
  BY <1>1, InitLInv, PTL DEF Spec

\* The state is well-typed.
THEOREM LongCommandsTypes == Spec => []TypeOK
BY LongCommandsCorrect, PTL DEF LInv

\* The file is on its way to the jobs still to be reported.
THEOREM RememberedHolds == Spec => []Remembered
<1>1. LInv => Remembered
  <2>. SUFFICES ASSUME LInv, up, ~(Recovering /\ step = "ready") PROVE FileToBe = Tracked
    BY DEF Remembered
  <2>. DEFINE base == IF step = "ready" THEN Readable ELSE snap
  <2>1. \A j \in Job : j \in Tracked <=> (j \in Base \ stale \/ Adds(j)) /\ ~Drops(j)
    BY DEF LInv, FileInv, OnItsWay
  <2>2. Base = base
    BY DEF Base
  <2>. HIDE DEF base
  <2>3. FileToBe = {j \in Job : (j \in base \ stale \/ Adds(j)) /\ ~Drops(j)}
    BY DEF FileToBe, base, Adds, Drops
  <2>4. Tracked \subseteq Job
    BY DEF Tracked
  <2>. QED
    BY <2>1, <2>2, <2>3, <2>4
<1>. QED
  BY <1>1, LongCommandsCorrect, PTL

\* No session is told twice of a job, nor of one that still runs.
THEOREM OneWakeHolds == Spec => []OneWake
<1>1. LInv => OneWake
  BY DEF LInv, Told, OneWake, TypeOK
<1>. QED
  BY <1>1, LongCommandsCorrect, PTL
=============================================================================
