----------------------------- MODULE BootProofs -----------------------------
(***************************************************************************)
(* The boot, for any tabs, releases, deaths and faults: one construction   *)
(* of the database at a time, each migration run once unless its record    *)
(* was cut off, and no inert tab without a cause.                          *)
(***************************************************************************)
EXTENDS Boot, TLAPS

USE NoneAssumption, BoundsAssumption DEF NoneAssumption, BoundsAssumption

State == {"idle", "joined", "look", "exec", "record", "done"}
Stage == {"closed", "loaded", "gating", "booting", "serving", "inert"}
Tasks == [Tab -> [Task -> State]]

\* Only the holder of the lock has passed the election or has callers.
LeadsAlone ==
  \A t \in Tab :
    /\ stage[t] \in {"gating", "booting", "serving", "inert"} => lock = t
    /\ \A k \in Task : task[t][k] # "idle" => lock = t

\* The one who constructs is the one whose promise is cached.
ReadyOwns == \A t \in Tab : \A k \in Task : Constructing(t, k) => ready[t] = k

\* What has run is recorded, or being recorded, or was cut off.
InFlight(m) == \E t \in Tab : \E k \in Task : task[t][k] = "record" /\ pos[t][k] = m

Accounted ==
  /\ MigratedOnce
  /\ \A m \in Mig : m \notin recorded /\ ~InFlight(m) => ran[m] <= cut[m]
  /\ \A t \in Tab : \A k \in Task :
       /\ task[t][k] \in {"exec", "record"} => pos[t][k] \notin recorded
       /\ task[t][k] = "record" => ran[pos[t][k]] > 0

IInv == TypeOK /\ LeadsAlone /\ ReadyOwns /\ Accounted /\ InertForCause

----------------------------------------------------------------------------
(* Types. *)

\* A fault is counted within its bound.
LEMMA FaultType ==
  ASSUME TypeOK, Fault
  PROVE  faults' \in 0 .. MaxFaults
BY DEF TypeOK, Fault

\* A caller that moves on leaves the others where they are.
LEMMA GoesType ==
  ASSUME TypeOK, NEW t \in Tab, NEW k \in Task, NEW to \in State, Goes(t, k, to)
  PROVE  /\ task' \in Tasks
         /\ \A u \in Tab : \A l \in Task : task'[u][l] = IF u = t /\ l = k THEN to ELSE task[u][l]
BY DEF TypeOK, Goes, SetTask, Tasks, State

\* A document that dies leaves well-typed state, and nothing of its own in it.
LEMMA UnloadType ==
  ASSUME TypeOK, NEW t \in Tab, Unload(t)
  PROVE  /\ lock' \in Tab \cup {None} /\ ready' \in [Tab -> Task \cup {None}]
         /\ task' \in Tasks /\ pos' = pos /\ cut' \in [Mig -> Nat]
         /\ \A u \in Tab : \A l \in Task : task'[u][l] = IF u = t THEN "idle" ELSE task[u][l]
<1>1. Fresh \in [Task -> State] /\ \A l \in Task : Fresh[l] = "idle"
  BY DEF Fresh, State
<1>2. task' \in Tasks /\ \A u \in Tab : \A l \in Task : task'[u][l] = IF u = t THEN "idle" ELSE task[u][l]
  BY <1>1 DEF TypeOK, Unload, Tasks, State
<1>3. cut' \in [Mig -> Nat]
  BY DEF TypeOK, Unload
<1>. QED
  BY <1>2, <1>3 DEF TypeOK, Unload

\* So does one that loads the bundle which is deployed now.
LEMMA ReloadType ==
  ASSUME TypeOK, NEW t \in Tab, ReloadOnce(t),
         UNCHANGED <<deployed, epoch, ran, recorded, deaths>>, faults' \in 0 .. MaxFaults
  PROVE  TypeOK'
<1>1. Unload(t)
  BY DEF ReloadOnce
<1>2. lock' \in Tab \cup {None} /\ ready' \in [Tab -> Task \cup {None}] /\ task' \in Tasks
      /\ pos' = pos /\ cut' \in [Mig -> Nat]
  BY <1>1, UnloadType
<1>3. \A u \in Tab : \A l \in Task : task'[u][l] \in {"exec", "record"} => pos'[u][l] \in Mig
  BY <1>1, UnloadType DEF TypeOK
<1>4. stage' \in [Tab -> Stage] /\ bundle' \in [Tab -> Mig] /\ flag' \in [Tab -> BOOLEAN]
  BY DEF TypeOK, ReloadOnce, Stage
<1>. QED
  BY <1>2, <1>3, <1>4 DEF TypeOK, Tasks, State, Stage

\* When a construction fails its callers are free again, and none constructs.
LEMMA FailType ==
  ASSUME TypeOK, NEW t \in Tab, CallersFail(t)
  PROVE  /\ task' \in Tasks /\ stage' \in [Tab -> Stage]
         /\ \A u \in Tab : u # t => task'[u] = task[u]
         /\ \A l \in Task : task'[t][l] = IF task[t][l] = "done" THEN "done" ELSE "idle"
         /\ \A u \in Tab : stage'[u] # stage[u] => u = t /\ stage[t] = "booting" /\ stage'[t] = "inert"
BY DEF TypeOK, CallersFail, SetTask, Tasks, State, Stage

\* When it succeeds they are done, and a leader that waited for it serves.
LEMMA ResolveType ==
  ASSUME TypeOK, NEW t \in Tab, Resolve(t)
  PROVE  /\ task' \in Tasks /\ stage' \in [Tab -> Stage]
         /\ \A u \in Tab : \A l \in Task :
              task'[u][l] = IF u = t /\ (l = ready[t] \/ task[t][l] = "joined") THEN "done" ELSE task[u][l]
         /\ \A u \in Tab : stage'[u] # stage[u] => u = t /\ stage[t] = "booting" /\ stage'[t] = "serving"
BY DEF TypeOK, Resolve, SetTask, Tasks, State, Stage

\* The initial states are well-typed.
LEMMA InitTypes == Init => TypeOK
BY DEF Init, TypeOK, Fresh, Mig

\* Every step keeps the types.
LEMMA NextTypes ==
  ASSUME TypeOK, [Next]_vars
  PROVE  TypeOK'
<1>. USE DEF TypeOK, tabVars, initVars, dbVars, Tasks, State, Stage
<1>1. CASE Deploy
  BY <1>1 DEF Deploy, Mig
<1>2. ASSUME NEW t \in Tab, Open(t) PROVE TypeOK'
  BY <1>2 DEF Open
<1>3. ASSUME NEW t \in Tab, Lead(t) PROVE TypeOK'
  BY <1>3 DEF Lead
<1>4. ASSUME NEW t \in Tab, Close(t) PROVE TypeOK'
  <2>1. Unload(t)
    BY <1>4 DEF Close
  <2>2. lock' \in Tab \cup {None} /\ ready' \in [Tab -> Task \cup {None}] /\ task' \in Tasks
        /\ pos' = pos /\ cut' \in [Mig -> Nat]
    BY <2>1, UnloadType
  <2>3. \A u \in Tab : \A l \in Task : task'[u][l] \in {"exec", "record"} => pos'[u][l] \in Mig
    BY <2>1, UnloadType
  <2>4. stage' \in [Tab -> Stage] /\ deaths' \in 0 .. MaxDeaths
    BY <1>4 DEF Close
  <2>5. UNCHANGED <<deployed, bundle, flag, epoch, ran, recorded, faults>>
    BY <1>4 DEF Close
  <2>. QED
    BY <2>2, <2>3, <2>4, <2>5
<1>5. ASSUME NEW t \in Tab, Gate(t) PROVE TypeOK'
  BY <1>5 DEF Gate, Mig
<1>6. ASSUME NEW t \in Tab, GateRefuses(t) PROVE TypeOK'
  <2>1. faults' \in 0 .. MaxFaults
    BY <1>6, FaultType DEF GateRefuses
  <2>2. CASE ReloadOnce(t) /\ UNCHANGED <<ran, recorded>>
    <3>1. UNCHANGED <<deployed, epoch, deaths>>
      BY <1>6 DEF GateRefuses
    <3>. QED
      BY <2>1, <2>2, <3>1, ReloadType
  <2>3. CASE stage' = [stage EXCEPT ![t] = "inert"] /\ UNCHANGED <<lock, bundle, flag, initVars, dbVars>>
    BY <1>6, <2>1, <2>3 DEF GateRefuses
  <2>. QED
    BY <1>6, <2>2, <2>3 DEF GateRefuses
<1>7. ASSUME NEW t \in Tab, Incompatible(t) PROVE TypeOK'
  <2>1. ReloadOnce(t) /\ UNCHANGED <<deployed, epoch, ran, recorded, deaths, faults>>
    BY <1>7 DEF Incompatible
  <2>. QED
    BY <2>1, ReloadType
<1>8. ASSUME NEW t \in Tab, Resolve(t) PROVE TypeOK'
  <2>1. task' \in Tasks /\ stage' \in [Tab -> Stage]
    BY <1>8, ResolveType
  <2>2. UNCHANGED <<deployed, lock, bundle, flag, ready, pos, epoch, dbVars, deaths, faults>>
    BY <1>8 DEF Resolve
  <2>3. \A u \in Tab : \A l \in Task : task'[u][l] \in {"exec", "record"} => pos'[u][l] \in Mig
    <3>1. \A u \in Tab : \A l \in Task : task'[u][l] \in {"exec", "record"} => task[u][l] = task'[u][l]
      BY <1>8, ResolveType
    <3>. QED
      BY <2>2, <3>1
  <2>. QED
    BY <2>1, <2>2, <2>3
<1>9. ASSUME NEW t \in Tab, InitFails(t) PROVE TypeOK'
  <2>1. faults' \in 0 .. MaxFaults
    BY <1>9, FaultType DEF InitFails
  <2>2. CallersFail(t) /\ ready' \in [Tab -> Task \cup {None}]
    BY <1>9 DEF InitFails, Reject
  <2>3. cut' \in [Mig -> Nat]
    BY <1>9 DEF InitFails
  <2>4. task' \in Tasks /\ stage' \in [Tab -> Stage]
    BY <2>2, FailType
  <2>5. UNCHANGED <<deployed, lock, bundle, flag, pos, epoch, ran, recorded, deaths>>
    BY <1>9 DEF InitFails
  <2>6. \A u \in Tab : \A l \in Task : task'[u][l] \in {"exec", "record"} => pos'[u][l] \in Mig
    <3>1. \A u \in Tab : \A l \in Task : task'[u][l] \in {"exec", "record"} => task[u][l] = task'[u][l]
      BY <2>2, FailType
    <3>. QED
      BY <2>5, <3>1
  <2>. QED
    BY <2>1, <2>2, <2>3, <2>4, <2>5, <2>6
<1>10. ASSUME NEW t \in Tab, NEW k \in Task, PgliteInit(t, k) PROVE TypeOK'
  <2>1. task' \in Tasks
    BY <1>10, GoesType DEF PgliteInit
  <2>2. \A u \in Tab : \A l \in Task : task'[u][l] \in {"exec", "record"} => pos'[u][l] = pos[u][l] /\ task[u][l] = task'[u][l]
    <3>1. CASE ready[t] = None /\ Goes(t, k, "look") /\ pos' = [pos EXCEPT ![t][k] = 1]
      BY <3>1, GoesType
    <3>2. CASE Goes(t, k, "joined") /\ UNCHANGED pos
      BY <3>2, GoesType
    <3>. QED
      BY <1>10, <3>1, <3>2 DEF PgliteInit
  <2>3. pos' \in [Tab -> [Task -> 1 .. Releases + 1]] /\ ready' \in [Tab -> Task \cup {None}]
    <3>1. CASE ready' = [ready EXCEPT ![t] = k] /\ pos' = [pos EXCEPT ![t][k] = 1]
      BY <3>1
    <3>2. CASE UNCHANGED <<ready, pos>>
      BY <3>2
    <3>. QED
      BY <1>10, <3>1, <3>2 DEF PgliteInit
  <2>. QED
    BY <1>10, <2>1, <2>2, <2>3 DEF PgliteInit
<1>11. ASSUME NEW t \in Tab, NEW k \in Task, Look(t, k) PROVE TypeOK'
  <2>1. pos[t][k] \in Mig
    BY <1>11 DEF Look, Mig
  <2>2. CASE pos' = [pos EXCEPT ![t][k] = @ + 1] /\ UNCHANGED task
    <3>1. pos' \in [Tab -> [Task -> 1 .. Releases + 1]]
      BY <2>1, <2>2 DEF Mig
    <3>2. \A u \in Tab : \A l \in Task : task'[u][l] \in {"exec", "record"} => pos'[u][l] = pos[u][l]
      BY <1>11, <2>2 DEF Look
    <3>. QED
      BY <1>11, <2>2, <3>1, <3>2 DEF Look
  <2>3. CASE Goes(t, k, "exec") /\ UNCHANGED pos
    BY <1>11, <2>1, <2>3, GoesType DEF Look
  <2>. QED
    BY <1>11, <2>2, <2>3 DEF Look
<1>12. ASSUME NEW t \in Tab, NEW k \in Task, Exec(t, k) PROVE TypeOK'
  <2>1. pos[t][k] \in Mig /\ Goes(t, k, "record")
    BY <1>12 DEF Exec
  <2>2. ran' \in [Mig -> Nat]
    BY <1>12, <2>1 DEF Exec
  <2>3. UNCHANGED <<deployed, tabVars, ready, pos, epoch, recorded, cut, deaths, faults>>
    BY <1>12 DEF Exec
  <2>4. task' \in Tasks
    BY <2>1, GoesType
  <2>5. \A u \in Tab : \A l \in Task : task'[u][l] \in {"exec", "record"} => pos'[u][l] \in Mig
    <3>1. \A u \in Tab : \A l \in Task : task'[u][l] = task[u][l] \/ (u = t /\ l = k)
      BY <2>1, GoesType
    <3>2. pos' = pos
      BY <2>3
    <3>3. \A u \in Tab : \A l \in Task : task[u][l] \in {"exec", "record"} => pos[u][l] \in Mig
      OBVIOUS
    <3>. QED
      BY <2>1, <3>1, <3>2, <3>3
  <2>. QED
    BY <2>2, <2>3, <2>4, <2>5
<1>13. ASSUME NEW t \in Tab, NEW k \in Task, Record(t, k) PROVE TypeOK'
  <2>1. pos[t][k] \in Mig /\ Goes(t, k, "look")
    BY <1>13 DEF Record
  <2>2. pos' \in [Tab -> [Task -> 1 .. Releases + 1]]
    BY <1>13, <2>1 DEF Record, Mig
  <2>3. \A u \in Tab : \A l \in Task : task'[u][l] \in {"exec", "record"} => pos'[u][l] = pos[u][l] /\ task[u][l] = task'[u][l]
    BY <1>13, <2>1, GoesType DEF Record
  <2>. QED
    BY <1>13, <2>1, <2>2, <2>3, GoesType DEF Record
<1>14. CASE UNCHANGED vars
  BY <1>14 DEF vars
<1>. QED
  BY <1>1, <1>2, <1>3, <1>4, <1>5, <1>6, <1>7, <1>8, <1>9, <1>10, <1>11, <1>12, <1>13, <1>14 DEF Next
----------------------------------------------------------------------------
(* The lock, the cached promise and the tracker. *)

Owned == LeadsAlone /\ ReadyOwns

\* A document that dies gives up its lock with its constructions.
LEMMA UnloadOwned ==
  ASSUME TypeOK, Owned, NEW t \in Tab, Unload(t),
         stage'[t] \in {"closed", "loaded"}, \A u \in Tab : u # t => stage'[u] = stage[u]
  PROVE  Owned'
<1>1. /\ \A u \in Tab : \A l \in Task : task'[u][l] = IF u = t THEN "idle" ELSE task[u][l]
      /\ \A u \in Tab : u # t => ready'[u] = ready[u]
  BY UnloadType DEF Unload, TypeOK
<1>2. \A u \in Tab : u # t /\ lock = u => lock' = u
  BY DEF Unload
<1>3. LeadsAlone'
  BY <1>1, <1>2 DEF Owned, LeadsAlone
<1>4. ReadyOwns'
  BY <1>1 DEF Owned, ReadyOwns, Constructing
<1>. QED
  BY <1>3, <1>4 DEF Owned

\* What it had run and not recorded is counted as cut off.
LEMMA UnloadAccounted ==
  ASSUME TypeOK, Accounted, NEW t \in Tab, Unload(t), UNCHANGED <<ran, recorded>>
  PROVE  Accounted'
<1>1. /\ \A u \in Tab : \A l \in Task : task'[u][l] = IF u = t THEN "idle" ELSE task[u][l]
      /\ pos' = pos /\ ran' = ran /\ recorded' = recorded
  BY UnloadType
<1>2. \A m \in Mig : cut'[m] = IF m \in CutBy(t) THEN cut[m] + 1 ELSE cut[m]
  BY DEF Unload
<1>3. \A m \in Mig : cut[m] \in Nat /\ ran[m] \in Nat
  BY DEF TypeOK
<1>4. MigratedOnce'
  BY <1>1, <1>2, <1>3 DEF Accounted, MigratedOnce
<1>5. ASSUME NEW m \in Mig, m \notin recorded', ~InFlight(m)' PROVE ran'[m] <= cut'[m]
  <2>1. CASE InFlight(m)
    <3>1. PICK u \in Tab, l \in Task : task[u][l] = "record" /\ pos[u][l] = m
      BY <2>1 DEF InFlight
    <3>2. u = t
      BY <1>1, <1>5, <3>1 DEF InFlight
    <3>3. m \in CutBy(t)
      BY <3>1, <3>2 DEF CutBy
    <3>4. ran[m] <= 1 + cut[m]
      BY DEF Accounted, MigratedOnce
    <3>. QED
      BY <1>1, <1>2, <1>3, <3>3, <3>4
  <2>2. CASE ~InFlight(m)
    <3>1. ran[m] <= cut[m]
      BY <1>1, <1>5, <2>2 DEF Accounted
    <3>. QED
      BY <1>1, <1>2, <1>3, <3>1
  <2>. QED
    BY <2>1, <2>2
<1>6. \A u \in Tab : \A l \in Task :
        /\ task'[u][l] \in {"exec", "record"} => pos'[u][l] \notin recorded'
        /\ task'[u][l] = "record" => ran'[pos'[u][l]] > 0
  BY <1>1 DEF Accounted
<1>. QED
  BY <1>4, <1>5, <1>6 DEF Accounted

\* A reload, by the gate or by the handshake.
LEMMA ReloadKeeps ==
  ASSUME TypeOK, Owned, Accounted, NEW t \in Tab, ReloadOnce(t), UNCHANGED <<ran, recorded>>
  PROVE  Owned' /\ Accounted'
<1>1. Unload(t) /\ stage' = [stage EXCEPT ![t] = "loaded"]
  BY DEF ReloadOnce
<1>. QED
  BY <1>1, UnloadOwned, UnloadAccounted DEF TypeOK

\* What no construction is part of keeps the accounts.
LEMMA AccountedKept ==
  ASSUME Accounted, UNCHANGED <<task, pos, ran, recorded, cut>>
  PROVE  Accounted'
BY DEF Accounted, MigratedOnce, InFlight

\* No two constructions.
LEMMA Alone == ASSUME Owned PROVE OneConstruction
<1>. SUFFICES ASSUME NEW t \in Tab, NEW u \in Tab, NEW k \in Task, NEW l \in Task,
                     Constructing(t, k), Constructing(u, l)
              PROVE  t = u /\ k = l
  BY DEF OneConstruction
<1>1. lock = t /\ lock = u
  BY DEF Owned, LeadsAlone, Constructing
<1>2. ready[t] = k /\ ready[u] = l
  BY DEF Owned, ReadyOwns
<1>. QED
  BY <1>1, <1>2

\* Every step keeps the lock and the promise with their one holder.
LEMMA NextOwned ==
  ASSUME TypeOK, Owned, [Next]_vars
  PROVE  Owned'
<1>. USE DEF Owned, LeadsAlone, ReadyOwns, Constructing
<1>1. CASE Deploy
  BY <1>1 DEF Deploy, tabVars, initVars
<1>2. ASSUME NEW t \in Tab, Open(t) PROVE Owned'
  BY <1>2 DEF Open, initVars, TypeOK
<1>3. ASSUME NEW t \in Tab, Lead(t) PROVE Owned'
  BY <1>3 DEF Lead, initVars, TypeOK
<1>4. ASSUME NEW t \in Tab, Close(t) PROVE Owned'
  <2>1. Unload(t) /\ stage' = [stage EXCEPT ![t] = "closed"]
    BY <1>4 DEF Close
  <2>2. stage'[t] \in {"closed", "loaded"} /\ \A u \in Tab : u # t => stage'[u] = stage[u]
    BY <2>1 DEF TypeOK
  <2>. QED
    BY <2>1, <2>2, UnloadOwned
<1>5. ASSUME NEW t \in Tab, Gate(t) PROVE Owned'
  BY <1>5 DEF Gate, initVars, TypeOK
<1>6. ASSUME NEW t \in Tab, GateRefuses(t) PROVE Owned'
  <2>1. CASE ReloadOnce(t) /\ UNCHANGED <<ran, recorded>>
    <3>1. Unload(t) /\ stage' = [stage EXCEPT ![t] = "loaded"]
      BY <2>1 DEF ReloadOnce
    <3>2. stage'[t] \in {"closed", "loaded"} /\ \A u \in Tab : u # t => stage'[u] = stage[u]
      BY <3>1 DEF TypeOK
    <3>. QED
      BY <3>1, <3>2, UnloadOwned
  <2>2. CASE stage' = [stage EXCEPT ![t] = "inert"] /\ UNCHANGED <<lock, bundle, flag, initVars, dbVars>>
    BY <1>6, <2>2 DEF GateRefuses, initVars, TypeOK
  <2>. QED
    BY <1>6, <2>1, <2>2 DEF GateRefuses
<1>7. ASSUME NEW t \in Tab, Incompatible(t) PROVE Owned'
  <2>1. Unload(t) /\ stage' = [stage EXCEPT ![t] = "loaded"]
    BY <1>7 DEF Incompatible, ReloadOnce
  <2>2. stage'[t] \in {"closed", "loaded"} /\ \A u \in Tab : u # t => stage'[u] = stage[u]
    BY <2>1 DEF TypeOK
  <2>. QED
    BY <2>1, <2>2, UnloadOwned
<1>8. ASSUME NEW t \in Tab, Resolve(t) PROVE Owned'
  <2>1. lock' = lock /\ ready' = ready
    BY <1>8 DEF Resolve
  <2>2. \A u \in Tab : \A l \in Task :
          task'[u][l] = IF u = t /\ (l = ready[t] \/ task[t][l] = "joined") THEN "done" ELSE task[u][l]
    BY <1>8, ResolveType
  <2>3. \A u \in Tab : stage'[u] # stage[u] => u = t /\ stage[t] = "booting"
    BY <1>8, ResolveType
  <2>4. task[t][ready[t]] # "idle" /\ ready[t] \in Task
    BY <1>8 DEF Resolve, TypeOK
  <2>5. LeadsAlone'
    BY <2>1, <2>2, <2>3, <2>4
  <2>6. ReadyOwns'
    BY <2>1, <2>2
  <2>. QED
    BY <2>5, <2>6
<1>9. ASSUME NEW t \in Tab, InitFails(t) PROVE Owned'
  <2>1. CallersFail(t) /\ lock' = lock /\ ready' = [ready EXCEPT ![t] = None]
    BY <1>9 DEF InitFails, Reject
  <2>2. /\ \A u \in Tab : u # t => task'[u] = task[u]
        /\ \A l \in Task : task'[t][l] = IF task[t][l] = "done" THEN "done" ELSE "idle"
        /\ \A u \in Tab : stage'[u] # stage[u] => u = t /\ stage[t] = "booting"
    BY <2>1, FailType
  <2>3. LeadsAlone'
    BY <2>1, <2>2
  <2>4. ReadyOwns'
    BY <2>1, <2>2 DEF TypeOK
  <2>. QED
    BY <2>3, <2>4
<1>10. ASSUME NEW t \in Tab, NEW k \in Task, PgliteInit(t, k) PROVE Owned'
  <2>1. lock = t /\ lock' = lock /\ stage' = stage
    BY <1>10 DEF PgliteInit, Calls, tabVars
  <2>2. CASE ready[t] = None /\ Goes(t, k, "look") /\ ready' = [ready EXCEPT ![t] = k]
    <3>1. \A u \in Tab : \A l \in Task : task'[u][l] = IF u = t /\ l = k THEN "look" ELSE task[u][l]
      BY <2>2, GoesType DEF State
    <3>2. \A u \in Tab : ready'[u] = IF u = t THEN k ELSE ready[u]
      BY <2>2 DEF TypeOK
    <3>3. \A l \in Task : ~Constructing(t, l)
      BY <2>2 DEF Task
    <3>. QED
      BY <2>1, <3>1, <3>2, <3>3
  <2>3. CASE Goes(t, k, "joined") /\ ready' = ready
    <3>1. \A u \in Tab : \A l \in Task : task'[u][l] = IF u = t /\ l = k THEN "joined" ELSE task[u][l]
      BY <2>3, GoesType DEF State
    <3>. QED
      BY <2>1, <2>3, <3>1
  <2>. QED
    BY <1>10, <2>2, <2>3 DEF PgliteInit
<1>11. ASSUME NEW t \in Tab, NEW k \in Task, Look(t, k) \/ Exec(t, k) \/ Record(t, k) PROVE Owned'
  <2>1. lock' = lock /\ stage' = stage /\ ready' = ready /\ Constructing(t, k)
    BY <1>11 DEF Look, Exec, Record, tabVars
  <2>2. PICK to \in State : Goes(t, k, to) \/ UNCHANGED task
    BY <1>11 DEF Look, Exec, Record, State
  <2>3. \A u \in Tab : \A l \in Task : task'[u][l] = task[u][l] \/ (u = t /\ l = k)
    BY <2>2, GoesType
  <2>. QED
    BY <2>1, <2>3
<1>12. CASE UNCHANGED vars
  BY <1>12 DEF vars, tabVars, initVars
<1>. QED
  BY <1>1, <1>2, <1>3, <1>4, <1>5, <1>6, <1>7, <1>8, <1>9, <1>10, <1>11, <1>12 DEF Next

\* Every step keeps the accounts of the migrations.
LEMMA NextAccounted ==
  ASSUME TypeOK, Owned, Accounted, [Next]_vars
  PROVE  Accounted'
<1>1. CASE Deploy
  BY <1>1, AccountedKept DEF Deploy, initVars, dbVars
<1>2. ASSUME NEW t \in Tab, Open(t) \/ Lead(t) \/ Gate(t) PROVE Accounted'
  BY <1>2, AccountedKept DEF Open, Lead, Gate, initVars, dbVars
<1>3. ASSUME NEW t \in Tab, Close(t) PROVE Accounted'
  BY <1>3, UnloadAccounted DEF Close
<1>4. ASSUME NEW t \in Tab, GateRefuses(t) PROVE Accounted'
  <2>1. CASE ReloadOnce(t) /\ UNCHANGED <<ran, recorded>>
    BY <2>1, ReloadKeeps
  <2>2. CASE UNCHANGED <<initVars, dbVars>>
    BY <2>2, AccountedKept DEF initVars, dbVars
  <2>. QED
    BY <1>4, <2>1, <2>2 DEF GateRefuses
<1>5. ASSUME NEW t \in Tab, Incompatible(t) PROVE Accounted'
  BY <1>5, ReloadKeeps DEF Incompatible
<1>6. ASSUME NEW t \in Tab, Resolve(t) PROVE Accounted'
  <2>1. UNCHANGED <<pos, ran, recorded, cut>>
    BY <1>6 DEF Resolve, dbVars
  <2>2. \A u \in Tab : \A l \in Task :
          task'[u][l] = IF u = t /\ (l = ready[t] \/ task[t][l] = "joined") THEN "done" ELSE task[u][l]
    BY <1>6, ResolveType
  <2>3. task[t][ready[t]] # "record"
    BY <1>6 DEF Resolve
  <2>4. \A u \in Tab : \A l \in Task :
          /\ task'[u][l] \in {"exec", "record"} => task'[u][l] = task[u][l]
          /\ task[u][l] = "record" => task'[u][l] = "record"
    BY <2>2, <2>3
  <2>. QED
    BY <2>1, <2>4 DEF Accounted, MigratedOnce, InFlight
<1>7. ASSUME NEW t \in Tab, InitFails(t) PROVE Accounted'
  <2>. DEFINE k == ready[t]  m == pos[t][k]
  <2>1. CallersFail(t) /\ UNCHANGED <<pos, ran, recorded>> /\ k \in Task
    BY <1>7 DEF InitFails, Reject, TypeOK
  <2>2. /\ \A u \in Tab : u # t => task'[u] = task[u]
        /\ \A l \in Task : task'[t][l] \in {"done", "idle"}
    BY <2>1, FailType
  <2>3. \A n \in Mig : cut'[n] = IF task[t][k] = "record" /\ n = m THEN cut[n] + 1 ELSE cut[n]
    BY <1>7 DEF InitFails, TypeOK
  <2>4. \A n \in Mig : cut[n] \in Nat /\ ran[n] \in Nat
    BY DEF TypeOK
  <2>. HIDE DEF m
  <2>5. MigratedOnce'
    BY <2>1, <2>3, <2>4 DEF Accounted, MigratedOnce
  <2>6. ASSUME NEW n \in Mig, n \notin recorded', ~InFlight(n)' PROVE ran'[n] <= cut'[n]
    <3>1. CASE InFlight(n)
      <4>1. PICK u \in Tab, l \in Task : task[u][l] = "record" /\ pos[u][l] = n
        BY <3>1 DEF InFlight
      <4>2. u = t
        BY <2>1, <2>2, <2>6, <4>1 DEF InFlight
      <4>3. l = k
        BY <4>1, <4>2 DEF Owned, ReadyOwns, Constructing
      <4>4. n = m
        BY <4>1, <4>2, <4>3 DEF m
      <4>5. ran[n] <= 1 + cut[n]
        BY DEF Accounted, MigratedOnce
      <4>. QED
        BY <2>1, <2>3, <2>4, <4>1, <4>2, <4>3, <4>4, <4>5
    <3>2. CASE ~InFlight(n)
      <4>1. ran[n] <= cut[n]
        BY <2>1, <2>6, <3>2 DEF Accounted
      <4>. QED
        BY <2>1, <2>3, <2>4, <4>1
    <3>. QED
      BY <3>1, <3>2
  <2>7. \A u \in Tab : \A l \in Task :
          /\ task'[u][l] \in {"exec", "record"} => pos'[u][l] \notin recorded'
          /\ task'[u][l] = "record" => ran'[pos'[u][l]] > 0
    BY <2>1, <2>2 DEF Accounted
  <2>. QED
    BY <2>5, <2>6, <2>7 DEF Accounted
<1>8. ASSUME NEW t \in Tab, NEW k \in Task, PgliteInit(t, k) PROVE Accounted'
  <2>1. UNCHANGED <<ran, recorded, cut>> /\ task[t][k] = "idle"
    BY <1>8 DEF PgliteInit, Calls, dbVars
  <2>2. PICK to \in {"look", "joined"} : Goes(t, k, to)
    BY <1>8 DEF PgliteInit
  <2>3. \A u \in Tab : \A l \in Task : task'[u][l] = IF u = t /\ l = k THEN to ELSE task[u][l]
    BY <2>2, GoesType DEF State
  <2>4. \A u \in Tab : \A l \in Task : ~(u = t /\ l = k) => pos'[u][l] = pos[u][l]
    BY <1>8 DEF PgliteInit, TypeOK
  <2>5. \A u \in Tab : \A l \in Task :
          /\ task'[u][l] \in {"exec", "record"} => task'[u][l] = task[u][l] /\ pos'[u][l] = pos[u][l]
          /\ task[u][l] = "record" => task'[u][l] = "record" /\ pos'[u][l] = pos[u][l]
    BY <2>1, <2>3, <2>4
  <2>. QED
    BY <2>1, <2>5 DEF Accounted, MigratedOnce, InFlight
<1>9. ASSUME NEW t \in Tab, NEW k \in Task, Look(t, k) PROVE Accounted'
  <2>1. UNCHANGED <<ran, recorded, cut>> /\ task[t][k] = "look"
    BY <1>9 DEF Look, dbVars
  <2>2. CASE pos' = [pos EXCEPT ![t][k] = @ + 1] /\ UNCHANGED task
    <3>1. \A u \in Tab : \A l \in Task : ~(u = t /\ l = k) => pos'[u][l] = pos[u][l]
      BY <2>2 DEF TypeOK
    <3>2. \A u \in Tab : \A l \in Task : task[u][l] \in {"exec", "record"} => pos'[u][l] = pos[u][l]
      BY <2>1, <3>1
    <3>. QED
      BY <2>1, <2>2, <3>2 DEF Accounted, MigratedOnce, InFlight
  <2>3. CASE pos[t][k] \notin recorded /\ Goes(t, k, "exec") /\ UNCHANGED pos
    <3>1. \A u \in Tab : \A l \in Task : task'[u][l] = IF u = t /\ l = k THEN "exec" ELSE task[u][l]
      BY <2>3, GoesType DEF State
    <3>2. \A u \in Tab : \A l \in Task : task'[u][l] = "record" <=> task[u][l] = "record"
      BY <2>1, <3>1
    <3>3. \A u \in Tab : \A l \in Task : task'[u][l] \in {"exec", "record"} => pos[u][l] \notin recorded
      BY <2>1, <2>3, <3>1 DEF Accounted
    <3>. QED
      BY <2>1, <2>3, <3>2, <3>3 DEF Accounted, MigratedOnce, InFlight
  <2>. QED
    BY <1>9, <2>2, <2>3 DEF Look
<1>10. ASSUME NEW t \in Tab, NEW k \in Task, Exec(t, k) PROVE Accounted'
  <2>0. PICK m \in Mig : m = pos[t][k]
    BY <1>10 DEF Exec, TypeOK
  <2>1. m \in Mig /\ m \notin recorded /\ task[t][k] = "exec"
    BY <1>10, <2>0 DEF Exec, Accounted
  <2>2. UNCHANGED <<pos, recorded, cut>> /\ Goes(t, k, "record")
    BY <1>10 DEF Exec
  <2>3. \A n \in Mig : ran'[n] = IF n = m THEN ran[n] + 1 ELSE ran[n]
    BY <1>10, <2>0 DEF Exec, TypeOK
  <2>4. \A u \in Tab : \A l \in Task : task'[u][l] = IF u = t /\ l = k THEN "record" ELSE task[u][l]
    BY <2>2, GoesType DEF State
  <2>5. \A n \in Mig : cut[n] \in Nat /\ ran[n] \in Nat
    BY DEF TypeOK
  <2>6. ~InFlight(m)
    <3>. SUFFICES ASSUME NEW u \in Tab, NEW l \in Task, task[u][l] = "record" PROVE FALSE
      BY DEF InFlight
    <3>1. u = t /\ l = k
      BY <2>1, Alone DEF OneConstruction, Constructing
    <3>. QED
      BY <2>1, <3>1
  <2>7. ran[m] <= cut[m]
    BY <2>1, <2>6 DEF Accounted
  <2>8. InFlight(m)'
    BY <2>0, <2>2, <2>4 DEF InFlight
  <2>9. \A n \in Mig : InFlight(n) => InFlight(n)'
    BY <2>1, <2>2, <2>4 DEF InFlight
  <2>10. \A u \in Tab : \A l \in Task : task'[u][l] = "record" => pos[u][l] \in Mig /\ pos[u][l] \notin recorded
    BY <2>0, <2>1, <2>4 DEF TypeOK, Accounted
  <2>11. \A u \in Tab : \A l \in Task : task'[u][l] = "record" => (pos[u][l] = m \/ ran[pos[u][l]] > 0)
    BY <2>0, <2>4 DEF Accounted
  <2>12. MigratedOnce'
    BY <2>1, <2>2, <2>3, <2>5, <2>7 DEF Accounted, MigratedOnce
  <2>13. \A n \in Mig : n \notin recorded' /\ ~InFlight(n)' => ran'[n] <= cut'[n]
    <3>. SUFFICES ASSUME NEW n \in Mig, n \notin recorded', ~InFlight(n)' PROVE ran'[n] <= cut'[n]
      OBVIOUS
    <3>1. n # m /\ ~InFlight(n)
      BY <2>8, <2>9
    <3>2. ran[n] <= cut[n]
      BY <2>2, <3>1 DEF Accounted
    <3>. QED
      BY <2>2, <2>3, <3>1, <3>2
  <2>14. \A u \in Tab : \A l \in Task : task'[u][l] = "record" => ran'[pos'[u][l]] > 0
    BY <2>2, <2>3, <2>5, <2>10, <2>11
  <2>15. \A u \in Tab : \A l \in Task : task'[u][l] \in {"exec", "record"} => pos'[u][l] \notin recorded'
    BY <2>1, <2>2, <2>4, <2>10 DEF Accounted
  <2>. QED
    BY <2>12, <2>13, <2>14, <2>15 DEF Accounted
<1>11. ASSUME NEW t \in Tab, NEW k \in Task, Record(t, k) PROVE Accounted'
  <2>. DEFINE m == pos[t][k]
  <2>1. m \in Mig /\ task[t][k] = "record" /\ ran[m] > 0
    BY <1>11 DEF Record, TypeOK, Accounted
  <2>2. recorded' = recorded \cup {m} /\ UNCHANGED <<ran, cut>> /\ Goes(t, k, "look")
    BY <1>11 DEF Record
  <2>3. \A u \in Tab : \A l \in Task : task'[u][l] = IF u = t /\ l = k THEN "look" ELSE task[u][l]
    BY <2>2, GoesType DEF State
  <2>4. \A u \in Tab : \A l \in Task : ~(u = t /\ l = k) => pos'[u][l] = pos[u][l]
    BY <1>11 DEF Record, TypeOK
  <2>5. \A u \in Tab : \A l \in Task : task'[u][l] \notin {"exec", "record"}
    BY <2>1, <2>3, Alone DEF OneConstruction, Constructing
  <2>6. \A n \in Mig : n # m => ~InFlight(n)
    BY <2>1, Alone DEF OneConstruction, Constructing, InFlight
  <2>. HIDE DEF m
  <2>7. MigratedOnce'
    BY <2>1, <2>2 DEF Accounted, MigratedOnce
  <2>8. \A n \in Mig : n \notin recorded' => ran'[n] <= cut'[n]
    BY <2>2, <2>6 DEF Accounted
  <2>. QED
    BY <2>5, <2>7, <2>8 DEF Accounted
<1>12. CASE UNCHANGED vars
  BY <1>12, AccountedKept DEF vars, initVars, dbVars
<1>. QED
  BY <1>1, <1>2, <1>3, <1>4, <1>5, <1>6, <1>7, <1>8, <1>9, <1>10, <1>11, <1>12 DEF Next

----------------------------------------------------------------------------
(* Why a tab is inert. *)

\* What an inert tab is inert for.
Cause(t) == bundle[t] < epoch \/ faults > 0 \/ \E m \in Once : cut[m] > 0

\* The epoch, the faults and the runs cut off only grow.
LEMMA Grows ==
  ASSUME TypeOK, [Next]_vars
  PROVE  epoch' >= epoch /\ faults' >= faults /\ \A m \in Mig : cut'[m] >= cut[m]
<1>1. epoch \in Int /\ faults \in Int /\ \A m \in Mig : cut[m] \in Nat
  BY DEF TypeOK
<1>2. \A t \in Tab : bundle[t] \in Int
  BY DEF TypeOK, Mig
<1>3. epoch' >= epoch
  <2>1. ASSUME NEW t \in Tab, Gate(t) PROVE epoch' >= epoch
    BY <1>1, <1>2, <2>1 DEF Gate, Stale
  <2>2. CASE epoch' = epoch
    BY <1>1, <2>2
  <2>3. epoch' = epoch \/ \E t \in Tab : Gate(t)
    BY DEF Next, vars, Deploy, Open, Lead, Close, GateRefuses, Incompatible, Resolve, InitFails,
           PgliteInit, Look, Exec, Record
  <2>. QED
    BY <2>1, <2>2, <2>3
<1>4. faults' >= faults
  <2>1. faults' = faults \/ Fault
    BY DEF Next, vars, Deploy, Open, Lead, Close, Gate, GateRefuses, Incompatible, Resolve, InitFails,
           PgliteInit, Look, Exec, Record
  <2>. QED
    BY <1>1, <2>1 DEF Fault
<1>5. \A m \in Mig : cut'[m] >= cut[m]
  <2>1. ASSUME NEW t \in Tab, Unload(t) PROVE \A m \in Mig : cut'[m] >= cut[m]
    BY <1>1, <2>1 DEF Unload
  <2>2. ASSUME NEW t \in Tab, InitFails(t) PROVE \A m \in Mig : cut'[m] >= cut[m]
    BY <1>1, <2>2 DEF InitFails, TypeOK
  <2>3. CASE cut' = cut
    BY <1>1, <2>3
  <2>4. cut' = cut \/ \E t \in Tab : Unload(t) \/ InitFails(t)
    BY DEF Next, vars, Deploy, Open, Lead, Close, Gate, GateRefuses, ReloadOnce, Incompatible, Resolve,
           PgliteInit, Look, Exec, Record, dbVars
  <2>. QED
    BY <2>1, <2>2, <2>3, <2>4
<1>. QED
  BY <1>3, <1>4, <1>5

\* Every step keeps the causes of the inert tabs, and gives one to a new one.
LEMMA NextInert ==
  ASSUME IInv, [Next]_vars
  PROVE  InertForCause'
<1>. SUFFICES ASSUME NEW u \in Tab, stage'[u] = "inert" PROVE Cause(u)'
  BY DEF InertForCause, Cause
<1>1. TypeOK /\ epoch' >= epoch /\ faults' >= faults /\ \A m \in Mig : cut'[m] >= cut[m]
  BY Grows DEF IInv
<1>2. /\ bundle[u] \in Int /\ epoch \in Int /\ epoch' \in Int /\ faults \in Int /\ faults' \in Int
      /\ \A m \in Once : m \in Mig /\ cut[m] \in Int /\ cut'[m] \in Int /\ ran[m] \in Int
  <2>1. bundle[u] \in Int /\ epoch \in Int /\ faults \in Int
    BY <1>1 DEF TypeOK, Mig
  <2>2. TypeOK'
    BY <1>1, NextTypes
  <2>3. epoch' \in Int /\ faults' \in Int /\ cut' \in [Mig -> Nat]
    BY <2>2 DEF TypeOK
  <2>4. \A m \in Mig : cut[m] \in Int /\ ran[m] \in Int
    BY <1>1 DEF TypeOK
  <2>. QED
    BY <2>1, <2>3, <2>4, OnceAssumption DEF OnceAssumption
<1>3. ASSUME stage[u] = "inert", bundle'[u] = bundle[u] PROVE Cause(u)'
  <2>1. Cause(u)
    BY <1>3 DEF IInv, InertForCause, Cause
  <2>. QED
    BY <1>1, <1>2, <1>3, <2>1 DEF Cause
<1>4. ASSUME NEW t \in Tab, ReloadOnce(t) PROVE Cause(u)'
  <2>1. stage[u] = "inert" /\ bundle'[u] = bundle[u]
    BY <1>1, <1>4 DEF ReloadOnce, TypeOK
  <2>. QED
    BY <1>3, <2>1
<1>5. CASE Deploy \/ UNCHANGED vars
  BY <1>3, <1>5 DEF Deploy, vars, tabVars
<1>6. ASSUME NEW t \in Tab, Open(t) \/ Lead(t) \/ Close(t) \/ Gate(t) PROVE Cause(u)'
  <2>1. stage[u] = "inert" /\ bundle'[u] = bundle[u]
    BY <1>1, <1>6 DEF Open, Lead, Close, Gate, TypeOK
  <2>. QED
    BY <1>3, <2>1
<1>7. ASSUME NEW t \in Tab, GateRefuses(t) PROVE Cause(u)'
  <2>1. CASE ReloadOnce(t)
    BY <1>4, <2>1
  <2>2. CASE stage' = [stage EXCEPT ![t] = "inert"] /\ UNCHANGED <<lock, bundle, flag, initVars, dbVars>>
    <3>1. CASE u # t
      BY <1>1, <1>3, <2>2, <3>1 DEF TypeOK
    <3>2. CASE u = t /\ Stale(t)
      BY <1>7, <2>2, <3>2 DEF GateRefuses, Stale, Cause
    <3>3. CASE Fault
      BY <1>2, <1>1, <3>3 DEF Fault, Cause, TypeOK
    <3>. QED
      BY <1>7, <3>1, <3>2, <3>3 DEF GateRefuses
  <2>. QED
    BY <1>7, <2>1, <2>2 DEF GateRefuses
<1>8. ASSUME NEW t \in Tab, Incompatible(t) PROVE Cause(u)'
  BY <1>4, <1>8 DEF Incompatible
<1>9. ASSUME NEW t \in Tab, Resolve(t) PROVE Cause(u)'
  <2>1. stage[u] = "inert" /\ bundle'[u] = bundle[u]
    BY <1>1, <1>9, ResolveType DEF Resolve
  <2>. QED
    BY <1>3, <2>1
<1>10. ASSUME NEW t \in Tab, InitFails(t) PROVE Cause(u)'
  <2>. DEFINE k == ready[t]  m == pos[t][k]
  <2>1. CASE Fault
    BY <1>1, <1>2, <2>1 DEF Fault, Cause, TypeOK
  <2>2. CASE task[t][k] = "exec" /\ m \in Once /\ ran[m] > 0
    <3>1. k \in Task /\ m \in Mig /\ m \notin recorded
      BY <1>1, <1>10, <2>2 DEF InitFails, IInv, Accounted, TypeOK
    <3>2. ~InFlight(m)
      <4>. SUFFICES ASSUME NEW v \in Tab, NEW l \in Task, task[v][l] = "record" PROVE FALSE
        BY DEF InFlight
      <4>1. v = t /\ l = k
        BY <2>2, <3>1, Alone DEF OneConstruction, Constructing, IInv, Owned
      <4>. QED
        BY <2>2, <4>1
    <3>3. ran[m] <= cut[m]
      BY <3>1, <3>2 DEF IInv, Accounted
    <3>. HIDE DEF m
    <3>. QED
      BY <1>1, <1>2, <2>2, <3>1, <3>3 DEF Cause
  <2>3. CASE stage'[u] = stage[u]
    BY <1>3, <1>10, <2>3 DEF InitFails
  <2>4. Fault \/ (task[t][k] = "exec" /\ m \in Once /\ ran[m] > 0)
    <3>1. k \in Task
      BY <1>1, <1>10 DEF InitFails, TypeOK
    <3>2. ~(task[t][k] = "record" /\ m \in recorded)
      BY <3>1 DEF IInv, Accounted
    <3>. HIDE DEF m
    <3>. QED
      BY <1>10, <3>2 DEF InitFails, m
  <2>. QED
    BY <2>1, <2>2, <2>4
<1>11. ASSUME NEW t \in Tab, NEW k \in Task, PgliteInit(t, k) \/ Look(t, k) \/ Exec(t, k) \/ Record(t, k)
       PROVE  Cause(u)'
  BY <1>3, <1>11 DEF PgliteInit, Look, Exec, Record, tabVars
<1>. QED
  BY <1>5, <1>6, <1>7, <1>8, <1>9, <1>10, <1>11 DEF Next

----------------------------------------------------------------------------
(* The theorems. *)

\* IInv is inductive.
THEOREM BootCorrect == Spec => []IInv
<1>1. Init => IInv
  <2>. SUFFICES ASSUME Init PROVE IInv
    OBVIOUS
  <2>1. TypeOK
    BY InitTypes
  <2>2. \A t \in Tab : stage[t] = "closed" /\ \A k \in Task : task[t][k] = "idle"
    BY DEF Init, Fresh
  <2>3. recorded = {} /\ \A m \in Mig : ran[m] = 0 /\ cut[m] = 0
    BY DEF Init
  <2>4. LeadsAlone /\ ReadyOwns /\ InertForCause
    BY <2>2 DEF LeadsAlone, ReadyOwns, InertForCause, Constructing
  <2>5. Accounted
    BY <2>2, <2>3 DEF Accounted, MigratedOnce
  <2>. QED
    BY <2>1, <2>4, <2>5 DEF IInv
<1>2. IInv /\ [Next]_vars => IInv'
  BY NextTypes, NextOwned, NextAccounted, NextInert DEF IInv, Owned
<1>. QED
  BY <1>1, <1>2, PTL DEF Spec

\* The state is well-typed: a construction is never past the last migration.
THEOREM BootTypes == Spec => []TypeOK
BY BootCorrect, PTL DEF IInv

\* No two constructions open the database at once.
THEOREM OneConstructionHolds == Spec => []OneConstruction
<1>1. IInv => OneConstruction
  BY Alone DEF IInv, Owned
<1>. QED
  BY <1>1, BootCorrect, PTL

\* Each migration runs once, but for the runs cut off from their record.
THEOREM MigratedOnceHolds == Spec => []MigratedOnce
<1>1. IInv => MigratedOnce
  BY DEF IInv, Accounted
<1>. QED
  BY <1>1, BootCorrect, PTL

\* A tab is inert only for one of the three causes.
THEOREM InertForCauseHolds == Spec => []InertForCause
BY BootCorrect, PTL DEF IInv
=============================================================================
