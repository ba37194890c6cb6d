-------------------------------- MODULE Boot --------------------------------
(***************************************************************************)
(* How the leader of a browser opens the local database: the epoch gate,   *)
(* the one construction of PGlite its callers share, the migration loop    *)
(* with its tracker, and the guarded reload of a build that is too old.    *)
(*                                                                         *)
(* Release v of the app embeds the migrations 1 .. v, and the server of    *)
(* that release takes no other build.  The election is module Tabs's: here *)
(* the lock has a holder.  A tab has two callers of Pglite::init, its      *)
(* run_leader and one Engine::query, which may be asked again when it      *)
(* fails.                                                                  *)
(***************************************************************************)
EXTENDS Integers

CONSTANTS
  Tab,
  None,
  Releases,      \* bound: releases of the app
  Once,          \* the migrations that fail when run twice
  MaxDeaths,     \* bound: tabs closed
  MaxFaults      \* bound: failures of the browser's databases

ASSUME NoneAssumption == None \notin Tab \cup {"leader", "call"}
ASSUME BoundsAssumption == Releases \in Nat \ {0} /\ MaxDeaths \in Nat /\ MaxFaults \in Nat

Mig == 1 .. Releases

ASSUME OnceAssumption == Once \subseteq Mig

Task == {"leader", "call"}

VARIABLES
  deployed,      \* the release the server runs and serves
  lock,          \* the tab that leads
  stage,         \* where each tab is in run_leader
  bundle,        \* the release each tab runs
  flag,          \* RELOAD_FLAG in its sessionStorage
  ready,         \* whose construction __pgliteReady caches
  task,          \* where each call of Pglite::init is
  pos,           \* the migration a construction is at
  epoch,         \* the version of the epoch database (durable)
  ran,           \* how often each migration ran (durable)
  recorded,      \* the migrations in the tracker (durable)
  cut,           \* the runs of each that were not recorded any more
  deaths, faults

tabVars == <<lock, stage, bundle, flag>>
initVars == <<ready, task, pos>>
dbVars == <<ran, recorded, cut>>
vars == <<deployed, tabVars, initVars, epoch, dbVars, deaths, faults>>

TypeOK ==
  /\ deployed \in Mig /\ epoch \in 0 .. Releases
  /\ lock \in Tab \cup {None}
  /\ stage \in [Tab -> {"closed", "loaded", "gating", "booting", "serving", "inert"}]
  /\ bundle \in [Tab -> Mig] /\ flag \in [Tab -> BOOLEAN]
  /\ ready \in [Tab -> Task \cup {None}]
  /\ task \in [Tab -> [Task -> {"idle", "joined", "look", "exec", "record", "done"}]]
  /\ pos \in [Tab -> [Task -> 1 .. Releases + 1]]
  /\ \A t \in Tab : \A k \in Task : task[t][k] \in {"exec", "record"} => pos[t][k] \in Mig
  /\ ran \in [Mig -> Nat] /\ cut \in [Mig -> Nat] /\ recorded \subseteq Mig
  /\ deaths \in 0 .. MaxDeaths /\ faults \in 0 .. MaxFaults

Fresh == [k \in Task |-> "idle"]

Init ==
  /\ deployed = 1 /\ epoch = 0 /\ lock = None
  /\ stage = [t \in Tab |-> "closed"] /\ bundle = [t \in Tab |-> 1]
  /\ flag = [t \in Tab |-> FALSE] /\ ready = [t \in Tab |-> None]
  /\ task = [t \in Tab |-> Fresh] /\ pos = [t \in Tab |-> [k \in Task |-> 1]]
  /\ ran = [m \in Mig |-> 0] /\ cut = [m \in Mig |-> 0] /\ recorded = {}
  /\ deaths = 0 /\ faults = 0

Fault == faults < MaxFaults /\ faults' = faults + 1

----------------------------------------------------------------------------
(* Tabs. *)

\* The next release is deployed.
Deploy ==
  /\ deployed < Releases
  /\ deployed' = deployed + 1
  /\ UNCHANGED <<tabVars, initVars, epoch, dbVars, deaths, faults>>

\* A tab loads the bundle the server serves, in a new browsing session.
Open(t) ==
  /\ stage[t] = "closed"
  /\ stage' = [stage EXCEPT ![t] = "loaded"]
  /\ bundle' = [bundle EXCEPT ![t] = deployed]
  /\ flag' = [flag EXCEPT ![t] = FALSE]
  /\ UNCHANGED <<deployed, lock, initVars, epoch, dbVars, deaths, faults>>

\* It gets the lock: its role is Leader before the gate has answered.
Lead(t) ==
  /\ stage[t] = "loaded" /\ lock = None
  /\ lock' = t /\ stage' = [stage EXCEPT ![t] = "gating"]
  /\ UNCHANGED <<deployed, bundle, flag, initVars, epoch, dbVars, deaths, faults>>

\* The migration a tab has run and not recorded, if it stops here.
CutBy(t) == {pos[t][k] : k \in {l \in Task : task[t][l] = "record"}}

\* A document dies, with the lock and the constructions that it holds.
Unload(t) ==
  /\ lock' = IF lock = t THEN None ELSE lock
  /\ ready' = [ready EXCEPT ![t] = None]
  /\ task' = [task EXCEPT ![t] = Fresh] /\ UNCHANGED pos
  /\ cut' = [m \in Mig |-> IF m \in CutBy(t) THEN cut[m] + 1 ELSE cut[m]]

\* reload_once: once in a browsing session the tab loads what is deployed now.
ReloadOnce(t) ==
  /\ ~flag[t] /\ flag' = [flag EXCEPT ![t] = TRUE]
  /\ bundle' = [bundle EXCEPT ![t] = deployed]
  /\ stage' = [stage EXCEPT ![t] = "loaded"]
  /\ Unload(t)

\* The user closes the tab, or it crashes.
Close(t) ==
  /\ stage[t] # "closed" /\ deaths < MaxDeaths
  /\ deaths' = deaths + 1
  /\ stage' = [stage EXCEPT ![t] = "closed"]
  /\ Unload(t)
  /\ UNCHANGED <<deployed, bundle, flag, epoch, ran, recorded, faults>>

\* Mutant: a database of the same release is refused.
StaleOrSame(t) == bundle[t] <= epoch

\* The stored epoch is newer than the bundle: VersionError.
Stale(t) == bundle[t] < epoch

\* ensure_local_compat: the epoch database opens at this bundle's version.
Gate(t) ==
  /\ stage[t] = "gating" /\ ~Stale(t)
  /\ epoch' = bundle[t] /\ stage' = [stage EXCEPT ![t] = "booting"]
  /\ UNCHANGED <<deployed, lock, bundle, flag, initVars, dbVars, deaths, faults>>

\* It refuses the bundle, or fails: a reload, or the tab stays inert.
GateRefuses(t) ==
  /\ stage[t] = "gating"
  /\ \/ Stale(t) /\ UNCHANGED faults
     \/ Fault
  /\ \/ ReloadOnce(t) /\ UNCHANGED <<ran, recorded>>
     \/ /\ flag[t] /\ stage' = [stage EXCEPT ![t] = "inert"]
        /\ UNCHANGED <<lock, bundle, flag, initVars, dbVars>>
  /\ UNCHANGED <<deployed, epoch, deaths>>

\* The server answers Hello with Incompatible: a reload, or only a banner.
Incompatible(t) ==
  /\ stage[t] = "serving" /\ bundle[t] # deployed
  /\ ReloadOnce(t)
  /\ UNCHANGED <<deployed, epoch, ran, recorded, deaths, faults>>

----------------------------------------------------------------------------
(* Pglite::init and the boot snippet. *)

SetTask(t, states) == task' = [task EXCEPT ![t] = states]
Goes(t, k, to) == SetTask(t, [task[t] EXCEPT ![k] = to])

\* run_leader calls it behind the gate, a query as soon as the tab leads.
Calls(t, k) == lock = t /\ task[t][k] = "idle" /\ (k = "leader" => stage[t] = "booting")

\* Mutant: every caller constructs a PGlite of its own.
InitAlone(t, k) ==
  /\ Calls(t, k)
  /\ Goes(t, k, "look")
  /\ ready' = [ready EXCEPT ![t] = k] /\ pos' = [pos EXCEPT ![t][k] = 1]
  /\ UNCHANGED <<deployed, tabVars, epoch, dbVars, deaths, faults>>

\* The first caller constructs PGlite, the others wait for the same promise.
PgliteInit(t, k) ==
  /\ Calls(t, k)
  /\ \/ /\ ready[t] = None
        /\ Goes(t, k, "look")
        /\ ready' = [ready EXCEPT ![t] = k] /\ pos' = [pos EXCEPT ![t][k] = 1]
     \/ /\ ready[t] # None
        /\ Goes(t, k, "joined")
        /\ UNCHANGED <<ready, pos>>
  /\ UNCHANGED <<deployed, tabVars, epoch, dbVars, deaths, faults>>

\* Mutant: the tracker is not asked.
LookUnseen(t, k) ==
  /\ task[t][k] = "look" /\ pos[t][k] <= bundle[t]
  /\ Goes(t, k, "exec")
  /\ UNCHANGED <<deployed, tabVars, ready, pos, epoch, dbVars, deaths, faults>>

\* Mutant: the loop runs one past the last migration.
LookPastEnd(t, k) ==
  /\ task[t][k] = "look" /\ pos[t][k] <= bundle[t] + 1
  /\ \/ /\ pos[t][k] \in recorded
        /\ pos' = [pos EXCEPT ![t][k] = @ + 1] /\ UNCHANGED task
     \/ /\ pos[t][k] \notin recorded
        /\ Goes(t, k, "exec") /\ UNCHANGED pos
  /\ UNCHANGED <<deployed, tabVars, ready, epoch, dbVars, deaths, faults>>

\* The loop looks the next migration up in the tracker.
Look(t, k) ==
  /\ task[t][k] = "look" /\ pos[t][k] <= bundle[t]
  /\ \/ /\ pos[t][k] \in recorded
        /\ pos' = [pos EXCEPT ![t][k] = @ + 1] /\ UNCHANGED task
     \/ /\ pos[t][k] \notin recorded
        /\ Goes(t, k, "exec") /\ UNCHANGED pos
  /\ UNCHANGED <<deployed, tabVars, ready, epoch, dbVars, deaths, faults>>

\* db.exec(m.up).
Exec(t, k) ==
  LET m == pos[t][k] IN
  /\ task[t][k] = "exec"
  /\ m \in Once => ran[m] = 0
  /\ ran' = [ran EXCEPT ![m] = @ + 1]
  /\ Goes(t, k, "record")
  /\ UNCHANGED <<deployed, tabVars, ready, pos, epoch, recorded, cut, deaths, faults>>

\* INSERT INTO meta, a statement of its own.
Record(t, k) ==
  LET m == pos[t][k] IN
  /\ task[t][k] = "record" /\ m \notin recorded
  /\ recorded' = recorded \cup {m}
  /\ pos' = [pos EXCEPT ![t][k] = @ + 1] /\ Goes(t, k, "look")
  /\ UNCHANGED <<deployed, tabVars, ready, epoch, ran, cut, deaths, faults>>

\* The promise is resolved: its callers go on.
Resolve(t) ==
  LET k == ready[t] IN
  /\ k # None
  /\ \/ task[t][k] = "done"
     \/ task[t][k] = "look" /\ pos[t][k] > bundle[t]
  /\ \E l \in Task : task[t][l] \in {"joined", "look"}
  /\ SetTask(t, [l \in Task |-> IF l = k \/ task[t][l] = "joined" THEN "done" ELSE task[t][l]])
  /\ stage' = IF stage[t] = "booting" /\ task'[t]["leader"] = "done"
                THEN [stage EXCEPT ![t] = "serving"] ELSE stage
  /\ UNCHANGED <<deployed, lock, bundle, flag, ready, pos, epoch, dbVars, deaths, faults>>

\* A query fails, run_leader gives up.
CallersFail(t) ==
  /\ SetTask(t, [l \in Task |-> IF task[t][l] = "done" THEN "done" ELSE "idle"])
  /\ stage' = IF stage[t] = "booting" /\ task[t]["leader"] # "idle"
                THEN [stage EXCEPT ![t] = "inert"] ELSE stage

\* Mutant: a rejected promise stays cached.
RejectKept(t) == CallersFail(t) /\ UNCHANGED ready

\* The promise is rejected, and dropped for the next call to start afresh.
Reject(t) == CallersFail(t) /\ ready' = [ready EXCEPT ![t] = None]

\* A statement of the construction fails.
InitFails(t) ==
  LET k == ready[t]  m == pos[t][k] IN
  /\ k # None /\ task[t][k] \in {"look", "exec", "record"}
  /\ \/ Fault
     \/ /\ \/ task[t][k] = "exec" /\ m \in Once /\ ran[m] > 0
           \/ task[t][k] = "record" /\ m \in recorded
        /\ UNCHANGED faults
  /\ Reject(t)
  /\ cut' = IF task[t][k] = "record" THEN [cut EXCEPT ![m] = @ + 1] ELSE cut
  /\ UNCHANGED <<deployed, lock, bundle, flag, pos, epoch, ran, recorded, deaths>>

----------------------------------------------------------------------------
Next ==
  \/ Deploy
  \/ \E t \in Tab :
       \/ Open(t) \/ Lead(t) \/ Close(t) \/ Gate(t) \/ GateRefuses(t) \/ Incompatible(t)
       \/ Resolve(t) \/ InitFails(t)
       \/ \E k \in Task : PgliteInit(t, k) \/ Look(t, k) \/ Exec(t, k) \/ Record(t, k)

Spec == Init /\ [][Next]_vars

\* The browser answers what it is asked, and the event loop goes on: a
\* construction ends, one way or the other.
Fairness ==
  \A t \in Tab :
    /\ WF_vars(Gate(t) \/ GateRefuses(t)) /\ WF_vars(PgliteInit(t, "leader"))
    /\ WF_vars(Resolve(t)) /\ WF_vars(InitFails(t))
    /\ \A k \in Task : WF_vars(Look(t, k)) /\ WF_vars(Exec(t, k)) /\ WF_vars(Record(t, k))

FairSpec == Spec /\ Fairness

----------------------------------------------------------------------------
(* What the boot guarantees. *)

Constructing(t, k) == task[t][k] \in {"look", "exec", "record"}

\* pglite-boot.js:9-14: callers that race share one construction, they never open
\* two modules on one IndexedDB directory; nor do two tabs, whose lock passes on
\* only when a document dies.
OneConstruction ==
  \A t, u \in Tab : \A k, l \in Task :
    Constructing(t, k) /\ Constructing(u, l) => t = u /\ k = l

\* The tracker applies each migration once: what is recorded has run, and a
\* migration runs again only when a run of it was cut off from its record.
MigratedOnce ==
  \A m \in Mig : (m \in recorded => ran[m] > 0) /\ ran[m] <= 1 + cut[m]

\* A tab that leads stays inert only for a reason: its build is too old, the
\* browser's databases failed, or a migration that cannot run twice had run and
\* was not recorded.  "Idempotent DDL keeps a half-applied set healable"
\* (pglite-boot.js:33) is meant to rule the last one out.
InertForCause ==
  \A t \in Tab : stage[t] = "inert" =>
    bundle[t] < epoch \/ faults > 0 \/ \E m \in Once : cut[m] > 0

\* Every caller of Pglite::init is answered, and so a boot ends.
CallsEnd ==
  \A t \in Tab : \A k \in Task :
    task[t][k] \notin {"idle", "done"} ~> task[t][k] \in {"idle", "done"}

\* sync.rs:64-67: the gate runs before PGlite boots, so a build that predates the
\* local database never leads it: a tab syncs only on a database with exactly the
\* migrations of its build.
LeadsItsOwn == \A t \in Tab : stage[t] = "serving" => recorded = 1 .. bundle[t]
=============================================================================
