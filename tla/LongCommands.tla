---------------------------- MODULE LongCommands ----------------------------
(***************************************************************************)
(* The long-command runner of the repository's opencode plugin: a job is   *)
(* spawned in the background, remembered in a state file, killed when it   *)
(* hangs, and reported to its session once, by the plugin that started it  *)
(* or by the next one.                                                     *)
(*                                                                         *)
(* A Job is one call of start_background_job that passes its guards; a     *)
(* refused call and a peek change nothing.  A process is known by its pid  *)
(* and start time, so it is the job's or it is gone.  The text of a report *)
(* and the order of the jobs in the file are left out.                     *)
(***************************************************************************)
EXTENDS Integers, Sequences, SequencesExt

CONSTANTS
  Job,
  Key,           \* the jobKey of each job
  Stack,         \* the jobs of class "stack"
  NoTimeout,     \* the jobs with timeout_min 0
  None,
  MaxRestarts,   \* bound: opencode stopped
  MaxFaults      \* bound: calls of the opencode client that fail

ASSUME NoneAssumption == None \notin Job
ASSUME BoundsAssumption == MaxRestarts \in Nat /\ MaxFaults \in Nat

VARIABLES
  up,            \* opencode runs, and the plugin in it
  proc,          \* the shell of each job
  phase,         \* where each job is in the plugin
  running,       \* the job under each key
  timer,         \* the stall timeout of each job
  chain,         \* stateChain: the mutations of the file not done yet
  step,          \* how far the first of them is
  snap,          \* what it read
  stale,         \* the entries of it older than a day, for the recovery
  awaits,        \* the orphan whose removal the recovery awaits
  file,          \* the jobs in STATE_FILE (durable)
  torn,          \* STATE_FILE is half written
  shown,         \* the jobs in the sidebar
  wakes,         \* the messages each job's session got
  restarts, faults

chainVars == <<chain, step, snap, stale, awaits>>
fileVars == <<file, torn>>
boundVars == <<restarts, faults>>
vars == <<up, proc, phase, running, timer, chainVars, fileVars, shown, wakes, boundVars>>

Keys == {Key[j] : j \in Job}

\* The mutations: persist(entry), persist(null, id), and the restart recovery.
AddEntry(j) == [op |-> "add", job |-> j]
DropEntry(j) == [op |-> "drop", job |-> j]
Recover == [op |-> "recover", job |-> None]
Mutation == {AddEntry(j) : j \in Job} \cup {DropEntry(j) : j \in Job} \cup {Recover}

\* Of this plugin: from the spawn on, until the report.
Started == {"spawned", "starting", "watched", "unwatched", "finished"}
\* Of an earlier one: read from the file, polled, taken off the file.
Adopted == {"orphan", "polling", "removing"}
Ended == {"woken", "unheard"}

TypeOK ==
  /\ up \in BOOLEAN
  /\ proc \in [Job -> {"none", "alive", "exited"}]
  /\ phase \in [Job -> {"idle", "left"} \cup Started \cup Adopted \cup Ended]
  /\ running \in [Keys -> Job \cup {None}]
  /\ timer \in [Job -> {"off", "armed", "term"}]
  /\ chain \in Seq(Mutation) /\ step \in {"ready", "read", "writing"}
  /\ chain = <<>> => step = "ready"
  /\ snap \subseteq Job /\ stale \subseteq snap /\ awaits \in Job \cup {None}
  /\ file \subseteq Job /\ torn \in BOOLEAN /\ shown \subseteq Job
  /\ wakes \in [Job -> Nat]
  /\ restarts \in 0 .. MaxRestarts /\ faults \in 0 .. MaxFaults

Init ==
  /\ up = TRUE
  /\ proc = [j \in Job |-> "none"] /\ phase = [j \in Job |-> "idle"]
  /\ running = [k \in Keys |-> None] /\ timer = [j \in Job |-> "off"]
  /\ chain = <<Recover>> /\ step = "ready" /\ snap = {} /\ stale = {} /\ awaits = None
  /\ file = {} /\ torn = FALSE /\ shown = {}
  /\ wakes = [j \in Job |-> 0]
  /\ restarts = 0 /\ faults = 0

Fault == faults < MaxFaults /\ faults' = faults + 1

Moves(j, from, to) == phase[j] = from /\ phase' = [phase EXCEPT ![j] = to]

\* persist and withState: the mutation runs when those before it are done.
Persist(m) == chain' = Append(chain, m) /\ UNCHANGED <<step, snap, stale, awaits>>

----------------------------------------------------------------------------
(* A job. *)

\* The stack-conflict guard: e2e and full runs share a Postgres.
StackBusy == \E k \in Keys : running[k] # None /\ running[k] \in Stack

\* execute: nothing runs under the key, nor another stack job; the shell is
\* spawned, and its start time is read from /proc.
Spawn(j) ==
  /\ up /\ Moves(j, "idle", "spawned")
  /\ running[Key[j]] = None /\ (j \in Stack => ~StackBusy)
  /\ proc' = [proc EXCEPT ![j] = "alive"]
  /\ UNCHANGED <<up, running, timer, chainVars, fileVars, shown, wakes, boundVars>>

\* The start time is there: the job is registered, persisted and timed.
Register(j) ==
  /\ Moves(j, "spawned", "starting")
  /\ running' = [running EXCEPT ![Key[j]] = j]
  /\ Persist(AddEntry(j))
  /\ timer' = [timer EXCEPT ![j] = IF j \in NoTimeout THEN "off" ELSE "armed"]
  /\ UNCHANGED <<up, proc, fileVars, shown, wakes, boundVars>>

\* The start is logged: the watcher waits for the shell, and execute returns...
Watch(j) ==
  /\ Moves(j, "starting", "watched")
  /\ UNCHANGED <<up, proc, running, timer, chainVars, fileVars, shown, wakes, boundVars>>

\* ...or the log call is rejected, and execute throws before the watcher.
WatchFails(j) ==
  /\ Moves(j, "starting", "unwatched")
  /\ Fault
  /\ UNCHANGED <<up, proc, running, timer, chainVars, fileVars, shown, wakes, restarts>>

\* The command ends.
Exit(j) ==
  /\ proc[j] = "alive"
  /\ proc' = [proc EXCEPT ![j] = "exited"]
  /\ UNCHANGED <<up, phase, running, timer, chainVars, fileVars, shown, wakes, boundVars>>

\* The stall timeout: SIGTERM, if there is still a job under the key.
Timeout(j) ==
  /\ timer[j] = "armed"
  /\ timer' = [timer EXCEPT ![j] = IF running[Key[j]] # None THEN "term" ELSE "off"]
  /\ UNCHANGED <<up, proc, phase, running, chainVars, fileVars, shown, wakes, boundVars>>

\* Mutant: the timeout relies on SIGTERM.
KillTermOnly(j) ==
  /\ timer[j] = "term"
  /\ timer' = [timer EXCEPT ![j] = "off"]
  /\ UNCHANGED <<up, proc, phase, running, chainVars, fileVars, shown, wakes, boundVars>>

\* SIGKILL, ten seconds later.
Kill(j) ==
  /\ timer[j] = "term"
  /\ timer' = [timer EXCEPT ![j] = "off"]
  /\ proc' = [proc EXCEPT ![j] = "exited"]
  /\ UNCHANGED <<up, phase, running, chainVars, fileVars, shown, wakes, boundVars>>

\* Mutant: the watcher leaves the entry in the file.
FinishUnsaved(j) ==
  /\ Moves(j, "watched", "finished") /\ proc[j] = "exited"
  /\ running' = [running EXCEPT ![Key[j]] = None]
  /\ timer' = [timer EXCEPT ![j] = IF @ = "armed" THEN "off" ELSE @]
  /\ UNCHANGED <<up, proc, chainVars, fileVars, shown, wakes, boundVars>>

\* The watcher sees the exit: off the map, off the file, without waiting for it.
Finish(j) ==
  /\ Moves(j, "watched", "finished") /\ proc[j] = "exited"
  /\ running' = [running EXCEPT ![Key[j]] = None]
  /\ timer' = [timer EXCEPT ![j] = IF @ = "armed" THEN "off" ELSE @]
  /\ Persist(DropEntry(j))
  /\ UNCHANGED <<up, proc, fileVars, shown, wakes, boundVars>>

\* wake: the session gets its message, or the prompt fails and is only logged.
Wake(j) ==
  \/ /\ phase' = [phase EXCEPT ![j] = "woken"]
     /\ wakes' = [wakes EXCEPT ![j] = @ + 1]
     /\ UNCHANGED faults
  \/ /\ phase' = [phase EXCEPT ![j] = "unheard"]
     /\ Fault /\ UNCHANGED wakes

\* The watcher has read the log.
Report(j) ==
  /\ phase[j] = "finished"
  /\ Wake(j)
  /\ UNCHANGED <<up, proc, running, timer, chainVars, fileVars, shown, restarts>>

----------------------------------------------------------------------------
(* The state file. *)

Recovering == chain # <<>> /\ Head(chain) = Recover

\* What a mutation reads: a file that does not parse has no jobs.
Readable == IF torn THEN {} ELSE file

\* The first mutation reads the file; the recovery takes in what is not stale.
ReadState ==
  /\ chain # <<>> /\ step = "ready"
  /\ step' = "read" /\ snap' = Readable
  /\ stale' \in IF Recovering THEN SUBSET Readable ELSE {{}}
  /\ phase' = [j \in Job |-> IF Recovering /\ j \in Readable \ stale' THEN "orphan" ELSE phase[j]]
  /\ UNCHANGED <<up, proc, running, timer, chain, awaits, fileVars, shown, wakes, boundVars>>

\* Mutant: the loop returns at its first orphan.
RecoveredEarly == awaits = None

\* The recovery has been through its orphans.
Recovered == awaits = None /\ \A j \in Job : phase[j] # "orphan"

\* Bun.write starts; a recovery writes only when there was something stale.
BeginWrite ==
  /\ step = "read"
  /\ Recovering => Recovered /\ stale # {}
  /\ step' = "writing" /\ torn' = TRUE
  /\ UNCHANGED <<up, proc, phase, running, timer, chain, snap, stale, awaits, file, shown, wakes, boundVars>>

\* Mutant: entries are told apart by their key.
WrittenByKey(m) ==
  CASE m.op = "add" -> snap \cup {m.job}
    [] m.op = "drop" -> {j \in snap : Key[j] # Key[m.job]}
    [] m.op = "recover" -> snap \ stale

\* Mutant: an entry is written when there is none to write.
WrittenAlways(m) ==
  CASE m.op = "add" -> snap \cup {m.job}
    [] m.op = "drop" -> (snap \ {m.job}) \cup {None}
    [] m.op = "recover" -> snap \ stale

\* The file a mutation writes.
Written(m) ==
  CASE m.op = "add" -> snap \cup {m.job}
    [] m.op = "drop" -> snap \ {m.job}
    [] m.op = "recover" -> snap \ stale

NextMutation == chain' = Tail(chain) /\ step' = "ready" /\ snap' = {} /\ stale' = {} /\ UNCHANGED awaits

EndWrite ==
  /\ step = "writing"
  /\ file' = Written(Head(chain)) /\ torn' = FALSE
  /\ NextMutation
  /\ UNCHANGED <<up, proc, phase, running, timer, shown, wakes, boundVars>>

\* Nothing was stale: the recovery ends without a write.
RecoverDone ==
  /\ Recovering /\ step = "read" /\ Recovered /\ stale = {}
  /\ NextMutation
  /\ UNCHANGED <<up, proc, phase, running, timer, fileVars, shown, wakes, boundVars>>

----------------------------------------------------------------------------
(* Restarts. *)

\* An orphan that is alive gets a poll of its own...
Adopt(j) ==
  /\ Recovering /\ awaits = None
  /\ Moves(j, "orphan", "polling") /\ proc[j] = "alive"
  /\ UNCHANGED <<up, proc, running, timer, chainVars, fileVars, shown, wakes, boundVars>>

\* Mutant: the recovery does not wait for the removal.
RecoverEndedUnawaited(j) ==
  /\ Recovering /\ awaits = None
  /\ Moves(j, "orphan", "removing") /\ proc[j] = "exited"
  /\ Persist(DropEntry(j))
  /\ UNCHANGED <<up, proc, running, timer, fileVars, shown, wakes, boundVars>>

\* ...one that is gone is taken off the file, and the recovery waits for that.
RecoverEnded(j) ==
  /\ Recovering /\ awaits = None
  /\ Moves(j, "orphan", "removing") /\ proc[j] = "exited"
  /\ awaits' = j /\ chain' = Append(chain, DropEntry(j))
  /\ UNCHANGED <<up, proc, running, timer, step, snap, stale, fileVars, shown, wakes, boundVars>>

\* The poll finds the process gone: it stops, and takes the job off the file.
PollExit(j) ==
  /\ Moves(j, "polling", "removing") /\ proc[j] = "exited"
  /\ Persist(DropEntry(j))
  /\ UNCHANGED <<up, proc, running, timer, fileVars, shown, wakes, boundVars>>

\* The removal is done, and whoever waited for it, a poll or the recovery, wakes
\* the session.
ReportOrphan(j) ==
  /\ phase[j] = "removing" /\ DropEntry(j) \notin ToSet(chain)
  /\ Wake(j)
  /\ awaits' = IF awaits = j THEN None ELSE awaits
  /\ UNCHANGED <<up, proc, running, timer, chain, step, snap, stale, fileVars, shown, restarts>>

\* opencode stops, or is killed; the jobs go on.
Stop ==
  /\ up /\ restarts < MaxRestarts
  /\ restarts' = restarts + 1
  /\ up' = FALSE
  /\ phase' = [j \in Job |-> IF phase[j] \in Started \cup Adopted THEN "left" ELSE phase[j]]
  /\ running' = [k \in Keys |-> None] /\ timer' = [j \in Job |-> "off"]
  /\ chain' = <<>> /\ step' = "ready" /\ snap' = {} /\ stale' = {} /\ awaits' = None
  /\ shown' = {}
  /\ UNCHANGED <<proc, fileVars, wakes, faults>>

\* It starts again, and the plugin with it.
Restart ==
  /\ ~up
  /\ up' = TRUE /\ chain' = <<Recover>>
  /\ UNCHANGED <<proc, phase, running, timer, step, snap, stale, awaits, fileVars, shown, wakes, boundVars>>

\* The sidebar reads the file every second; a half-written one changes nothing.
Poll ==
  /\ up /\ shown # file /\ ~torn
  /\ shown' = file
  /\ UNCHANGED <<up, proc, phase, running, timer, chainVars, fileVars, wakes, boundVars>>

----------------------------------------------------------------------------
Next ==
  \/ \E j \in Job : Spawn(j) \/ Register(j) \/ Watch(j) \/ WatchFails(j) \/ Exit(j)
                    \/ Timeout(j) \/ Kill(j) \/ Finish(j) \/ Report(j)
  \/ ReadState \/ BeginWrite \/ EndWrite \/ RecoverDone
  \/ \E j \in Job : Adopt(j) \/ RecoverEnded(j) \/ PollExit(j) \/ ReportOrphan(j)
  \/ Stop \/ Restart \/ Poll

Spec == Init /\ [][Next]_vars

\* The event loop runs what is ready, timers fire and files are read and written.
\* Commands may hang, calls start and opencode stops when they like.
Fairness ==
  /\ WF_vars(ReadState) /\ WF_vars(BeginWrite \/ EndWrite) /\ WF_vars(RecoverDone)
  /\ WF_vars(Poll)
  /\ \A j \in Job :
       /\ WF_vars(Register(j)) /\ WF_vars(Watch(j) \/ WatchFails(j))
       /\ WF_vars(Timeout(j)) /\ WF_vars(Kill(j))
       /\ WF_vars(Finish(j)) /\ WF_vars(Report(j))
       /\ WF_vars(Adopt(j) \/ RecoverEnded(j))
       /\ WF_vars(PollExit(j)) /\ WF_vars(ReportOrphan(j))

FairSpec == Spec /\ Fairness

----------------------------------------------------------------------------
(* What the runner guarantees. *)

\* The jobs whose end is still to be reported, or that nobody watches.
Tracked == {j \in Job : phase[j] \in {"starting", "watched", "unwatched", "orphan", "polling"}}

\* STATE_FILE once the mutations under way are done.
FileToBe ==
  LET base == IF step = "ready" THEN Readable ELSE snap
  IN  {j \in Job : /\ j \in base \ stale \/ AddEntry(j) \in ToSet(chain)
                   /\ DropEntry(j) \notin ToSet(chain)}

\* The comment of withState: the mutations of concurrent executes, watchers and
\* polls are serialised.  However their reads and writes fall, none undoes
\* another: once recovery has read it, the file is on its way to exactly the jobs
\* still to be reported, so a restart forgets none and resurrects none.
Remembered == up /\ ~(Recovering /\ step = "ready") => FileToBe = Tracked

\* "ONE wake on finish": no session is told twice of a job, across restarts too,
\* nor of one whose shell still runs.  The watcher does not wait for its removal
\* from the file, so a restart may find the entry of a job already reported: it
\* is the recovery's waiting for itself that keeps the second message back.
OneWake == \A j \in Job : wakes[j] <= 1 /\ (wakes[j] = 1 => proc[j] = "exited")

\* "A hung job is killed and STILL wakes the session": a watched job with a
\* timeout is reported, or opencode stops, or another job took its key.
StillWoken ==
  \A j \in Job \ NoTimeout :
    phase[j] = "watched" ~> phase[j] # "watched" \/ running[Key[j]] # j

\* "A job that outlives an opencode restart still wakes the session it was queued
\* from": the orphans whose process is gone are reported, or opencode stops
\* again, or the recovery has come to wait for itself.
OrphansWoken ==
  \A j \in Job :
    phase[j] \in Adopted /\ proc[j] = "exited" ~> phase[j] \notin Adopted \/ awaits # None

\* "A real finish is the entry actually disappearing": the sidebar drops a job
\* that was reported, unless the recovery waits for itself.
ListClears == \A j \in Job : phase[j] \in Ended ~> j \notin shown \/ awaits # None
=============================================================================
