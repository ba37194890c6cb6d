---------------------------- MODULE LiveQueries ----------------------------
(***************************************************************************)
(* Live queries across the tabs of a browser: every tab shows the answer   *)
(* of one query over the shared database, and is told to ask again when    *)
(* the database changes.  A change is a local call (Engine::write, with an *)
(* op, or Engine::exec, without) or one of another device; an answer is    *)
(* the set of changes it was read with.  The query depends on all of them. *)
(*                                                                         *)
(* The election and the relay are module Tabs's and the sync is OpLog's    *)
(* and Replay's: here a leader serves, its log and cursor are sets, and a  *)
(* window or a snapshot holds everything past the cursor.                  *)
(***************************************************************************)
EXTENDS Integers, Sequences, SequencesExt

CONSTANTS
  Tab,
  Call,          \* calls of write and exec
  Owner,         \* the tab of each
  Kind,          \* "write" or "exec"
  Remote,        \* changes made by other devices
  None,
  MaxDeaths,     \* bound: tabs closed
  MaxFaults      \* bound: failed inserts, statements and batches, ops quarantined

Change == Call \cup Remote

ASSUME CallsAssumption ==
  /\ Owner \in [Call -> Tab] /\ Kind \in [Call -> {"write", "exec"}]
  /\ Call \cap Remote = {}
ASSUME BoundsAssumption == MaxDeaths \in Nat /\ MaxFaults \in Nat

VARIABLES
  role,          \* Engine::role of each tab
  chan,          \* BroadcastChannel messages not delivered to a tab yet
  busy,          \* the message serve_tab is about to post
  dirty,         \* the rev signal was written: the resource is to restart
  run,           \* the resource's future
  rows,          \* what it has read
  shown,         \* the answer a tab shows
  phase,         \* where each call is
  db,            \* the changes in the database (durable)
  pending,       \* calls whose op is in pending_ops (durable)
  slog,          \* changes in the server's sync_log
  got,           \* those the saved cursor has passed (durable)
  sync,          \* the batch handle_msg is at
  cut,           \* changes whose bump died with a leader
  deaths, faults

queryVars == <<dirty, run, rows, shown>>
syncVars == <<pending, slog, got, sync, cut>>
vars == <<role, chan, busy, queryVars, phase, db, syncVars, deaths, faults>>

Bump == [kind |-> "bump"]
Rows(t, seen) == [kind |-> "rows", tab |-> t, seen |-> seen]
Done(c, ok) == [kind |-> "done", call |-> c, ok |-> ok]
RowsMsg == {Rows(t, seen) : t \in Tab, seen \in SUBSET Change}
DoneMsg == {Done(c, ok) : c \in Call, ok \in BOOLEAN}

ASSUME NoneAssumption == None \notin RowsMsg \cup DoneMsg

NoBatch == [at |-> "idle", ops |-> {}]

TypeOK ==
  /\ role \in [Tab -> {"follower", "leader", "dead"}]
  /\ chan \in [Tab -> Seq({Bump} \cup RowsMsg \cup DoneMsg)]
  /\ busy \in RowsMsg \cup DoneMsg \cup {None}
  /\ dirty \in [Tab -> BOOLEAN]
  /\ run \in [Tab -> {"idle", "local", "remote", "read"}]
  /\ rows \in [Tab -> SUBSET Change] /\ shown \in [Tab -> SUBSET Change]
  /\ phase \in [Call -> {"idle", "steps", "bump", "asked", "returned", "failed"}]
  /\ db \subseteq Change /\ pending \subseteq Call /\ slog \subseteq Change /\ got \subseteq slog
  /\ sync \in [at : {"idle", "events", "snapshot", "saved"}, ops : SUBSET slog]
  /\ cut \subseteq Change
  /\ deaths \in 0 .. MaxDeaths /\ faults \in 0 .. MaxFaults

\* The tabs are open, and each shows the database as it is.
Init ==
  /\ \E l \in Tab : role = [t \in Tab |-> IF t = l THEN "leader" ELSE "follower"]
  /\ chan = [t \in Tab |-> <<>>] /\ busy = None
  /\ dirty = [t \in Tab |-> FALSE] /\ run = [t \in Tab |-> "idle"]
  /\ rows = [t \in Tab |-> {}] /\ shown = [t \in Tab |-> {}]
  /\ phase = [c \in Call |-> "idle"]
  /\ db = {} /\ pending = {} /\ slog = {} /\ got = {} /\ sync = NoBatch /\ cut = {}
  /\ deaths = 0 /\ faults = 0

Live(t) == role[t] # "dead"
Leads(t) == role[t] = "leader"
NoLeader == \A t \in Tab : ~Leads(t)

Fault == faults < MaxFaults /\ faults' = faults + 1

\* A Bump to every other tab, behind what they have not received.
Announced(from, waiting) ==
  [t \in Tab |-> IF t # from /\ Live(t) THEN Append(waiting[t], Bump) ELSE waiting[t]]

\* Engine::bump: the tab's own queries, and in the leader everybody's.
Bumped(t, waiting) ==
  /\ dirty' = [dirty EXCEPT ![t] = TRUE]
  /\ chan' = IF Leads(t) THEN Announced(t, waiting) ELSE waiting
  /\ UNCHANGED <<run, rows, shown>>

----------------------------------------------------------------------------
(* Tabs. *)

\* The lock comes to a follower.
Promote(t) ==
  /\ role[t] = "follower" /\ NoLeader
  /\ role' = [role EXCEPT ![t] = "leader"]
  /\ UNCHANGED <<chan, busy, queryVars, phase, db, syncVars, deaths, faults>>

\* A tab dies; with the leader goes what it was serving and applying.
Die(t) ==
  /\ Live(t) /\ deaths < MaxDeaths
  /\ deaths' = deaths + 1
  /\ role' = [role EXCEPT ![t] = "dead"] /\ chan' = [chan EXCEPT ![t] = <<>>]
  /\ dirty' = [dirty EXCEPT ![t] = FALSE] /\ run' = [run EXCEPT ![t] = "idle"]
  /\ shown' = [shown EXCEPT ![t] = {}] /\ rows' = [rows EXCEPT ![t] = {}]
  /\ phase' = [c \in Call |-> IF Owner[c] = t /\ phase[c] # "returned" THEN "failed" ELSE phase[c]]
  /\ IF Leads(t)
       THEN /\ busy' = None /\ sync' = NoBatch
            /\ cut' = IF sync.at = "saved" THEN cut \cup sync.ops ELSE cut
       ELSE UNCHANGED <<busy, sync, cut>>
  /\ UNCHANGED <<db, pending, slog, got, faults>>

----------------------------------------------------------------------------
(* use_query. *)

\* The reply to the tab's request is on its way.
Underway(t, msg) == msg # None /\ msg.kind = "rows" /\ msg.tab = t
Answering(t) == {msg \in ToSet(chan[t]) \cup {busy} : Underway(t, msg)}

\* The messages but for that reply.
Unanswered(t, waiting) == RemoveFirstMatch(waiting, LAMBDA msg : Underway(t, msg))

\* Mutant: a restarted run takes the answer to the one before.
RestartUncancelled(t) ==
  /\ Live(t) /\ dirty[t]
  /\ dirty' = [dirty EXCEPT ![t] = FALSE]
  /\ run' = [run EXCEPT ![t] = IF Leads(t) THEN "local" ELSE "remote"]
  /\ UNCHANGED <<role, chan, busy, rows, shown, phase, db, syncVars, deaths, faults>>

\* The resource restarts: the run in flight is dropped, and whatever is still to
\* come under its request id is ignored.
Restart(t) ==
  /\ Live(t) /\ dirty[t]
  /\ dirty' = [dirty EXCEPT ![t] = FALSE]
  /\ run' = [run EXCEPT ![t] = IF Leads(t) THEN "local" ELSE "remote"]
  /\ chan' = [chan EXCEPT ![t] = Unanswered(t, @)]
  /\ busy' = IF Underway(t, busy) THEN None ELSE busy
  /\ rows' = [rows EXCEPT ![t] = {}]
  /\ UNCHANGED <<role, shown, phase, db, syncVars, deaths, faults>>

\* query_local, in the leading tab, reads...
Read(t) ==
  /\ Leads(t) /\ run[t] = "local"
  /\ run' = [run EXCEPT ![t] = "read"] /\ rows' = [rows EXCEPT ![t] = db]
  /\ UNCHANGED <<role, chan, busy, dirty, shown, phase, db, syncVars, deaths, faults>>

\* ...resolves.
Show(t) ==
  /\ run[t] = "read"
  /\ run' = [run EXCEPT ![t] = "idle"]
  /\ rows' = [rows EXCEPT ![t] = {}] /\ shown' = [shown EXCEPT ![t] = rows[t]]
  /\ UNCHANGED <<role, chan, busy, dirty, phase, db, syncVars, deaths, faults>>

\* serve_tab on the Query of a follower, which is asked again as long as no
\* answer comes.
ServeQuery(t, u) ==
  /\ Leads(t) /\ busy = None
  /\ t # u /\ run[u] = "remote" /\ Answering(u) = {}
  /\ busy' = Rows(u, db)
  /\ UNCHANGED <<role, chan, queryVars, phase, db, syncVars, deaths, faults>>

\* await_tab finds the rows, and query_remote resolves.
TakeRows(t) ==
  /\ chan[t] # <<>> /\ Underway(t, Head(chan[t]))
  /\ chan' = [chan EXCEPT ![t] = Tail(@)]
  /\ run' = [run EXCEPT ![t] = "idle"] /\ shown' = [shown EXCEPT ![t] = Head(chan[t]).seen]
  /\ UNCHANGED <<role, busy, dirty, rows, phase, db, syncVars, deaths, faults>>

\* recv_tab on a Bump; a tab that has come to lead passes it on.
RecvBump(t) ==
  /\ chan[t] # <<>> /\ Head(chan[t]) = Bump
  /\ Bumped(t, [chan EXCEPT ![t] = Tail(@)])
  /\ UNCHANGED <<role, busy, phase, db, syncVars, deaths, faults>>

----------------------------------------------------------------------------
(* write and exec. *)

Calls(c, from, to) == phase[c] = from /\ phase' = [phase EXCEPT ![c] = to]

\* In the leading tab: the op of a write, unless its INSERT fails...
Push(c) ==
  /\ Kind[c] = "write" /\ Leads(Owner[c]) /\ Calls(c, "idle", "steps")
  /\ \/ pending' = pending \cup {c} /\ UNCHANGED faults
     \/ Fault /\ UNCHANGED pending
  /\ UNCHANGED <<role, chan, busy, queryVars, db, slog, got, sync, cut, deaths>>

\* ...the statements...
RunLocal(c) ==
  /\ Leads(Owner[c]) /\ Calls(c, IF Kind[c] = "write" THEN "steps" ELSE "idle", "bump")
  /\ db' = db \cup {c}
  /\ UNCHANGED <<role, chan, busy, queryVars, syncVars, deaths, faults>>

\* ...of which one may fail, with those before it done and no bump...
RunLocalFails(c) ==
  /\ Leads(Owner[c]) /\ Calls(c, IF Kind[c] = "write" THEN "steps" ELSE "idle", "failed")
  /\ Fault
  /\ db' \in {db} \cup (IF Kind[c] = "write" THEN {db \cup {c}} ELSE {})
  /\ UNCHANGED <<role, chan, busy, queryVars, syncVars, deaths>>

\* ...and the bump.
BumpLocal(c) ==
  /\ Calls(c, "bump", "returned")
  /\ Bumped(Owner[c], chan)
  /\ UNCHANGED <<role, busy, db, syncVars, deaths, faults>>

\* In a follower: the op and the statements are relayed.  The Push is lost when
\* there is no leader, or with the one that was to serve it.
AskLeader(c) ==
  /\ role[Owner[c]] = "follower" /\ Calls(c, "idle", "asked")
  /\ \/ Kind[c] = "write" /\ pending' = pending \cup {c} /\ UNCHANGED faults
     \/ Kind[c] = "write" /\ NoLeader /\ UNCHANGED <<pending, faults>>
     \/ Kind[c] = "write" /\ Fault /\ UNCHANGED pending
     \/ Kind[c] = "exec" /\ UNCHANGED <<pending, faults>>
  /\ UNCHANGED <<role, chan, busy, queryVars, db, slog, got, sync, cut, deaths>>

Replied(c) == \E msg \in ToSet(chan[Owner[c]]) \cup {busy} :
  msg # None /\ msg.kind = "done" /\ msg.call = c

\* serve_tab on the Exec, which is asked again as long as no answer comes.
ServeExec(t, c) ==
  /\ Leads(t) /\ busy = None
  /\ t # Owner[c] /\ phase[c] = "asked" /\ ~Replied(c)
  /\ \/ busy' = Done(c, TRUE) /\ db' = db \cup {c} /\ UNCHANGED faults
     \/ busy' = Done(c, FALSE) /\ Fault /\ UNCHANGED db
  /\ UNCHANGED <<role, chan, queryVars, phase, syncVars, deaths>>

\* The statements of a write are relayed with nothing touched.
Touches(msg) == msg.kind = "done" /\ msg.ok /\ Kind[msg.call] = "exec"

Addressee(msg) == IF msg.kind = "rows" THEN msg.tab ELSE Owner[msg.call]

\* The reply reaches its tab, which has joined the channel if it lives.
Delivered(msg, waiting) ==
  [t \in Tab |-> IF t = Addressee(msg) /\ Live(t) THEN Append(waiting[t], msg) ELSE waiting[t]]

\* The leader bumps what the Exec touched and posts the reply.
SendReply(t) ==
  /\ Leads(t) /\ busy # None
  /\ busy' = None
  /\ IF Touches(busy)
       THEN /\ dirty' = [dirty EXCEPT ![t] = TRUE]
            /\ chan' = Delivered(busy, Announced(t, chan))
            /\ UNCHANGED <<run, rows, shown>>
       ELSE chan' = Delivered(busy, chan) /\ UNCHANGED queryVars
  /\ UNCHANGED <<role, phase, db, syncVars, deaths, faults>>

\* Mutant: the tab of a relayed write is left to the leader's bump.
TakeDoneSilent(t) ==
  LET msg == Head(chan[t])
  IN  /\ chan[t] # <<>> /\ msg.kind = "done"
      /\ Calls(msg.call, "asked", IF msg.ok THEN "returned" ELSE "failed")
      /\ chan' = [chan EXCEPT ![t] = Tail(@)]
      /\ UNCHANGED <<role, busy, queryVars, db, syncVars, deaths, faults>>

\* await_tab finds the reply to an Exec: a write bumps its own tab, an exec has
\* had its bump.
TakeDone(t) ==
  LET msg == Head(chan[t])
      waiting == [chan EXCEPT ![t] = Tail(@)]
  IN  /\ chan[t] # <<>> /\ msg.kind = "done"
      /\ Calls(msg.call, "asked", IF msg.ok THEN "returned" ELSE "failed")
      /\ IF msg.ok /\ Kind[msg.call] = "write"
           THEN Bumped(t, waiting)
           ELSE chan' = waiting /\ UNCHANGED queryVars
      /\ UNCHANGED <<role, busy, db, syncVars, deaths, faults>>

----------------------------------------------------------------------------
(* Sync. *)

\* Another device's change is committed.
Commit(r) ==
  /\ r \in Remote \ slog
  /\ slog' = slog \cup {r}
  /\ UNCHANGED <<role, chan, busy, queryVars, phase, db, pending, got, sync, cut, deaths, faults>>

\* The leader's session has an op committed, or quarantined, and retires its row.
Upload(t, c) ==
  /\ Leads(t) /\ c \in pending
  /\ pending' = pending \ {c}
  /\ \/ slog' = slog \cup {c} /\ UNCHANGED faults
     \/ Fault /\ UNCHANGED slog
  /\ UNCHANGED <<role, chan, busy, queryVars, phase, db, got, sync, cut, deaths>>

Idle(t) == Leads(t) /\ sync.at = "idle" /\ slog \ got # {}

\* Mutant: what the browser has still to upload counts as received.
ReceivePending(t) ==
  /\ Idle(t)
  /\ \E kind \in {"events", "snapshot"} : sync' = [at |-> kind, ops |-> (slog \cup pending) \ got]
  /\ db' = db \cup (slog \ got)
  /\ UNCHANGED <<role, chan, busy, queryVars, phase, pending, slog, got, cut, deaths, faults>>

\* Mutant: the server does not send a browser its own ops.
ReceiveForeign(t) ==
  /\ Idle(t)
  /\ \E kind \in {"events", "snapshot"} : sync' = [at |-> kind, ops |-> (slog \ got) \ Call]
  /\ db' = db \cup ((slog \ got) \ Call)
  /\ UNCHANGED <<role, chan, busy, queryVars, phase, pending, slog, got, cut, deaths, faults>>

\* handle_msg writes a window of Events, or a snapshot, into the database.
Receive(t) ==
  /\ Idle(t)
  /\ \E kind \in {"events", "snapshot"} : sync' = [at |-> kind, ops |-> slog \ got]
  /\ db' = db \cup (slog \ got)
  /\ UNCHANGED <<role, chan, busy, queryVars, phase, pending, slog, got, cut, deaths, faults>>

\* It fails on the way: no bump for what is written, and the cursor stays.
ReceiveFails(t) ==
  /\ Idle(t) /\ Fault
  /\ \E ops \in SUBSET (slog \ got) : db' = db \cup ops
  /\ UNCHANGED <<role, chan, busy, queryVars, phase, syncVars, deaths>>

\* A window is bumped, then the cursor saved...
FinishEvents(t) ==
  /\ Leads(t) /\ sync.at = "events"
  /\ Bumped(t, chan)
  /\ got' = got \cup sync.ops /\ sync' = NoBatch
  /\ UNCHANGED <<role, busy, phase, db, pending, slog, cut, deaths, faults>>

\* ...a snapshot's cursor is saved...
SaveSnapshot(t) ==
  /\ Leads(t) /\ sync.at = "snapshot"
  /\ got' = got \cup sync.ops /\ sync' = [sync EXCEPT !.at = "saved"]
  /\ UNCHANGED <<role, chan, busy, queryVars, phase, db, pending, slog, cut, deaths, faults>>

\* ...and then it is bumped.
FinishSnapshot(t) ==
  /\ Leads(t) /\ sync.at = "saved"
  /\ Bumped(t, chan)
  /\ sync' = NoBatch
  /\ UNCHANGED <<role, busy, phase, db, pending, slog, got, cut, deaths, faults>>

----------------------------------------------------------------------------
\* What a tab's event loop runs when it is ready: the resource, the channel, the
\* servicer and the session.
Works(t) ==
  \/ Restart(t) \/ Read(t) \/ TakeRows(t) \/ Show(t) \/ RecvBump(t) \/ TakeDone(t)
  \/ \E u \in Tab : ServeQuery(t, u)
  \/ \E c \in Call : ServeExec(t, c)
  \/ SendReply(t)
  \/ \E c \in Call : Upload(t, c)
  \/ Receive(t) \/ FinishEvents(t) \/ SaveSnapshot(t) \/ FinishSnapshot(t)

Next ==
  \/ \E t \in Tab : Promote(t) \/ Die(t) \/ Works(t) \/ ReceiveFails(t)
  \/ \E c \in Call : Push(c) \/ RunLocal(c) \/ RunLocalFails(c) \/ BumpLocal(c) \/ AskLeader(c)
  \/ \E r \in Remote : Commit(r)

Spec == Init /\ [][Next]_vars

\* The lock goes to a tab that waits for it, and the event loop of a tab goes on
\* while there is something to do; the session of a leader reconnects for ever.
\* Calls start and go on, tabs die and batches fail as they like.
Fairness == \A t \in Tab : WF_vars(Promote(t)) /\ WF_vars(Works(t))

FairSpec == Spec /\ Fairness

----------------------------------------------------------------------------
(* What a live query is worth. *)

\* Tab t will ask again, or is about to show an answer that has c.
Due(t, c) ==
  \/ dirty[t] \/ Bump \in ToSet(chan[t])
  \/ run[t] = "local"
  \/ run[t] = "read" /\ c \in rows[t]
  \/ run[t] = "remote" /\ \A msg \in Answering(t) : c \in msg.seen

\* The session has yet to tell the tabs of c.
EchoDue(c) == c \in (pending \cup slog) \ got \/ c \in sync.ops

\* The changes of which nobody has to hear: a write whose op was lost or
\* quarantined, an exec that has not returned, and what a snapshot brought whose
\* leader died.
Silent(c) ==
  \/ c \in cut
  \/ c \in Call /\ Kind[c] = "write" /\ c \notin pending \cup slog
  \/ c \in Call /\ Kind[c] = "exec" /\ phase[c] # "returned"

\* relay.rs:66-67, "a write anywhere re-runs the matching live queries in every
\* tab": a tab does not show what the database no longer says unless it is about
\* to ask again, or the server's echo will make it.
StaleIsOwed ==
  \A t \in Tab : Live(t) =>
    \A c \in db \ shown[t] : Due(t, c) \/ EchoDue(c) \/ Silent(c)

\* A call that has returned is in its own tab's answer, or about to be, whoever
\* ran its statement and whether or not there is a server: mod.rs:309-311,
\* "offline writes light up the UI identically".
OwnWritesSeen ==
  \A c \in Call : phase[c] = "returned" /\ Live(Owner[c]) =>
    c \in shown[Owner[c]] \/ Due(Owner[c], c)

\* What a tab shows never goes back: the answer of a run that was dropped, asked of
\* one leader or read by another, does not come in over a newer one.
NeverOlder == [][\A t \in Tab : Live(t)' => shown[t] \subseteq shown'[t]]_vars

\* The tabs keep catching up: again and again every live tab shows every change,
\* except one that was promoted with its request out, which waits for itself.
AllShown ==
  \A t \in Tab : Live(t) =>
    \/ \A c \in db \ shown[t] : Silent(c)
    \/ Leads(t) /\ run[t] = "remote"

EventuallyShown == []<>AllShown
=============================================================================
