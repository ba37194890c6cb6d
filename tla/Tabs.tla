-------------------------------- MODULE Tabs --------------------------------
(***************************************************************************)
(* The tabs of one browser: a Web Lock elects the leader, which owns the   *)
(* only live database; the other tabs send it their reads and writes over  *)
(* a BroadcastChannel and wait for its replies, and one of them takes over *)
(* when the leader's document dies.                                        *)
(*                                                                         *)
(* A call is an Engine::query or an Engine::write of one op and one        *)
(* statement.  What push_local does with the op is module OpLog's; here it *)
(* is in the op log or not.  Status and Bump messages, which only change   *)
(* what a tab shows, are left out.                                         *)
(***************************************************************************)
EXTENDS Integers, Sequences, SequencesExt

CONSTANTS
  Tab,
  Call,
  Owner,         \* the tab a call is made in
  Kind,          \* what it is, "query" or "write"
  None,          \* no tab, no message
  Ids,           \* bound: request ids of a tab, reused after that
  MaxDeaths,     \* bound: tabs closed
  MaxStalls,     \* bound: requests given up although the answer is on its way
  MaxDbFaults    \* bound: leaders that do not boot, statements that fail

ASSUME CallsAssumption ==
  /\ Owner \in [Call -> Tab] /\ Kind \in [Call -> {"query", "write"}]
  /\ None \notin Tab
ASSUME BoundsAssumption ==
  Ids \in Nat \ {0} /\ MaxDeaths \in Nat /\ MaxStalls \in Nat /\ MaxDbFaults \in Nat

VARIABLES
  stage,         \* where each tab is in run
  lock,          \* the holder of TAB_LOCK
  queue,         \* lock requests the browser has queued
  chan,          \* BroadcastChannel messages not delivered to a tab yet
  inbox,         \* tab_inbox
  busy,          \* the reply of the request serve_tab has just run
  replies,       \* tab_replies
  nextReq,       \* next_req
  phase,         \* where each call is
  asked,         \* the id a call waits for
  answer,        \* the call whose reply it got
  log,           \* writes whose op is in the op log (durable)
  rows,          \* writes whose statement has run (durable)
  deaths, stalls, dbFaults

lockVars == <<stage, lock, queue>>
relayVars == <<inbox, busy, replies>>
callVars == <<nextReq, phase, asked, answer>>
dbVars == <<log, rows>>
boundVars == <<deaths, stalls, dbFaults>>
vars == <<lockVars, chan, relayVars, callVars, dbVars, boundVars>>

Id == 0 .. Ids - 1
Msg == [kind : {"query", "exec", "push"}, id : Id, call : Call]
Reply == [kind : {"rows", "done"}, id : Id, call : Call, ok : BOOLEAN]

TypeOK ==
  /\ stage \in [Tab -> {"closed", "opened", "following", "leading", "serving", "inert", "dead"}]
  /\ lock \in Tab \cup {None}
  /\ queue \in Seq(Tab)
  /\ chan \in [Tab -> Seq(Msg \cup Reply)]
  /\ inbox \in [Tab -> Seq(Msg)]
  /\ busy \in [Tab -> Reply \cup {None}]
  /\ replies \in [Tab -> [Id -> Reply \cup {None}]]
  /\ nextReq \in [Tab -> Id]
  /\ phase \in [Call -> {"idle", "steps", "waiting", "returned", "failed"}]
  /\ asked \in [Call -> Id]
  /\ answer \in [Call -> Call \cup {None}]
  /\ log \subseteq Call /\ rows \subseteq Call
  /\ deaths \in 0 .. MaxDeaths /\ stalls \in 0 .. MaxStalls /\ dbFaults \in 0 .. MaxDbFaults

Init ==
  /\ stage = [t \in Tab |-> "closed"]
  /\ lock = None /\ queue = <<>>
  /\ chan = [t \in Tab |-> <<>>] /\ inbox = [t \in Tab |-> <<>>]
  /\ busy = [t \in Tab |-> None] /\ replies = [t \in Tab |-> [i \in Id |-> None]]
  /\ nextReq = [t \in Tab |-> 0]
  /\ phase = [c \in Call |-> "idle"] /\ asked = [c \in Call |-> 0] /\ answer = [c \in Call |-> None]
  /\ log = {} /\ rows = {}
  /\ deaths = 0 /\ stalls = 0 /\ dbFaults = 0

Live(t) == stage[t] \notin {"closed", "dead"}
\* Role::Leader, set first thing in run_leader.
Leads(t) == stage[t] \in {"leading", "serving", "inert"}

DbFault == dbFaults < MaxDbFaults /\ dbFaults' = dbFaults + 1

\* In an inert tab every use of the database opens it anew, and may well fail.
FaultIn(t) == IF stage[t] = "inert" THEN UNCHANGED dbFaults ELSE DbFault

\* A posted message goes to every other tab that has joined the channel.
Post(from, msgs) ==
  chan' = [t \in Tab |-> IF t # from /\ Live(t) THEN chan[t] \o msgs ELSE chan[t]]

----------------------------------------------------------------------------
(* The election. *)

\* A tab opens, joins the channel and asks for the lock if it is free.
Open(t) ==
  /\ stage[t] = "closed"
  /\ stage' = [stage EXCEPT ![t] = "opened"]
  /\ lock' = IF lock = None /\ queue = <<>> THEN t ELSE lock
  /\ UNCHANGED <<queue, chan, relayVars, callVars, dbVars, boundVars>>

\* It did not get the lock: it follows, and queues for it.
Follow(t) ==
  /\ stage[t] = "opened" /\ lock # t
  /\ stage' = [stage EXCEPT ![t] = "following"]
  /\ queue' = Append(queue, t)
  /\ UNCHANGED <<lock, chan, relayVars, callVars, dbVars, boundVars>>

\* The browser hands a free lock to the first tab that waits for it.
Grant ==
  /\ lock = None /\ queue # <<>>
  /\ lock' = Head(queue) /\ queue' = Tail(queue)
  /\ UNCHANGED <<stage, chan, relayVars, callVars, dbVars, boundVars>>

\* Mutant: a follower leads as soon as nobody holds the lock.
LeadUnlocked(t) ==
  /\ lock \in {t, None} /\ stage[t] \in {"opened", "following"}
  /\ stage' = [stage EXCEPT ![t] = "leading"]
  /\ UNCHANGED <<lock, queue, chan, relayVars, callVars, dbVars, boundVars>>

\* run_leader starts in the tab that holds it.
Lead(t) ==
  /\ lock = t /\ stage[t] \in {"opened", "following"}
  /\ stage' = [stage EXCEPT ![t] = "leading"]
  /\ UNCHANGED <<lock, queue, chan, relayVars, callVars, dbVars, boundVars>>

\* The database opens and serve_tabs is spawned...
Boot(t) ==
  /\ stage[t] = "leading"
  /\ stage' = [stage EXCEPT ![t] = "serving"]
  /\ UNCHANGED <<lock, queue, chan, relayVars, callVars, dbVars, boundVars>>

\* ...or the epoch gate or PGlite fails: the tab keeps the lock and the role,
\* but serves nobody.
BootFails(t) ==
  /\ stage[t] = "leading"
  /\ DbFault
  /\ stage' = [stage EXCEPT ![t] = "inert"]
  /\ UNCHANGED <<lock, queue, chan, relayVars, callVars, dbVars, deaths, stalls>>

\* The tab is closed, reloads or crashes: the browser frees its lock.
Die(t) ==
  /\ Live(t) /\ deaths < MaxDeaths
  /\ deaths' = deaths + 1
  /\ stage' = [stage EXCEPT ![t] = "dead"]
  /\ lock' = IF lock = t THEN None ELSE lock
  /\ \/ \E i \in DOMAIN queue : queue[i] = t /\ queue' = RemoveAt(queue, i)
     \/ t \notin ToSet(queue) /\ UNCHANGED queue
  /\ chan' = [chan EXCEPT ![t] = <<>>] /\ inbox' = [inbox EXCEPT ![t] = <<>>]
  /\ busy' = [busy EXCEPT ![t] = None] /\ replies' = [replies EXCEPT ![t] = [i \in Id |-> None]]
  /\ phase' = [c \in Call |-> IF Owner[c] = t /\ phase[c] # "returned" THEN "failed" ELSE phase[c]]
  /\ UNCHANGED <<nextReq, asked, answer, dbVars, stalls, dbFaults>>

----------------------------------------------------------------------------
(* The leader serves. *)

\* Mutant: a leader queues whatever arrives.
RecvUnsorted(t) ==
  /\ chan[t] # <<>>
  /\ chan' = [chan EXCEPT ![t] = Tail(@)]
  /\ inbox' = IF Leads(t) THEN [inbox EXCEPT ![t] = Append(@, Head(chan[t]))] ELSE inbox
  /\ UNCHANGED <<lockVars, busy, replies, callVars, dbVars, boundVars>>

\* recv_tab: a request is for a leader, a reply is kept under its id.
Recv(t) ==
  /\ chan[t] # <<>>
  /\ chan' = [chan EXCEPT ![t] = Tail(@)]
  /\ LET m == Head(chan[t]) IN
     \/ /\ m \in Msg
        /\ inbox' = IF Leads(t) THEN [inbox EXCEPT ![t] = Append(@, m)] ELSE inbox
        /\ UNCHANGED <<busy, replies>>
     \/ /\ m \in Reply
        /\ replies' = [replies EXCEPT ![t][m.id] = m]
        /\ UNCHANGED <<inbox, busy>>
  /\ UNCHANGED <<lockVars, callVars, dbVars, boundVars>>

Serves(t, kind) ==
  /\ stage[t] = "serving" /\ busy[t] = None
  /\ inbox[t] # <<>> /\ Head(inbox[t]).kind = kind
  /\ inbox' = [inbox EXCEPT ![t] = Tail(@)]

Answer(t, kind, ok) ==
  LET m == Head(inbox[t]) IN
  busy' = [busy EXCEPT ![t] = [kind |-> kind, id |-> m.id, call |-> m.call, ok |-> ok]]

\* serve_tab on a Query, which may fail.
ServeQuery(t) ==
  /\ Serves(t, "query")
  /\ \/ Answer(t, "rows", TRUE) /\ UNCHANGED dbFaults
     \/ Answer(t, "rows", FALSE) /\ DbFault
  /\ UNCHANGED <<lockVars, chan, replies, callVars, dbVars, deaths, stalls>>

\* Mutant: the leader answers Done although the statement failed.
ServeExecDone(t) ==
  /\ Serves(t, "exec")
  /\ Answer(t, "done", TRUE)
  /\ \/ rows' = rows \cup {Head(inbox[t]).call} /\ UNCHANGED dbFaults
     \/ DbFault /\ UNCHANGED rows
  /\ UNCHANGED <<lockVars, chan, replies, callVars, log, deaths, stalls>>

\* serve_tab on an Exec; the statement may fail.
ServeExec(t) ==
  /\ Serves(t, "exec")
  /\ \/ /\ rows' = rows \cup {Head(inbox[t]).call}
        /\ Answer(t, "done", TRUE) /\ UNCHANGED dbFaults
     \/ Answer(t, "done", FALSE) /\ DbFault /\ UNCHANGED rows
  /\ UNCHANGED <<lockVars, chan, replies, callVars, log, deaths, stalls>>

\* push_local: the op gets into the log, or its loss is published (LAST_ERROR).
Record(t, c) ==
  \/ log' = log \cup {c} /\ UNCHANGED dbFaults
  \/ FaultIn(t) /\ UNCHANGED log

\* serve_tab on a Push: no reply.
ServePush(t) ==
  /\ Serves(t, "push")
  /\ Record(t, Head(inbox[t]).call)
  /\ UNCHANGED <<lockVars, chan, busy, replies, callVars, rows, deaths, stalls>>

\* The statement has run: the reply is posted, to every tab.
SendReply(t) ==
  /\ busy[t] # None
  /\ Post(t, <<busy[t]>>)
  /\ busy' = [busy EXCEPT ![t] = None]
  /\ UNCHANGED <<lockVars, inbox, replies, callVars, dbVars, boundVars>>

----------------------------------------------------------------------------
(* The calls. *)

\* write in a leading tab: the op first.
PushLocal(c) ==
  /\ phase[c] = "idle" /\ Kind[c] = "write" /\ Leads(Owner[c])
  /\ Record(Owner[c], c)
  /\ phase' = [phase EXCEPT ![c] = "steps"]
  /\ UNCHANGED <<lockVars, chan, relayVars, nextReq, asked, answer, rows, deaths, stalls>>

\* The statement, or the query, runs in the leading tab...
RunLocal(c) ==
  /\ Leads(Owner[c])
  /\ phase[c] = (IF Kind[c] = "write" THEN "steps" ELSE "idle")
  /\ phase' = [phase EXCEPT ![c] = "returned"]
  /\ rows' = IF Kind[c] = "write" THEN rows \cup {c} ELSE rows
  /\ UNCHANGED <<lockVars, chan, relayVars, nextReq, asked, answer, log, boundVars>>

\* ...or fails.
RunLocalFails(c) ==
  /\ Leads(Owner[c])
  /\ phase[c] = (IF Kind[c] = "write" THEN "steps" ELSE "idle")
  /\ FaultIn(Owner[c])
  /\ phase' = [phase EXCEPT ![c] = "failed"]
  /\ UNCHANGED <<lockVars, chan, relayVars, nextReq, asked, answer, dbVars, deaths, stalls>>

\* A request goes out under the tab's next id, behind what precedes it.
Request(c, preceding) ==
  LET t == Owner[c]
      kind == IF Kind[c] = "write" THEN "exec" ELSE "query"
  IN  /\ Post(t, Append(preceding, [kind |-> kind, id |-> nextReq[t], call |-> c]))
      /\ asked' = [asked EXCEPT ![c] = nextReq[t]]
      /\ nextReq' = [nextReq EXCEPT ![t] = (@ + 1) % Ids]

\* The Push of a write; it has no id, as nothing answers it.
PushMsg(c) == [kind |-> "push", id |-> 0, call |-> c]

\* Mutant: the statement goes out before the op.
AskLeaderOpLast(c) ==
  /\ phase[c] = "idle" /\ stage[Owner[c]] = "following" /\ Kind[c] = "write"
  /\ Post(Owner[c], <<[kind |-> "exec", id |-> nextReq[Owner[c]], call |-> c], PushMsg(c)>>)
  /\ asked' = [asked EXCEPT ![c] = nextReq[Owner[c]]]
  /\ nextReq' = [nextReq EXCEPT ![Owner[c]] = (@ + 1) % Ids]
  /\ phase' = [phase EXCEPT ![c] = "waiting"]
  /\ UNCHANGED <<lockVars, relayVars, answer, dbVars, boundVars>>

\* query or write in a following tab: the op and the statement go to the leader.
AskLeader(c) ==
  /\ phase[c] = "idle" /\ stage[Owner[c]] = "following"
  /\ Request(c, IF Kind[c] = "write" THEN <<PushMsg(c)>> ELSE <<>>)
  /\ phase' = [phase EXCEPT ![c] = "waiting"]
  /\ UNCHANGED <<lockVars, relayVars, answer, dbVars, boundVars>>

\* await_tab finds a reply under the id.  One of the other kind counts as none,
\* and the request goes out again.
TakeReply(c) ==
  LET t == Owner[c]
      r == replies[t][asked[c]]
  IN  /\ phase[c] = "waiting" /\ r # None
      /\ replies' = [replies EXCEPT ![t][asked[c]] = None]
      /\ IF r.kind = (IF Kind[c] = "write" THEN "done" ELSE "rows")
           THEN /\ phase' = [phase EXCEPT ![c] = IF r.ok THEN "returned" ELSE "failed"]
                /\ answer' = [answer EXCEPT ![c] = r.call]
                /\ UNCHANGED <<chan, nextReq, asked>>
           ELSE Request(c, <<>>) /\ UNCHANGED <<phase, answer>>
      /\ UNCHANGED <<lockVars, inbox, busy, dbVars, boundVars>>

\* The request or its reply is still on its way.
Underway(c) ==
  \E t \in Tab : \E m \in ToSet(chan[t]) \cup ToSet(inbox[t]) \cup {busy[t]} :
    m # None /\ m.kind # "push" /\ m.call = c /\ m.id = asked[c]

\* Mutant: a request that times out is not sent again.
GivesUpWaiting(c) ==
  /\ phase[c] = "waiting" /\ replies[Owner[c]][asked[c]] = None
  /\ ~Underway(c)
  /\ UNCHANGED vars

\* Nothing came for five seconds: query_remote and exec_remote ask again,
\* whatever the tab's role is by then.
AskAgain(c) ==
  /\ phase[c] = "waiting" /\ replies[Owner[c]][asked[c]] = None
  /\ \/ ~Underway(c) /\ UNCHANGED stalls
     \/ Underway(c) /\ stalls < MaxStalls /\ stalls' = stalls + 1
  /\ Request(c, <<>>)
  /\ UNCHANGED <<lockVars, relayVars, phase, answer, dbVars, deaths, dbFaults>>

----------------------------------------------------------------------------
Next ==
  \/ \E t \in Tab : Open(t) \/ Follow(t) \/ Lead(t) \/ Boot(t) \/ BootFails(t) \/ Die(t)
  \/ Grant
  \/ \E t \in Tab : Recv(t) \/ ServeQuery(t) \/ ServeExec(t) \/ ServePush(t) \/ SendReply(t)
  \/ \E c \in Call : PushLocal(c) \/ RunLocal(c) \/ RunLocalFails(c)
                     \/ AskLeader(c) \/ TakeReply(c) \/ AskAgain(c)

Spec == Init /\ [][Next]_vars

\* The browser's lock and channel, the leader's tasks and the timers of the tabs
\* keep going; tabs open, calls start and things fail when they like.
Fairness ==
  /\ WF_vars(Grant)
  /\ \A t \in Tab :
       /\ WF_vars(Follow(t)) /\ WF_vars(Lead(t)) /\ WF_vars(Boot(t) \/ BootFails(t))
       /\ WF_vars(Recv(t)) /\ WF_vars(SendReply(t))
       /\ WF_vars(ServeQuery(t) \/ ServeExec(t) \/ ServePush(t))
  /\ \A c \in Call : WF_vars(TakeReply(c)) /\ WF_vars(AskAgain(c))

FairSpec == Spec /\ Fairness

----------------------------------------------------------------------------
(* What the tabs of a browser rely on. *)

\* tabs.rs:1-8, relay.rs:18-19: two instances over one IndexedDB lose writes.
\* At any time at most one tab is in the leader's role, the one that holds the
\* lock, and no other has a request to serve or a reply to send.
OneEngine ==
  /\ \A t \in Tab : Leads(t) => lock = t
  /\ \A t \in Tab : inbox[t] # <<>> \/ busy[t] # None => Leads(t)

\* mod.rs:323-331, 358-374: the op is in the log first.  No statement runs while its op is
\* still on its way to the same leader: an op that is not there yet is lost, with
\* a leader or before there was one, and never just late.
OpNotOvertaken ==
  [][\A c \in Call : c \in rows' \ rows =>
       \/ c \in log
       \/ \A t \in Tab : Leads(t) =>
            \A m \in ToSet(inbox[t]) \cup ToSet(chan[t]) : m # PushMsg(c)]_vars

\* relay.rs:167-206: a request is repeated until something answers it, and whatever
\* leader that comes from, and with ids that two tabs may share, the answer a call
\* returns with is true: the statement of the Done it took has run, its own or (as
\* OwnAnswers says) another's, and what answers a query are rows.
AnswersHold ==
  \A c \in Call : phase[c] = "returned" =>
    IF Kind[c] = "write" THEN {c, answer[c]} \cap rows # {}
                         ELSE answer[c] = None \/ Kind[answer[c]] = "query"

\* relay.rs:173-176, 197-205: a leader can die mid-request, and the fresh leader
\* answers.  A call waits for ever only in a tab that has come to lead itself, or
\* behind a leader that could not boot.
EventuallyAnswered ==
  \A c \in Call :
    phase[c] = "waiting" ~> \/ phase[c] \in {"returned", "failed"}
                            \/ Leads(Owner[c])
                            \/ \E t \in Tab : stage[t] = "inert"

\* mod.rs:121, relay.rs:157: tab_replies has the replies to this tab's own
\* requests.  No call is answered with what another one asked for.
OwnAnswers == \A c \in Call : answer[c] \in {c, None}
=============================================================================
