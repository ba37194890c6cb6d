----------------------------- MODULE TabsProofs -----------------------------
(***************************************************************************)
(* One tab at a time has the database, an op is never behind the statement *)
(* that wrote its row, and what a call is told is true, for any number of  *)
(* tabs, calls, deaths and faults.                                         *)
(***************************************************************************)
EXTENDS Tabs, SeqLemmas

USE CallsAssumption, BoundsAssumption DEF CallsAssumption, BoundsAssumption

Channels == [Tab -> Seq(Msg \cup Reply)]

\* Posting puts the messages on channels only.
LEMMA PostType ==
  ASSUME TypeOK, NEW from \in Tab, NEW msgs \in Seq(Msg \cup Reply), Post(from, msgs)
  PROVE  chan' \in Channels
<1>1. \A t \in Tab : chan[t] \in Seq(Msg \cup Reply)
  BY DEF TypeOK
<1>2. \A t \in Tab : chan[t] \o msgs \in Seq(Msg \cup Reply)
  BY <1>1
<1>. QED
  BY <1>1, <1>2 DEF Post, Channels

\* So does a request, which takes the next id.
LEMMA RequestType ==
  ASSUME TypeOK, NEW c \in Call, NEW preceding \in Seq(Msg), Request(c, preceding)
  PROVE  chan' \in Channels /\ asked' \in [Call -> Id] /\ nextReq' \in [Tab -> Id]
<1>. DEFINE t == Owner[c]
            kind == IF Kind[c] = "write" THEN "exec" ELSE "query"
            m == [kind |-> kind, id |-> nextReq[t], call |-> c]
<1>1. t \in Tab /\ nextReq[t] \in Id
  BY DEF TypeOK
<1>2. m \in Msg
  BY <1>1 DEF Msg
<1>3. Append(preceding, m) \in Seq(Msg \cup Reply)
  <2>1. preceding \in Seq(Msg \cup Reply)
    OBVIOUS
  <2>. HIDE DEF m
  <2>. QED
    BY <1>2, <2>1
<1>4. Post(t, Append(preceding, m))
  BY DEF Request
<1>5. (nextReq[t] + 1) % Ids \in Id
  BY <1>1 DEF Id
<1>. HIDE DEF m, kind
<1>6. chan' \in Channels
  BY <1>1, <1>3, <1>4, PostType
<1>7. asked' = [asked EXCEPT ![c] = nextReq[t]] /\ nextReq' = [nextReq EXCEPT ![t] = (nextReq[t] + 1) % Ids]
  BY DEF Request
<1>. QED
  BY <1>1, <1>5, <1>6, <1>7 DEF TypeOK

\* A fault is counted within its bound.
LEMMA FaultType ==
  ASSUME TypeOK, DbFault \/ UNCHANGED dbFaults
  PROVE  dbFaults' \in 0 .. MaxDbFaults
BY DEF TypeOK, DbFault

\* What the head of an inbox gives when the leader serves it.
LEMMA ServesType ==
  ASSUME TypeOK, NEW t \in Tab, NEW kind, Serves(t, kind)
  PROVE  inbox' \in [Tab -> Seq(Msg)] /\ Head(inbox[t]) \in Msg
<1>1. inbox[t] \in Seq(Msg) /\ inbox[t] # <<>>
  BY DEF TypeOK, Serves
<1>2. Tail(inbox[t]) \in Seq(Msg) /\ Head(inbox[t]) \in Msg
  BY <1>1, InTail
<1>. QED
  BY <1>2 DEF TypeOK, Serves

\* The reply it leaves.
LEMMA AnswerType ==
  ASSUME TypeOK, NEW t \in Tab, Head(inbox[t]) \in Msg,
         NEW kind \in {"rows", "done"}, NEW ok \in BOOLEAN, Answer(t, kind, ok)
  PROVE  busy' \in [Tab -> Reply \cup {None}]
<1>. DEFINE m == Head(inbox[t])
            r == [kind |-> kind, id |-> m.id, call |-> m.call, ok |-> ok]
<1>1. r \in Reply
  BY DEF Msg, Reply
<1>2. busy' = [busy EXCEPT ![t] = r]
  BY DEF Answer
<1>. HIDE DEF r
<1>. QED
  BY <1>1, <1>2 DEF TypeOK

\* The election keeps the types.
LEMMA ElectionType ==
  ASSUME TypeOK, NEW t \in Tab, Open(t) \/ Follow(t) \/ Grant \/ Lead(t) \/ Boot(t) \/ BootFails(t)
  PROVE  TypeOK'
<1>1. CASE Open(t)
  BY <1>1 DEF Open, TypeOK, relayVars, callVars, dbVars, boundVars
<1>2. CASE Follow(t)
  BY <1>2 DEF Follow, TypeOK, relayVars, callVars, dbVars, boundVars
<1>3. CASE Grant
  <2>1. queue \in Seq(Tab) /\ queue # <<>>
    BY <1>3 DEF Grant, TypeOK
  <2>2. Tail(queue) \in Seq(Tab) /\ Head(queue) \in Tab
    BY <2>1, InTail
  <2>. QED
    BY <1>3, <2>2 DEF Grant, TypeOK, relayVars, callVars, dbVars, boundVars
<1>4. CASE Lead(t) \/ Boot(t)
  BY <1>4 DEF Lead, Boot, TypeOK, relayVars, callVars, dbVars, boundVars
<1>5. CASE BootFails(t)
  <2>1. dbFaults' \in 0 .. MaxDbFaults
    BY <1>5, FaultType DEF BootFails
  <2>2. stage' \in [Tab -> {"closed", "opened", "following", "leading", "serving", "inert", "dead"}]
    BY <1>5 DEF BootFails, TypeOK
  <2>. QED
    BY <1>5, <2>1, <2>2 DEF BootFails, TypeOK, lockVars, relayVars, callVars, dbVars
<1>. QED
  BY <1>1, <1>2, <1>3, <1>4, <1>5

\* So does a tab's death.
LEMMA DeathType ==
  ASSUME TypeOK, NEW t \in Tab, Die(t)
  PROVE  TypeOK'
<1>1. queue' \in Seq(Tab)
  <2>1. ASSUME NEW i \in DOMAIN queue, queue' = RemoveAt(queue, i)
        PROVE  queue' \in Seq(Tab)
    BY <2>1, ToSetRemoveAt DEF TypeOK
  <2>. QED
    BY <2>1 DEF Die, TypeOK
<1>2. /\ chan' \in [Tab -> Seq(Msg \cup Reply)] /\ inbox' \in [Tab -> Seq(Msg)]
      /\ busy' \in [Tab -> Reply \cup {None}] /\ replies' \in [Tab -> [Id -> Reply \cup {None}]]
  BY DEF Die, TypeOK
<1>3. phase' \in [Call -> {"idle", "steps", "waiting", "returned", "failed"}]
  BY DEF Die, TypeOK
<1>4. stage' \in [Tab -> {"closed", "opened", "following", "leading", "serving", "inert", "dead"}]
  BY DEF Die, TypeOK
<1>5. lock' \in Tab \cup {None} /\ deaths' \in 0 .. MaxDeaths
  BY DEF Die, TypeOK
<1>6. UNCHANGED <<nextReq, asked, answer, log, rows, stalls, dbFaults>>
  BY DEF Die, dbVars
<1>. QED
  BY <1>1, <1>2, <1>3, <1>4, <1>5, <1>6 DEF TypeOK

\* And what the leader does.
LEMMA ServingType ==
  ASSUME TypeOK, NEW t \in Tab,
         Recv(t) \/ ServeQuery(t) \/ ServeExec(t) \/ ServePush(t) \/ SendReply(t)
  PROVE  TypeOK'
<1>1. CASE Recv(t)
  <2>. DEFINE m == Head(chan[t])
  <2>1. chan[t] \in Seq(Msg \cup Reply) /\ chan[t] # <<>>
    BY <1>1 DEF Recv, TypeOK
  <2>2. Tail(chan[t]) \in Seq(Msg \cup Reply)
    BY <2>1, InTail
  <2>3. chan' \in [Tab -> Seq(Msg \cup Reply)]
    BY <1>1, <2>2 DEF Recv, TypeOK
  <2>4. CASE m \in Msg /\ UNCHANGED <<busy, replies>>
             /\ inbox' = IF Leads(t) THEN [inbox EXCEPT ![t] = Append(@, m)] ELSE inbox
    <3>. HIDE DEF m
    <3>1. inbox' \in [Tab -> Seq(Msg)]
      BY <2>4 DEF TypeOK
    <3>. QED
      BY <1>1, <2>3, <2>4, <3>1 DEF Recv, TypeOK, lockVars, callVars, dbVars, boundVars
  <2>5. CASE m \in Reply /\ UNCHANGED <<inbox, busy>> /\ replies' = [replies EXCEPT ![t][m.id] = m]
    <3>1. m.id \in Id
      BY <2>5 DEF Reply
    <3>. HIDE DEF m
    <3>2. replies' \in [Tab -> [Id -> Reply \cup {None}]]
      BY <2>5, <3>1 DEF TypeOK
    <3>. QED
      BY <1>1, <2>3, <2>5, <3>2 DEF Recv, TypeOK, lockVars, callVars, dbVars, boundVars
  <2>. QED
    BY <1>1, <2>4, <2>5 DEF Recv
<1>2. CASE ServeQuery(t)
  <2>1. inbox' \in [Tab -> Seq(Msg)] /\ Head(inbox[t]) \in Msg
    BY <1>2, ServesType DEF ServeQuery
  <2>2. busy' \in [Tab -> Reply \cup {None}]
    BY <1>2, <2>1, AnswerType DEF ServeQuery
  <2>3. dbFaults' \in 0 .. MaxDbFaults
    BY <1>2, FaultType DEF ServeQuery
  <2>. QED
    BY <1>2, <2>1, <2>2, <2>3 DEF ServeQuery, TypeOK, lockVars, callVars, dbVars
<1>3. CASE ServeExec(t)
  <2>1. inbox' \in [Tab -> Seq(Msg)] /\ Head(inbox[t]) \in Msg
    BY <1>3, ServesType DEF ServeExec
  <2>2. busy' \in [Tab -> Reply \cup {None}]
    BY <1>3, <2>1, AnswerType DEF ServeExec
  <2>3. Head(inbox[t]).call \in Call
    BY <2>1 DEF Msg
  <2>4. rows' \subseteq Call
    BY <1>3, <2>3 DEF ServeExec, TypeOK
  <2>5. dbFaults' \in 0 .. MaxDbFaults
    BY <1>3, FaultType DEF ServeExec
  <2>. QED
    BY <1>3, <2>1, <2>2, <2>4, <2>5 DEF ServeExec, TypeOK, lockVars, callVars
<1>4. CASE ServePush(t)
  <2>1. inbox' \in [Tab -> Seq(Msg)] /\ Head(inbox[t]) \in Msg
    BY <1>4, ServesType DEF ServePush
  <2>2. Head(inbox[t]).call \in Call
    BY <2>1 DEF Msg
  <2>3. log' \subseteq Call
    BY <1>4, <2>2 DEF ServePush, Record, TypeOK
  <2>4. dbFaults' \in 0 .. MaxDbFaults
    BY <1>4, FaultType DEF ServePush, Record, FaultIn
  <2>. QED
    BY <1>4, <2>1, <2>3, <2>4 DEF ServePush, TypeOK, lockVars, callVars
<1>5. CASE SendReply(t)
  <2>1. busy[t] \in Reply
    BY <1>5 DEF SendReply, TypeOK
  <2>2. <<busy[t]>> \in Seq(Msg \cup Reply)
    BY <2>1
  <2>3. chan' \in Channels
    BY <1>5, <2>2, PostType DEF SendReply
  <2>. QED
    BY <1>5, <2>3 DEF SendReply, Channels, TypeOK, lockVars, callVars, dbVars, boundVars
<1>. QED
  BY <1>1, <1>2, <1>3, <1>4, <1>5

\* And the calls.
LEMMA CallType ==
  ASSUME TypeOK, NEW c \in Call,
         \/ PushLocal(c) \/ RunLocal(c) \/ RunLocalFails(c)
         \/ AskLeader(c) \/ TakeReply(c) \/ AskAgain(c)
  PROVE  TypeOK'
<1>1. CASE PushLocal(c)
  <2>1. DbFault \/ UNCHANGED dbFaults
    BY <1>1 DEF PushLocal, Record, FaultIn
  <2>2. dbFaults' \in 0 .. MaxDbFaults
    BY <2>1, FaultType
  <2>3. log' \subseteq Call
    BY <1>1 DEF PushLocal, Record, TypeOK
  <2>. QED
    BY <1>1, <2>2, <2>3 DEF PushLocal, TypeOK, lockVars, relayVars
<1>2. CASE RunLocal(c)
  BY <1>2 DEF RunLocal, TypeOK, lockVars, relayVars, boundVars
<1>3. CASE RunLocalFails(c)
  <2>1. dbFaults' \in 0 .. MaxDbFaults
    BY <1>3, FaultType DEF RunLocalFails, FaultIn
  <2>. QED
    BY <1>3, <2>1 DEF RunLocalFails, TypeOK, lockVars, relayVars, dbVars
<1>4. CASE AskLeader(c)
  <2>. DEFINE preceding == IF Kind[c] = "write" THEN <<PushMsg(c)>> ELSE <<>>
  <2>1. PushMsg(c) \in Msg
    BY DEF PushMsg, Msg, Id
  <2>2. preceding \in Seq(Msg)
    BY <2>1
  <2>3. Request(c, preceding)
    BY <1>4 DEF AskLeader
  <2>. HIDE DEF preceding
  <2>4. chan' \in Channels /\ asked' \in [Call -> Id] /\ nextReq' \in [Tab -> Id]
    BY <2>2, <2>3, RequestType
  <2>. QED
    BY <1>4, <2>4 DEF AskLeader, Channels, TypeOK, lockVars, relayVars, dbVars, boundVars
<1>5. CASE TakeReply(c)
  <2>. DEFINE t == Owner[c]
              r == replies[t][asked[c]]
  <2>1. t \in Tab /\ asked[c] \in Id /\ r \in Reply
    BY <1>5 DEF TakeReply, TypeOK
  <2>2. r.call \in Call
    BY <2>1 DEF Reply
  <2>3. replies' \in [Tab -> [Id -> Reply \cup {None}]]
    BY <1>5, <2>1 DEF TakeReply, TypeOK
  <2>4. CASE /\ phase' = [phase EXCEPT ![c] = IF r.ok THEN "returned" ELSE "failed"]
             /\ answer' = [answer EXCEPT ![c] = r.call]
             /\ UNCHANGED <<chan, nextReq, asked>>
    <3>. HIDE DEF r
    <3>1. /\ phase' \in [Call -> {"idle", "steps", "waiting", "returned", "failed"}]
          /\ answer' \in [Call -> Call \cup {None}]
      BY <2>2, <2>4 DEF TypeOK
    <3>. QED
      BY <1>5, <2>3, <2>4, <3>1 DEF TakeReply, TypeOK, lockVars, dbVars, boundVars
  <2>5. CASE Request(c, <<>>) /\ UNCHANGED <<phase, answer>>
    <3>1. chan' \in Channels /\ asked' \in [Call -> Id] /\ nextReq' \in [Tab -> Id]
      <4>1. <<>> \in Seq(Msg)
        OBVIOUS
      <4>. QED
        BY <2>5, <4>1, RequestType
    <3>. QED
      BY <1>5, <2>3, <2>5, <3>1 DEF TakeReply, Channels, TypeOK, lockVars, dbVars, boundVars
  <2>. QED
    BY <1>5, <2>4, <2>5 DEF TakeReply
<1>6. CASE AskAgain(c)
  <2>1. chan' \in Channels /\ asked' \in [Call -> Id] /\ nextReq' \in [Tab -> Id]
    <3>1. <<>> \in Seq(Msg)
      OBVIOUS
    <3>. QED
      BY <1>6, <3>1, RequestType DEF AskAgain
  <2>2. stalls' \in 0 .. MaxStalls
    BY <1>6 DEF AskAgain, TypeOK
  <2>. QED
    BY <1>6, <2>1, <2>2 DEF AskAgain, Channels, TypeOK, lockVars, relayVars, dbVars
<1>. QED
  BY <1>1, <1>2, <1>3, <1>4, <1>5, <1>6

\* Init's types.
LEMMA InitType ==
  ASSUME Init
  PROVE  TypeOK
<1>1. 0 \in Id
  BY DEF Id
<1>. QED
  BY <1>1 DEF Init, TypeOK

\* Every step keeps the types.
LEMMA TypeStep ==
  ASSUME TypeOK, [Next]_vars
  PROVE  TypeOK'
<1>1. CASE Grant
  <2>1. PICK t \in Tab : TRUE
    <3>1. queue \in Seq(Tab) /\ queue # <<>>
      BY <1>1 DEF Grant, TypeOK
    <3>. QED
      BY <3>1, InTail
  <2>. QED
    BY <1>1, <2>1, ElectionType
<1>2. ASSUME NEW t \in Tab, Open(t) \/ Follow(t) \/ Lead(t) \/ Boot(t) \/ BootFails(t)
      PROVE  TypeOK'
  BY <1>2, ElectionType
<1>3. ASSUME NEW t \in Tab, Die(t)
      PROVE  TypeOK'
  BY <1>3, DeathType
<1>4. ASSUME NEW t \in Tab,
             Recv(t) \/ ServeQuery(t) \/ ServeExec(t) \/ ServePush(t) \/ SendReply(t)
      PROVE  TypeOK'
  BY <1>4, ServingType
<1>5. ASSUME NEW c \in Call,
             \/ PushLocal(c) \/ RunLocal(c) \/ RunLocalFails(c)
             \/ AskLeader(c) \/ TakeReply(c) \/ AskAgain(c)
      PROVE  TypeOK'
  BY <1>5, CallType
<1>6. CASE UNCHANGED vars
  BY <1>6 DEF vars, lockVars, relayVars, callVars, dbVars, boundVars, TypeOK
<1>. QED
  BY <1>1, <1>2, <1>3, <1>4, <1>5, <1>6 DEF Next

----------------------------------------------------------------------------
(* One leader. *)

\* A step that hands nobody the role, the lock or a request keeps OneEngine.
LEMMA NobodyElse ==
  ASSUME TypeOK, OneEngine,
         UNCHANGED <<stage, lock, inbox>>,
         \A t \in Tab : busy'[t] # None => busy[t] # None
  PROVE  OneEngine'
BY DEF OneEngine, Leads

\* Every step keeps it: the role is taken by the holder of the lock, which the
\* browser hands out when nobody holds it, and given up with the lock.
LEMMA OneEngineStep ==
  ASSUME TypeOK, OneEngine, [Next]_vars
  PROVE  OneEngine'
<1>1. ASSUME NEW t \in Tab, Open(t) \/ Follow(t) \/ Grant \/ Lead(t) \/ Boot(t) \/ BootFails(t)
      PROVE  OneEngine'
  <2>1. CASE Open(t)
    BY <1>1, <2>1 DEF Open, TypeOK, OneEngine, Leads, relayVars
  <2>2. CASE Follow(t)
    BY <2>2 DEF Follow, TypeOK, OneEngine, Leads, relayVars
  <2>3. CASE Grant
    BY <2>3 DEF Grant, TypeOK, OneEngine, Leads, relayVars
  <2>4. CASE Lead(t)
    BY <2>4 DEF Lead, TypeOK, OneEngine, Leads, relayVars
  <2>5. CASE Boot(t)
    BY <2>5 DEF Boot, TypeOK, OneEngine, Leads, relayVars
  <2>6. CASE BootFails(t)
    BY <2>6 DEF BootFails, TypeOK, OneEngine, Leads, relayVars
  <2>. QED
    BY <1>1, <2>1, <2>2, <2>3, <2>4, <2>5, <2>6
<1>2. ASSUME NEW t \in Tab, Die(t)
      PROVE  OneEngine'
  <2>1. /\ stage' = [stage EXCEPT ![t] = "dead"]
        /\ lock' = IF lock = t THEN None ELSE lock
        /\ inbox' = [inbox EXCEPT ![t] = <<>>] /\ busy' = [busy EXCEPT ![t] = None]
    BY <1>2 DEF Die
  <2>. QED
    BY <2>1 DEF TypeOK, OneEngine, Leads
<1>3. ASSUME NEW t \in Tab, Recv(t)
      PROVE  OneEngine'
  <2>1. UNCHANGED <<stage, lock, busy>>
    BY <1>3 DEF Recv, lockVars
  <2>2. \/ UNCHANGED inbox
        \/ Leads(t) /\ inbox' = [inbox EXCEPT ![t] = Append(@, Head(chan[t]))]
    BY <1>3 DEF Recv
  <2>3. \A u \in Tab : u # t => inbox'[u] = inbox[u]
    BY <2>2 DEF TypeOK
  <2>. QED
    BY <2>1, <2>2, <2>3 DEF OneEngine, Leads
<1>4. ASSUME NEW t \in Tab, ServeQuery(t) \/ ServeExec(t) \/ ServePush(t)
      PROVE  OneEngine'
  <2>1. UNCHANGED <<stage, lock>>
    BY <1>4 DEF ServeQuery, ServeExec, ServePush, lockVars
  <2>2. stage[t] = "serving" /\ inbox' = [inbox EXCEPT ![t] = Tail(@)]
    BY <1>4 DEF ServeQuery, ServeExec, ServePush, Serves
  <2>3. \A u \in Tab : u # t => busy'[u] = busy[u]
    BY <1>4 DEF ServeQuery, ServeExec, ServePush, Answer, TypeOK
  <2>4. \A u \in Tab : u # t => inbox'[u] = inbox[u]
    BY <2>2 DEF TypeOK
  <2>. QED
    BY <2>1, <2>2, <2>3, <2>4 DEF OneEngine, Leads
<1>5. ASSUME NEW t \in Tab, SendReply(t)
      PROVE  OneEngine'
  <2>1. UNCHANGED <<stage, lock, inbox>> /\ busy' = [busy EXCEPT ![t] = None]
    BY <1>5 DEF SendReply, lockVars
  <2>2. \A u \in Tab : busy'[u] # None => busy[u] # None
    BY <2>1 DEF TypeOK
  <2>. QED
    BY <2>1, <2>2, NobodyElse
<1>6. ASSUME NEW c \in Call,
             \/ PushLocal(c) \/ RunLocal(c) \/ RunLocalFails(c)
             \/ AskLeader(c) \/ TakeReply(c) \/ AskAgain(c)
      PROVE  OneEngine'
  <2>1. UNCHANGED <<stage, lock, inbox, busy>>
    BY <1>6 DEF PushLocal, RunLocal, RunLocalFails, AskLeader, TakeReply, AskAgain, lockVars, relayVars
  <2>. QED
    BY <2>1, NobodyElse
<1>7. CASE UNCHANGED vars
  BY <1>7, NobodyElse DEF vars, lockVars, relayVars
<1>8. CASE Grant
  <2>1. queue \in Seq(Tab) /\ queue # <<>>
    BY <1>8 DEF Grant, TypeOK
  <2>2. Head(queue) \in Tab
    BY <2>1, InTail
  <2>. QED
    BY <1>1, <1>8, <2>2
<1>. QED
  BY <1>1, <1>2, <1>3, <1>4, <1>5, <1>6, <1>7, <1>8 DEF Next

----------------------------------------------------------------------------
(* What is on its way between the tabs. *)

\* A request or an op of call c.
Asks(m, c) == m \in Msg /\ m.call = c
IsExec(m, c) == Asks(m, c) /\ m.kind = "exec"

\* A call that has asked for nothing yet has nothing on its way, and no answer.
Unasked ==
  \A c \in Call : phase[c] \in {"idle", "steps"} =>
    /\ answer[c] = None
    /\ \A t \in Tab : \A m \in ToSet(inbox[t]) \cup ToSet(chan[t]) : ~Asks(m, c)

\* In the order in which a tab takes them, no op comes behind its statement.
InOrder(s, c) ==
  \A i, j \in DOMAIN s : i < j /\ s[j] = PushMsg(c) => ~IsExec(s[i], c)
OpFirst ==
  \A t \in Tab : \A c \in Call :
    /\ InOrder(inbox[t], c) /\ InOrder(chan[t], c)
    /\ PushMsg(c) \in ToSet(chan[t]) => \A m \in ToSet(inbox[t]) : ~IsExec(m, c)

\* A request is of the kind of its call, and a reply tells what has happened.
Truthful(m) ==
  /\ m.kind \in {"exec", "push"} => Kind[m.call] = "write"
  /\ m.kind \in {"query", "rows"} => Kind[m.call] = "query"
  /\ m.kind = "done" => m \in Reply /\ (m.ok => m.call \in rows)
TruthTold ==
  \A t \in Tab :
    /\ \A m \in ToSet(inbox[t]) \cup ToSet(chan[t]) : Truthful(m)
    /\ busy[t] # None => Truthful(busy[t])
    /\ \A i \in Id : replies[t][i] # None => Truthful(replies[t][i])

RelayInv == Unasked /\ OpFirst /\ TruthTold /\ AnswersHold

\* What a step does to the queues of the tabs: it leaves them alone, takes the
\* first or all of one, moves a message from a channel to the inbox behind it, or
\* posts.
Rests == UNCHANGED <<chan, inbox>>
Drops(t) == /\ \A u \in Tab \ {t} : chan'[u] = chan[u] /\ inbox'[u] = inbox[u]
            /\ chan'[t] = <<>> /\ inbox'[t] = <<>>
Receives(t) == /\ chan[t] # <<>> /\ chan' = [chan EXCEPT ![t] = Tail(@)]
               /\ \/ UNCHANGED inbox
                  \/ Head(chan[t]) \in Msg /\ inbox' = [inbox EXCEPT ![t] = Append(@, Head(chan[t]))]
Takes(t) == inbox[t] # <<>> /\ inbox' = [inbox EXCEPT ![t] = Tail(@)] /\ UNCHANGED chan
Posts(t, msgs) == Post(t, msgs) /\ UNCHANGED inbox

\* A queue keeps its order when its first element is taken.
LEMMA TailInOrder ==
  ASSUME NEW S, NEW s \in Seq(S), s # <<>>, NEW c \in Call, InOrder(s, c)
  PROVE  InOrder(Tail(s), c)
<1>1. \A i \in DOMAIN Tail(s) : i \in Int /\ i + 1 \in DOMAIN s /\ Tail(s)[i] = s[i + 1]
  <2>1. \A i \in DOMAIN Tail(s) : i + 1 \in DOMAIN s /\ Tail(s)[i] = s[i + 1]
    BY InTail
  <2>2. Tail(s) \in Seq(S)
    BY InTail
  <2>3. DOMAIN Tail(s) = 1 .. Len(Tail(s))
    BY <2>2
  <2>. QED
    BY <2>1, <2>3
<1>. QED
  BY <1>1 DEF InOrder

\* It keeps it when messages come in behind, each op of which has no statement of
\* its call before it, in the queue or among them.
LEMMA ConcatInOrder ==
  ASSUME NEW S, NEW s \in Seq(S), NEW msgs \in Seq(S), NEW c \in Call,
         InOrder(s, c), InOrder(msgs, c),
         PushMsg(c) \in ToSet(msgs) => \A m \in ToSet(s) : ~IsExec(m, c)
  PROVE  InOrder(s \o msgs, c)
<1>. SUFFICES ASSUME NEW i \in DOMAIN (s \o msgs), NEW j \in DOMAIN (s \o msgs),
                     i < j, (s \o msgs)[j] = PushMsg(c)
              PROVE  ~IsExec((s \o msgs)[i], c)
  BY DEF InOrder
<1>1. /\ \/ i \in DOMAIN s /\ (s \o msgs)[i] = s[i]
         \/ i - Len(s) \in DOMAIN msgs /\ Len(s) < i /\ (s \o msgs)[i] = msgs[i - Len(s)]
      /\ \/ j \in DOMAIN s /\ (s \o msgs)[j] = s[j]
         \/ j - Len(s) \in DOMAIN msgs /\ Len(s) < j /\ (s \o msgs)[j] = msgs[j - Len(s)]
  BY InConcat
<1>2. DOMAIN s = 1 .. Len(s) /\ Len(s) \in Nat /\ DOMAIN (s \o msgs) = 1 .. Len(s \o msgs)
      /\ i \in Int /\ j \in Int
  BY InConcat
<1>3. CASE j \in DOMAIN s /\ (s \o msgs)[j] = s[j]
  <2>1. i \in DOMAIN s /\ (s \o msgs)[i] = s[i]
    BY <1>1, <1>2, <1>3
  <2>. QED
    BY <1>3, <2>1 DEF InOrder
<1>4. CASE j - Len(s) \in DOMAIN msgs /\ (s \o msgs)[j] = msgs[j - Len(s)]
  <2>1. PushMsg(c) \in ToSet(msgs)
    BY <1>4 DEF ToSet
  <2>2. CASE i \in DOMAIN s /\ (s \o msgs)[i] = s[i]
    BY <2>1, <2>2 DEF ToSet
  <2>3. CASE i - Len(s) \in DOMAIN msgs /\ (s \o msgs)[i] = msgs[i - Len(s)]
    <3>1. i - Len(s) < j - Len(s)
      BY <1>2
    <3>. QED
      BY <1>4, <2>3, <3>1 DEF InOrder
  <2>. QED
    BY <1>1, <2>2, <2>3
<1>. QED
  BY <1>1, <1>3, <1>4

\* What comes behind the first message of a channel is not the op of the statement
\* that message may be.
LEMMA HeadInOrder ==
  ASSUME NEW S, NEW s \in Seq(S), s # <<>>, NEW c \in Call, InOrder(s, c),
         PushMsg(c) \in ToSet(Tail(s))
  PROVE  ~IsExec(Head(s), c)
<1>1. PICK i \in DOMAIN Tail(s) : Tail(s)[i] = PushMsg(c)
  BY DEF ToSet
<1>2. /\ 1 \in DOMAIN s /\ Head(s) = s[1]
      /\ i + 1 \in DOMAIN s /\ s[i + 1] = PushMsg(c)
  BY <1>1, InTail
<1>3. i \in DOMAIN Tail(s) /\ DOMAIN Tail(s) = 1 .. Len(Tail(s))
  BY <1>1, InTail
<1>4. 1 < i + 1
  BY <1>3
<1>. QED
  BY <1>2, <1>4 DEF InOrder

\* A message on its own is in order.
LEMMA OneInOrder ==
  ASSUME NEW S, NEW m \in S
  PROVE  <<m>> \in Seq(S) /\ ToSet(<<m>>) = {m} /\ \A c \in Call : InOrder(<<m>>, c)
<1>1. DOMAIN <<m>> = {1} /\ <<m>>[1] = m
  OBVIOUS
<1>. QED
  BY <1>1 DEF InOrder, ToSet

\* Delivery keeps the order of what a tab gets.
LEMMA ReceiveKeepsOrder ==
  ASSUME TypeOK, OpFirst, NEW t \in Tab, Receives(t)
  PROVE  OpFirst'
<1>. DEFINE h == Head(chan[t])
            M == Msg \cup Reply
<1>1. /\ chan[t] \in Seq(M) /\ chan[t] # <<>> /\ inbox[t] \in Seq(Msg)
      /\ Tail(chan[t]) \in Seq(M) /\ h \in M
      /\ h \in ToSet(chan[t]) /\ ToSet(Tail(chan[t])) \subseteq ToSet(chan[t])
  <2>1. chan[t] \in Seq(M) /\ chan[t] # <<>> /\ inbox[t] \in Seq(Msg)
    BY DEF TypeOK, Receives
  <2>. QED
    BY <2>1, ToSetTail, InTail
<1>2. /\ \A u \in Tab \ {t} : chan'[u] = chan[u] /\ inbox'[u] = inbox[u]
      /\ chan'[t] = Tail(chan[t])
      /\ inbox'[t] = inbox[t] \/ (h \in Msg /\ inbox'[t] = Append(inbox[t], h))
  BY DEF Receives, TypeOK
<1>3. ASSUME NEW c \in Call
      PROVE  /\ InOrder(inbox'[t], c) /\ InOrder(chan'[t], c)
             /\ PushMsg(c) \in ToSet(chan'[t]) => \A m \in ToSet(inbox'[t]) : ~IsExec(m, c)
  <2>1. /\ InOrder(inbox[t], c) /\ InOrder(chan[t], c)
        /\ PushMsg(c) \in ToSet(chan[t]) => \A m \in ToSet(inbox[t]) : ~IsExec(m, c)
    BY DEF OpFirst
  <2>2. InOrder(Tail(chan[t]), c)
    BY <1>1, <2>1, TailInOrder
  <2>3. PushMsg(c) \in ToSet(Tail(chan[t])) => PushMsg(c) \in ToSet(chan[t]) /\ ~IsExec(h, c)
    BY <1>1, <2>1, HeadInOrder
  <2>. HIDE DEF h, M
  <2>4. CASE h \in Msg /\ inbox'[t] = Append(inbox[t], h)
    <3>1. ToSet(Append(inbox[t], h)) = ToSet(inbox[t]) \cup {h}
      BY <1>1, <2>4, ToSetAppend
    <3>2. <<h>> \in Seq(Msg) /\ ToSet(<<h>>) = {h} /\ InOrder(<<h>>, c)
      BY <2>4, OneInOrder
    <3>3. PushMsg(c) \in ToSet(<<h>>) => \A m \in ToSet(inbox[t]) : ~IsExec(m, c)
      BY <1>1, <2>1, <3>2
    <3>4. InOrder(inbox[t] \o <<h>>, c)
      BY <1>1, <2>1, <3>2, <3>3, ConcatInOrder
    <3>5. Append(inbox[t], h) = inbox[t] \o <<h>>
      BY <1>1, <2>4
    <3>. QED
      BY <1>2, <2>1, <2>2, <2>3, <2>4, <3>1, <3>4, <3>5
  <2>. QED
    BY <1>2, <2>1, <2>2, <2>3, <2>4
<1>. HIDE DEF h, M
<1>4. \A u \in Tab \ {t} : \A c \in Call :
        /\ InOrder(inbox'[u], c) /\ InOrder(chan'[u], c)
        /\ PushMsg(c) \in ToSet(chan'[u]) => \A m \in ToSet(inbox'[u]) : ~IsExec(m, c)
  BY <1>2 DEF OpFirst
<1>. QED
  BY <1>3, <1>4 DEF OpFirst

\* So does serving.
LEMMA TakeKeepsOrder ==
  ASSUME TypeOK, OpFirst, NEW t \in Tab, Takes(t)
  PROVE  OpFirst'
<1>1. inbox[t] \in Seq(Msg) /\ inbox[t] # <<>> /\ ToSet(Tail(inbox[t])) \subseteq ToSet(inbox[t])
  <2>1. inbox[t] \in Seq(Msg) /\ inbox[t] # <<>>
    BY DEF TypeOK, Takes
  <2>. QED
    BY <2>1, ToSetTail
<1>2. /\ chan' = chan /\ inbox'[t] = Tail(inbox[t])
      /\ \A u \in Tab \ {t} : inbox'[u] = inbox[u]
  BY DEF Takes, TypeOK
<1>3. \A c \in Call : InOrder(Tail(inbox[t]), c)
  BY <1>1, TailInOrder DEF OpFirst
<1>. QED
  BY <1>1, <1>2, <1>3 DEF OpFirst

\* And a death.
LEMMA DropKeepsOrder ==
  ASSUME OpFirst, NEW t \in Tab, Drops(t)
  PROVE  OpFirst'
<1>1. DOMAIN <<>> = {} /\ ToSet(<<>>) = {}
  BY DEF ToSet
<1>2. \A c \in Call : InOrder(<<>>, c)
  BY <1>1 DEF InOrder
<1>. QED
  BY <1>1, <1>2 DEF OpFirst, Drops

\* And a post, unless it is an op whose statement is already out.
LEMMA PostKeepsOrder ==
  ASSUME TypeOK, OpFirst, NEW t \in Tab, NEW msgs \in Seq(Msg \cup Reply), Posts(t, msgs),
         \A c \in Call : InOrder(msgs, c),
         \A c \in Call : PushMsg(c) \in ToSet(msgs) =>
           \A u \in Tab : \A m \in ToSet(inbox[u]) \cup ToSet(chan[u]) : ~IsExec(m, c)
  PROVE  OpFirst'
<1>1. /\ \A u \in Tab : chan[u] \in Seq(Msg \cup Reply)
      /\ \A u \in Tab : chan'[u] = chan[u] \/ chan'[u] = chan[u] \o msgs
      /\ inbox' = inbox
  BY DEF TypeOK, Posts, Post
<1>2. ASSUME NEW u \in Tab, NEW c \in Call, chan'[u] = chan[u] \o msgs
      PROVE  /\ InOrder(chan'[u], c)
             /\ PushMsg(c) \in ToSet(chan'[u]) => \A m \in ToSet(inbox[u]) : ~IsExec(m, c)
  <2>0. chan[u] \in Seq(Msg \cup Reply)
    BY <1>1
  <2>1. ToSet(chan[u] \o msgs) = ToSet(chan[u]) \cup ToSet(msgs)
    BY <2>0, ToSetConcat
  <2>2. InOrder(chan[u], c)
    BY DEF OpFirst
  <2>3. InOrder(chan[u] \o msgs, c)
    BY <2>0, <2>2, ConcatInOrder
  <2>. QED
    BY <1>2, <2>1, <2>3 DEF OpFirst
<1>. QED
  BY <1>1, <1>2 DEF OpFirst

\* What a tab has not dealt with yet.
Queued(t) == ToSet(inbox[t]) \cup ToSet(chan[t])

\* A step adds at most the messages of a set to it.
Brings(new) == \A u \in Tab : Queued(u)' \subseteq Queued(u) \cup new

\* Only a post adds to it.
LEMMA QueuesGrow ==
  ASSUME TypeOK, NEW t \in Tab, NEW msgs \in Seq(Msg \cup Reply),
         Rests \/ Drops(t) \/ Receives(t) \/ Takes(t) \/ Posts(t, msgs)
  PROVE  Brings(IF Posts(t, msgs) THEN ToSet(msgs) ELSE {})
<1>0. \A u \in Tab : chan[u] \in Seq(Msg \cup Reply) /\ inbox[u] \in Seq(Msg)
  BY DEF TypeOK
<1>1. CASE Rests
  BY <1>1 DEF Rests, Brings, Queued
<1>2. CASE Drops(t)
  <2>1. ToSet(<<>>) = {}
    BY DEF ToSet
  <2>. QED
    BY <1>2, <2>1 DEF Drops, Brings, Queued
<1>3. CASE Receives(t)
  <2>1. /\ chan[t] \in Seq(Msg \cup Reply) /\ chan[t] # <<>>
        /\ \A u \in Tab \ {t} : chan'[u] = chan[u] /\ inbox'[u] = inbox[u]
        /\ chan'[t] = Tail(chan[t])
        /\ inbox'[t] = inbox[t] \/ (Head(chan[t]) \in Msg /\ inbox'[t] = Append(inbox[t], Head(chan[t])))
    BY <1>0, <1>3 DEF Receives, TypeOK
  <2>2. Head(chan[t]) \in ToSet(chan[t]) /\ ToSet(Tail(chan[t])) \subseteq ToSet(chan[t])
    BY <2>1, ToSetTail
  <2>3. Head(chan[t]) \in Msg => ToSet(Append(inbox[t], Head(chan[t]))) = ToSet(inbox[t]) \cup {Head(chan[t])}
    BY <1>0, ToSetAppend
  <2>4. ToSet(inbox'[t]) \cup ToSet(chan'[t]) \subseteq ToSet(inbox[t]) \cup ToSet(chan[t])
    <3>1. CASE inbox'[t] = inbox[t]
      BY <2>1, <2>2, <3>1
    <3>2. CASE Head(chan[t]) \in Msg /\ inbox'[t] = Append(inbox[t], Head(chan[t]))
      BY <2>1, <2>2, <2>3, <3>2
    <3>. QED
      BY <2>1, <3>1, <3>2
  <2>. QED
    BY <2>1, <2>4 DEF Brings, Queued
<1>4. CASE Takes(t)
  <2>1. inbox[t] \in Seq(Msg) /\ inbox[t] # <<>>
    BY <1>0, <1>4 DEF Takes
  <2>2. ToSet(Tail(inbox[t])) \subseteq ToSet(inbox[t])
    BY <2>1, ToSetTail
  <2>3. chan' = chan /\ \A u \in Tab : inbox'[u] = inbox[u] \/ (u = t /\ inbox'[u] = Tail(inbox[t]))
    BY <1>4 DEF Takes, TypeOK
  <2>. QED
    BY <2>2, <2>3 DEF Brings, Queued
<1>5. CASE Posts(t, msgs)
  <2>1. ASSUME NEW u \in Tab
        PROVE  ToSet(chan[u] \o msgs) = ToSet(chan[u]) \cup ToSet(msgs)
    <3>1. chan[u] \in Seq(Msg \cup Reply)
      BY <1>0
    <3>. QED
      BY <3>1, ToSetConcat
  <2>2. \A u \in Tab : (chan'[u] = chan[u] \/ chan'[u] = chan[u] \o msgs) /\ inbox'[u] = inbox[u]
    BY <1>5 DEF Posts, Post
  <2>. QED
    BY <1>5, <2>1, <2>2 DEF Brings, Queued
<1>. QED
  BY <1>1, <1>2, <1>3, <1>4, <1>5

\* A call is unasked until it asks.
LEMMA UnaskedKept ==
  ASSUME Unasked, NEW new, Brings(new),
         \A c \in Call : phase'[c] \in {"idle", "steps"} =>
           /\ phase[c] \in {"idle", "steps"} /\ answer'[c] = answer[c]
           /\ \A m \in new : ~Asks(m, c)
  PROVE  Unasked'
BY DEF Unasked, Brings, Queued

\* Truthful, of the state after the step.
TruthfulNext(m) ==
  /\ m.kind \in {"exec", "push"} => Kind[m.call] = "write"
  /\ m.kind \in {"query", "rows"} => Kind[m.call] = "query"
  /\ m.kind = "done" => m \in Reply /\ (m.ok => m.call \in rows')

\* What was told stays true: no statement is undone.
LEMMA TruthKept ==
  ASSUME TruthTold, rows \subseteq rows',
         NEW new, Brings(new),
         \A m \in new : TruthfulNext(m),
         \A t \in Tab : busy'[t] # None => TruthfulNext(busy'[t]) \/ busy'[t] = busy[t],
         \A t \in Tab : \A i \in Id : replies'[t][i] # None =>
           TruthfulNext(replies'[t][i]) \/ replies'[t][i] = replies[t][i]
  PROVE  TruthTold'
<1>1. \A m : Truthful(m) => TruthfulNext(m)
  BY DEF Truthful, TruthfulNext
<1>2. \A t \in Tab : \A m \in Queued(t)' : TruthfulNext(m)
  BY <1>1 DEF TruthTold, Brings, Queued
<1>3. \A t \in Tab : busy'[t] # None => TruthfulNext(busy'[t])
  BY <1>1 DEF TruthTold
<1>4. \A t \in Tab : \A i \in Id : replies'[t][i] # None => TruthfulNext(replies'[t][i])
  BY <1>1 DEF TruthTold
<1>. QED
  BY <1>2, <1>3, <1>4 DEF TruthTold, Truthful, TruthfulNext, Queued

\* The election touches none of it.
LEMMA ElectionRelay ==
  ASSUME RelayInv, UNCHANGED <<chan, relayVars, callVars, dbVars>>
  PROVE  RelayInv'
BY DEF RelayInv, Unasked, OpFirst, TruthTold, Truthful, AnswersHold, relayVars, callVars, dbVars

\* A death takes away what the tab had, and ends its calls.
LEMMA DeathRelay ==
  ASSUME TypeOK, RelayInv, NEW t \in Tab, Die(t)
  PROVE  RelayInv'
<1>1. /\ chan' = [chan EXCEPT ![t] = <<>>] /\ inbox' = [inbox EXCEPT ![t] = <<>>]
      /\ busy' = [busy EXCEPT ![t] = None]
      /\ replies' = [replies EXCEPT ![t] = [i \in Id |-> None]]
      /\ phase' = [c \in Call |-> IF Owner[c] = t /\ phase[c] # "returned" THEN "failed" ELSE phase[c]]
      /\ UNCHANGED <<answer, rows>>
  BY DEF Die, dbVars
<1>2. Drops(t)
  BY <1>1 DEF Drops, TypeOK
<1>3. Brings({})
  <2>1. <<>> \in Seq(Msg \cup Reply) /\ ToSet(<<>>) = {}
    BY DEF ToSet
  <2>. QED
    BY <1>2, <2>1, QueuesGrow
<1>4. Unasked'
  BY <1>1, <1>3, UnaskedKept DEF RelayInv
<1>5. OpFirst'
  BY <1>2, DropKeepsOrder DEF RelayInv
<1>6. TruthTold'
  <2>1. \A u \in Tab : busy'[u] = None \/ busy'[u] = busy[u]
    BY <1>1 DEF TypeOK
  <2>2. \A u \in Tab : \A i \in Id : replies'[u][i] = None \/ replies'[u][i] = replies[u][i]
    BY <1>1 DEF TypeOK
  <2>. QED
    BY <1>1, <1>3, <2>1, <2>2, TruthKept DEF RelayInv
<1>7. AnswersHold'
  BY <1>1 DEF RelayInv, AnswersHold
<1>. QED
  BY <1>4, <1>5, <1>6, <1>7 DEF RelayInv

\* Delivery moves what is on its way.
LEMMA RecvRelay ==
  ASSUME TypeOK, RelayInv, NEW t \in Tab, Recv(t)
  PROVE  RelayInv'
<1>. DEFINE m == Head(chan[t])
<1>1. Receives(t)
  BY DEF Recv, Receives
<1>2. UNCHANGED <<busy, phase, answer, rows>>
  BY DEF Recv, callVars, dbVars
<1>3. Brings({})
  <2>1. <<>> \in Seq(Msg \cup Reply) /\ ToSet(<<>>) = {}
    BY DEF ToSet
  <2>. QED
    BY <1>1, <2>1, QueuesGrow
<1>4. Unasked'
  BY <1>2, <1>3, UnaskedKept DEF RelayInv
<1>5. OpFirst'
  BY <1>1, ReceiveKeepsOrder DEF RelayInv
<1>6. TruthTold'
  <2>1. Truthful(m)
    <3>1. chan[t] \in Seq(Msg \cup Reply) /\ chan[t] # <<>>
      BY DEF Recv, TypeOK
    <3>2. m \in ToSet(chan[t])
      BY <3>1, ToSetTail
    <3>. QED
      BY <3>2 DEF RelayInv, TruthTold
  <2>2. TruthfulNext(m)
    BY <1>2, <2>1 DEF Truthful, TruthfulNext
  <2>3. \A u \in Tab : \A i \in Id : replies'[u][i] = m \/ replies'[u][i] = replies[u][i]
    <3>1. UNCHANGED replies \/ (m \in Reply /\ replies' = [replies EXCEPT ![t][m.id] = m])
      BY DEF Recv
    <3>2. m \in Reply => m.id \in Id
      BY DEF Reply
    <3>. HIDE DEF m
    <3>3. ASSUME m.id \in Id, replies' = [replies EXCEPT ![t][m.id] = m], NEW u \in Tab, NEW i \in Id
          PROVE  replies'[u][i] = m \/ replies'[u][i] = replies[u][i]
      <4>1. replies[u] \in [Id -> Reply \cup {None}] /\ replies \in [Tab -> [Id -> Reply \cup {None}]]
        BY DEF TypeOK
      <4>. QED
        BY <3>3, <4>1
    <3>. QED
      BY <3>1, <3>2, <3>3
  <2>. HIDE DEF m
  <2>. QED
    BY <1>2, <1>3, <2>2, <2>3, TruthKept DEF RelayInv
<1>7. AnswersHold'
  BY <1>2 DEF RelayInv, AnswersHold
<1>. QED
  BY <1>4, <1>5, <1>6, <1>7 DEF RelayInv

\* The leader answers Done only of what it has run.
LEMMA ServeRelay ==
  ASSUME TypeOK, RelayInv, NEW t \in Tab, ServeQuery(t) \/ ServeExec(t) \/ ServePush(t)
  PROVE  RelayInv'
<1>. DEFINE m == Head(inbox[t])
<1>1. Takes(t)
  BY DEF ServeQuery, ServeExec, ServePush, Serves, Takes
<1>2. UNCHANGED <<replies, phase, answer>> /\ rows \subseteq rows'
  BY DEF ServeQuery, ServeExec, ServePush, callVars, dbVars
<1>3. Brings({})
  <2>1. <<>> \in Seq(Msg \cup Reply) /\ ToSet(<<>>) = {}
    BY DEF ToSet
  <2>. QED
    BY <1>1, <2>1, QueuesGrow
<1>4. Unasked'
  BY <1>2, <1>3, UnaskedKept DEF RelayInv
<1>5. OpFirst'
  BY <1>1, TakeKeepsOrder DEF RelayInv
<1>6. TruthTold'
  <2>1. m \in Msg /\ Truthful(m)
    <3>1. inbox[t] \in Seq(Msg) /\ inbox[t] # <<>>
      BY <1>1 DEF Takes, TypeOK
    <3>2. m \in ToSet(inbox[t]) /\ m \in Msg
      BY <3>1, ToSetTail, InTail
    <3>. QED
      BY <3>2 DEF RelayInv, TruthTold
  <2>2. ASSUME NEW kind \in {"rows", "done"}, NEW ok \in BOOLEAN, Answer(t, kind, ok),
               kind = "rows" => Kind[m.call] = "query",
               kind = "done" /\ ok => m.call \in rows'
        PROVE  \A u \in Tab : busy'[u] # None => TruthfulNext(busy'[u]) \/ busy'[u] = busy[u]
    <3>. DEFINE r == [kind |-> kind, id |-> m.id, call |-> m.call, ok |-> ok]
    <3>1. busy' = [busy EXCEPT ![t] = r]
      BY <2>2 DEF Answer
    <3>2. r \in Reply
      BY <2>1 DEF Msg, Reply
    <3>3. TruthfulNext(r)
      BY <2>2, <3>2 DEF TruthfulNext
    <3>. HIDE DEF r
    <3>. QED
      BY <3>1, <3>3 DEF TypeOK
  <2>3. \A u \in Tab : busy'[u] # None => TruthfulNext(busy'[u]) \/ busy'[u] = busy[u]
    <3>1. CASE ServeQuery(t)
      <4>1. Kind[m.call] = "query"
        BY <2>1, <3>1 DEF ServeQuery, Serves, Truthful
      <4>2. Answer(t, "rows", TRUE) \/ Answer(t, "rows", FALSE)
        BY <3>1 DEF ServeQuery
      <4>. QED
        BY <2>2, <4>1, <4>2
    <3>2. CASE ServeExec(t)
      <4>1. (Answer(t, "done", TRUE) /\ m.call \in rows') \/ Answer(t, "done", FALSE)
        BY <3>2 DEF ServeExec
      <4>. QED
        BY <2>2, <4>1
    <3>3. CASE ServePush(t)
      BY <3>3 DEF ServePush
    <3>. QED
      BY <3>1, <3>2, <3>3
  <2>. HIDE DEF m
  <2>. QED
    BY <1>2, <1>3, <2>3, TruthKept DEF RelayInv
<1>7. AnswersHold'
  BY <1>2 DEF RelayInv, AnswersHold
<1>. QED
  BY <1>4, <1>5, <1>6, <1>7 DEF RelayInv

\* A reply is no op.
LEMMA SendReplyRelay ==
  ASSUME TypeOK, RelayInv, NEW t \in Tab, SendReply(t)
  PROVE  RelayInv'
<1>1. busy[t] # None /\ busy[t] \in Reply /\ busy[t] \in Msg \cup Reply
  BY DEF SendReply, TypeOK
<1>2. /\ Posts(t, <<busy[t]>>) /\ busy' = [busy EXCEPT ![t] = None]
      /\ UNCHANGED <<replies, phase, answer, rows>>
  BY DEF SendReply, Posts, callVars, dbVars
<1>3. /\ <<busy[t]>> \in Seq(Msg \cup Reply) /\ ToSet(<<busy[t]>>) = {busy[t]}
      /\ \A c \in Call : InOrder(<<busy[t]>>, c)
  BY <1>1, OneInOrder
<1>4. Brings({busy[t]})
  BY <1>2, <1>3, QueuesGrow
<1>5. busy[t] \notin Msg
  BY <1>1 DEF Reply, Msg
<1>6. \A c \in Call : PushMsg(c) # busy[t] /\ ~Asks(busy[t], c)
  BY <1>1, <1>5 DEF PushMsg, Reply, Asks
<1>7. Unasked'
  BY <1>2, <1>4, <1>6, UnaskedKept DEF RelayInv
<1>8. OpFirst'
  BY <1>2, <1>3, <1>6, PostKeepsOrder DEF RelayInv
<1>9. TruthTold'
  <2>1. Truthful(busy[t])
    BY <1>1 DEF RelayInv, TruthTold
  <2>2. TruthfulNext(busy[t])
    BY <1>2, <2>1 DEF Truthful, TruthfulNext
  <2>3. \A u \in Tab : busy'[u] # None => busy'[u] = busy[u]
    BY <1>2 DEF TypeOK
  <2>. QED
    BY <1>2, <1>4, <2>2, <2>3, TruthKept DEF RelayInv
<1>10. AnswersHold'
  BY <1>2 DEF RelayInv, AnswersHold
<1>. QED
  BY <1>7, <1>8, <1>9, <1>10 DEF RelayInv

\* A call in a leading tab sends nothing, and returns when its statement has run.
LEMMA LocalRelay ==
  ASSUME TypeOK, RelayInv, NEW c \in Call, PushLocal(c) \/ RunLocal(c) \/ RunLocalFails(c)
  PROVE  RelayInv'
<1>1. /\ Rests /\ UNCHANGED <<busy, replies, answer>> /\ rows \subseteq rows'
      /\ phase[c] \in {"idle", "steps"}
  BY DEF PushLocal, RunLocal, RunLocalFails, Rests, relayVars, dbVars
<1>2. Brings({})
  BY <1>1 DEF Rests, Brings, Queued
<1>3. Unasked'
  <2>1. \A d \in Call : phase'[d] \in {"idle", "steps"} => phase[d] \in {"idle", "steps"}
    BY <1>1 DEF PushLocal, RunLocal, RunLocalFails, TypeOK
  <2>. QED
    BY <1>1, <1>2, <2>1, UnaskedKept DEF RelayInv
<1>4. OpFirst'
  BY <1>1 DEF RelayInv, OpFirst, Rests
<1>5. TruthTold'
  BY <1>1, <1>2, TruthKept DEF RelayInv
<1>6. AnswersHold'
  <2>1. \A d \in Call \ {c} : phase'[d] = phase[d]
    BY DEF PushLocal, RunLocal, RunLocalFails, TypeOK
  <2>2. CASE phase'[c] = "returned"
    <3>1. Kind[c] = "write" => c \in rows'
      BY <2>2 DEF PushLocal, RunLocal, RunLocalFails, TypeOK
    <3>2. answer[c] = None
      BY <1>1 DEF RelayInv, Unasked
    <3>. QED
      BY <1>1, <2>1, <3>1, <3>2 DEF RelayInv, AnswersHold
  <2>3. CASE phase'[c] # "returned"
    BY <1>1, <2>1, <2>3 DEF RelayInv, AnswersHold
  <2>. QED
    BY <2>2, <2>3
<1>. QED
  BY <1>3, <1>4, <1>5, <1>6 DEF RelayInv

\* The message of a request.
Ask(c) == [kind |-> IF Kind[c] = "write" THEN "exec" ELSE "query", id |-> nextReq[Owner[c]], call |-> c]

LEMMA AskIsRequest ==
  ASSUME TypeOK, NEW c \in Call
  PROVE  /\ Ask(c) \in Msg /\ Ask(c).kind # "push"
         /\ \A d \in Call : Ask(c) # PushMsg(d) /\ (Asks(Ask(c), d) => d = c)
         /\ TruthfulNext(Ask(c))
<1>1. nextReq[Owner[c]] \in Id /\ Kind[c] \in {"write", "query"}
  BY DEF TypeOK
<1>. QED
  BY <1>1 DEF Ask, Msg, PushMsg, Asks, TruthfulNext

\* A request that nothing precedes adds no op to what is on its way.
LEMMA RepeatRelay ==
  ASSUME TypeOK, RelayInv, NEW c \in Call, Request(c, <<>>),
         UNCHANGED <<inbox, busy, phase, answer, rows>>, phase[c] = "waiting",
         \A t \in Tab : \A i \in Id : replies'[t][i] = None \/ replies'[t][i] = replies[t][i]
  PROVE  RelayInv'
<1>1. /\ Ask(c) \in Msg /\ Ask(c) \in Msg \cup Reply
      /\ \A d \in Call : Ask(c) # PushMsg(d) /\ (Asks(Ask(c), d) => d = c)
      /\ TruthfulNext(Ask(c))
  BY AskIsRequest
<1>2. /\ <<Ask(c)>> \in Seq(Msg \cup Reply) /\ ToSet(<<Ask(c)>>) = {Ask(c)}
      /\ \A d \in Call : InOrder(<<Ask(c)>>, d)
  BY <1>1, OneInOrder
<1>3. Posts(Owner[c], <<Ask(c)>>) /\ Owner[c] \in Tab
  <2>1. Append(<<>>, Ask(c)) = <<Ask(c)>>
    OBVIOUS
  <2>. QED
    BY <2>1 DEF Request, Ask, Posts
<1>4. Brings({Ask(c)})
  BY <1>2, <1>3, QueuesGrow
<1>5. Unasked'
  BY <1>1, <1>4, UnaskedKept DEF RelayInv
<1>6. OpFirst'
  BY <1>1, <1>2, <1>3, PostKeepsOrder DEF RelayInv
<1>7. TruthTold'
  BY <1>1, <1>4, TruthKept DEF RelayInv
<1>8. AnswersHold'
  BY DEF RelayInv, AnswersHold
<1>. QED
  BY <1>5, <1>6, <1>7, <1>8 DEF RelayInv

\* The first request of a write comes right behind its op, and nothing of the call
\* is out before.
LEMMA AskLeaderRelay ==
  ASSUME TypeOK, RelayInv, NEW c \in Call, AskLeader(c)
  PROVE  RelayInv'
<1>. DEFINE op == PushMsg(c)
            msgs == Append(IF Kind[c] = "write" THEN <<op>> ELSE <<>>, Ask(c))
<1>1. /\ UNCHANGED <<inbox, busy, replies, answer, rows>>
      /\ phase[c] = "idle" /\ phase' = [phase EXCEPT ![c] = "waiting"]
      /\ Request(c, IF Kind[c] = "write" THEN <<op>> ELSE <<>>)
  BY DEF AskLeader, relayVars, dbVars
<1>2. /\ Ask(c) \in Msg /\ Ask(c).kind # "push"
      /\ \A d \in Call : Ask(c) # PushMsg(d) /\ (Asks(Ask(c), d) => d = c)
      /\ TruthfulNext(Ask(c))
  BY AskIsRequest
<1>3. op \in Msg /\ op.kind = "push" /\ op.call = c
  BY DEF PushMsg, Msg, Id
<1>4. Posts(Owner[c], msgs) /\ Owner[c] \in Tab
  BY <1>1 DEF Request, Ask, Posts
<1>5. /\ msgs \in Seq(Msg \cup Reply)
      /\ \/ Kind[c] = "write" /\ msgs = <<op, Ask(c)>>
         \/ Kind[c] # "write" /\ msgs = <<Ask(c)>>
  <2>1. CASE Kind[c] = "write"
    <3>1. msgs = Append(<<op>>, Ask(c))
      BY <2>1
    <3>. HIDE DEF op, msgs
    <3>2. Append(<<op>>, Ask(c)) = <<op, Ask(c)>>
      BY <1>2, <1>3, AppendTwo
    <3>. QED
      BY <2>1, <3>1, <3>2, <1>2, <1>3
  <2>2. CASE Kind[c] # "write"
    <3>1. msgs = Append(<<>>, Ask(c))
      BY <2>2
    <3>. HIDE DEF op, msgs
    <3>2. Append(<<>>, Ask(c)) = <<Ask(c)>>
      OBVIOUS
    <3>. QED
      BY <2>2, <3>1, <3>2, <1>2
  <2>. QED
    BY <2>1, <2>2
<1>6. /\ ToSet(msgs) = (IF Kind[c] = "write" THEN {op} ELSE {}) \cup {Ask(c)}
      /\ \A d \in Call : InOrder(msgs, d)
  <2>1. CASE Kind[c] = "write" /\ msgs = <<op, Ask(c)>>
    <3>. HIDE DEF op, msgs
    <3>1. DOMAIN msgs = {1, 2} /\ msgs[1] = op /\ msgs[2] = Ask(c)
      BY <2>1
    <3>2. ToSet(msgs) = {op, Ask(c)}
      BY <3>1 DEF ToSet
    <3>3. \A d \in Call : InOrder(msgs, d)
      BY <1>2, <3>1 DEF InOrder
    <3>. QED
      BY <2>1, <3>2, <3>3
  <2>2. CASE Kind[c] # "write" /\ msgs = <<Ask(c)>>
    <3>. HIDE DEF op, msgs
    <3>1. Ask(c) \in Msg \cup Reply
      BY <1>2
    <3>. QED
      BY <2>2, <3>1, OneInOrder
  <2>. QED
    BY <1>5, <2>1, <2>2
<1>. HIDE DEF msgs
<1>7. Brings(ToSet(msgs))
  BY <1>4, <1>5, QueuesGrow
<1>8. \A t \in Tab : \A m \in ToSet(inbox[t]) \cup ToSet(chan[t]) : ~Asks(m, c)
  BY <1>1 DEF RelayInv, Unasked
<1>9. \A m \in ToSet(msgs) : TruthfulNext(m) /\ \A d \in Call : Asks(m, d) => d = c
  <2>1. Kind[c] = "write" => TruthfulNext(op)
    BY <1>3 DEF TruthfulNext
  <2>2. \A d \in Call : Asks(op, d) => d = c
    BY <1>3 DEF Asks
  <2>. HIDE DEF op
  <2>. QED
    BY <1>2, <1>6, <2>1, <2>2
<1>10. Unasked'
  <2>1. \A d \in Call : phase'[d] \in {"idle", "steps"} => phase[d] \in {"idle", "steps"} /\ d # c
    BY <1>1 DEF TypeOK
  <2>. QED
    BY <1>1, <1>7, <1>9, <2>1, UnaskedKept DEF RelayInv
<1>11. OpFirst'
  <2>1. \A d \in Call : PushMsg(d) \in ToSet(msgs) => d = c
    BY <1>2, <1>6 DEF PushMsg
  <2>2. \A d \in Call : PushMsg(d) \in ToSet(msgs) =>
          \A u \in Tab : \A m \in ToSet(inbox[u]) \cup ToSet(chan[u]) : ~IsExec(m, d)
    BY <1>8, <2>1 DEF IsExec
  <2>. QED
    BY <1>4, <1>5, <1>6, <2>2, PostKeepsOrder DEF RelayInv
<1>12. TruthTold'
  BY <1>1, <1>7, <1>9, TruthKept DEF RelayInv
<1>13. AnswersHold'
  BY <1>1 DEF RelayInv, AnswersHold, TypeOK
<1>. QED
  BY <1>10, <1>11, <1>12, <1>13 DEF RelayInv

\* A call takes an answer of its own kind only, and the answers are true.
LEMMA TakeReplyRelay ==
  ASSUME TypeOK, RelayInv, NEW c \in Call, TakeReply(c)
  PROVE  RelayInv'
<1>. DEFINE t == Owner[c]
            r == replies[t][asked[c]]
<1>1. /\ phase[c] = "waiting" /\ r # None
      /\ replies' = [replies EXCEPT ![t][asked[c]] = None]
      /\ UNCHANGED <<inbox, busy, rows>>
  BY DEF TakeReply, dbVars
<1>2. t \in Tab /\ asked[c] \in Id /\ r \in Reply /\ Truthful(r)
  BY <1>1 DEF TypeOK, RelayInv, TruthTold
<1>3. \A u \in Tab : \A i \in Id : replies'[u][i] = None \/ replies'[u][i] = replies[u][i]
  BY <1>1, <1>2 DEF TypeOK
<1>4. CASE Request(c, <<>>) /\ UNCHANGED <<phase, answer>>
  BY <1>1, <1>3, <1>4, RepeatRelay
<1>5. CASE /\ r.kind = (IF Kind[c] = "write" THEN "done" ELSE "rows")
           /\ phase' = [phase EXCEPT ![c] = IF r.ok THEN "returned" ELSE "failed"]
           /\ answer' = [answer EXCEPT ![c] = r.call]
           /\ UNCHANGED chan
  <2>1. Rests
    BY <1>1, <1>5 DEF Rests
  <2>2. Brings({})
    BY <2>1 DEF Rests, Brings, Queued
  <2>3. Unasked'
    <3>1. \A d \in Call : phase'[d] \in {"idle", "steps"} => phase[d] \in {"idle", "steps"} /\ answer'[d] = answer[d]
      BY <1>1, <1>5 DEF TypeOK
    <3>. QED
      BY <2>2, <3>1, UnaskedKept DEF RelayInv
  <2>4. OpFirst'
    BY <2>1 DEF RelayInv, OpFirst, Rests
  <2>5. TruthTold'
    BY <1>1, <1>3, <2>2, TruthKept DEF RelayInv
  <2>6. AnswersHold'
    <3>1. /\ Kind[c] = "write" /\ r.ok => r.call \in rows
          /\ Kind[c] # "write" => Kind[r.call] = "query"
      BY <1>2, <1>5 DEF Truthful
    <3>2. /\ phase'[c] = "returned" => r.ok
          /\ answer'[c] = r.call
          /\ \A d \in Call \ {c} : phase'[d] = phase[d] /\ answer'[d] = answer[d]
      BY <1>2, <1>5 DEF TypeOK, Reply
    <3>. HIDE DEF r
    <3>. QED
      BY <1>1, <3>1, <3>2 DEF RelayInv, AnswersHold
  <2>. QED
    BY <2>3, <2>4, <2>5, <2>6 DEF RelayInv
<1>. QED
  BY <1>4, <1>5 DEF TakeReply

\* Every step keeps what is on its way in order and true.
LEMMA RelayStep ==
  ASSUME TypeOK, RelayInv, [Next]_vars
  PROVE  RelayInv'
<1>1. ASSUME NEW t \in Tab, Open(t) \/ Follow(t) \/ Grant \/ Lead(t) \/ Boot(t) \/ BootFails(t)
      PROVE  RelayInv'
  <2>1. UNCHANGED <<chan, relayVars, callVars, dbVars>>
    BY <1>1 DEF Open, Follow, Grant, Lead, Boot, BootFails
  <2>. QED
    BY <2>1, ElectionRelay
<1>2. CASE Grant \/ UNCHANGED vars
  BY <1>2, ElectionRelay DEF Grant, vars
<1>3. ASSUME NEW t \in Tab, Die(t)
      PROVE  RelayInv'
  BY <1>3, DeathRelay
<1>4. ASSUME NEW t \in Tab, Recv(t) \/ ServeQuery(t) \/ ServeExec(t) \/ ServePush(t) \/ SendReply(t)
      PROVE  RelayInv'
  BY <1>4, RecvRelay, ServeRelay, SendReplyRelay
<1>5. ASSUME NEW c \in Call, PushLocal(c) \/ RunLocal(c) \/ RunLocalFails(c)
      PROVE  RelayInv'
  BY <1>5, LocalRelay
<1>6. ASSUME NEW c \in Call, AskLeader(c) \/ TakeReply(c)
      PROVE  RelayInv'
  BY <1>6, AskLeaderRelay, TakeReplyRelay
<1>7. ASSUME NEW c \in Call, AskAgain(c)
      PROVE  RelayInv'
  BY <1>7, RepeatRelay DEF AskAgain, relayVars, dbVars
<1>. QED
  BY <1>1, <1>2, <1>3, <1>4, <1>5, <1>6, <1>7 DEF Next

\* A statement that runs has its op behind it, in the queues of the tab that leads.
LEMMA NotOvertaken ==
  ASSUME TypeOK, OneEngine, RelayInv, [Next]_vars, NEW c \in Call, c \in rows', c \notin rows
  PROVE  \A t \in Tab : Leads(t) =>
           \A m \in ToSet(inbox[t]) \cup ToSet(chan[t]) : m # PushMsg(c)
<1>0. PushMsg(c) \in Msg /\ PushMsg(c).call = c /\ Asks(PushMsg(c), c)
  BY DEF PushMsg, Msg, Id, Asks
<1>1. ASSUME NEW t \in Tab, ServeExec(t)
      PROVE  \A u \in Tab : Leads(u) =>
               \A m \in ToSet(inbox[u]) \cup ToSet(chan[u]) : m # PushMsg(c)
  <2>. DEFINE h == Head(inbox[t])
  <2>1. /\ stage[t] = "serving" /\ inbox[t] # <<>> /\ h.kind = "exec"
        /\ inbox[t] \in Seq(Msg)
    BY <1>1 DEF ServeExec, Serves, TypeOK
  <2>2. h.call = c
    BY <1>1 DEF ServeExec
  <2>3. h \in Msg /\ h = inbox[t][1] /\ 1 \in DOMAIN inbox[t] /\ h \in ToSet(inbox[t])
    BY <2>1, InTail, ToSetTail
  <2>4. IsExec(h, c)
    BY <2>1, <2>2, <2>3 DEF IsExec, Asks
  <2>5. \A u \in Tab : Leads(u) => u = t
    BY <2>1 DEF OneEngine, Leads
  <2>6. PushMsg(c) \notin ToSet(chan[t])
    BY <2>3, <2>4 DEF RelayInv, OpFirst
  <2>7. PushMsg(c) \notin ToSet(inbox[t])
    <3>1. SUFFICES ASSUME NEW j \in DOMAIN inbox[t], inbox[t][j] = PushMsg(c)
                   PROVE  FALSE
      BY DEF ToSet
    <3>2. j = 1 \/ 1 < j
      BY <2>1
    <3>3. j # 1
      BY <2>1, <2>3, <3>1 DEF PushMsg
    <3>. QED
      BY <2>3, <2>4, <3>1, <3>2, <3>3 DEF RelayInv, OpFirst, InOrder
  <2>. QED
    BY <2>5, <2>6, <2>7
<1>2. CASE RunLocal(c)
  <2>1. phase[c] \in {"idle", "steps"}
    BY <1>2 DEF RunLocal
  <2>. QED
    BY <1>0, <2>1 DEF RelayInv, Unasked
<1>3. (\E t \in Tab : ServeExec(t)) \/ RunLocal(c)
  <2>1. ASSUME UNCHANGED rows
        PROVE  FALSE
    BY <2>1
  <2>2. ASSUME NEW t \in Tab, Open(t) \/ Follow(t) \/ Lead(t) \/ Boot(t) \/ BootFails(t) \/ Die(t)
        PROVE  FALSE
    BY <2>1, <2>2 DEF Open, Follow, Lead, Boot, BootFails, Die, dbVars
  <2>3. CASE Grant \/ UNCHANGED vars
    BY <2>1, <2>3 DEF Grant, vars, dbVars
  <2>4. ASSUME NEW t \in Tab, Recv(t) \/ ServeQuery(t) \/ ServePush(t) \/ SendReply(t)
        PROVE  FALSE
    BY <2>1, <2>4 DEF Recv, ServeQuery, ServePush, SendReply, dbVars
  <2>5. ASSUME NEW d \in Call, PushLocal(d) \/ RunLocalFails(d) \/ AskLeader(d) \/ TakeReply(d) \/ AskAgain(d)
        PROVE  FALSE
    BY <2>1, <2>5 DEF PushLocal, RunLocalFails, AskLeader, TakeReply, AskAgain, dbVars
  <2>6. ASSUME NEW d \in Call, RunLocal(d)
        PROVE  d = c
    BY <2>6 DEF RunLocal
  <2>. QED
    BY <2>2, <2>3, <2>4, <2>5, <2>6 DEF Next
<1>. QED
  BY <1>1, <1>2, <1>3

----------------------------------------------------------------------------

\* Every reachable state of the tabs has the types of TypeOK.
THEOREM TypeCorrect == Spec => []TypeOK
BY InitType, TypeStep, PTL DEF Spec

\* tabs.rs:1-8, relay.rs:18-19: two tabs never have the database at once.  At most
\* one is in the leader's role, and it holds the lock, whatever dies and however
\* many queue for it; the others have nothing to serve.
THEOREM OneEngineHolds == Spec => []OneEngine
<1>1. ASSUME Init
      PROVE  OneEngine
  BY <1>1 DEF Init, OneEngine, Leads
<1>. QED
  BY <1>1, TypeCorrect, OneEngineStep, PTL DEF Spec

\* The same for what the tabs have sent each other: a call that has asked for nothing
\* has nothing on its way, no op comes behind the statement of its call, and no
\* reply tells what has not happened.
THEOREM RelayCorrect == Spec => []RelayInv
<1>1. ASSUME Init
      PROVE  RelayInv
  <2>1. ToSet(<<>>) = {} /\ DOMAIN <<>> = {}
    BY DEF ToSet
  <2>2. \A c \in Call : InOrder(<<>>, c)
    BY <2>1 DEF InOrder
  <2>. QED
    BY <1>1, <2>1, <2>2 DEF Init, RelayInv, Unasked, OpFirst, TruthTold, AnswersHold
<1>. QED
  BY <1>1, TypeCorrect, RelayStep, PTL DEF Spec

\* mod.rs:323-331, 358-374: the write-ahead order holds across tabs.  When the
\* statement of a write runs, in whichever tab and however often it was asked for,
\* its op is not behind it on the way to the leader that runs it.
THEOREM OpNeverOvertaken == Spec => OpNotOvertaken
<1>1. ASSUME TypeOK, OneEngine, RelayInv, [Next]_vars
      PROVE  [\A c \in Call : c \in rows' \ rows =>
                \/ c \in log
                \/ \A t \in Tab : Leads(t) =>
                     \A m \in ToSet(inbox[t]) \cup ToSet(chan[t]) : m # PushMsg(c)]_vars
  BY <1>1, NotOvertaken
<1>. QED
  BY <1>1, TypeCorrect, OneEngineHolds, RelayCorrect, PTL DEF Spec, OpNotOvertaken

\* relay.rs:167-206: with any number of leaders, repetitions and shared ids, a write
\* that returned took the Done of a statement that has run, and a query rows.
THEOREM AnswersHoldAlways == Spec => []AnswersHold
BY RelayCorrect, PTL DEF RelayInv
=============================================================================
