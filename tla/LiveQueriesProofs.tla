------------------------- MODULE LiveQueriesProofs -------------------------
(***************************************************************************)
(* Live queries, for any tabs, calls, changes, deaths and faults: what a   *)
(* tab shows is as new as the database, or the tab is about to ask again,  *)
(* or the server's echo will make it.                                      *)
(***************************************************************************)
EXTENDS LiveQueries, SeqLemmas

USE CallsAssumption, BoundsAssumption, NoneAssumption
    DEF CallsAssumption, BoundsAssumption, NoneAssumption

Wire == {Bump} \cup RowsMsg \cup DoneMsg

Phase == {"idle", "steps", "bump", "asked", "returned", "failed"}

\* At most one reply to tab t is in s.
Single(t, s) ==
  \A i, k \in DOMAIN s : Underway(t, s[i]) /\ Underway(t, s[k]) => i = k

\* Replies are on the channel of the tab that asked.
Addressed ==
  \A t \in Tab : \A msg \in ToSet(chan[t]) :
    /\ msg.kind = "rows" => msg.tab = t
    /\ msg.kind = "done" => Owner[msg.call] = t

\* One answer at a time is on its way, to a run that waits for it...
OneAnswer ==
  \A t \in Tab : Live(t) =>
    /\ Single(t, chan[t])
    /\ Underway(t, busy) => \A msg \in ToSet(chan[t]) : ~Underway(t, msg)
    /\ Answering(t) # {} => run[t] = "remote"

\* ...and none is older than the one that is shown.
Forward ==
  \A t \in Tab : Live(t) =>
    /\ shown[t] \subseteq db /\ rows[t] \subseteq db
    /\ run[t] = "read" => shown[t] \subseteq rows[t]
    /\ \A msg \in Answering(t) : shown[t] \subseteq msg.seen /\ msg.seen \subseteq db

\* A call is where the database and the log say it is.
Progress ==
  \A c \in Call :
    /\ phase[c] \in {"steps", "bump"} => Leads(Owner[c])
    /\ phase[c] = "idle" => c \notin pending \cup slog \cup db
    /\ c \in pending => Kind[c] = "write" /\ c \notin slog
    /\ phase[c] \in {"bump", "returned"} => c \in db
    /\ Done(c, TRUE) \in ToSet(chan[Owner[c]]) \cup {busy} => c \in db

\* What the session is applying is new, and what it has applied is there.
Batch ==
  /\ got \subseteq db /\ sync.ops \subseteq db
  /\ sync.at = "idle" => sync.ops = {}
  /\ sync.at \in {"events", "snapshot"} => sync.ops \cap got = {}

\* The leader has bumped the tabs for an exec by the time its reply is out.
Told(c) == phase[c] = "returned" \/ (Kind[c] = "exec" /\ Done(c, TRUE) \in ToSet(chan[Owner[c]]))

Hushed(c) ==
  \/ c \in cut
  \/ c \in Call /\ Kind[c] = "write" /\ c \notin pending \cup slog
  \/ c \in Call /\ Kind[c] = "exec" /\ ~Told(c)

Accounted(c) == EchoDue(c) \/ Hushed(c)

Fresh(t, c) == c \in shown[t] \/ Due(t, c)

Owed == \A t \in Tab : Live(t) => \A c \in db : Fresh(t, c) \/ Accounted(c)

OwnDue == \A c \in Call : Told(c) /\ Live(Owner[c]) => Fresh(Owner[c], c)

QueryInv == TypeOK /\ Addressed /\ OneAnswer /\ Forward /\ Progress /\ Batch /\ Owed /\ OwnDue

----------------------------------------------------------------------------
(* Messages and channels. *)

\* The messages, by their kinds and fields.
LEMMA Messages ==
  /\ Bump \in Wire /\ Bump.kind = "bump" /\ Bump \notin RowsMsg \cup DoneMsg
  /\ \A msg \in RowsMsg : /\ msg.kind = "rows" /\ msg # None /\ msg \in Wire
                          /\ msg.tab \in Tab /\ msg.seen \in SUBSET Change
  /\ \A msg \in DoneMsg : /\ msg.kind = "done" /\ msg # None /\ msg \in Wire
                          /\ msg.call \in Call /\ msg.ok \in BOOLEAN /\ msg = Done(msg.call, msg.ok)
  /\ \A t \in Tab, seen \in SUBSET Change :
       Rows(t, seen) \in RowsMsg /\ Rows(t, seen).tab = t /\ Rows(t, seen).seen = seen
  /\ \A c \in Call, ok \in BOOLEAN :
       Done(c, ok) \in DoneMsg /\ Done(c, ok).call = c /\ Done(c, ok).ok = ok
<1>1. Bump.kind = "bump"
  BY DEF Bump
<1>2. \A t, seen : Rows(t, seen).kind = "rows" /\ Rows(t, seen).tab = t /\ Rows(t, seen).seen = seen
  BY DEF Rows
<1>3. \A c, ok : Done(c, ok).kind = "done" /\ Done(c, ok).call = c /\ Done(c, ok).ok = ok
  BY DEF Done
<1>4. ASSUME NEW msg \in RowsMsg
      PROVE  msg.kind = "rows" /\ msg.tab \in Tab /\ msg.seen \in SUBSET Change
  BY <1>2 DEF RowsMsg
<1>5. ASSUME NEW msg \in DoneMsg
      PROVE  /\ msg.kind = "done" /\ msg.call \in Call /\ msg.ok \in BOOLEAN
             /\ msg = Done(msg.call, msg.ok)
  BY <1>3 DEF DoneMsg
<1>6. \A t \in Tab, seen \in SUBSET Change : Rows(t, seen) \in RowsMsg
  BY DEF RowsMsg
<1>7. \A c \in Call, ok \in BOOLEAN : Done(c, ok) \in DoneMsg
  BY DEF DoneMsg
<1>8. Bump \notin RowsMsg \cup DoneMsg
  BY <1>1, <1>4, <1>5
<1>. QED
  BY <1>1, <1>2, <1>3, <1>4, <1>5, <1>6, <1>7, <1>8 DEF Wire

\* Which of them answer tab t.
LEMMA Answers ==
  ASSUME NEW t
  PROVE  /\ ~Underway(t, None) /\ ~Underway(t, Bump)
         /\ \A msg \in Wire : Underway(t, msg) <=> msg \in RowsMsg /\ msg.tab = t
         /\ \A msg \in DoneMsg : ~Underway(t, msg)
BY Messages DEF Underway, Wire

\* Appending a message that is no second answer.
LEMMA AppendSingle ==
  ASSUME NEW t, NEW s \in Seq(Wire), NEW e \in Wire, Single(t, s),
         Underway(t, e) => \A msg \in ToSet(s) : ~Underway(t, msg)
  PROVE  Single(t, Append(s, e))
<1>1. DOMAIN Append(s, e) = 1 .. Len(s) + 1 /\ DOMAIN s = 1 .. Len(s) /\ Len(s) \in Nat
  OBVIOUS
<1>2. \A i \in 1 .. Len(s) : Append(s, e)[i] = s[i] /\ s[i] \in ToSet(s)
  BY DEF ToSet
<1>3. Append(s, e)[Len(s) + 1] = e
  OBVIOUS
<1>4. \A i \in 1 .. Len(s) + 1 : i \in 1 .. Len(s) \/ i = Len(s) + 1
  BY <1>1
<1>. QED
  BY <1>1, <1>2, <1>3, <1>4 DEF Single

\* Taking the first message.
LEMMA TailSingle ==
  ASSUME NEW t, NEW s \in Seq(Wire), s # <<>>, Single(t, s)
  PROVE  /\ Single(t, Tail(s))
         /\ Underway(t, Head(s)) => \A msg \in ToSet(Tail(s)) : ~Underway(t, msg)
<1>1. /\ DOMAIN s = 1 .. Len(s) /\ Len(s) \in Nat \ {0} /\ Head(s) = s[1]
      /\ DOMAIN Tail(s) = 1 .. Len(s) - 1
  OBVIOUS
<1>2. \A i \in 1 .. Len(s) - 1 : Tail(s)[i] = s[i + 1]
  OBVIOUS
<1>3. Single(t, Tail(s))
  <2>1. SUFFICES ASSUME NEW i \in DOMAIN Tail(s), NEW k \in DOMAIN Tail(s),
                        Underway(t, Tail(s)[i]), Underway(t, Tail(s)[k])
                 PROVE  i = k
    BY DEF Single
  <2>2. i + 1 \in DOMAIN s /\ k + 1 \in DOMAIN s /\ Tail(s)[i] = s[i + 1] /\ Tail(s)[k] = s[k + 1]
    BY <1>1, <1>2
  <2>3. i + 1 = k + 1
    BY <2>1, <2>2 DEF Single
  <2>. QED
    BY <1>1, <2>3
<1>4. ASSUME Underway(t, Head(s)), NEW i \in DOMAIN Tail(s), Underway(t, Tail(s)[i]) PROVE FALSE
  <2>1. i + 1 \in DOMAIN s /\ 1 \in DOMAIN s /\ Tail(s)[i] = s[i + 1]
    BY <1>1, <1>2
  <2>2. i + 1 = 1
    BY <1>1, <1>4, <2>1 DEF Single
  <2>. QED
    BY <1>1, <2>2
<1>. QED
  BY <1>3, <1>4 DEF ToSet

\* The elements are the first and the others.
LEMMA HeadAndTail ==
  ASSUME NEW s \in Seq(Wire), s # <<>>
  PROVE  Tail(s) \in Seq(Wire) /\ Head(s) \in Wire /\ ToSet(s) = {Head(s)} \cup ToSet(Tail(s))
<1>1. /\ DOMAIN s = 1 .. Len(s) /\ Len(s) \in Nat \ {0} /\ Head(s) = s[1]
      /\ DOMAIN Tail(s) = 1 .. Len(s) - 1 /\ Tail(s) \in Seq(Wire)
      /\ \A i \in 1 .. Len(s) - 1 : Tail(s)[i] = s[i + 1]
  OBVIOUS
<1>2. ASSUME NEW i \in DOMAIN s, i # 1
      PROVE  i - 1 \in DOMAIN Tail(s) /\ s[i] = Tail(s)[i - 1]
  <2>1. i - 1 \in 1 .. Len(s) - 1 /\ (i - 1) + 1 = i
    BY <1>1, <1>2
  <2>. QED
    BY <1>1, <2>1
<1>3. \A i \in DOMAIN Tail(s) : i + 1 \in DOMAIN s /\ Tail(s)[i] = s[i + 1]
  BY <1>1
<1>4. 1 \in DOMAIN s
  BY <1>1
<1>5. ToSet(s) \subseteq {Head(s)} \cup ToSet(Tail(s))
  <2>1. ASSUME NEW i \in DOMAIN s PROVE s[i] \in {Head(s)} \cup ToSet(Tail(s))
    BY <1>1, <1>2 DEF ToSet
  <2>. QED
    BY <2>1 DEF ToSet
<1>6. {Head(s)} \cup ToSet(Tail(s)) \subseteq ToSet(s)
  BY <1>1, <1>3, <1>4 DEF ToSet
<1>. QED
  BY <1>1, <1>5, <1>6

\* Dropping the answer leaves none, and the other messages.
LEMMA DropAnswer ==
  ASSUME NEW t, NEW s \in Seq(Wire), Single(t, s)
  PROVE  /\ Unanswered(t, s) \in Seq(Wire)
         /\ ToSet(Unanswered(t, s)) = {msg \in ToSet(s) : ~Underway(t, msg)}
         /\ Single(t, Unanswered(t, s))
<1>. DEFINE r == Unanswered(t, s)
<1>1. DOMAIN s = 1 .. Len(s) /\ Len(s) \in Nat
  OBVIOUS
<1>2. CASE \A i \in 1 .. Len(s) : ~Underway(t, s[i])
  <2>1. r = s
    BY <1>2 DEF Unanswered, RemoveFirstMatch
  <2>2. \A msg \in ToSet(s) : ~Underway(t, msg)
    BY <1>1, <1>2 DEF ToSet
  <2>. QED
    BY <2>1, <2>2
<1>3. CASE \E i \in 1 .. Len(s) : Underway(t, s[i])
  <2>1. PICK i \in 1 .. Len(s) : Underway(t, s[i])
    BY <1>3
  <2>2. \A k \in 1 .. Len(s) : Underway(t, s[k]) <=> k = i
    BY <1>1, <2>1 DEF Single
  <2>3. {k \in 1 .. Len(s) : Underway(t, s[k])} = {i}
    BY <2>1, <2>2
  <2>4. Min({i}) = i
    BY <1>1, <2>1 DEF Min
  <2>5. SelectInSeq(s, LAMBDA msg : Underway(t, msg)) = i
    BY <2>3, <2>4 DEF SelectInSeq
  <2>6. r = RemoveAt(s, i)
    BY <2>1, <2>5 DEF Unanswered, RemoveFirstMatch
  <2>. HIDE DEF r
  <2>. DEFINE l == SubSeq(s, 1, i - 1)
              g == SubSeq(s, i + 1, Len(s))
  <2>7. /\ r \in Seq(Wire) /\ ToSet(r) \subseteq ToSet(s)
        /\ ToSet(s) \subseteq ToSet(r) \cup {s[i]}
    <3>1. i \in DOMAIN s
      BY <1>1, <2>1
    <3>. QED
      BY <2>6, <3>1, ToSetRemoveAt
  <2>8. l \in Seq(Wire) /\ \A k \in DOMAIN l : ~Underway(t, l[k])
    <3>1. l \in Seq(Wire) /\ DOMAIN l = 1 .. i - 1 /\ \A k \in 1 .. i - 1 : l[k] = s[k]
      BY <1>1, <2>1
    <3>2. \A k \in 1 .. i - 1 : k \in 1 .. Len(s) /\ k # i
      BY <1>1, <2>1
    <3>. QED
      BY <2>2, <3>1, <3>2
  <2>9. g \in Seq(Wire) /\ \A k \in DOMAIN g : ~Underway(t, g[k])
    <3>1. g \in Seq(Wire) /\ DOMAIN g = 1 .. Len(s) - i /\ \A k \in 1 .. Len(s) - i : g[k] = s[i + k]
      BY <1>1, <2>1
    <3>2. \A k \in 1 .. Len(s) - i : i + k \in 1 .. Len(s) /\ i + k # i
      BY <1>1, <2>1
    <3>. QED
      BY <2>2, <3>1, <3>2
  <2>10. ToSet(r) = ToSet(l) \cup ToSet(g)
    <3>1. r = l \o g
      BY <2>6 DEF RemoveAt
    <3>. HIDE DEF l, g
    <3>. QED
      BY <2>8, <2>9, <3>1, ToSetConcat
  <2>11. \A msg \in ToSet(r) : ~Underway(t, msg)
    <3>. HIDE DEF l, g
    <3>. QED
      BY <2>8, <2>9, <2>10 DEF ToSet
  <2>. HIDE DEF l, g
  <2>12. Single(t, r)
    BY <2>11 DEF Single, ToSet
  <2>13. ToSet(r) = {msg \in ToSet(s) : ~Underway(t, msg)}
    BY <2>1, <2>7, <2>11
  <2>. QED
    BY <2>7, <2>12, <2>13 DEF r
<1>. QED
  BY <1>2, <1>3

----------------------------------------------------------------------------
(* Channels. *)

\* No message of waiting is lost or invented in chan', but for bumps.
Passed(waiting) ==
  /\ chan' \in [Tab -> Seq(Wire)]
  /\ \A u \in Tab :
       /\ ToSet(chan'[u]) \ {Bump} = ToSet(waiting[u]) \ {Bump}
       /\ Bump \in ToSet(waiting[u]) => Bump \in ToSet(chan'[u])
       /\ Single(u, waiting[u]) => Single(u, chan'[u])

\* Announcing adds bumps, to every other live tab.
LEMMA Announces ==
  ASSUME NEW from \in Tab, NEW waiting \in [Tab -> Seq(Wire)]
  PROVE  /\ Announced(from, waiting) \in [Tab -> Seq(Wire)]
         /\ \A u \in Tab :
              /\ ToSet(Announced(from, waiting)[u]) \ {Bump} = ToSet(waiting[u]) \ {Bump}
              /\ Bump \in ToSet(waiting[u]) => Bump \in ToSet(Announced(from, waiting)[u])
              /\ Single(u, waiting[u]) => Single(u, Announced(from, waiting)[u])
              /\ u # from /\ Live(u) => Bump \in ToSet(Announced(from, waiting)[u])
<1>1. Bump \in Wire
  BY Messages
<1>2. ASSUME NEW u \in Tab
      PROVE  /\ Append(waiting[u], Bump) \in Seq(Wire)
             /\ ToSet(Append(waiting[u], Bump)) = ToSet(waiting[u]) \cup {Bump}
             /\ Single(u, waiting[u]) => Single(u, Append(waiting[u], Bump))
  <2>1. waiting[u] \in Seq(Wire) /\ ~Underway(u, Bump)
    BY Answers
  <2>2. ToSet(Append(waiting[u], Bump)) = ToSet(waiting[u]) \cup {Bump}
    BY <1>1, <2>1, ToSetAppend
  <2>3. Single(u, waiting[u]) => Single(u, Append(waiting[u], Bump))
    BY <1>1, <2>1, AppendSingle
  <2>. QED
    BY <1>1, <2>1, <2>2, <2>3
<1>. QED
  BY <1>2 DEF Announced

\* A bump marks its tab, and a leader's every live tab; nobody loses a mark or
\* a reply.
LEMMA Bumps ==
  ASSUME TypeOK, NEW t \in Tab, NEW waiting \in [Tab -> Seq(Wire)], Bumped(t, waiting)
  PROVE  /\ Passed(waiting) /\ dirty' \in [Tab -> BOOLEAN] /\ dirty'[t]
         /\ \A u \in Tab : dirty[u] => dirty'[u]
         /\ Leads(t) => \A u \in Tab : Live(u) => dirty'[u] \/ Bump \in ToSet(chan'[u])
         /\ UNCHANGED <<run, rows, shown>>
<1>1. dirty \in [Tab -> BOOLEAN]
  BY DEF TypeOK
<1>2. dirty' = [dirty EXCEPT ![t] = TRUE] /\ UNCHANGED <<run, rows, shown>>
  BY DEF Bumped
<1>3. CASE Leads(t)
  <2>1. chan' = Announced(t, waiting)
    BY <1>3 DEF Bumped
  <2>2. Passed(waiting)
    BY <2>1, Announces DEF Passed
  <2>3. dirty' \in [Tab -> BOOLEAN] /\ dirty'[t] /\ \A u \in Tab : dirty[u] => dirty'[u]
    BY <1>1, <1>2
  <2>4. ASSUME NEW u \in Tab, Live(u) PROVE dirty'[u] \/ Bump \in ToSet(chan'[u])
    BY <2>1, <2>3, <2>4, Announces
  <2>. QED
    BY <1>2, <2>2, <2>3, <2>4
<1>4. CASE ~Leads(t)
  <2>1. chan' = waiting
    BY <1>4 DEF Bumped
  <2>. QED
    BY <1>1, <1>2, <1>4, <2>1 DEF Passed
<1>. QED
  BY <1>3, <1>4

\* A reply reaches a live tab behind its bumps.
LEMMA Delivers ==
  ASSUME NEW msg \in RowsMsg \cup DoneMsg, NEW waiting \in [Tab -> Seq(Wire)]
  PROVE  /\ Addressee(msg) \in Tab /\ Delivered(msg, waiting) \in [Tab -> Seq(Wire)]
         /\ \A u \in Tab :
              /\ ToSet(Delivered(msg, waiting)[u]) =
                   ToSet(waiting[u]) \cup (IF u = Addressee(msg) /\ Live(u) THEN {msg} ELSE {})
              /\ Single(u, waiting[u]) /\ (Underway(u, msg) => \A m \in ToSet(waiting[u]) : ~Underway(u, m))
                   => Single(u, Delivered(msg, waiting)[u])
<1>1. Addressee(msg) \in Tab /\ msg \in Wire
  <2>1. CASE msg \in RowsMsg
    BY <2>1, Messages DEF Addressee
  <2>2. CASE msg \in DoneMsg
    <3>1. msg.kind # "rows" /\ msg.call \in Call /\ msg \in Wire
      BY <2>2, Messages
    <3>. QED
      BY <3>1 DEF Addressee
  <2>. QED
    BY <2>1, <2>2
<1>2. ASSUME NEW u \in Tab
      PROVE  /\ Append(waiting[u], msg) \in Seq(Wire)
             /\ ToSet(Append(waiting[u], msg)) = ToSet(waiting[u]) \cup {msg}
             /\ Single(u, waiting[u]) /\ (Underway(u, msg) => \A m \in ToSet(waiting[u]) : ~Underway(u, m))
                  => Single(u, Append(waiting[u], msg))
  <2>1. waiting[u] \in Seq(Wire)
    OBVIOUS
  <2>2. ToSet(Append(waiting[u], msg)) = ToSet(waiting[u]) \cup {msg}
    BY <1>1, <2>1, ToSetAppend
  <2>3. Single(u, waiting[u]) /\ (Underway(u, msg) => \A m \in ToSet(waiting[u]) : ~Underway(u, m))
          => Single(u, Append(waiting[u], msg))
    BY <1>1, <2>1, AppendSingle
  <2>. QED
    BY <1>1, <2>1, <2>2, <2>3
<1>. QED
  BY <1>1, <1>2 DEF Delivered

----------------------------------------------------------------------------
(* Types. *)

SyncAt == {"idle", "events", "snapshot", "saved"}
SyncType == sync \in [at : SyncAt, ops : SUBSET slog]
QueryType ==
  /\ dirty \in [Tab -> BOOLEAN] /\ run \in [Tab -> {"idle", "local", "remote", "read"}]
  /\ rows \in [Tab -> SUBSET Change] /\ shown \in [Tab -> SUBSET Change]
TabType ==
  /\ role \in [Tab -> {"follower", "leader", "dead"}]
  /\ chan \in [Tab -> Seq(Wire)] /\ busy \in RowsMsg \cup DoneMsg \cup {None}
  /\ deaths \in 0 .. MaxDeaths /\ faults \in 0 .. MaxFaults
DataType ==
  /\ phase \in [Call -> Phase]
  /\ db \subseteq Change /\ pending \subseteq Call /\ slog \subseteq Change /\ got \subseteq slog
  /\ cut \subseteq Change

\* TypeOK by parts, now and after a step.
LEMMA TypeParts ==
  /\ TypeOK <=> TabType /\ QueryType /\ DataType /\ SyncType
  /\ TypeOK' <=> TabType' /\ QueryType' /\ DataType' /\ SyncType'
BY DEF TypeOK, TabType, QueryType, DataType, SyncType, SyncAt, Phase, Wire

\* The log only grows, and a batch is of what is in it.
LEMMA BatchFields ==
  ASSUME SyncType
  PROVE  sync.at \in SyncAt /\ sync.ops \subseteq slog
BY DEF SyncType

\* A batch stays of the log as the log grows...
LEMMA BatchGrows ==
  ASSUME SyncType, slog \subseteq slog', sync' = sync
  PROVE  SyncType'
<1>1. sync' = [at |-> sync.at, ops |-> sync.ops] /\ sync.at \in SyncAt /\ sync.ops \subseteq slog
  BY DEF SyncType
<1>. QED
  BY <1>1 DEF SyncType

\* ...and a new one is what it is said to be.
LEMMA BatchBegins ==
  ASSUME NEW kind \in SyncAt, NEW ops \in SUBSET slog', sync' = [at |-> kind, ops |-> ops]
  PROVE  SyncType' /\ sync'.at = kind /\ sync'.ops = ops
BY DEF SyncType

\* Every action keeps the types.
LEMMA TypeStep ==
  ASSUME TypeOK, OneAnswer, [Next]_vars
  PROVE  TypeOK'
<1>. USE TypeParts
<1>1. ASSUME NEW t \in Tab, Promote(t) PROVE TypeOK'
  <2>1. SyncType'
    BY <1>1, BatchGrows DEF Promote, syncVars
  <2>. QED
    BY <1>1, <2>1 DEF Promote, TabType, QueryType, DataType, queryVars, syncVars
<1>2. ASSUME NEW t \in Tab, Die(t) PROVE TypeOK'
  <2>1. SyncType' /\ cut' \subseteq Change
    <3>1. CASE Leads(t)
      BY <1>2, <3>1, BatchBegins, BatchFields DEF Die, DataType, NoBatch, SyncAt
    <3>2. CASE ~Leads(t)
      BY <1>2, <3>2, BatchGrows DEF Die, DataType
    <3>. QED
      BY <3>1, <3>2
  <2>2. TabType'
    BY <1>2 DEF Die, TabType
  <2>3. QueryType'
    BY <1>2 DEF Die, QueryType
  <2>4. DataType'
    BY <1>2, <2>1 DEF Die, DataType, Phase
  <2>. QED
    BY <2>1, <2>2, <2>3, <2>4
<1>3. ASSUME NEW t \in Tab, Restart(t) \/ Read(t) \/ Show(t) PROVE TypeOK'
  <2>1. SyncType'
    BY <1>3, BatchGrows DEF Restart, Read, Show, syncVars
  <2>2. CASE Restart(t)
    <3>1. Unanswered(t, chan[t]) \in Seq(Wire)
      BY <2>2, DropAnswer DEF Restart, OneAnswer, TabType
    <3>2. busy' \in RowsMsg \cup DoneMsg \cup {None}
      BY <2>2 DEF Restart, TabType
    <3>. QED
      BY <2>1, <2>2, <3>1, <3>2 DEF Restart, TabType, QueryType, DataType, syncVars
  <2>3. CASE Read(t)
    BY <2>1, <2>3 DEF Read, TabType, QueryType, DataType, syncVars
  <2>4. CASE Show(t)
    BY <2>1, <2>4 DEF Show, TabType, QueryType, DataType, syncVars
  <2>. QED
    BY <1>3, <2>2, <2>3, <2>4
<1>4. ASSUME NEW t \in Tab, NEW u \in Tab, ServeQuery(t, u) PROVE TypeOK'
  <2>1. SyncType'
    BY <1>4, BatchGrows DEF ServeQuery, syncVars
  <2>2. busy' \in RowsMsg
    BY <1>4, Messages DEF ServeQuery, DataType
  <2>. QED
    BY <1>4, <2>1, <2>2 DEF ServeQuery, TabType, QueryType, DataType, queryVars, syncVars
<1>5. ASSUME NEW t \in Tab, TakeRows(t) PROVE TypeOK'
  <2>1. SyncType'
    BY <1>5, BatchGrows DEF TakeRows, syncVars
  <2>2. /\ Tail(chan[t]) \in Seq(Wire) /\ Head(chan[t]).seen \in SUBSET Change
    BY <1>5, HeadAndTail, Answers, Messages DEF TakeRows, TabType
  <2>. QED
    BY <1>5, <2>1, <2>2 DEF TakeRows, TabType, QueryType, DataType, syncVars
<1>6. ASSUME NEW t \in Tab, RecvBump(t) PROVE TypeOK'
  <2>1. SyncType'
    BY <1>6, BatchGrows DEF RecvBump, syncVars
  <2>2. [chan EXCEPT ![t] = Tail(@)] \in [Tab -> Seq(Wire)]
    BY <1>6, HeadAndTail DEF RecvBump, TabType
  <2>3. Bumped(t, [chan EXCEPT ![t] = Tail(@)])
    BY <1>6 DEF RecvBump
  <2>4. chan' \in [Tab -> Seq(Wire)] /\ dirty' \in [Tab -> BOOLEAN] /\ UNCHANGED <<run, rows, shown>>
    BY <2>2, <2>3, Bumps DEF Passed
  <2>. QED
    BY <1>6, <2>1, <2>4 DEF RecvBump, TabType, QueryType, DataType, syncVars
<1>7. ASSUME NEW c \in Call, Push(c) \/ RunLocal(c) \/ RunLocalFails(c) \/ AskLeader(c) PROVE TypeOK'
  <2>1. SyncType'
    BY <1>7, BatchGrows DEF Push, RunLocal, RunLocalFails, AskLeader, syncVars
  <2>2. phase' \in [Call -> Phase] /\ c \in Change
    BY <1>7 DEF Push, RunLocal, RunLocalFails, AskLeader, Calls, Phase, DataType, Change
  <2>3. TabType' /\ QueryType'
    BY <1>7 DEF Push, RunLocal, RunLocalFails, AskLeader, TabType, QueryType, Fault, queryVars, syncVars
  <2>4. DataType'
    BY <1>7, <2>2 DEF Push, RunLocal, RunLocalFails, AskLeader, DataType, syncVars
  <2>. QED
    BY <2>1, <2>3, <2>4
<1>8. ASSUME NEW c \in Call, BumpLocal(c) PROVE TypeOK'
  <2>1. SyncType'
    BY <1>8, BatchGrows DEF BumpLocal, syncVars
  <2>2. chan' \in [Tab -> Seq(Wire)] /\ dirty' \in [Tab -> BOOLEAN] /\ UNCHANGED <<run, rows, shown>>
    BY <1>8, Bumps DEF BumpLocal, Passed, TabType
  <2>3. phase' \in [Call -> Phase]
    BY <1>8 DEF BumpLocal, Calls, Phase, DataType
  <2>. QED
    BY <1>8, <2>1, <2>2, <2>3 DEF BumpLocal, TabType, QueryType, DataType, syncVars
<1>9. ASSUME NEW t \in Tab, NEW c \in Call, ServeExec(t, c) PROVE TypeOK'
  <2>1. SyncType'
    BY <1>9, BatchGrows DEF ServeExec, syncVars
  <2>2. busy' \in DoneMsg /\ c \in Change /\ faults' \in 0 .. MaxFaults
    <3>1. busy' = Done(c, TRUE) \/ busy' = Done(c, FALSE)
      BY <1>9 DEF ServeExec
    <3>2. UNCHANGED faults \/ Fault
      BY <1>9 DEF ServeExec
    <3>3. faults' \in 0 .. MaxFaults
      BY <3>2 DEF Fault, TabType
    <3>4. Done(c, TRUE) \in DoneMsg /\ Done(c, FALSE) \in DoneMsg
      BY Messages
    <3>. QED
      BY <3>1, <3>3, <3>4 DEF Change
  <2>3. db' \subseteq Change
    BY <1>9, <2>2 DEF ServeExec, DataType
  <2>. QED
    BY <1>9, <2>1, <2>2, <2>3 DEF ServeExec, TabType, QueryType, DataType, queryVars, syncVars
<1>10. ASSUME NEW t \in Tab, SendReply(t) PROVE TypeOK'
  <2>1. SyncType'
    BY <1>10, BatchGrows DEF SendReply, syncVars
  <2>2. busy \in RowsMsg \cup DoneMsg /\ chan \in [Tab -> Seq(Wire)] /\ dirty \in [Tab -> BOOLEAN]
    BY <1>10 DEF SendReply, TabType, QueryType
  <2>3. chan' \in [Tab -> Seq(Wire)]
    <3>1. chan' = Delivered(busy, Announced(t, chan)) \/ chan' = Delivered(busy, chan)
      BY <1>10 DEF SendReply
    <3>. QED
      BY <2>2, <3>1, Announces, Delivers
  <2>4. QueryType'
    BY <1>10, <2>2 DEF SendReply, QueryType, queryVars
  <2>. QED
    BY <1>10, <2>1, <2>3, <2>4 DEF SendReply, TabType, DataType, syncVars
<1>11. ASSUME NEW t \in Tab, TakeDone(t) PROVE TypeOK'
  <2>. DEFINE msg == Head(chan[t])
              waiting == [chan EXCEPT ![t] = Tail(@)]
  <2>1. SyncType'
    BY <1>11, BatchGrows DEF TakeDone, syncVars
  <2>2. msg \in DoneMsg /\ waiting \in [Tab -> Seq(Wire)]
    <3>1. chan[t] \in Seq(Wire) /\ chan[t] # <<>> /\ msg.kind = "done"
      BY <1>11 DEF TakeDone, TabType
    <3>2. msg \in Wire /\ Tail(chan[t]) \in Seq(Wire)
      BY <3>1, HeadAndTail
    <3>. HIDE DEF msg
    <3>3. msg \in DoneMsg
      BY <3>1, <3>2, Messages DEF Wire
    <3>. QED
      BY <3>2, <3>3 DEF TabType
  <2>3. /\ chan' \in [Tab -> Seq(Wire)] /\ QueryType'
    <3>1. CASE Bumped(t, waiting)
      <4>. HIDE DEF waiting
      <4>. QED
        BY <2>2, <3>1, Bumps DEF Passed, QueryType
    <3>2. CASE chan' = waiting /\ UNCHANGED queryVars
      BY <2>2, <3>2 DEF QueryType, queryVars
    <3>. QED
      BY <1>11, <3>1, <3>2 DEF TakeDone
  <2>4. phase' \in [Call -> Phase]
    <3>1. msg.call \in Call
      BY <2>2, Messages
    <3>2. Calls(msg.call, "asked", IF msg.ok THEN "returned" ELSE "failed")
      BY <1>11 DEF TakeDone
    <3>. HIDE DEF msg
    <3>. QED
      BY <3>1, <3>2 DEF Calls, Phase, DataType
  <2>. QED
    BY <1>11, <2>1, <2>3, <2>4 DEF TakeDone, TabType, DataType, syncVars
<1>12. ASSUME NEW r \in Remote, Commit(r) PROVE TypeOK'
  <2>1. SyncType'
    BY <1>12, BatchGrows DEF Commit
  <2>. QED
    BY <1>12, <2>1 DEF Commit, TabType, QueryType, DataType, Change, queryVars
<1>13. ASSUME NEW t \in Tab, NEW c \in Call, Upload(t, c) PROVE TypeOK'
  <2>1. SyncType'
    BY <1>13, BatchGrows DEF Upload
  <2>. QED
    BY <1>13, <2>1 DEF Upload, TabType, QueryType, DataType, Change, Fault, queryVars
<1>14. ASSUME NEW t \in Tab, Receive(t) PROVE TypeOK'
  <2>1. SyncType'
    BY <1>14, BatchBegins DEF Receive, SyncAt
  <2>. QED
    BY <1>14, <2>1 DEF Receive, TabType, QueryType, DataType, queryVars
<1>15. ASSUME NEW t \in Tab, ReceiveFails(t) PROVE TypeOK'
  <2>1. SyncType'
    BY <1>15, BatchGrows DEF ReceiveFails, syncVars
  <2>. QED
    BY <1>15, <2>1 DEF ReceiveFails, Fault, TabType, QueryType, DataType, queryVars, syncVars
<1>16. ASSUME NEW t \in Tab, FinishEvents(t) \/ FinishSnapshot(t) PROVE TypeOK'
  <2>1. SyncType'
    BY <1>16, BatchBegins DEF FinishEvents, FinishSnapshot, NoBatch, SyncAt
  <2>2. Bumped(t, chan)
    BY <1>16 DEF FinishEvents, FinishSnapshot
  <2>3. chan' \in [Tab -> Seq(Wire)] /\ dirty' \in [Tab -> BOOLEAN] /\ UNCHANGED <<run, rows, shown>>
    BY <2>2, Bumps DEF Passed, TabType
  <2>4. got' \subseteq slog
    BY <1>16, BatchFields DEF FinishEvents, FinishSnapshot, DataType
  <2>. QED
    BY <1>16, <2>1, <2>3, <2>4 DEF FinishEvents, FinishSnapshot, TabType, QueryType, DataType
<1>17. ASSUME NEW t \in Tab, SaveSnapshot(t) PROVE TypeOK'
  <2>1. sync' = [at |-> "saved", ops |-> sync.ops]
    BY <1>17 DEF SaveSnapshot, SyncType
  <2>2. SyncType'
    BY <1>17, <2>1, BatchBegins, BatchFields DEF SaveSnapshot, SyncAt
  <2>. QED
    BY <1>17, <2>2, BatchFields DEF SaveSnapshot, TabType, QueryType, DataType, queryVars
<1>18. CASE UNCHANGED vars
  <2>1. SyncType'
    BY <1>18, BatchGrows DEF vars, syncVars
  <2>. QED
    BY <1>18, <2>1 DEF vars, TabType, QueryType, DataType, queryVars, syncVars
<1>. QED
  BY <1>1, <1>2, <1>3, <1>4, <1>5, <1>6, <1>7, <1>8, <1>9, <1>10, <1>11, <1>12, <1>13, <1>14,
     <1>15, <1>16, <1>17, <1>18 DEF Next, Works

----------------------------------------------------------------------------
(* What an action does to the channels and the answers. *)

\* The reply at the head of a channel.
LEMMA Taken ==
  ASSUME TypeOK, NEW t \in Tab, chan[t] # <<>>
  PROVE  /\ chan[t] \in Seq(Wire) /\ [chan EXCEPT ![t] = Tail(@)] \in [Tab -> Seq(Wire)]
         /\ Head(chan[t]) \in Wire /\ ToSet(chan[t]) = {Head(chan[t])} \cup ToSet(Tail(chan[t]))
BY TypeParts, HeadAndTail DEF TabType

\* Tab u is to ask again.
Marked(u) == dirty[u] \/ Bump \in ToSet(chan[u])

\* Calls before their end, the log and the batches leave the queries alone.
AsideStep ==
  \/ \E t \in Tab : \/ Promote(t) \/ Receive(t) \/ ReceiveFails(t) \/ SaveSnapshot(t)
                    \/ \E c \in Call : Upload(t, c)
  \/ \E c \in Call : Push(c) \/ RunLocal(c) \/ RunLocalFails(c) \/ AskLeader(c)
  \/ \E r \in Remote : Commit(r)
  \/ UNCHANGED vars

\* These only bump.
RingStep ==
  \/ \E c \in Call : BumpLocal(c)
  \/ \E t \in Tab : FinishEvents(t) \/ FinishSnapshot(t) \/ RecvBump(t)

ReplyStep ==
  \E t \in Tab :
    \/ Restart(t) \/ Read(t) \/ Show(t) \/ TakeRows(t) \/ Die(t) \/ SendReply(t) \/ TakeDone(t)
    \/ \E u \in Tab : ServeQuery(t, u)
    \/ \E c \in Call : ServeExec(t, c)

\* Every step is of one of the three kinds.
LEMMA StepKinds == [Next]_vars => AsideStep \/ RingStep \/ ReplyStep
BY DEF Next, Works, AsideStep, RingStep, ReplyStep

Aside ==
  /\ UNCHANGED <<chan, busy, dirty, run, rows, shown>>
  /\ db \subseteq db' /\ \A u \in Tab : Live(u)' <=> Live(u)

\* The first kind touches no query, channel or life of a tab.
LEMMA AsideIs ==
  ASSUME TypeOK, AsideStep
  PROVE  Aside
<1>. USE DEF Aside, Live, queryVars, syncVars
<1>1. ASSUME NEW t \in Tab, Promote(t) PROVE Aside
  BY <1>1 DEF Promote, NoLeader, Leads, TypeOK
<1>2. ASSUME NEW c \in Call, Push(c) \/ RunLocal(c) \/ RunLocalFails(c) PROVE Aside
  BY <1>2 DEF Push, RunLocal, RunLocalFails
<1>3. ASSUME NEW c \in Call, AskLeader(c) PROVE Aside
  BY <1>3 DEF AskLeader
<1>4. ASSUME NEW r \in Remote, Commit(r) PROVE Aside
  BY <1>4 DEF Commit
<1>5. ASSUME NEW t \in Tab, NEW c \in Call, Upload(t, c) PROVE Aside
  BY <1>5 DEF Upload
<1>6. ASSUME NEW t \in Tab, Receive(t) \/ SaveSnapshot(t) PROVE Aside
  BY <1>6 DEF Receive, SaveSnapshot
<1>7. ASSUME NEW t \in Tab, ReceiveFails(t) PROVE Aside
  BY <1>7 DEF ReceiveFails
<1>8. CASE UNCHANGED vars
  BY <1>8 DEF vars
<1>. QED
  BY <1>1, <1>2, <1>3, <1>4, <1>5, <1>6, <1>7, <1>8 DEF AsideStep

\* Bumping what is left of the channels, of which only bumps were taken.
Rings(t, waiting) ==
  /\ t \in Tab /\ waiting \in [Tab -> Seq(Wire)] /\ Bumped(t, waiting)
  /\ UNCHANGED <<busy, role, db>>
  /\ \A u \in Tab :
       /\ ToSet(waiting[u]) \ {Bump} = ToSet(chan[u]) \ {Bump}
       /\ u # t => waiting[u] = chan[u]
       /\ Single(u, chan[u]) => Single(u, waiting[u])

\* Who rings, and with which channels.
LEMMA WhoRings ==
  ASSUME TypeOK
  PROVE  /\ \A c \in Call : BumpLocal(c) => Rings(Owner[c], chan)
         /\ \A t \in Tab : /\ FinishEvents(t) \/ FinishSnapshot(t) => Rings(t, chan)
                           /\ RecvBump(t) => Rings(t, [chan EXCEPT ![t] = Tail(@)])
<1>1. chan \in [Tab -> Seq(Wire)]
  BY TypeParts DEF TabType
<1>2. ASSUME NEW c \in Call, BumpLocal(c) PROVE Rings(Owner[c], chan)
  BY <1>1, <1>2 DEF BumpLocal, Rings, syncVars
<1>3. ASSUME NEW t \in Tab, FinishEvents(t) \/ FinishSnapshot(t) PROVE Rings(t, chan)
  BY <1>1, <1>3 DEF FinishEvents, FinishSnapshot, Rings
<1>4. ASSUME NEW t \in Tab, RecvBump(t) PROVE Rings(t, [chan EXCEPT ![t] = Tail(@)])
  <2>1. /\ chan[t] # <<>> /\ Head(chan[t]) = Bump /\ Bumped(t, [chan EXCEPT ![t] = Tail(@)])
        /\ UNCHANGED <<busy, role, db>>
    BY <1>4 DEF RecvBump, syncVars
  <2>2. /\ [chan EXCEPT ![t] = Tail(@)] \in [Tab -> Seq(Wire)]
        /\ ToSet(chan[t]) = {Bump} \cup ToSet(Tail(chan[t]))
        /\ Single(t, chan[t]) => Single(t, Tail(chan[t]))
    BY <2>1, Taken, TailSingle
  <2>. QED
    BY <1>1, <2>1, <2>2 DEF Rings
<1>. QED
  BY <1>2, <1>3, <1>4

\* No reply is lost or invented by a bump, and nobody is unmarked.
Rung(t) ==
  /\ \A u \in Tab :
       /\ ToSet(chan'[u]) \ {Bump} = ToSet(chan[u]) \ {Bump}
       /\ Single(u, chan[u]) => Single(u, chan'[u])
       /\ Marked(u) => Marked(u)'
       /\ Answering(u)' = Answering(u) /\ (Live(u)' <=> Live(u))
  /\ Marked(t)' /\ (Leads(t) => \A u \in Tab : Live(u) => Marked(u)')
  /\ UNCHANGED <<busy, role, db, run, rows, shown>>

\* What a ring does: marks, and only marks.
LEMMA RingsOut ==
  ASSUME TypeOK, NEW t, NEW waiting, Rings(t, waiting)
  PROVE  t \in Tab /\ Rung(t)
<1>1. /\ t \in Tab /\ Passed(waiting) /\ dirty'[t] /\ \A u \in Tab : dirty[u] => dirty'[u]
      /\ Leads(t) => \A u \in Tab : Live(u) => dirty'[u] \/ Bump \in ToSet(chan'[u])
      /\ UNCHANGED <<run, rows, shown, busy, role, db>>
  BY Bumps DEF Rings
<1>2. ASSUME NEW u \in Tab
      PROVE  /\ ToSet(chan'[u]) \ {Bump} = ToSet(chan[u]) \ {Bump}
             /\ Single(u, chan[u]) => Single(u, chan'[u])
             /\ Marked(u) => Marked(u)'
  BY <1>1 DEF Rings, Passed, Marked
<1>3. ASSUME NEW u \in Tab PROVE Answering(u)' = Answering(u)
  <2>1. Answering(u) = {msg \in (ToSet(chan[u]) \ {Bump}) \cup {busy} : Underway(u, msg)}
    BY Answers DEF Answering
  <2>2. Answering(u)' = {msg \in (ToSet(chan'[u]) \ {Bump}) \cup {busy'} : Underway(u, msg)}
    BY Answers DEF Answering
  <2>. QED
    BY <1>1, <1>2, <2>1, <2>2
<1>4. ASSUME NEW u \in Tab PROVE Live(u)' <=> Live(u)
  BY <1>1 DEF Live
<1>. QED
  BY <1>1, <1>2, <1>3, <1>4 DEF Rung, Marked

\* The second kind rings.
LEMMA RingIs ==
  ASSUME TypeOK, RingStep
  PROVE  \E t \in Tab : Rung(t)
BY WhoRings, RingsOut DEF RingStep

\* The reply of the leader is on the channel of its tab, and of an exec with a
\* bump for everybody.
LEMMA SendReplyIs ==
  ASSUME TypeOK, OneAnswer, NEW t \in Tab, SendReply(t)
  PROVE  /\ busy \in RowsMsg \cup DoneMsg /\ busy' = None
         /\ \A u \in Tab :
              /\ ToSet(chan'[u]) \ {Bump} =
                   (ToSet(chan[u]) \ {Bump}) \cup (IF u = Addressee(busy) /\ Live(u) THEN {busy} ELSE {})
              /\ Marked(u) => Marked(u)'
              /\ Live(u) => Single(u, chan'[u]) /\ Answering(u)' = Answering(u)
              /\ Touches(busy) /\ Live(u) => Marked(u)'
         /\ UNCHANGED <<role, db, run, rows, shown>>
<1>1. /\ busy \in RowsMsg \cup DoneMsg /\ busy # Bump /\ chan \in [Tab -> Seq(Wire)]
      /\ dirty \in [Tab -> BOOLEAN]
  BY TypeParts, Messages DEF SendReply, TabType, QueryType
<1>2. PICK waiting \in {chan, Announced(t, chan)} :
        /\ chan' = Delivered(busy, waiting)
        /\ Touches(busy) => waiting = Announced(t, chan) /\ dirty' = [dirty EXCEPT ![t] = TRUE]
        /\ ~Touches(busy) => dirty' = dirty
  BY DEF SendReply, queryVars
<1>3. /\ waiting \in [Tab -> Seq(Wire)]
      /\ \A u \in Tab :
           /\ ToSet(waiting[u]) \ {Bump} = ToSet(chan[u]) \ {Bump}
           /\ Bump \in ToSet(chan[u]) => Bump \in ToSet(waiting[u])
           /\ Single(u, chan[u]) => Single(u, waiting[u])
           /\ Touches(busy) /\ u # t /\ Live(u) => Bump \in ToSet(waiting[u])
  <2>1. CASE waiting = Announced(t, chan)
    BY <1>1, <2>1, Announces
  <2>2. CASE waiting = chan /\ ~Touches(busy)
    BY <1>1, <2>2
  <2>. QED
    BY <1>2, <2>1, <2>2
<1>4. UNCHANGED <<role, db, run, rows, shown>> /\ busy' = None
  BY DEF SendReply, queryVars
<1>5. ASSUME NEW u \in Tab
      PROVE  /\ ToSet(chan'[u]) = ToSet(waiting[u]) \cup (IF u = Addressee(busy) /\ Live(u) THEN {busy} ELSE {})
             /\ Single(u, waiting[u]) /\ (Underway(u, busy) => \A m \in ToSet(waiting[u]) : ~Underway(u, m))
                  => Single(u, chan'[u])
  <2>1. chan' = Delivered(busy, waiting) /\ waiting \in [Tab -> Seq(Wire)]
    BY <1>2, <1>3
  <2>2. /\ ToSet(Delivered(busy, waiting)[u]) =
             ToSet(waiting[u]) \cup (IF u = Addressee(busy) /\ Live(u) THEN {busy} ELSE {})
        /\ Single(u, waiting[u]) /\ (Underway(u, busy) => \A m \in ToSet(waiting[u]) : ~Underway(u, m))
             => Single(u, Delivered(busy, waiting)[u])
    BY <1>1, <2>1, Delivers, Zenon
  <2>. QED
    BY <2>1, <2>2
<1>6. ASSUME NEW u \in Tab
      PROVE  /\ ToSet(chan'[u]) \ {Bump} =
                  (ToSet(chan[u]) \ {Bump}) \cup (IF u = Addressee(busy) /\ Live(u) THEN {busy} ELSE {})
             /\ Bump \in ToSet(chan[u]) => Bump \in ToSet(chan'[u])
             /\ Touches(busy) /\ u # t /\ Live(u) => Bump \in ToSet(chan'[u])
  BY <1>1, <1>3, <1>5
<1>7. ASSUME NEW u \in Tab
      PROVE  (dirty[u] => dirty'[u]) /\ (Touches(busy) => dirty'[t])
  BY <1>1, <1>2
<1>8. ASSUME NEW u \in Tab, Live(u)
      PROVE  Single(u, chan'[u]) /\ Answering(u)' = Answering(u)
  <2>1. Single(u, chan[u]) /\ (Underway(u, busy) => \A m \in ToSet(chan[u]) : ~Underway(u, m))
    BY <1>8 DEF OneAnswer
  <2>2. \A m \in ToSet(waiting[u]) : m \in ToSet(chan[u]) \/ ~Underway(u, m)
    BY <1>3, Answers
  <2>3. Single(u, chan'[u])
    BY <1>3, <1>5, <2>1, <2>2
  <2>4. Answering(u) = {msg \in (ToSet(chan[u]) \ {Bump}) \cup {busy} : Underway(u, msg)}
    BY Answers DEF Answering
  <2>5. Answering(u)' = {msg \in ToSet(chan'[u]) \ {Bump} : Underway(u, msg)}
    BY <1>4, Answers DEF Answering
  <2>6. Underway(u, busy) => u = Addressee(busy)
    BY DEF Underway, Addressee
  <2>. QED
    BY <1>6, <1>8, <2>3, <2>4, <2>5, <2>6
<1>. QED
  BY <1>1, <1>4, <1>6, <1>7, <1>8 DEF Marked

\* The reply to an Exec is taken, by a write with a bump.
LEMMA TakeDoneIs ==
  ASSUME TypeOK, NEW t \in Tab, NEW msg, msg = Head(chan[t]), TakeDone(t)
  PROVE  /\ msg \in DoneMsg /\ msg \in ToSet(chan[t])
         /\ Calls(msg.call, "asked", IF msg.ok THEN "returned" ELSE "failed")
         /\ \A u \in Tab :
              /\ ToSet(chan'[u]) \ {Bump} \subseteq ToSet(chan[u]) \ {Bump}
              /\ ToSet(chan[u]) \subseteq ToSet(chan'[u]) \cup {msg}
              /\ u # t => ToSet(chan'[u]) \ {Bump} = ToSet(chan[u]) \ {Bump}
              /\ Single(u, chan[u]) => Single(u, chan'[u])
              /\ Marked(u) => Marked(u)'
              /\ Answering(u)' = Answering(u)
         /\ msg.ok /\ Kind[msg.call] = "write" => Marked(t)'
         /\ UNCHANGED <<busy, role, db, run, rows, shown, pending, slog, got, sync, cut>>
<1>. DEFINE waiting == [chan EXCEPT ![t] = Tail(@)]
<1>1. /\ chan[t] # <<>> /\ msg.kind = "done" /\ Calls(msg.call, "asked", IF msg.ok THEN "returned" ELSE "failed")
      /\ IF msg.ok /\ Kind[msg.call] = "write"
           THEN Bumped(t, waiting) ELSE chan' = waiting /\ UNCHANGED queryVars
      /\ UNCHANGED <<busy, role, db, pending, slog, got, sync, cut>>
  BY DEF TakeDone, syncVars
<1>2. /\ msg \in Wire /\ waiting \in [Tab -> Seq(Wire)] /\ chan[t] \in Seq(Wire)
      /\ ToSet(chan[t]) = {msg} \cup ToSet(Tail(chan[t])) /\ chan \in [Tab -> Seq(Wire)]
  BY <1>1, Taken, TypeParts DEF TabType
<1>3. msg \in DoneMsg /\ msg # Bump
  BY <1>1, <1>2, Messages DEF Wire
<1>4. ASSUME NEW u \in Tab
      PROVE  /\ u # t => waiting[u] = chan[u]
             /\ u = t => waiting[u] = Tail(chan[u])
             /\ Single(u, chan[u]) => Single(u, waiting[u])
  <2>1. (u # t => waiting[u] = chan[u]) /\ (u = t => waiting[u] = Tail(chan[u]))
    BY <1>2
  <2>. QED
    BY <1>1, <1>2, <2>1, TailSingle
<1>. HIDE DEF waiting
<1>5. /\ Passed(waiting) /\ UNCHANGED <<run, rows, shown>> /\ \A u \in Tab : dirty[u] => dirty'[u]
      /\ msg.ok /\ Kind[msg.call] = "write" => dirty'[t]
  <2>1. CASE msg.ok /\ Kind[msg.call] = "write"
    BY <1>1, <1>2, <2>1, Bumps
  <2>2. CASE ~(msg.ok /\ Kind[msg.call] = "write")
    BY <1>1, <1>2, <2>2 DEF Passed, queryVars
  <2>. QED
    BY <2>1, <2>2
<1>6. ASSUME NEW u \in Tab
      PROVE  /\ ToSet(chan'[u]) \ {Bump} \subseteq ToSet(chan[u]) \ {Bump}
             /\ ToSet(chan[u]) \subseteq ToSet(chan'[u]) \cup {msg}
             /\ u # t => ToSet(chan'[u]) \ {Bump} = ToSet(chan[u]) \ {Bump}
             /\ Single(u, chan[u]) => Single(u, chan'[u])
             /\ Marked(u) => Marked(u)'
  <2>1. /\ ToSet(chan'[u]) \ {Bump} = ToSet(waiting[u]) \ {Bump}
        /\ Bump \in ToSet(waiting[u]) => Bump \in ToSet(chan'[u])
        /\ Single(u, waiting[u]) => Single(u, chan'[u])
    BY <1>5 DEF Passed
  <2>2. ToSet(waiting[u]) \subseteq ToSet(chan[u]) /\ ToSet(chan[u]) \subseteq ToSet(waiting[u]) \cup {msg}
    BY <1>2, <1>4
  <2>. QED
    BY <1>3, <1>4, <1>5, <2>1, <2>2 DEF Marked
<1>7. ASSUME NEW u \in Tab PROVE Answering(u)' = Answering(u)
  <2>1. Answering(u) = {m \in (ToSet(chan[u]) \ {Bump}) \cup {busy} : Underway(u, m)}
    BY Answers DEF Answering
  <2>2. Answering(u)' = {m \in (ToSet(chan'[u]) \ {Bump}) \cup {busy'} : Underway(u, m)}
    BY Answers DEF Answering
  <2>3. ~Underway(u, msg)
    BY <1>3, Answers
  <2>4. \A m : Underway(u, m) => (m \in ToSet(chan'[u]) \ {Bump} <=> m \in ToSet(chan[u]) \ {Bump})
    BY <1>6, <2>3
  <2>. QED
    BY <1>1, <2>1, <2>2, <2>4
<1>. QED
  BY <1>1, <1>2, <1>3, <1>5, <1>6, <1>7 DEF Marked

----------------------------------------------------------------------------
(* Replies. *)

\* Every action leaves the replies on their channels.
LEMMA AddressedStep ==
  ASSUME TypeOK, OneAnswer, Addressed, [Next]_vars
  PROVE  Addressed'
<1>. USE DEF Addressed
<1>1. CASE AsideStep
  BY <1>1, AsideIs DEF Aside
<1>2. CASE RingStep
  <2>1. \A u \in Tab : ToSet(chan'[u]) \ {Bump} = ToSet(chan[u]) \ {Bump}
    BY <1>2, RingIs DEF Rung
  <2>2. \A u \in Tab : \A msg \in ToSet(chan'[u]) : msg = Bump \/ msg \in ToSet(chan[u])
    BY <2>1
  <2>. QED
    BY <2>2, Messages
<1>3. ASSUME NEW t \in Tab, Restart(t) PROVE Addressed'
  <2>1. chan' = [chan EXCEPT ![t] = Unanswered(t, @)] /\ Live(t) /\ chan \in [Tab -> Seq(Wire)]
    BY <1>3, TypeParts DEF Restart, TabType
  <2>2. ToSet(Unanswered(t, chan[t])) \subseteq ToSet(chan[t])
    BY <2>1, DropAnswer DEF OneAnswer
  <2>. QED
    BY <2>1, <2>2
<1>4. ASSUME NEW t \in Tab, Read(t) \/ Show(t) PROVE Addressed'
  BY <1>4 DEF Read, Show
<1>5. ASSUME NEW t \in Tab, TakeRows(t) PROVE Addressed'
  BY <1>5, Taken, TypeParts DEF TakeRows, TabType
<1>6. ASSUME NEW t \in Tab, Die(t) PROVE Addressed'
  <2>1. chan' = [chan EXCEPT ![t] = <<>>] /\ chan \in [Tab -> Seq(Wire)]
    BY <1>6, TypeParts DEF Die, TabType
  <2>2. ToSet(<<>>) = {}
    BY DEF ToSet
  <2>. QED
    BY <2>1, <2>2
<1>7. ASSUME NEW t \in Tab, SendReply(t) PROVE Addressed'
  <2>1. ASSUME NEW u \in Tab, NEW msg \in ToSet(chan'[u])
        PROVE  msg = Bump \/ msg \in ToSet(chan[u]) \/ (msg = busy /\ u = Addressee(busy))
    <3>1. ToSet(chan'[u]) \ {Bump} =
            (ToSet(chan[u]) \ {Bump}) \cup (IF u = Addressee(busy) /\ Live(u) THEN {busy} ELSE {})
      BY <1>7, SendReplyIs
    <3>2. CASE u = Addressee(busy) /\ Live(u)
      BY <2>1, <3>1, <3>2
    <3>3. CASE ~(u = Addressee(busy) /\ Live(u))
      <4>1. ToSet(chan'[u]) \ {Bump} = ToSet(chan[u]) \ {Bump}
        BY <3>1, <3>3
      <4>. QED
        BY <2>1, <4>1
    <3>. QED
      BY <3>2, <3>3
  <2>2. /\ busy.kind = "rows" => busy.tab = Addressee(busy)
        /\ busy.kind = "done" => Owner[busy.call] = Addressee(busy)
    BY DEF Addressee
  <2>. QED
    BY <2>1, <2>2, Messages
<1>8. ASSUME NEW t \in Tab, TakeDone(t) PROVE Addressed'
  <2>1. \A u \in Tab : ToSet(chan'[u]) \ {Bump} \subseteq ToSet(chan[u]) \ {Bump}
    BY <1>8, TakeDoneIs
  <2>2. Bump.kind = "bump"
    BY Messages
  <2>3. ASSUME NEW u \in Tab, NEW msg \in ToSet(chan'[u])
        PROVE  msg.kind = "bump" \/ msg \in ToSet(chan[u])
    BY <2>1, <2>2
  <2>. QED
    BY <2>3
<1>9. ASSUME NEW t \in Tab, NEW u \in Tab, ServeQuery(t, u) PROVE Addressed'
  BY <1>9 DEF ServeQuery
<1>10. ASSUME NEW t \in Tab, NEW c \in Call, ServeExec(t, c) PROVE Addressed'
  BY <1>10 DEF ServeExec
<1>. QED
  BY StepKinds, <1>1, <1>2, <1>3, <1>4, <1>5, <1>6, <1>7, <1>8, <1>9, <1>10 DEF ReplyStep

\* The answers to tab u, when neither its channel nor busy has changed for it.
LEMMA AnsweringSame ==
  ASSUME NEW u, chan'[u] = chan[u], busy' = busy \/ (~Underway(u, busy) /\ ~Underway(u, busy'))
  PROVE  Answering(u)' = Answering(u)
<1>1. Answering(u) = {msg \in ToSet(chan[u]) : Underway(u, msg)} \cup (IF Underway(u, busy) THEN {busy} ELSE {})
  BY DEF Answering
<1>2. Answering(u)' = {msg \in ToSet(chan'[u]) : Underway(u, msg)} \cup (IF Underway(u, busy') THEN {busy'} ELSE {})
  BY DEF Answering
<1>. QED
  BY <1>1, <1>2

\* A restart leaves no answer to its tab, and the others theirs.
LEMMA RestartIs ==
  ASSUME TypeOK, OneAnswer, NEW t \in Tab, Restart(t)
  PROVE  /\ ToSet(chan'[t]) = {msg \in ToSet(chan[t]) : ~Underway(t, msg)}
         /\ Single(t, chan'[t]) /\ Answering(t)' = {} /\ ~Underway(t, busy')
         /\ \A u \in Tab \ {t} : chan'[u] = chan[u] /\ Answering(u)' = Answering(u)
         /\ \A u : Underway(u, busy') => busy' = busy
<1>1. /\ chan' = [chan EXCEPT ![t] = Unanswered(t, @)] /\ Live(t) /\ chan \in [Tab -> Seq(Wire)]
      /\ busy' = IF Underway(t, busy) THEN None ELSE busy
  BY TypeParts DEF Restart, TabType
<1>2. ToSet(chan'[t]) = {msg \in ToSet(chan[t]) : ~Underway(t, msg)} /\ Single(t, chan'[t])
  BY <1>1, DropAnswer DEF OneAnswer
<1>3. ~Underway(t, busy') /\ \A u : Underway(u, busy') => busy' = busy
  BY <1>1, Answers
<1>4. Answering(t)' = {}
  BY <1>2, <1>3 DEF Answering
<1>5. ASSUME NEW u \in Tab \ {t} PROVE chan'[u] = chan[u] /\ Answering(u)' = Answering(u)
  <2>1. chan'[u] = chan[u]
    BY <1>1
  <2>2. busy' = busy \/ (~Underway(u, busy) /\ ~Underway(u, busy'))
    <3>1. CASE Underway(t, busy)
      <4>1. busy' = None /\ ~Underway(u, busy)
        BY <1>1, <1>5, <3>1 DEF Underway
      <4>. QED
        BY <4>1, Answers
    <3>2. CASE ~Underway(t, busy)
      <4>1. busy' = busy
        BY <1>1, <3>2, Zenon
      <4>. QED
        BY <4>1
    <3>. QED
      BY <3>1, <3>2
  <2>. QED
    BY <2>1, <2>2, AnsweringSame
<1>. QED
  BY <1>2, <1>3, <1>4, <1>5

\* Rows taken were the only answer to their tab.
LEMMA TakeRowsIs ==
  ASSUME TypeOK, OneAnswer, NEW t \in Tab, Live(t), TakeRows(t)
  PROVE  /\ Head(chan[t]) \in Answering(t) /\ run[t] = "remote"
         /\ ToSet(chan'[t]) \subseteq ToSet(chan[t])
         /\ Bump \in ToSet(chan[t]) => Bump \in ToSet(chan'[t])
         /\ Single(t, chan'[t]) /\ Answering(t)' = {} /\ ~Underway(t, busy)
         /\ \A u \in Tab \ {t} : chan'[u] = chan[u] /\ Answering(u)' = Answering(u)
<1>1. /\ chan[t] # <<>> /\ Underway(t, Head(chan[t])) /\ chan' = [chan EXCEPT ![t] = Tail(@)]
      /\ busy' = busy /\ chan \in [Tab -> Seq(Wire)]
  BY TypeParts DEF TakeRows, TabType
<1>2. ToSet(chan[t]) = {Head(chan[t])} \cup ToSet(Tail(chan[t])) /\ chan'[t] = Tail(chan[t])
  BY <1>1, Taken
<1>3. Single(t, chan'[t]) /\ \A msg \in ToSet(chan'[t]) : ~Underway(t, msg)
  BY <1>1, <1>2, TailSingle DEF OneAnswer
<1>4. Head(chan[t]) \in Answering(t) /\ run[t] = "remote" /\ ~Underway(t, busy)
  BY <1>1, <1>2 DEF OneAnswer, Answering
<1>5. Answering(t)' = {}
  BY <1>1, <1>3, <1>4 DEF Answering
<1>6. Head(chan[t]) # Bump
  BY <1>1, Answers
<1>7. ASSUME NEW u \in Tab \ {t} PROVE chan'[u] = chan[u] /\ Answering(u)' = Answering(u)
  BY <1>1 DEF Answering
<1>. QED
  BY <1>2, <1>3, <1>4, <1>5, <1>6, <1>7

\* An Exec served leaves the answers alone; a Query served is the answer to its
\* tab.
LEMMA ServeIs ==
  ASSUME TypeOK, NEW t \in Tab
  PROVE  /\ \A c \in Call : ServeExec(t, c) => \A u \in Tab : ~Underway(u, busy') /\ Answering(u)' = Answering(u)
         /\ \A v \in Tab : ServeQuery(t, v) =>
              /\ Underway(v, busy') /\ \A msg \in ToSet(chan[v]) : ~Underway(v, msg)
              /\ Answering(v)' = {Rows(v, db)} /\ Rows(v, db).seen = db
              /\ \A u \in Tab \ {v} : ~Underway(u, busy') /\ Answering(u)' = Answering(u)
<1>1. ASSUME NEW c \in Call, ServeExec(t, c), NEW u \in Tab
      PROVE  ~Underway(u, busy') /\ Answering(u)' = Answering(u)
  <2>1. busy = None /\ chan' = chan /\ (busy' = Done(c, TRUE) \/ busy' = Done(c, FALSE))
    BY <1>1 DEF ServeExec
  <2>2. busy' \in DoneMsg
    <3>1. Done(c, TRUE) \in DoneMsg /\ Done(c, FALSE) \in DoneMsg
      BY Messages
    <3>. QED
      BY <2>1, <3>1
  <2>3. ~Underway(u, busy) /\ ~Underway(u, busy')
    BY <2>1, <2>2, Answers
  <2>. QED
    BY <2>1, <2>3, AnsweringSame
<1>2. ASSUME NEW v \in Tab, ServeQuery(t, v)
      PROVE  /\ Underway(v, busy') /\ \A msg \in ToSet(chan[v]) : ~Underway(v, msg)
             /\ Answering(v)' = {Rows(v, db)} /\ Rows(v, db).seen = db
             /\ \A u \in Tab \ {v} : ~Underway(u, busy') /\ Answering(u)' = Answering(u)
  <2>1. busy = None /\ chan' = chan /\ busy' = Rows(v, db) /\ Answering(v) = {}
    BY <1>2 DEF ServeQuery
  <2>2. Rows(v, db) \in RowsMsg /\ Rows(v, db) \in Wire /\ Rows(v, db).tab = v /\ Rows(v, db).seen = db
    BY Messages, TypeParts DEF DataType
  <2>3. Underway(v, busy') /\ \A u \in Tab \ {v} : ~Underway(u, busy') /\ ~Underway(u, busy)
    BY <2>1, <2>2, Answers
  <2>4. \A msg \in ToSet(chan[v]) : ~Underway(v, msg)
    BY <2>1 DEF Answering
  <2>5. Answering(v)' = {Rows(v, db)}
    BY <2>1, <2>3, <2>4 DEF Answering
  <2>6. \A u \in Tab \ {v} : Answering(u)' = Answering(u)
    BY <2>1, <2>3, AnsweringSame
  <2>. QED
    BY <2>2, <2>3, <2>4, <2>5, <2>6
<1>. QED
  BY <1>1, <1>2

\* With a tab go the messages to it; those to others stay, unless it led.
LEMMA DieIs ==
  ASSUME TypeOK, NEW t \in Tab, Die(t)
  PROVE  /\ ~Live(t)' /\ ToSet(chan'[t]) = {}
         /\ \A u \in Tab \ {t} :
              /\ chan'[u] = chan[u] /\ (Live(u)' <=> Live(u)) /\ (Leads(u)' <=> Leads(u))
              /\ dirty'[u] = dirty[u] /\ run'[u] = run[u] /\ rows'[u] = rows[u] /\ shown'[u] = shown[u]
              /\ Answering(u)' \subseteq Answering(u) /\ (Underway(u, busy') => busy' = busy)
         /\ busy' \in {busy, None} /\ db' = db
<1>1. /\ role' = [role EXCEPT ![t] = "dead"] /\ chan' = [chan EXCEPT ![t] = <<>>]
      /\ dirty' = [dirty EXCEPT ![t] = FALSE] /\ run' = [run EXCEPT ![t] = "idle"]
      /\ shown' = [shown EXCEPT ![t] = {}] /\ rows' = [rows EXCEPT ![t] = {}]
      /\ busy' \in {busy, None} /\ db' = db
  BY DEF Die
<1>2. TabType /\ QueryType
  BY TypeParts
<1>3. ~Live(t)' /\ ToSet(chan'[t]) = {}
  BY <1>1, <1>2 DEF Live, TabType, ToSet
<1>4. ASSUME NEW u \in Tab \ {t}
      PROVE  /\ chan'[u] = chan[u] /\ (Live(u)' <=> Live(u)) /\ (Leads(u)' <=> Leads(u))
             /\ dirty'[u] = dirty[u] /\ run'[u] = run[u] /\ rows'[u] = rows[u] /\ shown'[u] = shown[u]
  BY <1>1, <1>2 DEF TabType, QueryType, Live, Leads
<1>5. ASSUME NEW u \in Tab \ {t}
      PROVE  Answering(u)' \subseteq Answering(u) /\ (Underway(u, busy') => busy' = busy)
  BY <1>1, <1>4, Answers DEF Answering
<1>. QED
  BY <1>1, <1>3, <1>4, <1>5

\* No action makes a second answer, or one for a run that does not wait.
LEMMA OneAnswerStep ==
  ASSUME TypeOK, OneAnswer, [Next]_vars
  PROVE  OneAnswer'
<1>1. CASE AsideStep
  <2>1. UNCHANGED <<chan, busy, run>> /\ \A u \in Tab : Live(u)' <=> Live(u)
    BY <1>1, AsideIs DEF Aside
  <2>. QED
    BY <2>1 DEF OneAnswer, Answering
<1>2. CASE RingStep
  <2>1. PICK t \in Tab : Rung(t)
    BY <1>2, RingIs
  <2>. QED
    BY <2>1, Answers DEF OneAnswer, Rung
<1>3. ASSUME NEW t \in Tab, Restart(t) PROVE OneAnswer'
  <2>1. role' = role /\ \A u \in Tab \ {t} : run'[u] = run[u]
    BY <1>3, TypeParts DEF Restart, QueryType
  <2>. QED
    BY <1>3, <2>1, RestartIs DEF OneAnswer, Live
<1>4. ASSUME NEW t \in Tab, Read(t) \/ Show(t) PROVE OneAnswer'
  <2>1. /\ UNCHANGED <<chan, busy, role>> /\ run[t] \in {"local", "read"}
        /\ \A u \in Tab \ {t} : run'[u] = run[u]
    BY <1>4, TypeParts DEF Read, Show, QueryType
  <2>. QED
    BY <2>1 DEF OneAnswer, Live, Answering
<1>5. ASSUME NEW t \in Tab, TakeRows(t) PROVE OneAnswer'
  <2>1. UNCHANGED <<busy, role>> /\ \A u \in Tab \ {t} : run'[u] = run[u] /\ chan'[u] = chan[u]
    BY <1>5, TypeParts DEF TakeRows, QueryType, TabType
  <2>2. \A u \in Tab \ {t} : Answering(u)' = Answering(u)
    BY <2>1 DEF Answering
  <2>3. Live(t) => Single(t, chan'[t]) /\ Answering(t)' = {} /\ ~Underway(t, busy)
    BY <1>5, TakeRowsIs
  <2>. QED
    BY <2>1, <2>2, <2>3 DEF OneAnswer, Live
<1>6. ASSUME NEW t \in Tab, Die(t) PROVE OneAnswer'
  BY <1>6, DieIs DEF OneAnswer
<1>7. ASSUME NEW t \in Tab, SendReply(t) PROVE OneAnswer'
  <2>1. busy' = None /\ UNCHANGED <<role, run>>
    BY <1>7, SendReplyIs
  <2>2. \A u \in Tab : Live(u) => Single(u, chan'[u]) /\ Answering(u)' = Answering(u)
    BY <1>7, SendReplyIs
  <2>. QED
    BY <2>1, <2>2, Answers DEF OneAnswer, Live
<1>8. ASSUME NEW t \in Tab, TakeDone(t) PROVE OneAnswer'
  BY <1>8, TakeDoneIs, Answers DEF OneAnswer, Live
<1>9. ASSUME NEW t \in Tab, NEW u \in Tab, ServeQuery(t, u) PROVE OneAnswer'
  <2>1. UNCHANGED <<role, chan, run>> /\ run[u] = "remote"
    BY <1>9 DEF ServeQuery, queryVars
  <2>. QED
    BY <1>9, <2>1, ServeIs DEF OneAnswer, Live
<1>10. ASSUME NEW t \in Tab, NEW c \in Call, ServeExec(t, c) PROVE OneAnswer'
  <2>1. UNCHANGED <<role, chan, run>>
    BY <1>10 DEF ServeExec, queryVars
  <2>. QED
    BY <1>10, <2>1, ServeIs DEF OneAnswer, Live
<1>. QED
  BY StepKinds, <1>1, <1>2, <1>3, <1>4, <1>5, <1>6, <1>7, <1>8, <1>9, <1>10 DEF ReplyStep

----------------------------------------------------------------------------
(* Answers are of the database. *)

\* The database loses no change.
LEMMA Grows ==
  ASSUME TypeOK, OneAnswer, [Next]_vars
  PROVE  db \subseteq db'
<1>1. CASE AsideStep
  BY <1>1, AsideIs DEF Aside
<1>2. CASE RingStep
  BY <1>2, RingIs DEF Rung
<1>3. ASSUME NEW t \in Tab, Restart(t) \/ Read(t) \/ Show(t) \/ TakeRows(t) PROVE db' = db
  BY <1>3 DEF Restart, Read, Show, TakeRows
<1>4. ASSUME NEW t \in Tab, Die(t) PROVE db' = db
  BY <1>4 DEF Die
<1>5. ASSUME NEW t \in Tab, SendReply(t) \/ TakeDone(t) PROVE db' = db
  BY <1>5, SendReplyIs, TakeDoneIs
<1>6. ASSUME NEW t \in Tab, NEW u \in Tab, ServeQuery(t, u) PROVE db' = db
  BY <1>6 DEF ServeQuery
<1>7. ASSUME NEW t \in Tab, NEW c \in Call, ServeExec(t, c) PROVE db \subseteq db'
  BY <1>7 DEF ServeExec
<1>. QED
  BY StepKinds, <1>1, <1>2, <1>3, <1>4, <1>5, <1>6, <1>7 DEF ReplyStep

\* What a tab shows and has read is a part of the database, and stays one.
LEMMA ForwardStep ==
  ASSUME TypeOK, OneAnswer, Forward, [Next]_vars
  PROVE  Forward'
<1>. USE Grows
<1>1. ASSUME UNCHANGED <<run, rows, shown>>,
             \A u \in Tab : Live(u)' => Live(u) /\ Answering(u)' \subseteq Answering(u)
      PROVE  Forward'
  BY <1>1 DEF Forward
<1>2. CASE AsideStep
  <2>1. UNCHANGED <<chan, busy, run, rows, shown>> /\ \A u \in Tab : Live(u)' <=> Live(u)
    BY <1>2, AsideIs DEF Aside
  <2>2. \A u \in Tab : Answering(u)' = Answering(u)
    BY <2>1 DEF Answering
  <2>. QED
    BY <1>1, <2>1, <2>2
<1>3. CASE RingStep
  BY <1>1, <1>3, RingIs DEF Rung
<1>4. ASSUME NEW t \in Tab, Restart(t) PROVE Forward'
  <2>1. /\ role' = role /\ db' = db /\ shown' = shown /\ rows' = [rows EXCEPT ![t] = {}]
        /\ run' = [run EXCEPT ![t] = IF Leads(t) THEN "local" ELSE "remote"] /\ QueryType
    BY <1>4, TypeParts DEF Restart
  <2>2. run'[t] # "read" /\ rows'[t] = {} /\ \A u \in Tab \ {t} : run'[u] = run[u] /\ rows'[u] = rows[u]
    BY <2>1 DEF QueryType
  <2>3. Answering(t)' = {} /\ \A u \in Tab \ {t} : Answering(u)' = Answering(u)
    BY <1>4, RestartIs
  <2>. QED
    BY <2>1, <2>2, <2>3 DEF Forward, Live
<1>5. ASSUME NEW t \in Tab, Read(t) PROVE Forward'
  <2>1. /\ UNCHANGED <<role, chan, busy, db, shown>> /\ rows' = [rows EXCEPT ![t] = db]
        /\ run' = [run EXCEPT ![t] = "read"] /\ QueryType
    BY <1>5, TypeParts DEF Read
  <2>2. rows'[t] = db /\ \A u \in Tab \ {t} : run'[u] = run[u] /\ rows'[u] = rows[u]
    BY <2>1 DEF QueryType
  <2>3. \A u \in Tab : Answering(u)' = Answering(u)
    BY <2>1 DEF Answering
  <2>. QED
    BY <2>1, <2>2, <2>3 DEF Forward, Live
<1>6. ASSUME NEW t \in Tab, Show(t) PROVE Forward'
  <2>1. /\ UNCHANGED <<role, chan, busy, db>> /\ run[t] = "read" /\ QueryType
        /\ rows' = [rows EXCEPT ![t] = {}] /\ shown' = [shown EXCEPT ![t] = rows[t]]
        /\ run' = [run EXCEPT ![t] = "idle"]
    BY <1>6, TypeParts DEF Show
  <2>2. /\ shown'[t] = rows[t] /\ rows'[t] = {} /\ run'[t] = "idle"
        /\ \A u \in Tab \ {t} : run'[u] = run[u] /\ rows'[u] = rows[u] /\ shown'[u] = shown[u]
    BY <2>1 DEF QueryType
  <2>3. \A u \in Tab : Answering(u)' = Answering(u)
    BY <2>1 DEF Answering
  <2>4. Live(t) => Answering(t) = {}
    BY <2>1 DEF OneAnswer
  <2>. QED
    BY <2>1, <2>2, <2>3, <2>4 DEF Forward, Live
<1>7. ASSUME NEW t \in Tab, TakeRows(t) PROVE Forward'
  <2>1. /\ UNCHANGED <<role, rows, db>> /\ QueryType
        /\ run' = [run EXCEPT ![t] = "idle"] /\ shown' = [shown EXCEPT ![t] = Head(chan[t]).seen]
    BY <1>7, TypeParts DEF TakeRows
  <2>2. /\ shown'[t] = Head(chan[t]).seen /\ run'[t] = "idle"
        /\ \A u \in Tab \ {t} : run'[u] = run[u] /\ shown'[u] = shown[u]
    BY <2>1 DEF QueryType
  <2>3. CASE Live(t)
    <3>1. Head(chan[t]) \in Answering(t) /\ Answering(t)' = {}
      BY <1>7, <2>3, TakeRowsIs
    <3>2. \A u \in Tab \ {t} : Answering(u)' = Answering(u)
      BY <1>7, <2>3, TakeRowsIs
    <3>. QED
      BY <2>1, <2>2, <2>3, <3>1, <3>2 DEF Forward, Live
  <2>4. CASE ~Live(t)
    <3>1. \A u \in Tab \ {t} : Answering(u)' = Answering(u)
      BY <1>7, TypeParts DEF TakeRows, TabType, Answering
    <3>. QED
      BY <2>1, <2>2, <2>4, <3>1 DEF Forward, Live
  <2>. QED
    BY <2>3, <2>4
<1>8. ASSUME NEW t \in Tab, Die(t) PROVE Forward'
  <2>1. shown'[t] = {} /\ rows'[t] = {} /\ run'[t] = "idle"
    BY <1>8, TypeParts DEF Die, QueryType
  <2>. QED
    BY <1>8, <2>1, DieIs DEF Forward
<1>9. ASSUME NEW t \in Tab, SendReply(t) PROVE Forward'
  <2>1. /\ UNCHANGED <<role, run, rows, shown>>
        /\ \A u \in Tab : Live(u) => Answering(u)' = Answering(u)
    BY <1>9, SendReplyIs
  <2>. QED
    BY <1>1, <2>1 DEF Live
<1>10. ASSUME NEW t \in Tab, TakeDone(t) PROVE Forward'
  <2>1. UNCHANGED <<role, run, rows, shown>> /\ \A u \in Tab : Answering(u)' = Answering(u)
    BY <1>10, TakeDoneIs
  <2>. QED
    BY <1>1, <2>1 DEF Live
<1>11. ASSUME NEW t \in Tab, NEW u \in Tab, ServeQuery(t, u) PROVE Forward'
  <2>1. UNCHANGED <<role, run, rows, shown, db>>
    BY <1>11 DEF ServeQuery, queryVars
  <2>. QED
    BY <1>11, <2>1, ServeIs DEF Forward, Live
<1>12. ASSUME NEW t \in Tab, NEW c \in Call, ServeExec(t, c) PROVE Forward'
  <2>1. UNCHANGED <<role, run, rows, shown>>
    BY <1>12 DEF ServeExec, queryVars
  <2>2. \A u \in Tab : Answering(u)' = Answering(u)
    BY <1>12, ServeIs
  <2>. QED
    BY <1>1, <2>1, <2>2 DEF Live
<1>. QED
  BY StepKinds, <1>2, <1>3, <1>4, <1>5, <1>6, <1>7, <1>8, <1>9, <1>10, <1>11, <1>12 DEF ReplyStep

----------------------------------------------------------------------------
(* Calls and batches. *)

\* A reply that says yes is of a call that has run, and an Exec's is served once.
LEMMA ProgressStep ==
  ASSUME TypeOK, OneAnswer, Addressed, Progress, Batch, [Next]_vars
  PROVE  Progress'
<1>. USE Grows
<1>0. DataType /\ TabType /\ \A r \in Remote : r \notin Call
  BY TypeParts
<1>1. ASSUME UNCHANGED <<role, phase, pending, slog, db>>,
             \A c \in Call : Done(c, TRUE) \in ToSet(chan'[Owner[c]]) \cup {busy'} =>
                             Done(c, TRUE) \in ToSet(chan[Owner[c]]) \cup {busy}
      PROVE  Progress'
  BY <1>1 DEF Progress, Leads
<1>2. ASSUME UNCHANGED <<chan, busy>>,
             \A c \in Call :
               /\ phase'[c] \in {"steps", "bump"} => Leads(Owner[c])'
               /\ phase'[c] = "idle" => c \notin pending' \cup slog' \cup db'
               /\ c \in pending' => Kind[c] = "write" /\ c \notin slog'
               /\ phase'[c] \in {"bump", "returned"} => c \in db'
      PROVE  Progress'
  BY <1>2 DEF Progress
<1>3. ASSUME NEW t \in Tab, Promote(t) PROVE Progress'
  BY <1>0, <1>2, <1>3 DEF Promote, Progress, Leads, TabType, syncVars
<1>4. ASSUME NEW t \in Tab, Die(t) PROVE Progress'
  <2>1. \A c \in Call : phase'[c] = phase[c] \/ phase'[c] = "failed"
    BY <1>4 DEF Die
  <2>2. \A c \in Call : phase'[c] \in {"steps", "bump"} => Owner[c] # t
    BY <1>4 DEF Die
  <2>3. \A c \in Call : phase'[c] \in {"steps", "bump"} => Leads(Owner[c])'
    BY <1>4, <2>1, <2>2, DieIs DEF Progress
  <2>4. UNCHANGED <<pending, slog, db>> /\ busy' \in {busy, None}
    BY <1>4 DEF Die
  <2>5. \A c \in Call : Done(c, TRUE) \in ToSet(chan'[Owner[c]]) \cup {busy'} =>
                        Done(c, TRUE) \in ToSet(chan[Owner[c]]) \cup {busy}
    <3>1. \A c \in Call : Done(c, TRUE) # None
      BY Messages
    <3>2. \A u \in Tab : ToSet(chan'[u]) \subseteq ToSet(chan[u])
      BY <1>4, DieIs
    <3>. QED
      BY <2>4, <3>1, <3>2
  <2>. QED
    BY <2>1, <2>3, <2>4, <2>5 DEF Progress
<1>5. ASSUME NEW d \in Call, Push(d) PROVE Progress'
  <2>1. /\ UNCHANGED <<role, chan, busy, db, slog>> /\ Kind[d] = "write" /\ Leads(Owner[d])
        /\ phase[d] = "idle" /\ phase' = [phase EXCEPT ![d] = "steps"]
        /\ pending' \in {pending, pending \cup {d}}
    BY <1>5 DEF Push, Calls, queryVars
  <2>2. phase'[d] = "steps" /\ \A c \in Call \ {d} : phase'[c] = phase[c] /\ (c \in pending' <=> c \in pending)
    BY <1>0, <2>1 DEF DataType
  <2>. QED
    BY <1>2, <2>1, <2>2 DEF Progress, Leads
<1>6. ASSUME NEW d \in Call, RunLocal(d) PROVE Progress'
  BY <1>0, <1>2, <1>6 DEF RunLocal, Calls, Progress, Leads, DataType, syncVars
<1>7. ASSUME NEW d \in Call, RunLocalFails(d) PROVE Progress'
  <2>1. /\ UNCHANGED <<role, chan, busy, pending, slog>> /\ db' \subseteq db \cup {d}
        /\ phase' = [phase EXCEPT ![d] = "failed"]
    BY <1>7 DEF RunLocalFails, Calls, syncVars
  <2>2. phase'[d] = "failed" /\ \A c \in Call \ {d} : phase'[c] = phase[c] /\ (c \in db' <=> c \in db)
    BY <1>0, <1>7, <2>1 DEF DataType
  <2>. QED
    BY <1>2, <2>1, <2>2 DEF Progress, Leads
<1>8. ASSUME NEW d \in Call, AskLeader(d) PROVE Progress'
  <2>1. /\ UNCHANGED <<role, chan, busy, db, slog>> /\ phase[d] = "idle"
        /\ phase' = [phase EXCEPT ![d] = "asked"]
        /\ pending' \in {pending} \cup (IF Kind[d] = "write" THEN {pending \cup {d}} ELSE {})
    BY <1>8 DEF AskLeader, Calls, queryVars
  <2>2. phase'[d] = "asked" /\ \A c \in Call \ {d} : phase'[c] = phase[c] /\ (c \in pending' <=> c \in pending)
    BY <1>0, <2>1 DEF DataType
  <2>. QED
    BY <1>2, <2>1, <2>2 DEF Progress, Leads
<1>9. ASSUME NEW r \in Remote, Commit(r) PROVE Progress'
  BY <1>0, <1>2, <1>9 DEF Commit, Progress, Leads
<1>10. ASSUME NEW t \in Tab, NEW d \in Call, Upload(t, d) PROVE Progress'
  BY <1>0, <1>2, <1>10 DEF Upload, Progress, Leads
<1>11. ASSUME NEW t \in Tab, Receive(t) \/ ReceiveFails(t) PROVE Progress'
  <2>1. /\ UNCHANGED <<role, chan, busy, phase, pending, slog>> /\ db' \subseteq db \cup slog
    BY <1>11 DEF Receive, ReceiveFails, syncVars
  <2>. QED
    BY <1>2, <2>1 DEF Progress, Leads
<1>12. ASSUME NEW t \in Tab, SaveSnapshot(t) \/ Read(t) \/ Show(t) PROVE Progress'
  BY <1>1, <1>12 DEF SaveSnapshot, Read, Show, syncVars
<1>13. CASE UNCHANGED vars
  BY <1>1, <1>13 DEF vars, syncVars
<1>14. ASSUME NEW t \in Tab, Rung(t)
       PROVE  \A c \in Call : Done(c, TRUE) \in ToSet(chan'[Owner[c]]) \cup {busy'} =>
                              Done(c, TRUE) \in ToSet(chan[Owner[c]]) \cup {busy}
  <2>1. \A c \in Call : Done(c, TRUE) # Bump
    BY Messages
  <2>. QED
    BY <1>14, <2>1 DEF Rung
<1>15. ASSUME NEW d \in Call, BumpLocal(d) PROVE Progress'
  <2>1. \E t \in Tab : Rung(t)
    BY <1>15, RingIs DEF RingStep
  <2>2. \A c \in Call : Done(c, TRUE) \in ToSet(chan'[Owner[c]]) \cup {busy'} =>
                        Done(c, TRUE) \in ToSet(chan[Owner[c]]) \cup {busy}
    BY <1>14, <2>1
  <2>3. UNCHANGED <<role, pending, slog, db>> /\ phase[d] = "bump" /\ phase' = [phase EXCEPT ![d] = "returned"]
    BY <1>15 DEF BumpLocal, Calls, syncVars
  <2>4. phase'[d] = "returned" /\ d \in db /\ \A c \in Call \ {d} : phase'[c] = phase[c]
    BY <1>0, <2>3 DEF Progress, DataType
  <2>. QED
    BY <2>2, <2>3, <2>4 DEF Progress, Leads
<1>16. ASSUME NEW t \in Tab, FinishEvents(t) \/ FinishSnapshot(t) \/ RecvBump(t) PROVE Progress'
  <2>1. \E u \in Tab : Rung(u)
    BY <1>16, RingIs DEF RingStep
  <2>2. UNCHANGED <<role, phase, pending, slog, db>>
    BY <1>16 DEF FinishEvents, FinishSnapshot, RecvBump, syncVars
  <2>. QED
    BY <1>1, <1>14, <2>1, <2>2
<1>17. ASSUME NEW t \in Tab, Restart(t) PROVE Progress'
  <2>1. /\ UNCHANGED <<role, phase, pending, slog, db>> /\ busy' \in {busy, None}
        /\ chan' = [chan EXCEPT ![t] = Unanswered(t, @)]
    BY <1>17 DEF Restart, syncVars
  <2>2. \A u \in Tab : ToSet(chan'[u]) \subseteq ToSet(chan[u])
    BY <1>17, RestartIs
  <2>3. \A c \in Call : Done(c, TRUE) # None
    BY Messages
  <2>. QED
    BY <1>1, <2>1, <2>2, <2>3
<1>18. ASSUME NEW t \in Tab, TakeRows(t) PROVE Progress'
  <2>1. \A u \in Tab : ToSet(chan'[u]) \subseteq ToSet(chan[u])
    BY <1>0, <1>18, Taken DEF TakeRows, TabType
  <2>. QED
    BY <1>1, <1>18, <2>1 DEF TakeRows, syncVars
<1>19. ASSUME NEW t \in Tab, SendReply(t) PROVE Progress'
  <2>1. UNCHANGED <<role, phase, pending, slog, db>> /\ busy' = None
    BY <1>19 DEF SendReply, syncVars
  <2>2. \A c \in Call : Done(c, TRUE) # None /\ Done(c, TRUE) # Bump
    BY Messages
  <2>3. ASSUME NEW u \in Tab PROVE ToSet(chan'[u]) \subseteq ToSet(chan[u]) \cup {busy, Bump}
    <3>1. ToSet(chan'[u]) \ {Bump} =
            (ToSet(chan[u]) \ {Bump}) \cup (IF u = Addressee(busy) /\ Live(u) THEN {busy} ELSE {})
      BY <1>19, SendReplyIs
    <3>. QED
      BY <3>1
  <2>4. \A c \in Call : Done(c, TRUE) \in ToSet(chan'[Owner[c]]) =>
                        Done(c, TRUE) \in ToSet(chan[Owner[c]]) \cup {busy}
    <3>1. \A c \in Call : Owner[c] \in Tab
      OBVIOUS
    <3>. QED
      BY <2>2, <2>3, <3>1, Zenon
  <2>. QED
    BY <1>1, <2>1, <2>2, <2>4
<1>20. ASSUME NEW t \in Tab, TakeDone(t) PROVE Progress'
  <2>. DEFINE msg == Head(chan[t])
  <2>1. /\ msg \in DoneMsg /\ msg \in ToSet(chan[t])
        /\ Calls(msg.call, "asked", IF msg.ok THEN "returned" ELSE "failed")
        /\ \A u \in Tab : ToSet(chan'[u]) \ {Bump} \subseteq ToSet(chan[u]) \ {Bump}
        /\ UNCHANGED <<busy, role, db, pending, slog>>
    BY <1>20, TakeDoneIs
  <2>2. msg.kind = "done" /\ msg.call \in Call /\ msg.ok \in BOOLEAN /\ msg = Done(msg.call, msg.ok)
    BY <2>1, Messages
  <2>3. Owner[msg.call] = t
    BY <2>1, <2>2 DEF Addressed
  <2>4. msg.ok => msg.call \in db
    <3>1. msg.ok => msg = Done(msg.call, TRUE)
      BY <2>2
    <3>2. msg.ok => Done(msg.call, TRUE) \in ToSet(chan[Owner[msg.call]])
      BY <2>1, <2>3, <3>1, Zenon
    <3>. QED
      BY <2>2, <3>2 DEF Progress
  <2>. HIDE DEF msg
  <2>5. /\ \A c \in Call \ {msg.call} : phase'[c] = phase[c]
        /\ phase'[msg.call] \in {"returned", "failed"} /\ (phase'[msg.call] = "returned" => msg.ok)
    BY <1>0, <2>1, <2>2 DEF Calls, DataType
  <2>6. \A c \in Call : Done(c, TRUE) \in ToSet(chan'[Owner[c]]) \cup {busy'} =>
                        Done(c, TRUE) \in ToSet(chan[Owner[c]]) \cup {busy}
    <3>1. \A c \in Call : Done(c, TRUE) # Bump
      BY Messages
    <3>. QED
      BY <2>1, <3>1
  <2>. QED
    BY <2>1, <2>2, <2>4, <2>5, <2>6 DEF Progress, Leads
<1>21. ASSUME NEW t \in Tab, NEW u \in Tab, ServeQuery(t, u) PROVE Progress'
  <2>1. UNCHANGED <<role, chan, phase, pending, slog, db>> /\ busy' = Rows(u, db)
    BY <1>21 DEF ServeQuery, syncVars
  <2>2. \A c \in Call : Done(c, TRUE) # Rows(u, db)
    BY DEF Done, Rows
  <2>. QED
    BY <1>1, <2>1, <2>2
<1>22. ASSUME NEW t \in Tab, NEW d \in Call, ServeExec(t, d) PROVE Progress'
  <2>1. /\ UNCHANGED <<role, chan, phase, pending, slog>> /\ phase[d] = "asked"
        /\ \/ busy' = Done(d, TRUE) /\ db' = db \cup {d}
           \/ busy' = Done(d, FALSE) /\ db' = db
    BY <1>22 DEF ServeExec, syncVars
  <2>2. \A c \in Call : Done(c, TRUE) # Done(d, FALSE) /\ (Done(c, TRUE) = Done(d, TRUE) => c = d)
    BY DEF Done
  <2>. QED
    BY <2>1, <2>2 DEF Progress, Leads
<1>. QED
  BY <1>3, <1>4, <1>5, <1>6, <1>7, <1>8, <1>9, <1>10, <1>11, <1>12, <1>13, <1>15, <1>16, <1>17,
     <1>18, <1>19, <1>20, <1>21, <1>22 DEF Next, Works

\* What the cursor has passed is in the database, and what it is about to pass.
LEMMA BatchStep ==
  ASSUME TypeOK, OneAnswer, Batch, [Next]_vars
  PROVE  Batch'
<1>. USE Grows
<1>1. UNCHANGED <<got, sync>> => Batch'
  BY DEF Batch
<1>2. ASSUME NEW t \in Tab, Die(t) PROVE Batch'
  <2>1. got' = got /\ sync' \in {sync, NoBatch}
    BY <1>2 DEF Die
  <2>. QED
    BY <2>1 DEF Batch, NoBatch
<1>3. ASSUME NEW t \in Tab, Receive(t) PROVE Batch'
  BY <1>3 DEF Receive, Batch
<1>4. ASSUME NEW t \in Tab, FinishEvents(t) \/ FinishSnapshot(t) PROVE Batch'
  BY <1>4 DEF FinishEvents, FinishSnapshot, Batch, NoBatch
<1>5. ASSUME NEW t \in Tab, SaveSnapshot(t) PROVE Batch'
  <2>1. sync' = [at |-> "saved", ops |-> sync.ops] /\ got' = got \cup sync.ops
    BY <1>5, TypeParts DEF SaveSnapshot, SyncType
  <2>. QED
    BY <2>1 DEF Batch
<1>6. ASSUME NEW c \in Call, Push(c) \/ RunLocal(c) \/ RunLocalFails(c) \/ BumpLocal(c) \/ AskLeader(c)
      PROVE  UNCHANGED <<got, sync>>
  BY <1>6 DEF Push, RunLocal, RunLocalFails, BumpLocal, AskLeader, syncVars
<1>7. ASSUME NEW t \in Tab, \/ Promote(t) \/ Restart(t) \/ Read(t) \/ Show(t) \/ TakeRows(t)
                            \/ RecvBump(t) \/ TakeDone(t) \/ SendReply(t) \/ ReceiveFails(t)
      PROVE  UNCHANGED <<got, sync>>
  BY <1>7 DEF Promote, Restart, Read, Show, TakeRows, RecvBump, TakeDone, SendReply, ReceiveFails, syncVars
<1>8. ASSUME NEW t \in Tab, NEW u \in Tab, ServeQuery(t, u) PROVE UNCHANGED <<got, sync>>
  BY <1>8 DEF ServeQuery, syncVars
<1>9. ASSUME NEW t \in Tab, NEW c \in Call, ServeExec(t, c) \/ Upload(t, c) PROVE UNCHANGED <<got, sync>>
  BY <1>9 DEF ServeExec, Upload, syncVars
<1>10. ASSUME NEW r \in Remote, Commit(r) PROVE UNCHANGED <<got, sync>>
  BY <1>10 DEF Commit
<1>11. CASE UNCHANGED vars
  BY <1>1, <1>11 DEF vars, syncVars
<1>. QED
  BY <1>1, <1>2, <1>3, <1>4, <1>5, <1>6, <1>7, <1>8, <1>9, <1>10, <1>11 DEF Next, Works

----------------------------------------------------------------------------
(* What is owed. *)

\* Who is marked is due everything.
LEMMA MarkedDue ==
  ASSUME NEW u \in Tab, NEW c, Marked(u)'
  PROVE  Fresh(u, c)'
BY DEF Marked, Fresh, Due

\* When nothing of a tab's query changes but that it gets marked.
LEMMA FreshSame ==
  ASSUME NEW u \in Tab, NEW c, Fresh(u, c), Marked(u) => Marked(u)', Answering(u)' = Answering(u),
         run'[u] = run[u], rows'[u] = rows[u], shown'[u] = shown[u]
  PROVE  Fresh(u, c)'
BY DEF Marked, Fresh, Due

\* Nobody comes back from the dead.
LEMMA LiveBefore ==
  ASSUME TypeOK, OneAnswer, [Next]_vars, NEW u \in Tab, Live(u)'
  PROVE  Live(u)
<1>1. CASE AsideStep
  BY <1>1, AsideIs DEF Aside
<1>2. CASE RingStep
  BY <1>2, RingIs DEF Rung
<1>3. ASSUME NEW t \in Tab, \/ Restart(t) \/ Read(t) \/ Show(t) \/ TakeRows(t) \/ SendReply(t) \/ TakeDone(t)
      PROVE  Live(u)
  BY <1>3 DEF Restart, Read, Show, TakeRows, SendReply, TakeDone, Live
<1>4. ASSUME NEW t \in Tab, Die(t) PROVE Live(u)
  BY <1>4, DieIs
<1>5. ASSUME NEW t \in Tab, NEW v \in Tab, ServeQuery(t, v) PROVE Live(u)
  BY <1>5 DEF ServeQuery, Live
<1>6. ASSUME NEW t \in Tab, NEW d \in Call, ServeExec(t, d) PROVE Live(u)
  BY <1>6 DEF ServeExec, Live
<1>. QED
  BY StepKinds, <1>1, <1>2, <1>3, <1>4, <1>5, <1>6 DEF ReplyStep

\* Who has a change of the database, or is about to, keeps it.
LEMMA FreshStep ==
  ASSUME TypeOK, OneAnswer, Forward, [Next]_vars, NEW u \in Tab, Live(u)', NEW c \in db, Fresh(u, c)
  PROVE  Live(u) /\ Fresh(u, c)'
<1>0. QueryType /\ TabType
  BY TypeParts
<1>1. CASE AsideStep
  <2>1. Aside
    BY <1>1, AsideIs
  <2>. QED
    BY <2>1, FreshSame DEF Aside, Answering, Marked
<1>2. CASE RingStep
  BY <1>2, RingIs, FreshSame DEF Rung
<1>3. ASSUME NEW t \in Tab, Restart(t) PROVE Live(u) /\ Fresh(u, c)'
  <2>1. /\ role' = role /\ dirty' = [dirty EXCEPT ![t] = FALSE] /\ rows' = [rows EXCEPT ![t] = {}]
        /\ run' = [run EXCEPT ![t] = IF Leads(t) THEN "local" ELSE "remote"] /\ shown' = shown
    BY <1>3 DEF Restart
  <2>2. CASE u = t
    <3>1. Answering(u)' = {} /\ run'[u] \in {"local", "remote"}
      BY <1>0, <1>3, <2>1, <2>2, RestartIs DEF QueryType
    <3>. QED
      BY <2>1, <3>1 DEF Fresh, Due, Live
  <2>3. CASE u # t
    <3>1. chan'[u] = chan[u] /\ Answering(u)' = Answering(u)
      BY <1>3, <2>3, RestartIs
    <3>. QED
      BY <1>0, <2>1, <2>3, <3>1, FreshSame DEF QueryType, Live, Marked
  <2>. QED
    BY <2>2, <2>3
<1>4. ASSUME NEW t \in Tab, Read(t) PROVE Live(u) /\ Fresh(u, c)'
  <2>1. /\ UNCHANGED <<role, chan, busy, dirty, shown>> /\ run[t] = "local"
        /\ run' = [run EXCEPT ![t] = "read"] /\ rows' = [rows EXCEPT ![t] = db]
    BY <1>4 DEF Read
  <2>2. CASE u = t
    BY <1>0, <2>1, <2>2 DEF Fresh, Due, QueryType, Live
  <2>3. CASE u # t
    BY <1>0, <2>1, <2>3, FreshSame DEF QueryType, Live, Marked, Answering
  <2>. QED
    BY <2>2, <2>3
<1>5. ASSUME NEW t \in Tab, Show(t) PROVE Live(u) /\ Fresh(u, c)'
  <2>1. /\ UNCHANGED <<role, chan, busy, dirty>> /\ run[t] = "read"
        /\ run' = [run EXCEPT ![t] = "idle"] /\ rows' = [rows EXCEPT ![t] = {}]
        /\ shown' = [shown EXCEPT ![t] = rows[t]]
    BY <1>5 DEF Show
  <2>2. Live(u)
    BY <2>1 DEF Live
  <2>3. CASE u = t
    <3>1. shown'[u] = rows[u] /\ run[u] = "read"
      BY <1>0, <2>1, <2>3 DEF QueryType
    <3>2. c \in rows[u] \/ Marked(u)
      BY <2>2, <3>1 DEF Forward, Fresh, Due, Marked
    <3>. QED
      BY <2>1, <2>2, <3>1, <3>2 DEF Fresh, Due, Marked
  <2>4. CASE u # t
    BY <1>0, <2>1, <2>2, <2>4, FreshSame DEF QueryType, Marked, Answering
  <2>. QED
    BY <2>3, <2>4
<1>6. ASSUME NEW t \in Tab, TakeRows(t) PROVE Live(u) /\ Fresh(u, c)'
  <2>1. /\ UNCHANGED <<role, busy, dirty, rows>>
        /\ run' = [run EXCEPT ![t] = "idle"] /\ shown' = [shown EXCEPT ![t] = Head(chan[t]).seen]
        /\ chan' = [chan EXCEPT ![t] = Tail(@)]
    BY <1>6 DEF TakeRows
  <2>2. Live(u)
    BY <2>1 DEF Live
  <2>3. CASE u = t
    <3>1. /\ Head(chan[u]) \in Answering(u) /\ run[u] = "remote"
          /\ Bump \in ToSet(chan[u]) => Bump \in ToSet(chan'[u])
      BY <1>6, <2>2, <2>3, TakeRowsIs
    <3>2. shown'[u] = Head(chan[u]).seen
      BY <1>0, <2>1, <2>3 DEF QueryType
    <3>3. c \in Head(chan[u]).seen \/ Marked(u)
      BY <2>2, <3>1 DEF Forward, Fresh, Due, Marked
    <3>. QED
      BY <2>1, <2>2, <3>1, <3>2, <3>3 DEF Fresh, Due, Marked
  <2>4. CASE u # t
    <3>1. chan'[u] = chan[u]
      BY <1>0, <2>1, <2>4 DEF TabType
    <3>. QED
      BY <1>0, <2>1, <2>2, <2>4, <3>1, FreshSame DEF QueryType, Marked, Answering
  <2>. QED
    BY <2>3, <2>4
<1>7. ASSUME NEW t \in Tab, Die(t) PROVE Live(u) /\ Fresh(u, c)'
  <2>1. u # t
    BY <1>7, DieIs
  <2>2. /\ Live(u) /\ chan'[u] = chan[u] /\ dirty'[u] = dirty[u] /\ run'[u] = run[u]
        /\ rows'[u] = rows[u] /\ shown'[u] = shown[u] /\ Answering(u)' \subseteq Answering(u)
    BY <1>7, <2>1, DieIs
  <2>. QED
    BY <2>2 DEF Fresh, Due
<1>8. ASSUME NEW t \in Tab, SendReply(t) PROVE Live(u) /\ Fresh(u, c)'
  <2>1. UNCHANGED <<role, run, rows, shown>> /\ (Marked(u) => Marked(u)')
    BY <1>8, SendReplyIs
  <2>2. Live(u)
    BY <2>1 DEF Live
  <2>3. Answering(u)' = Answering(u)
    BY <1>8, <2>2, SendReplyIs
  <2>. QED
    BY <2>1, <2>2, <2>3, FreshSame
<1>9. ASSUME NEW t \in Tab, TakeDone(t) PROVE Live(u) /\ Fresh(u, c)'
  <2>1. UNCHANGED <<role, run, rows, shown>> /\ (Marked(u) => Marked(u)') /\ Answering(u)' = Answering(u)
    BY <1>9, TakeDoneIs
  <2>. QED
    BY <2>1, FreshSame DEF Live
<1>10. ASSUME NEW t \in Tab, NEW v \in Tab, ServeQuery(t, v) PROVE Live(u) /\ Fresh(u, c)'
  <2>1. UNCHANGED <<role, chan, dirty, run, rows, shown>>
    BY <1>10 DEF ServeQuery, queryVars
  <2>2. CASE u = v
    <3>1. Answering(u)' = {Rows(v, db)} /\ Rows(v, db).seen = db
      BY <1>10, <2>2, ServeIs
    <3>. QED
      BY <2>1, <3>1 DEF Fresh, Due, Live
  <2>3. CASE u # v
    <3>1. Answering(u)' = Answering(u)
      BY <1>10, <2>3, ServeIs
    <3>. QED
      BY <2>1, <3>1, FreshSame DEF Live, Marked
  <2>. QED
    BY <2>2, <2>3
<1>11. ASSUME NEW t \in Tab, NEW d \in Call, ServeExec(t, d) PROVE Live(u) /\ Fresh(u, c)'
  <2>1. UNCHANGED <<role, chan, dirty, run, rows, shown>> /\ Answering(u)' = Answering(u)
    BY <1>11, ServeIs DEF ServeExec, queryVars
  <2>. QED
    BY <2>1, FreshSame DEF Live, Marked
<1>. QED
  BY StepKinds, <1>1, <1>2, <1>3, <1>4, <1>5, <1>6, <1>7, <1>8, <1>9, <1>10, <1>11 DEF ReplyStep

\* A call is over for its tab only with its tab marked, and an exec with every
\* tab.
LEMMA ToldStep ==
  ASSUME TypeOK, OneAnswer, Addressed, Progress, [Next]_vars,
         NEW c \in Call, ~Told(c), Told(c)', NEW u \in Tab, Live(u)', u = Owner[c] \/ Kind[c] = "exec"
  PROVE  Marked(u)'
<1>0. DataType /\ TabType /\ Owner[c] \in Tab /\ Done(c, TRUE) # Bump /\ Done(c, TRUE) # None
  BY TypeParts, Messages
<1>1. ASSUME phase'[c] = "returned" => phase[c] = "returned",
             Done(c, TRUE) \in ToSet(chan'[Owner[c]]) => Done(c, TRUE) \in ToSet(chan[Owner[c]])
      PROVE  FALSE
  BY <1>1 DEF Told
<1>2. CASE AsideStep
  <2>1. chan' = chan
    BY <1>2, AsideIs DEF Aside
  <2>2. ASSUME NEW d \in Call, Push(d) \/ RunLocal(d) \/ RunLocalFails(d) \/ AskLeader(d)
        PROVE  phase'[c] = "returned" => phase[c] = "returned"
    BY <1>0, <2>2 DEF Push, RunLocal, RunLocalFails, AskLeader, Calls, DataType
  <2>3. ASSUME NEW t \in Tab, Promote(t) \/ Receive(t) \/ ReceiveFails(t) \/ SaveSnapshot(t)
        PROVE  phase' = phase
    BY <2>3 DEF Promote, Receive, ReceiveFails, SaveSnapshot
  <2>4. ASSUME NEW t \in Tab, NEW d \in Call, Upload(t, d) PROVE phase' = phase
    BY <2>4 DEF Upload
  <2>5. ASSUME NEW r \in Remote, Commit(r) PROVE phase' = phase
    BY <2>5 DEF Commit
  <2>6. UNCHANGED vars => phase' = phase
    BY DEF vars
  <2>. QED
    BY <1>1, <1>2, <2>1, <2>2, <2>3, <2>4, <2>5, <2>6 DEF AsideStep
<1>3. ASSUME NEW d \in Call, BumpLocal(d) PROVE Marked(u)'
  <2>1. Leads(Owner[d]) /\ Rung(Owner[d]) /\ Owner[d] \in Tab
    BY <1>3, WhoRings, RingsOut DEF BumpLocal, Calls, Progress
  <2>. QED
    BY <2>1 DEF Rung
<1>4. ASSUME NEW t \in Tab, FinishEvents(t) \/ FinishSnapshot(t) \/ RecvBump(t) PROVE FALSE
  <2>1. phase' = phase /\ \E v \in Tab : Rung(v)
    BY <1>4, RingIs DEF FinishEvents, FinishSnapshot, RecvBump, RingStep
  <2>. QED
    BY <1>0, <1>1, <2>1 DEF Rung
<1>5. ASSUME NEW t \in Tab, Restart(t) PROVE FALSE
  <2>1. phase' = phase /\ ToSet(chan'[Owner[c]]) \subseteq ToSet(chan[Owner[c]])
    BY <1>0, <1>5, RestartIs DEF Restart
  <2>. QED
    BY <1>1, <2>1
<1>6. ASSUME NEW t \in Tab, Read(t) \/ Show(t) PROVE FALSE
  BY <1>1, <1>6 DEF Read, Show
<1>7. ASSUME NEW t \in Tab, TakeRows(t) PROVE FALSE
  <2>1. phase' = phase /\ ToSet(chan'[Owner[c]]) \subseteq ToSet(chan[Owner[c]])
    BY <1>0, <1>7, Taken DEF TakeRows, TabType
  <2>. QED
    BY <1>1, <2>1
<1>8. ASSUME NEW t \in Tab, Die(t) PROVE FALSE
  <2>1. ToSet(chan'[Owner[c]]) \subseteq ToSet(chan[Owner[c]])
    BY <1>0, <1>8, DieIs
  <2>2. phase'[c] = "returned" => phase[c] = "returned"
    BY <1>8 DEF Die
  <2>. QED
    BY <1>1, <2>1, <2>2
<1>9. ASSUME NEW t \in Tab, SendReply(t) PROVE Marked(u)'
  <2>1. phase' = phase /\ role' = role
    BY <1>9 DEF SendReply
  <2>2. Kind[c] = "exec" /\ Done(c, TRUE) \in ToSet(chan'[Owner[c]]) /\ Done(c, TRUE) \notin ToSet(chan[Owner[c]])
    BY <2>1 DEF Told
  <2>3. ToSet(chan'[Owner[c]]) \subseteq ToSet(chan[Owner[c]]) \cup {busy, Bump}
    <3>1. ToSet(chan'[Owner[c]]) \ {Bump} = (ToSet(chan[Owner[c]]) \ {Bump})
             \cup (IF Owner[c] = Addressee(busy) /\ Live(Owner[c]) THEN {busy} ELSE {})
      BY <1>0, <1>9, SendReplyIs
    <3>. QED
      BY <3>1
  <2>4. busy = Done(c, TRUE)
    BY <1>0, <2>2, <2>3
  <2>5. Done(c, TRUE).kind = "done" /\ Done(c, TRUE).ok = TRUE /\ Done(c, TRUE).call = c
    BY DEF Done
  <2>6. Touches(busy)
    BY <2>2, <2>4, <2>5 DEF Touches
  <2>7. Live(u)
    BY <2>1 DEF Live
  <2>. QED
    BY <1>9, <2>6, <2>7, SendReplyIs
<1>10. ASSUME NEW t \in Tab, TakeDone(t) PROVE Marked(u)'
  <2>. DEFINE msg == Head(chan[t])
  <2>1. /\ msg \in DoneMsg /\ msg \in ToSet(chan[t])
        /\ Calls(msg.call, "asked", IF msg.ok THEN "returned" ELSE "failed")
        /\ ToSet(chan'[Owner[c]]) \ {Bump} \subseteq ToSet(chan[Owner[c]]) \ {Bump}
        /\ msg.ok /\ Kind[msg.call] = "write" => Marked(t)'
    BY <1>0, <1>10, TakeDoneIs
  <2>. HIDE DEF msg
  <2>2. msg.kind = "done" /\ msg.call \in Call /\ msg.ok \in BOOLEAN /\ msg = Done(msg.call, msg.ok)
    BY <2>1, Messages
  <2>3. Owner[msg.call] = t
    BY <2>1, <2>2 DEF Addressed
  <2>4. phase'[c] = "returned" /\ phase[c] # "returned"
    BY <1>0, <1>1, <2>1
  <2>5. c = msg.call /\ msg.ok
    BY <1>0, <2>1, <2>2, <2>4 DEF Calls, DataType
  <2>6. msg = Done(c, TRUE)
    BY <2>2, <2>5
  <2>7. Kind[c] # "exec"
    BY <2>1, <2>3, <2>5, <2>6, Zenon DEF Told
  <2>8. Kind[c] = "write"
    BY <2>7
  <2>. QED
    BY <2>1, <2>3, <2>5, <2>8
<1>11. ASSUME NEW t \in Tab, NEW v \in Tab, ServeQuery(t, v) PROVE FALSE
  BY <1>1, <1>11 DEF ServeQuery
<1>12. ASSUME NEW t \in Tab, NEW d \in Call, ServeExec(t, d) PROVE FALSE
  BY <1>1, <1>12 DEF ServeExec
<1>. QED
  BY StepKinds, <1>2, <1>3, <1>4, <1>5, <1>6, <1>7, <1>8, <1>9, <1>10, <1>11, <1>12
     DEF ReplyStep, RingStep

\* A change new to the database is one the session has yet to tell of, or one
\* nobody has to hear of.
LEMMA NewStep ==
  ASSUME TypeOK, OneAnswer, Progress, Batch, [Next]_vars, NEW c \in db' \ db
  PROVE  Accounted(c)'
<1>0. DataType /\ c \notin got
  BY TypeParts DEF Batch
<1>1. ASSUME c \in Call, UNCHANGED <<pending, slog, got, sync, chan>>,
             Kind[c] = "exec" => phase'[c] # "returned"
      PROVE  Accounted(c)'
  <2>1. CASE Kind[c] = "write"
    <3>1. c \in pending' \cup slog' => EchoDue(c)'
      BY <1>0, <1>1 DEF EchoDue
    <3>. QED
      BY <1>1, <2>1, <3>1 DEF Accounted, Hushed
  <2>2. CASE Kind[c] = "exec"
    <3>1. Done(c, TRUE) \notin ToSet(chan[Owner[c]])
      BY <1>1 DEF Progress
    <3>2. ~Told(c)'
      BY <1>1, <2>2, <3>1 DEF Told
    <3>. QED
      BY <1>1, <2>2, <3>2 DEF Accounted, Hushed
  <2>. QED
    BY <1>1, <2>1, <2>2
<1>2. ASSUME NEW d \in Call, RunLocal(d) PROVE Accounted(c)'
  BY <1>0, <1>1, <1>2 DEF RunLocal, syncVars, Calls, DataType
<1>3. ASSUME NEW d \in Call, RunLocalFails(d) PROVE Accounted(c)'
  BY <1>0, <1>1, <1>3 DEF RunLocalFails, syncVars, Calls, DataType
<1>4. ASSUME NEW t \in Tab, NEW d \in Call, ServeExec(t, d) PROVE Accounted(c)'
  BY <1>1, <1>4 DEF ServeExec, syncVars
<1>5. ASSUME NEW t \in Tab, Receive(t) PROVE Accounted(c)'
  BY <1>0, <1>5 DEF Receive, Accounted, EchoDue
<1>6. ASSUME NEW t \in Tab, ReceiveFails(t) PROVE Accounted(c)'
  BY <1>0, <1>6 DEF ReceiveFails, syncVars, Accounted, EchoDue
<1>7. ASSUME NEW d \in Call, Push(d) \/ BumpLocal(d) \/ AskLeader(d) PROVE db' = db
  BY <1>7 DEF Push, BumpLocal, AskLeader
<1>8. ASSUME NEW t \in Tab,
             \/ Promote(t) \/ Die(t) \/ Restart(t) \/ Read(t) \/ TakeRows(t) \/ Show(t) \/ RecvBump(t)
             \/ TakeDone(t) \/ SendReply(t) \/ FinishEvents(t) \/ SaveSnapshot(t) \/ FinishSnapshot(t)
      PROVE  db' = db
  BY <1>8 DEF Promote, Die, Restart, Read, TakeRows, Show, RecvBump, TakeDone, SendReply,
              FinishEvents, SaveSnapshot, FinishSnapshot
<1>9. ASSUME NEW t \in Tab, NEW v \in Tab, ServeQuery(t, v) PROVE db' = db
  BY <1>9 DEF ServeQuery
<1>10. ASSUME NEW t \in Tab, NEW d \in Call, Upload(t, d) PROVE db' = db
  BY <1>10 DEF Upload
<1>11. ASSUME NEW r \in Remote, Commit(r) PROVE db' = db
  BY <1>11 DEF Commit
<1>12. UNCHANGED vars => db' = db
  BY DEF vars
<1>. QED
  BY <1>2, <1>3, <1>4, <1>5, <1>6, <1>7, <1>8, <1>9, <1>10, <1>11, <1>12 DEF Next, Works

\* One that is accounted for remains so, unless every tab is told.
LEMMA AccountStep ==
  ASSUME TypeOK, OneAnswer, Addressed, Progress, Batch, [Next]_vars, NEW c \in db, Accounted(c),
         NEW u \in Tab, Live(u)'
  PROVE  Accounted(c)' \/ Marked(u)'
<1>0. DataType /\ SyncType /\ sync.ops \subseteq slog /\ sync.at \in SyncAt
      /\ \A r \in Remote : r \notin Call
  BY TypeParts, BatchFields
<1>1. ASSUME EchoDue(c) => Accounted(c)' \/ Marked(u)',
             cut \subseteq cut',
             c \in Call /\ Kind[c] = "write" /\ c \notin pending \cup slog => c \notin pending' \cup slog'
      PROVE  Accounted(c)' \/ Marked(u)'
  <2>1. CASE c \in Call /\ Kind[c] = "exec" /\ ~Told(c)
    BY <2>1, ToldStep DEF Accounted, Hushed
  <2>. QED
    BY <1>1, <2>1 DEF Accounted, Hushed
<1>2. ASSUME UNCHANGED <<pending, slog, got, sync, cut>> PROVE Accounted(c)' \/ Marked(u)'
  BY <1>1, <1>2 DEF Accounted, EchoDue
<1>3. ASSUME NEW d \in Call, Push(d) \/ AskLeader(d) PROVE Accounted(c)' \/ Marked(u)'
  <2>1. d # c
    BY <1>3 DEF Push, AskLeader, Calls, Progress
  <2>2. UNCHANGED <<slog, got, sync, cut>> /\ pending' \in {pending, pending \cup {d}}
    BY <1>3 DEF Push, AskLeader
  <2>. QED
    BY <1>1, <2>1, <2>2 DEF Accounted, EchoDue
<1>4. ASSUME NEW r \in Remote, Commit(r) PROVE Accounted(c)' \/ Marked(u)'
  <2>1. UNCHANGED <<pending, got, sync, cut>> /\ slog' = slog \cup {r}
    BY <1>4 DEF Commit
  <2>. QED
    BY <1>0, <1>1, <2>1 DEF Accounted, EchoDue
<1>5. ASSUME NEW t \in Tab, NEW d \in Call, Upload(t, d) PROVE Accounted(c)' \/ Marked(u)'
  <2>1. /\ UNCHANGED <<got, sync, cut>> /\ d \in pending /\ pending' = pending \ {d}
        /\ slog' = slog \cup {d} \/ slog' = slog
    BY <1>5 DEF Upload
  <2>2. Kind[d] = "write" /\ d \notin slog
    BY <2>1 DEF Progress
  <2>3. c # d \/ slog' = slog \cup {d} => (EchoDue(c) => EchoDue(c)')
    BY <2>1 DEF EchoDue
  <2>4. c = d /\ slog' = slog => Hushed(c)'
    BY <2>1, <2>2 DEF Hushed
  <2>. QED
    BY <1>1, <2>1, <2>3, <2>4 DEF Accounted
<1>6. ASSUME NEW t \in Tab, Receive(t) PROVE Accounted(c)' \/ Marked(u)'
  <2>1. UNCHANGED <<pending, slog, got, cut>> /\ sync.at = "idle"
    BY <1>6 DEF Receive, Idle
  <2>2. EchoDue(c) => EchoDue(c)'
    BY <2>1 DEF EchoDue, Batch
  <2>. QED
    BY <1>1, <2>1, <2>2 DEF Accounted
<1>7. ASSUME NEW t \in Tab, SaveSnapshot(t) PROVE Accounted(c)' \/ Marked(u)'
  <2>1. /\ UNCHANGED <<pending, slog, cut>> /\ got' = got \cup sync.ops
        /\ sync' = [at |-> "saved", ops |-> sync.ops]
    BY <1>0, <1>7 DEF SaveSnapshot, SyncType
  <2>2. EchoDue(c) => EchoDue(c)'
    BY <2>1 DEF EchoDue
  <2>. QED
    BY <1>1, <2>1, <2>2 DEF Accounted
<1>8. ASSUME NEW t \in Tab, FinishEvents(t) \/ FinishSnapshot(t) PROVE Marked(u)'
  <2>1. Rung(t) /\ Leads(t)
    BY <1>8, WhoRings, RingsOut DEF FinishEvents, FinishSnapshot
  <2>. QED
    BY <2>1 DEF Rung
<1>9. ASSUME NEW t \in Tab, Die(t) PROVE Accounted(c)' \/ Marked(u)'
  <2>1. UNCHANGED <<pending, slog, got>>
    BY <1>9 DEF Die
  <2>2. CASE Leads(t)
    <3>1. cut' = IF sync.at = "saved" THEN cut \cup sync.ops ELSE cut
      BY <1>9, <2>2 DEF Die
    <3>2. c \in sync.ops /\ sync.at = "saved" => c \in cut'
      BY <3>1
    <3>3. c \in sync.ops /\ sync.at # "saved" => c \in slog \ got
      BY <1>0 DEF Batch, SyncAt
    <3>4. EchoDue(c) => EchoDue(c)' \/ c \in cut'
      BY <2>1, <3>2, <3>3 DEF EchoDue
    <3>. QED
      BY <1>1, <2>1, <3>1, <3>4 DEF Accounted, Hushed
  <2>3. CASE ~Leads(t)
    BY <1>2, <1>9, <2>1, <2>3 DEF Die
  <2>. QED
    BY <2>2, <2>3
<1>10. ASSUME NEW d \in Call, RunLocal(d) \/ RunLocalFails(d) \/ BumpLocal(d)
       PROVE  UNCHANGED <<pending, slog, got, sync, cut>>
  BY <1>10 DEF RunLocal, RunLocalFails, BumpLocal, syncVars
<1>11. ASSUME NEW t \in Tab,
              \/ Promote(t) \/ Restart(t) \/ Read(t) \/ TakeRows(t) \/ Show(t) \/ RecvBump(t)
              \/ TakeDone(t) \/ SendReply(t) \/ ReceiveFails(t)
       PROVE  UNCHANGED <<pending, slog, got, sync, cut>>
  BY <1>11 DEF Promote, Restart, Read, TakeRows, Show, RecvBump, TakeDone, SendReply, ReceiveFails,
               syncVars
<1>12. ASSUME NEW t \in Tab, NEW v \in Tab, ServeQuery(t, v)
       PROVE  UNCHANGED <<pending, slog, got, sync, cut>>
  BY <1>12 DEF ServeQuery, syncVars
<1>13. ASSUME NEW t \in Tab, NEW d \in Call, ServeExec(t, d)
       PROVE  UNCHANGED <<pending, slog, got, sync, cut>>
  BY <1>13 DEF ServeExec, syncVars
<1>14. UNCHANGED vars => UNCHANGED <<pending, slog, got, sync, cut>>
  BY DEF vars, syncVars
<1>. QED
  BY <1>2, <1>3, <1>4, <1>5, <1>6, <1>7, <1>8, <1>9, <1>10, <1>11, <1>12, <1>13, <1>14 DEF Next, Works

\* A tab behind the database stays due, or what it misses accounted for.
LEMMA OwedStep ==
  ASSUME QueryInv, [Next]_vars
  PROVE  Owed'
<1>1. SUFFICES ASSUME NEW u \in Tab, Live(u)', NEW c \in db' PROVE Fresh(u, c)' \/ Accounted(c)'
  BY DEF Owed
<1>2. CASE c \notin db
  BY <1>2, NewStep DEF QueryInv
<1>3. CASE c \in db /\ Accounted(c)
  BY <1>1, <1>3, AccountStep, MarkedDue DEF QueryInv
<1>4. CASE c \in db /\ ~Accounted(c)
  <2>1. Live(u)
    BY <1>1, LiveBefore DEF QueryInv
  <2>2. Fresh(u, c)
    BY <1>4, <2>1 DEF QueryInv, Owed
  <2>. QED
    BY <1>1, <1>4, <2>2, FreshStep DEF QueryInv
<1>. QED
  BY <1>2, <1>3, <1>4

\* A tab that was told of its own call stays due until it shows it.
LEMMA OwnDueStep ==
  ASSUME QueryInv, [Next]_vars
  PROVE  OwnDue'
<1>1. SUFFICES ASSUME NEW c \in Call, Told(c)', Live(Owner[c])' PROVE Fresh(Owner[c], c)'
  BY DEF OwnDue
<1>2. CASE Told(c)
  <2>1. c \in db
    BY <1>2 DEF Told, QueryInv, Progress
  <2>2. Live(Owner[c])
    BY <1>1, LiveBefore DEF QueryInv
  <2>. QED
    BY <1>1, <1>2, <2>1, <2>2, FreshStep DEF QueryInv, OwnDue
<1>3. CASE ~Told(c)
  BY <1>1, <1>3, ToldStep, MarkedDue DEF QueryInv
<1>. QED
  BY <1>2, <1>3

----------------------------------------------------------------------------
(* The invariant. *)

\* The invariant holds of tabs just opened.
LEMMA Starts ==
  ASSUME Init
  PROVE  QueryInv
<1>. USE DEF Init
<1>1. ToSet(<<>>) = {}
  BY DEF ToSet
<1>2. TypeOK
  <2>1. QueryType /\ DataType /\ SyncType
    BY DEF QueryType, DataType, SyncType, SyncAt, Phase, NoBatch
  <2>2. TabType
    <3>1. <<>> \in Seq(Wire)
      OBVIOUS
    <3>. QED
      BY <3>1 DEF TabType
  <2>. QED
    BY <2>1, <2>2, TypeParts
<1>3. \A u \in Tab : chan[u] = <<>> /\ Answering(u) = {} /\ ~Underway(u, busy) /\ run[u] = "idle"
  BY <1>1, Answers DEF Answering
<1>4. Addressed
  BY <1>1, <1>3 DEF Addressed
<1>5. OneAnswer
  BY <1>1, <1>3 DEF OneAnswer, Single
<1>6. Forward
  BY <1>3 DEF Forward
<1>7. Progress
  <2>1. \A c \in Call : Done(c, TRUE) # None /\ ToSet(chan[Owner[c]]) = {}
    BY <1>1, <1>3, Messages
  <2>. QED
    BY <2>1 DEF Progress
<1>8. Batch
  BY DEF Batch, NoBatch
<1>9. Owed
  BY DEF Owed
<1>10. OwnDue
  <2>1. \A c \in Call : ~Told(c)
    BY <1>1, <1>3 DEF Told
  <2>. QED
    BY <2>1 DEF OwnDue
<1>. QED
  BY <1>2, <1>4, <1>5, <1>6, <1>7, <1>8, <1>9, <1>10 DEF QueryInv

\* Everywhere, whatever is interleaved, fails or dies: an answer under way is of
\* the run that waits for it, answers only get newer, and a tab that misses a
\* change is about to ask again, or the change is still to come back from the
\* server.
THEOREM QueryCorrect == Spec => []QueryInv
<1>1. Init => QueryInv
  BY Starts
<1>2. QueryInv /\ [Next]_vars => QueryInv'
  <2>. SUFFICES ASSUME QueryInv, [Next]_vars PROVE QueryInv'
    OBVIOUS
  <2>1. TypeOK' /\ Addressed' /\ OneAnswer' /\ Forward'
    BY TypeStep, AddressedStep, OneAnswerStep, ForwardStep DEF QueryInv
  <2>2. Progress' /\ Batch'
    BY ProgressStep, BatchStep DEF QueryInv
  <2>3. Owed' /\ OwnDue'
    BY OwedStep, OwnDueStep
  <2>. QED
    BY <2>1, <2>2, <2>3 DEF QueryInv
<1>. QED
  BY <1>1, <1>2, PTL DEF Spec

\* Each variable keeps its type; what is being applied is in the server's log.
THEOREM QueryTypes == Spec => []TypeOK
<1>1. QueryInv => TypeOK
  BY DEF QueryInv
<1>. QED
  BY <1>1, QueryCorrect, PTL

\* relay.rs:66-67: a tab that does not show a change is to ask again, or to hear
\* of it from the server, or nobody has to tell it.
THEOREM StaleOwed == Spec => []StaleIsOwed
<1>1. QueryInv => StaleIsOwed
  <2>. SUFFICES ASSUME QueryInv, NEW t \in Tab, Live(t), NEW c \in db \ shown[t]
                PROVE  Due(t, c) \/ EchoDue(c) \/ Silent(c)
    BY DEF StaleIsOwed
  <2>1. Hushed(c) => Silent(c)
    BY DEF Hushed, Silent, Told
  <2>. QED
    BY <2>1 DEF QueryInv, Owed, Accounted, Fresh
<1>. QED
  BY <1>1, QueryCorrect, PTL

\* mod.rs:309-311: a call that has returned is in the answer of its own tab or
\* about to be, with or without a server.
THEOREM OwnWrites == Spec => []OwnWritesSeen
<1>1. QueryInv => OwnWritesSeen
  BY DEF QueryInv, OwnDue, OwnWritesSeen, Told, Fresh
<1>. QED
  BY <1>1, QueryCorrect, PTL

\* An answer never takes the place of a newer one.
THEOREM AnswersAdvance == Spec => NeverOlder
<1>1. QueryInv /\ [Next]_vars => [\A t \in Tab : Live(t)' => shown[t] \subseteq shown'[t]]_vars
  <2>. SUFFICES ASSUME QueryInv, [Next]_vars, NEW t \in Tab, Live(t)'
                PROVE  shown[t] \subseteq shown'[t]
    OBVIOUS
  <2>1. Live(t) /\ QueryType
    BY LiveBefore, TypeParts DEF QueryInv
  <2>2. CASE AsideStep \/ RingStep
    BY <2>2, AsideIs, RingIs DEF QueryInv, Aside, Rung
  <2>3. ASSUME NEW u \in Tab, Show(u) PROVE shown[t] \subseteq shown'[t]
    BY <2>1, <2>3 DEF Show, QueryType, QueryInv, Forward
  <2>4. ASSUME NEW u \in Tab, TakeRows(u) PROVE shown[t] \subseteq shown'[t]
    <3>1. shown' = [shown EXCEPT ![u] = Head(chan[u]).seen]
      BY <2>4 DEF TakeRows
    <3>2. u = t => shown[t] \subseteq Head(chan[u]).seen
      BY <2>1, <2>4, TakeRowsIs DEF QueryInv, Forward
    <3>. QED
      BY <2>1, <3>1, <3>2 DEF QueryType
  <2>5. ASSUME NEW u \in Tab, Die(u) PROVE shown[t] \subseteq shown'[t]
    BY <2>5, DieIs DEF QueryInv
  <2>6. ASSUME NEW u \in Tab, Restart(u) \/ Read(u) PROVE shown' = shown
    BY <2>6 DEF Restart, Read
  <2>7. ASSUME NEW u \in Tab, SendReply(u) \/ TakeDone(u) PROVE shown' = shown
    BY <2>7, SendReplyIs, TakeDoneIs DEF QueryInv
  <2>8. ASSUME NEW u \in Tab, NEW v \in Tab, ServeQuery(u, v) PROVE shown' = shown
    BY <2>8 DEF ServeQuery, queryVars
  <2>9. ASSUME NEW u \in Tab, NEW c \in Call, ServeExec(u, c) PROVE shown' = shown
    BY <2>9 DEF ServeExec, queryVars
  <2>. QED
    BY StepKinds, <2>2, <2>3, <2>4, <2>5, <2>6, <2>7, <2>8, <2>9 DEF ReplyStep
<1>. QED
  BY <1>1, QueryCorrect, PTL DEF Spec, NeverOlder
=============================================================================
