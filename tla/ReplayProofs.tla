---------------------------- MODULE ReplayProofs ----------------------------
(***************************************************************************)
(* With pushes that do not overlap, for every window, threshold and lag,   *)
(* and any number of faults, prunes and rebuilds: a device that follows    *)
(* the log by Pulls alone passes nothing over, and one that is streamed to *)
(* as well passes nothing over that is not coming, until a fault.          *)
(***************************************************************************)
EXTENDS Replay, SeqLemmas, FiniteSetTheorems

USE LimitsAssumption, ModesAssumption DEF LimitsAssumption, ModesAssumption

----------------------------------------------------------------------------
(* Windows of the log. *)

\* A set of seqs has a greatest element, which Max names.
LEMMA MaxOfSeqs ==
  ASSUME NEW S \in SUBSET Seqs, S # {}
  PROVE  Max(S) \in S /\ \A x \in S : x <= Max(S)
<1>1. S \in SUBSET (0 .. MaxSeq) /\ MaxSeq \in Nat
  BY DEF Seqs
<1>. QED
  BY <1>1, MaxUpTo

\* What the log holds are seqs.
LEMMA LogSeqs ==
  ASSUME TypeOK
  PROVE  /\ nextSeq \in Nat /\ nextSeq <= MaxSeq /\ MaxSeq \in Nat
         /\ log \in SUBSET Seqs
         /\ \A s \in log : s \in Nat /\ s \in Int /\ 1 <= s /\ s <= nextSeq /\ s <= MaxSeq
<1>1. nextSeq \in Nat /\ nextSeq <= MaxSeq /\ MaxSeq \in Nat
  BY DEF TypeOK
<1>2. \A s \in log : s \in 1 .. nextSeq
  BY DEF TypeOK
<1>. QED
  BY <1>1, <1>2 DEF Seqs

\* The head of the log, 0 for an empty one, has all of the log at or below it.
LEMMA HeadOfLog ==
  ASSUME TypeOK
  PROVE  /\ CurrentCursor \in 0 .. MaxSeq
         /\ CurrentCursor = 0 \/ CurrentCursor \in log
         /\ \A s \in log : s <= CurrentCursor
<1>1. log \in SUBSET Seqs /\ MaxSeq \in Nat /\ \A s \in log : s \in Nat /\ s <= MaxSeq
  BY LogSeqs
<1>2. CASE log = {}
  BY <1>1, <1>2 DEF CurrentCursor
<1>3. CASE log # {}
  <2>1. Max(log) \in log /\ \A x \in log : x <= Max(log)
    BY <1>1, <1>3, MaxOfSeqs
  <2>2. CurrentCursor = Max(log)
    BY <1>3 DEF CurrentCursor
  <2>. QED
    BY <1>1, <2>1, <2>2
<1>. QED
  BY <1>2, <1>3

\* pull_since: a window has everything of the log between since and its cursor,
\* which is a seq of the log or 0.
LEMMA WindowIsWhole ==
  ASSUME TypeOK, NEW since \in -1 .. MaxSeq
  PROVE  LET f == PullSince(since) IN
         /\ f \in Frame
         /\ f.ops \subseteq log
         /\ f.cursor = 0 \/ f.cursor \in log
         /\ \A s \in log : s <= f.cursor => s <= since \/ s \in f.ops
         /\ f.ops = {} => \A s \in log : s <= since
<1> DEFINE upTo(s) == {r \in log : since < r /\ r <= s}
           rows == {s \in log : s > since /\ Cardinality(upTo(s)) <= Window}
           f == PullSince(since)
<1>1. f = [kind |-> "events", ops |-> rows, cursor |-> IF rows = {} THEN CurrentCursor ELSE Max(rows)]
  BY DEF PullSince
<1>2. /\ log \in SUBSET Seqs /\ rows \in SUBSET Seqs /\ rows \subseteq log
      /\ \A s \in log : s \in Nat /\ s <= MaxSeq
      /\ MaxSeq \in Nat
  <2>1. rows \subseteq log
    OBVIOUS
  <2>2. log \in SUBSET Seqs /\ MaxSeq \in Nat /\ \A s \in log : s \in Nat /\ s <= MaxSeq
    BY LogSeqs
  <2>. QED
    BY <2>1, <2>2
<1>3. \A s \in log : IsFiniteSet(upTo(s)) /\ Cardinality(upTo(s)) \in Nat
  <2>1. IsFiniteSet(Seqs)
    BY FS_Interval DEF Seqs
  <2>2. \A s \in log : upTo(s) \in SUBSET Seqs
    BY <1>2
  <2>. QED
    BY <2>1, <2>2, FS_Subset, FS_CardinalityType
<1>4. CASE rows # {}
  <2>1. Max(rows) \in rows /\ \A x \in rows : x <= Max(rows)
    BY <1>2, <1>4, MaxOfSeqs
  <2>2. ASSUME NEW s \in log, s <= Max(rows), ~(s <= since)
        PROVE  s \in rows
    <3>1. upTo(s) \in SUBSET upTo(Max(rows))
      <4>1. s <= Max(rows) /\ s \in Nat /\ Max(rows) \in Nat /\ \A r \in log : r \in Nat
        BY <1>2, <2>1, <2>2
      <4>2. \A r \in log : r <= s => r <= Max(rows)
        BY <4>1
      <4>. QED
        BY <4>2
    <3>2. Cardinality(upTo(s)) <= Cardinality(upTo(Max(rows)))
      BY <1>2, <1>3, <2>1, <3>1, FS_Subset
    <3>3. Cardinality(upTo(Max(rows))) <= Window /\ Max(rows) \in log
      BY <2>1
    <3>4. Cardinality(upTo(s)) \in Nat /\ Cardinality(upTo(Max(rows))) \in Nat
      BY <1>3, <3>3
    <3> HIDE DEF upTo
    <3>5. Cardinality(upTo(s)) <= Window
      BY <3>2, <3>3, <3>4
    <3>6. s > since
      BY <1>2, <2>2
    <3>. QED
      BY <3>5, <3>6
  <2>3. f = [kind |-> "events", ops |-> rows, cursor |-> Max(rows)]
    BY <1>1, <1>4
  <2> HIDE DEF rows
  <2>4. Max(rows) \in 0 .. MaxSeq /\ Max(rows) \in log /\ rows \in SUBSET Seqs
    BY <1>2, <2>1
  <2>5. f \in Frame
    BY <2>3, <2>4 DEF Frame
  <2>. QED
    BY <1>2, <1>4, <2>2, <2>3, <2>4, <2>5
<1>5. CASE rows = {}
  <2>1. \A s \in log : s <= since
    <3>1. SUFFICES ASSUME NEW s \in log, ~(s <= since)
                   PROVE  FALSE
      OBVIOUS
    <3> DEFINE beyond == {x \in log : x > since}
    <3>2. s \in beyond /\ beyond \in SUBSET Nat
      BY <1>2, <3>1
    <3>3. PICK m \in beyond : \A x \in beyond : m <= x
      BY <3>2, LeastExists
    <3>4. upTo(m) = {m}
      <4>1. m \in log /\ m > since /\ m \in Nat /\ \A x \in log : x \in Nat
        BY <1>2, <3>3
      <4>2. \A x \in log : since < x /\ x <= m => x = m
        BY <3>3, <4>1
      <4>3. m \in upTo(m)
        BY <4>1
      <4>4. \A x \in upTo(m) : x = m
        BY <4>2
      <4> HIDE DEF upTo
      <4>. QED
        BY <4>3, <4>4
    <3> HIDE DEF upTo
    <3>5. Cardinality(upTo(m)) = 1
      BY <3>4, FS_Singleton
    <3>. QED
      BY <1>5, <3>3, <3>5
  <2>2. f = [kind |-> "events", ops |-> {}, cursor |-> CurrentCursor]
    BY <1>1, <1>5
  <2>. QED
    BY <2>1, <2>2, HeadOfLog DEF Frame
<1>. QED
  BY <1>4, <1>5

----------------------------------------------------------------------------
(* What the log's transactions and retention do to a position. *)

\* A step of the log: none, retention, or one step of one push transaction.
Quiet == UNCHANGED <<nextSeq, open, committed>> /\ log' \subseteq log
Opens == /\ open = {} /\ open' = {nextSeq + 1} /\ nextSeq' = nextSeq + 1
         /\ UNCHANGED <<committed, log>>
Commits(s) == /\ open' = open \ {s} /\ UNCHANGED nextSeq
              /\ committed' = committed \cup {s} /\ log' = log \cup {s}
RollsBack(s) == open' = open \ {s} /\ UNCHANGED <<nextSeq, committed, log>>
Adds == /\ open = {} /\ UNCHANGED open /\ nextSeq' = nextSeq + 1
        /\ committed' = committed \cup {nextSeq + 1} /\ log' = log \cup {nextSeq + 1}
TxStep == Quiet \/ Opens \/ (\E s \in open : Commits(s) \/ RollsBack(s)) \/ Adds

\* Every action is such a step, and none makes the device lose an op.
LEMMA TxSteps ==
  ASSUME TypeOK, CommitsInOrder, Next, ~Overlaps
  PROVE  TxStep /\ applied \subseteq applied'
<1>1. CASE Begin
  BY <1>1 DEF Begin, TxStep, Opens, deviceVars
<1>2. ASSUME NEW s \in Seqs, Commit(s)
      PROVE  TxStep /\ applied \subseteq applied'
  BY <1>2 DEF Commit, TxStep, Commits, deviceVars
<1>3. ASSUME NEW s \in Seqs, Rollback(s)
      PROVE  TxStep /\ applied \subseteq applied'
  BY <1>3 DEF Rollback, TxStep, RollsBack, deviceVars
<1>4. ASSUME NEW s \in Seqs, Prune(s)
      PROVE  TxStep /\ applied \subseteq applied'
  BY <1>4 DEF Prune, TxStep, Quiet, deviceVars
<1>5. CASE AnswerPush
  BY <1>5 DEF AnswerPush, TxStep, Adds, deviceVars
<1>6. CASE Connect \/ DecidePull \/ AnswerReplay \/ AnswerSnapshot \/ Rebuild \/ Stream \/ Relay
  BY <1>6 DEF Connect, DecidePull, AnswerReplay, AnswerSnapshot, Rebuild, Stream, Relay,
     TxStep, Quiet, txVars, deviceVars
<1>7. CASE HandleAck \/ HandleEvents \/ HandleEventsFails \/ HandleSnapshot
  BY <1>7 DEF HandleAck, HandleEvents, HandleEventsFails, HandleSnapshot, TxStep, Quiet, txVars, deviceVars
<1>8. CASE HandleSnapshotFails \/ Disconnect \/ Crash
  BY <1>8 DEF HandleSnapshotFails, Disconnect, Crash, CloseSocket, TxStep, Quiet, txVars, deviceVars
<1>. QED
  BY <1>1, <1>2, <1>3, <1>4, <1>5, <1>6, <1>7, <1>8 DEF Next

\* Sound, of the state after the step, at a position of either state.
SoundNext(position, ops) ==
  /\ position <= nextSeq' /\ \A o \in open' : position < o
  /\ \A s \in log' : s <= position => s \in applied' \cup ops
  /\ ops \subseteq committed'

\* A position stays sound: what commits is above it.
LEMMA SoundKept ==
  ASSUME TypeOK, TxStep, applied \subseteq applied',
         NEW p \in -1 .. MaxSeq, NEW ops, Sound(p, ops)
  PROVE  SoundNext(p, ops)
<1>0. /\ nextSeq \in Nat /\ p \in Int /\ p <= nextSeq /\ \A o \in open : p < o
      /\ \A s \in log : s <= p => s \in applied \cup ops
      /\ ops \subseteq committed
  BY DEF Sound, Settled, Covered, TypeOK
<1>1. CASE Quiet
  BY <1>0, <1>1 DEF Quiet, SoundNext
<1>2. CASE Opens
  BY <1>0, <1>2 DEF Opens, SoundNext
<1>3. ASSUME NEW s \in open, Commits(s)
      PROVE  SoundNext(p, ops)
  <2>1. p < s /\ s \in Int
    BY <1>0 DEF TypeOK
  <2>. QED
    BY <1>0, <1>3, <2>1 DEF Commits, SoundNext
<1>4. ASSUME NEW s \in open, RollsBack(s)
      PROVE  SoundNext(p, ops)
  BY <1>0, <1>4 DEF RollsBack, SoundNext
<1>5. CASE Adds
  BY <1>0, <1>5 DEF Adds, SoundNext
<1>. QED
  BY <1>1, <1>2, <1>3, <1>4, <1>5 DEF TxStep

\* Below the first seq there is nothing to have.
LEMMA SoundBelow ==
  ASSUME TypeOK, NEW p \in {-1, 0}
  PROVE  Sound(p, {})
<1>1. /\ nextSeq \in Nat /\ p \in Int /\ p <= 0
      /\ \A s \in log : s \in Int /\ 1 <= s
  BY LogSeqs
<1>2. \A o \in open : o \in Int /\ 1 <= o
  <2>1. \A o \in open : o \in 1 .. nextSeq
    BY DEF TypeOK
  <2>. QED
    BY <1>1, <2>1
<1>. QED
  BY <1>1, <1>2 DEF Sound, Settled, Covered

\* Pushes go on committing in the order of their seqs.
LEMMA OrderKept ==
  ASSUME TypeOK, CommitsInOrder, TxStep
  PROVE  CommitsInOrder'
<1>0. /\ nextSeq \in Nat
      /\ \A o \in open : o \in Int /\ o <= nextSeq
      /\ \A s \in committed : s \in Int /\ s <= nextSeq
  BY DEF TypeOK
<1>1. CASE Quiet
  BY <1>1 DEF Quiet, CommitsInOrder
<1>2. CASE Opens
  BY <1>0, <1>2 DEF Opens, CommitsInOrder
<1>3. ASSUME NEW s \in open, Commits(s) \/ RollsBack(s)
      PROVE  CommitsInOrder'
  BY <1>3 DEF Commits, RollsBack, CommitsInOrder
<1>4. CASE Adds
  BY <1>4 DEF Adds, CommitsInOrder
<1>. QED
  BY <1>1, <1>2, <1>3, <1>4 DEF TxStep

\* The rows of a generation, stored or on their way, go on covering the log.
LEMMA GenerationKept ==
  ASSUME TypeOK, GenerationCovers, TxStep, UNCHANGED stored
  PROVE  GenerationCovers'
<1>0. /\ nextSeq \in Nat /\ stored.seq \in Int /\ stored.seq <= nextSeq
      /\ \A o \in open : o \in Int /\ stored.seq < o
      /\ \A s \in log : s <= stored.seq => s \in stored.ops
      /\ stored.ops \subseteq committed
  BY DEF GenerationCovers, Settled, TypeOK, NoGeneration
<1>. DEFINE q == stored.seq
            rows == stored.ops
<1>1. SUFFICES /\ q <= nextSeq' /\ \A o \in open' : q < o
               /\ \A s \in log' : s <= q => s \in rows
               /\ rows \subseteq committed'
  BY DEF GenerationCovers, Settled
<1>2. /\ nextSeq \in Nat /\ q \in Int /\ q <= nextSeq
      /\ \A o \in open : o \in Int /\ q < o
      /\ \A s \in log : s <= q => s \in rows
      /\ rows \subseteq committed
  BY <1>0
<1>. HIDE DEF q, rows
<1>3. CASE Quiet
  BY <1>2, <1>3 DEF Quiet
<1>4. CASE Opens
  BY <1>2, <1>4 DEF Opens
<1>5. ASSUME NEW s \in open, Commits(s) \/ RollsBack(s)
      PROVE  /\ q <= nextSeq' /\ \A o \in open' : q < o
             /\ \A r \in log' : r <= q => r \in rows
             /\ rows \subseteq committed'
  BY <1>2, <1>5 DEF Commits, RollsBack
<1>6. CASE Adds
  BY <1>2, <1>6 DEF Adds
<1>. QED
  BY <1>3, <1>4, <1>5, <1>6 DEF TxStep

\* A generation built now covers the log, and its seq is settled.
LEMMA GenerationIsWhole ==
  ASSUME TypeOK, CommitsInOrder, UNCHANGED txVars
  PROVE  /\ Generation \in [seq : 0 .. MaxSeq, ops : SUBSET Seqs]
         /\ SoundNext(Generation.seq, Generation.ops)
         /\ stored' = Generation => GenerationCovers'
<1>1. /\ CurrentCursor \in 0 .. MaxSeq
      /\ CurrentCursor = 0 \/ CurrentCursor \in log
      /\ \A s \in log : s <= CurrentCursor
  BY HeadOfLog
<1>2. /\ log \subseteq committed /\ nextSeq \in Nat /\ nextSeq <= MaxSeq
      /\ committed \in SUBSET Seqs
      /\ \A s \in committed : s \in Int /\ s <= nextSeq
      /\ \A o \in open : o \in Int /\ 0 < o
  <2>1. nextSeq \in Nat /\ nextSeq <= MaxSeq /\ MaxSeq \in Nat
    BY LogSeqs
  <2>2. \A s \in committed : s \in 1 .. nextSeq
    BY DEF TypeOK
  <2>3. \A o \in open : o \in 1 .. nextSeq
    BY DEF TypeOK
  <2>. QED
    BY <2>1, <2>2, <2>3 DEF TypeOK, Seqs
<1>3. CurrentCursor <= nextSeq /\ \A o \in open : CurrentCursor < o
  BY <1>1, <1>2 DEF CommitsInOrder
<1>4. Generation.seq = CurrentCursor /\ Generation.ops = committed
      /\ Generation \in [seq : 0 .. MaxSeq, ops : SUBSET Seqs]
  BY <1>1, <1>2 DEF Generation
<1>5. nextSeq' = nextSeq /\ open' = open /\ log' = log /\ committed' = committed
  BY DEF txVars
<1>6. SoundNext(Generation.seq, Generation.ops)
  BY <1>2, <1>3, <1>4, <1>5 DEF SoundNext
<1>7. ASSUME stored' = Generation
      PROVE  GenerationCovers'
  <2>1. stored'.seq = CurrentCursor /\ stored'.ops = committed
    BY <1>4, <1>7
  <2>. QED
    BY <1>2, <1>3, <1>5, <2>1 DEF GenerationCovers, Settled
<1>. QED
  BY <1>4, <1>6, <1>7

\* Once the ops that come with a position are applied, the position needs none.
LEMMA SoundArrives ==
  ASSUME NEW position, NEW ops, SoundNext(position, ops), ops \subseteq applied'
  PROVE  SoundNext(position, {})
BY DEF SoundNext

\* A window of the log starts from a settled position and ends at one.
LEMMA WindowIsSound ==
  ASSUME TypeOK, CommitsInOrder, UNCHANGED <<txVars, applied>>,
         NEW since \in -1 .. MaxSeq, Sound(since, {})
  PROVE  LET f == PullSince(since) IN f \in Frame /\ SoundNext(f.cursor, f.ops)
<1>. DEFINE f == PullSince(since)
<1>1. /\ f \in Frame /\ f.ops \subseteq log
      /\ f.cursor = 0 \/ f.cursor \in log
      /\ \A s \in log : s <= f.cursor => s <= since \/ s \in f.ops
  BY WindowIsWhole
<1>. HIDE DEF f
<1>2. /\ \A s \in log : s <= since => s \in applied
      /\ log \subseteq committed /\ nextSeq \in Nat
      /\ \A s \in committed : s \in Int /\ s <= nextSeq
      /\ \A o \in open : o \in Int /\ 0 < o
  BY DEF Sound, Covered, TypeOK
<1>3. f.cursor <= nextSeq /\ \A o \in open : f.cursor < o
  BY <1>1, <1>2 DEF CommitsInOrder
<1>4. nextSeq' = nextSeq /\ open' = open /\ log' = log /\ committed' = committed /\ applied' = applied
  BY DEF txVars
<1>5. \A s \in log : s <= f.cursor => s \in applied \cup f.ops
  BY <1>1, <1>2
<1>6. SoundNext(f.cursor, f.ops)
  BY <1>1, <1>2, <1>3, <1>4, <1>5 DEF SoundNext
<1>. QED
  BY <1>1, <1>6 DEF f

----------------------------------------------------------------------------
(* Each step keeps the invariant. *)

\* Moving the cursor leaves the two cursors at places they could be.
LEMMA CursorMoves ==
  ASSUME TypeOK, NEW c \in -1 .. MaxSeq, SetCursor(c)
  PROVE  /\ cursor' = c /\ saved' \in {c, saved}
         /\ faults' \in 0 .. MaxFaults
<1>1. faults \in 0 .. MaxFaults /\ (Fault => faults' \in 0 .. MaxFaults)
  BY DEF Fault, TypeOK
<1>. QED
  BY <1>1 DEF SetCursor

\* A lost socket leaves nothing on its way.
LEMMA CloseSocketType ==
  ASSUME CloseSocket
  PROVE  /\ sock' \in {"closed", "open"}
         /\ up' = <<>> /\ down' = <<>> /\ out' = <<>> /\ task' = Idle
         /\ stored' = stored /\ spent' = spent /\ streamCursor' = streamCursor
         /\ prunes' = prunes /\ rebuilds' = rebuilds /\ UNCHANGED txVars
BY DEF CloseSocket, boundVars

\* With the types, frames and the stored rows have nothing that is not committed.
TypeInv ==
  /\ TypeOK
  /\ \A f \in InFlight : f.ops \subseteq committed
  /\ stored.ops \subseteq committed

\* The frame a device handles is typed, and applying any of it is too.
LEMMA Handled ==
  ASSUME TypeInv, down # <<>>
  PROVE  /\ Head(down) \in Frame /\ Head(down) \in ToSet(down)
         /\ Tail(down) \in Seq(Frame)
         /\ ToSet(down) = {Head(down)} \cup ToSet(Tail(down))
         /\ \A some \in SUBSET Head(down).ops : applied \cup some \subseteq committed
<1>1. down \in Seq(Frame)
  BY DEF TypeInv, TypeOK
<1>2. Tail(down) \in Seq(Frame) /\ Head(down) \in ToSet(down) /\ ToSet(Tail(down)) \subseteq ToSet(down)
  BY <1>1, ToSetTail
<1>3. Head(down) \in Frame
  BY <1>1
<1>4. ToSet(down) = {Head(down)} \cup ToSet(Tail(down))
  BY <1>1, ToSetHeadTail
<1>5. Head(down).ops \subseteq committed /\ applied \subseteq committed
  BY <1>2 DEF TypeInv, TypeOK, InFlight
<1>. QED
  BY <1>2, <1>3, <1>4, <1>5

\* A generation has the type of a stored one.
LEMMA GenerationType ==
  ASSUME TypeOK
  PROVE  Generation \in [seq : 0 .. MaxSeq, ops : SUBSET Seqs]
<1>1. committed \in SUBSET Seqs
  BY LogSeqs DEF TypeOK, Seqs
<1>. QED
  BY <1>1, HeadOfLog DEF Generation

\* Every step keeps every variable in its type.
LEMMA TypeStep ==
  ASSUME TypeInv, Next
  PROVE  TypeOK'
<1>. USE DEF txVars, deviceVars, sessionVars, boundVars, Idle, NoGeneration
<1>0. TypeOK /\ nextSeq \in Nat /\ MaxSeq \in Nat
  BY LogSeqs DEF TypeInv
<1>00. /\ Fault => faults' \in 0 .. MaxFaults
       /\ <<>> \in Seq(Frame) /\ <<>> \in Seq(-1 .. MaxSeq)
       /\ Idle \in [how : {"idle", "replay", "snapshot"}, since : -1 .. MaxSeq]
  BY <1>0 DEF Fault, TypeOK
<1>1. CASE Begin
  BY <1>0, <1>1 DEF Begin, TypeOK
<1>2. ASSUME NEW s \in Seqs, Commit(s)
      PROVE  TypeOK'
  BY <1>0, <1>2 DEF Commit, TypeOK
<1>3. ASSUME NEW s \in Seqs, Rollback(s)
      PROVE  TypeOK'
  BY <1>0, <1>3 DEF Rollback, TypeOK
<1>4. ASSUME NEW s \in Seqs, Prune(s)
      PROVE  TypeOK'
  <2>1. /\ log' \subseteq log /\ prunes < MaxPrunes /\ prunes' = prunes + 1
        /\ UNCHANGED <<nextSeq, open, committed, stored, deviceVars, sessionVars, faults, rebuilds>>
    BY <1>4 DEF Prune
  <2>2. log' \subseteq committed /\ prunes' \in 0 .. MaxPrunes
    BY <1>0, <2>1 DEF TypeOK
  <2>. QED
    BY <1>0, <2>1, <2>2 DEF TypeOK
<1>5. CASE Connect
  <2>1. CurrentCursor \in 0 .. MaxSeq /\ <<cursor>> \in Seq(-1 .. MaxSeq)
    BY <1>0, HeadOfLog DEF TypeOK
  <2>. QED
    BY <1>0, <1>00, <1>5, <2>1 DEF Connect, TypeOK
<1>6. CASE AnswerPush
  <2>1. [kind |-> "ack", ops |-> {}, cursor |-> 0] \in Frame
    BY <1>0 DEF Frame
  <2>2. down' \in Seq(Frame)
    BY <1>0, <1>6, <2>1, InAppend DEF AnswerPush, TypeOK
  <2>. QED
    BY <1>0, <1>6, <2>2 DEF AnswerPush, TypeOK
<1>7. CASE DecidePull
  <2>1. Tail(up) \in Seq(-1 .. MaxSeq) /\ Head(up) \in -1 .. MaxSeq
    BY <1>0, <1>7, InTail DEF DecidePull, TypeOK
  <2>2. /\ task' \in {[how |-> "snapshot", since |-> Head(up)], [how |-> "replay", since |-> Head(up)]}
        /\ spent' \in {TRUE, spent}
        /\ up' = Tail(up)
        /\ UNCHANGED <<txVars, stored, deviceVars, faults, boundVars, sock, down, streamCursor, out>>
    BY <1>7 DEF DecidePull
  <2>3. task' \in [how : {"idle", "replay", "snapshot"}, since : -1 .. MaxSeq]
    BY <2>1, <2>2
  <2>. QED
    BY <1>0, <2>1, <2>2, <2>3 DEF TypeOK
<1>8. CASE AnswerReplay
  <2>1. PullSince(task.since) \in Frame
    BY <1>0, WindowIsWhole DEF TypeOK
  <2>2. down' \in Seq(Frame)
    BY <1>0, <1>8, <2>1, InAppend DEF AnswerReplay, TypeOK
  <2>. QED
    BY <1>0, <1>8, <2>2 DEF AnswerReplay, TypeOK
<1>9. CASE AnswerSnapshot
  <2>1. Generation \in [seq : 0 .. MaxSeq, ops : SUBSET Seqs]
    BY <1>0, GenerationType
  <2>2. stored' \in [seq : 0 .. MaxSeq, ops : SUBSET Seqs]
    BY <1>0, <1>9, <2>1 DEF AnswerSnapshot, TypeOK
  <2>3. [kind |-> "snapshot", ops |-> stored'.ops, cursor |-> stored'.seq] \in Frame
    BY <2>2 DEF Frame
  <2>4. down' \in Seq(Frame)
    BY <1>0, <1>9, <2>3, InAppend DEF AnswerSnapshot, TypeOK
  <2>. QED
    BY <1>0, <1>9, <2>2, <2>4 DEF AnswerSnapshot, TypeOK
<1>10. CASE Rebuild
  <2>1. Generation \in [seq : 0 .. MaxSeq, ops : SUBSET Seqs]
    BY <1>0, GenerationType
  <2>. QED
    BY <1>0, <1>10, <2>1 DEF Rebuild, TypeOK
<1>11. CASE Stream
  <2>1. PullSince(streamCursor) \in Frame
    BY <1>0, WindowIsWhole DEF TypeOK
  <2>2. out' \in Seq(Frame) /\ streamCursor' \in 0 .. MaxSeq
    BY <1>0, <1>11, <2>1, InAppend DEF Stream, TypeOK, Frame
  <2>. QED
    BY <1>0, <1>11, <2>2 DEF Stream, TypeOK
<1>16. CASE Relay
  <2>1. Head(out) \in Frame /\ Tail(out) \in Seq(Frame)
    BY <1>0, <1>16, InTail DEF Relay, TypeOK
  <2>2. down' \in Seq(Frame)
    BY <1>0, <1>16, <2>1, InAppend DEF Relay, TypeOK
  <2>. QED
    BY <1>0, <1>16, <2>1, <2>2 DEF Relay, TypeOK
<1>12. CASE HandleAck
  <2>1. Append(up, cursor) \in Seq(-1 .. MaxSeq) /\ Tail(down) \in Seq(Frame)
    BY <1>0, <1>12, InAppend, Handled DEF HandleAck, Received, TypeOK
  <2>. QED
    BY <1>0, <1>12, <2>1 DEF HandleAck, TypeOK
<1>13. CASE HandleEvents \/ HandleSnapshot
  <2>1. /\ Head(down) \in Frame /\ Tail(down) \in Seq(Frame)
        /\ applied \cup Head(down).ops \subseteq committed
    BY <1>13, Handled DEF HandleEvents, HandleSnapshot, Received
  <2>2. Head(down).cursor \in -1 .. MaxSeq
    BY <1>0, <2>1 DEF Frame
  <2>3. SetCursor(Head(down).cursor)
    BY <1>13 DEF HandleEvents, HandleSnapshot
  <2>4. cursor' \in -1 .. MaxSeq /\ saved' \in -1 .. MaxSeq /\ faults' \in 0 .. MaxFaults
    BY <1>0, <2>2, <2>3, CursorMoves DEF TypeOK
  <2>5. up' \in Seq(-1 .. MaxSeq)
    <3>1. up' = up \/ up' = Append(up, Head(down).cursor)
      BY <1>13 DEF HandleEvents, HandleSnapshot
    <3>2. up \in Seq(-1 .. MaxSeq)
      BY <1>0 DEF TypeOK
    <3>3. Append(up, Head(down).cursor) \in Seq(-1 .. MaxSeq)
      BY <2>2, <3>2, InAppend
    <3>. QED
      BY <3>1, <3>2, <3>3
  <2>. QED
    BY <1>0, <1>13, <2>1, <2>4, <2>5 DEF HandleEvents, HandleSnapshot, TypeOK
<1>14. CASE HandleEventsFails
  <2>1. applied' \subseteq committed /\ Tail(down) \in Seq(Frame)
    BY <1>14, Handled DEF HandleEventsFails, Received
  <2>. QED
    BY <1>0, <1>00, <1>14, <2>1 DEF HandleEventsFails, TypeOK
<1>15. CASE HandleSnapshotFails \/ Disconnect \/ Crash
  <2>1. applied' \subseteq committed
    BY <1>0, <1>15, Handled DEF HandleSnapshotFails, Disconnect, Crash, Received, TypeOK
  <2>2. CloseSocket /\ Fault
    BY <1>15 DEF HandleSnapshotFails, Disconnect, Crash
  <2>3. saved' = saved /\ cursor' \in {cursor, saved}
    BY <1>15 DEF HandleSnapshotFails, Disconnect, Crash
  <2>. QED
    BY <1>0, <1>00, <2>1, <2>2, <2>3, CloseSocketType DEF TypeOK
<1>. QED
  BY <1>1, <1>2, <1>3, <1>4, <1>5, <1>6, <1>7, <1>8, <1>9, <1>10, <1>11, <1>12, <1>13, <1>14, <1>15, <1>16
  DEF Next

----------------------------------------------------------------------------
(* The frames on their way. *)

\* A frame sent joins them.
LEMMA FrameSent ==
  ASSUME TypeOK, NEW f \in Frame,
         \/ down' = Append(down, f) /\ UNCHANGED out
         \/ out' = Append(out, f) /\ UNCHANGED down
  PROVE  InFlight' = InFlight \cup {f}
<1>1. down \in Seq(Frame) /\ out \in Seq(Frame)
  BY DEF TypeOK
<1>2. ToSet(Append(down, f)) = ToSet(down) \cup {f} /\ ToSet(Append(out, f)) = ToSet(out) \cup {f}
  BY <1>1, ToSetAppend
<1>. QED
  BY <1>2 DEF InFlight

\* The loop passes one on.
LEMMA FrameRelayed ==
  ASSUME TypeOK, Relay
  PROVE  InFlight' = InFlight
<1>1. /\ down \in Seq(Frame) /\ out \in Seq(Frame) /\ out # <<>>
      /\ down' = Append(down, Head(out)) /\ out' = Tail(out)
  BY DEF TypeOK, Relay
<1>2. ToSet(out) = {Head(out)} \cup ToSet(Tail(out)) /\ Head(out) \in Frame
  BY <1>1, ToSetHeadTail
<1>3. ToSet(Append(down, Head(out))) = ToSet(down) \cup {Head(out)}
  BY <1>1, <1>2, ToSetAppend
<1>. QED
  BY <1>1, <1>2, <1>3 DEF InFlight

\* The device takes the first.
LEMMA FrameTaken ==
  ASSUME TypeOK, down # <<>>, down' = Tail(down), UNCHANGED out
  PROVE  InFlight = InFlight' \cup {Head(down)}
<1>1. ToSet(down) = {Head(down)} \cup ToSet(Tail(down))
  BY ToSetHeadTail DEF TypeOK
<1>. QED
  BY <1>1 DEF InFlight

\* Every step keeps what frames and stored rows have committed.
LEMMA OpsStep ==
  ASSUME TypeInv, Next
  PROVE  (\A f \in InFlight' : f.ops \subseteq committed') /\ stored'.ops \subseteq committed'
<1>. USE DEF txVars, sessionVars, boundVars
<1>0. /\ TypeOK /\ log \subseteq committed /\ stored.ops \subseteq committed
      /\ \A f \in InFlight : f.ops \subseteq committed
  BY DEF TypeInv, TypeOK
<1>1. CASE Begin \/ \E s \in Seqs : Commit(s) \/ Rollback(s) \/ Prune(s)
  <2>1. committed \subseteq committed' /\ UNCHANGED <<stored, down, out>>
    BY <1>1 DEF Begin, Commit, Rollback, Prune
  <2>. QED
    BY <1>0, <2>1 DEF InFlight
<1>2. CASE Connect \/ HandleSnapshotFails \/ Disconnect \/ Crash
  <2>1. UNCHANGED <<committed, stored>> /\ down' = <<>> /\ out' = <<>>
    BY <1>2 DEF Connect, HandleSnapshotFails, Disconnect, Crash, CloseSocket
  <2>2. InFlight' = {}
    BY <2>1 DEF InFlight, ToSet
  <2>. QED
    BY <1>0, <2>1, <2>2
<1>3. CASE DecidePull
  BY <1>0, <1>3 DEF DecidePull, InFlight
<1>4. CASE AnswerPush
  <2>. DEFINE f == [kind |-> "ack", ops |-> {}, cursor |-> 0]
  <2>1. /\ committed \subseteq committed' /\ UNCHANGED <<stored, out>>
        /\ down' = Append(down, f)
    BY <1>4 DEF AnswerPush
  <2>2. f \in Frame
    BY <1>0, LogSeqs DEF Frame
  <2>3. InFlight' = InFlight \cup {f}
    BY <1>0, <2>1, <2>2, FrameSent
  <2>. QED
    BY <1>0, <2>1, <2>3
<1>5. CASE AnswerReplay
  <2>. DEFINE f == PullSince(task.since)
  <2>1. UNCHANGED <<committed, stored, out>> /\ down' = Append(down, f)
    BY <1>5 DEF AnswerReplay
  <2>2. f \in Frame /\ f.ops \subseteq log
    BY <1>0, WindowIsWhole DEF TypeOK
  <2>. HIDE DEF f
  <2>3. InFlight' = InFlight \cup {f}
    BY <1>0, <2>1, <2>2, FrameSent
  <2>. QED
    BY <1>0, <2>1, <2>2, <2>3
<1>6. CASE Stream
  <2>. DEFINE f == PullSince(streamCursor)
  <2>1. UNCHANGED <<committed, stored, down>> /\ out' = Append(out, f)
    BY <1>6 DEF Stream
  <2>2. f \in Frame /\ f.ops \subseteq log
    BY <1>0, WindowIsWhole DEF TypeOK
  <2>. HIDE DEF f
  <2>3. InFlight' = InFlight \cup {f}
    BY <1>0, <2>1, <2>2, FrameSent
  <2>. QED
    BY <1>0, <2>1, <2>2, <2>3
<1>7. CASE AnswerSnapshot
  <2>. DEFINE f == [kind |-> "snapshot", ops |-> stored'.ops, cursor |-> stored'.seq]
  <2>1. /\ UNCHANGED <<committed, out>> /\ down' = Append(down, f)
        /\ (stored # NoGeneration /\ UNCHANGED stored) \/ stored' = Generation
    BY <1>7 DEF AnswerSnapshot
  <2>2. stored'.ops \subseteq committed
    BY <1>0, <2>1 DEF Generation
  <2>3. stored' \in [seq : 0 .. MaxSeq, ops : SUBSET Seqs]
    BY <1>0, <2>1, GenerationType DEF TypeOK
  <2>4. f \in Frame
    BY <2>3 DEF Frame
  <2>5. InFlight' = InFlight \cup {f}
    BY <1>0, <2>1, <2>4, FrameSent
  <2>. QED
    BY <1>0, <2>1, <2>2, <2>5
<1>8. CASE Rebuild
  BY <1>0, <1>8 DEF Rebuild, Generation, InFlight
<1>9. CASE Relay
  <2>1. UNCHANGED <<committed, stored>>
    BY <1>9 DEF Relay
  <2>. QED
    BY <1>0, <1>9, <2>1, FrameRelayed
<1>10. CASE HandleAck \/ HandleEvents \/ HandleEventsFails \/ HandleSnapshot
  <2>1. UNCHANGED <<committed, stored, out>> /\ down # <<>> /\ down' = Tail(down)
    BY <1>10 DEF HandleAck, HandleEvents, HandleEventsFails, HandleSnapshot, Received
  <2>2. InFlight' \subseteq InFlight
    BY <1>0, <2>1, FrameTaken
  <2>. QED
    BY <1>0, <2>1, <2>2
<1>. QED
  BY <1>1, <1>2, <1>3, <1>4, <1>5, <1>6, <1>7, <1>8, <1>9, <1>10 DEF Next

\* The types hold from the start.
LEMMA TypeInit == Init => TypeInv
<1>. SUFFICES ASSUME Init
              PROVE  TypeInv
  OBVIOUS
<1>1. /\ 0 \in 0 .. MaxSeq /\ -1 \in -1 .. MaxSeq
      /\ 0 \in 0 .. MaxFaults /\ 0 \in 0 .. MaxPrunes /\ 0 \in 0 .. MaxRebuilds
      /\ <<>> \in Seq(Frame) /\ <<>> \in Seq(-1 .. MaxSeq)
  OBVIOUS
<1>2. TypeOK
  BY <1>1 DEF Init, TypeOK, Idle
<1>3. InFlight = {} /\ stored.ops = {}
  BY DEF Init, InFlight, ToSet, NoGeneration
<1>. QED
  BY <1>2, <1>3 DEF TypeInv

\* ops.rs, snapshot.rs, sync.rs: whatever the driver and the pushes do, every frame,
\* generation and applied op is of committed ops.
THEOREM ReplayTypesKept == Spec => []TypeInv
<1>1. ASSUME TypeInv, [Next]_vars
      PROVE  TypeInv'
  <2>1. CASE Next
    <3>1. TypeOK'
      BY <1>1, <2>1, TypeStep
    <3>2. (\A f \in InFlight' : f.ops \subseteq committed') /\ stored'.ops \subseteq committed'
      BY <1>1, <2>1, OpsStep
    <3>. QED
      BY <3>1, <3>2 DEF TypeInv
  <2>2. CASE UNCHANGED vars
    BY <1>1, <2>2 DEF TypeInv, TypeOK, InFlight, vars, txVars, deviceVars, sessionVars, boundVars
  <2>. QED
    BY <1>1, <2>1, <2>2
<1>. QED
  BY TypeInit, <1>1, PTL DEF Spec

\* The type invariant: what a device has applied was committed, however its frames
\* reached it.
THEOREM ReplayTypes == Spec => []TypeOK
<1>1. TypeInv => TypeOK
  BY DEF TypeInv
<1>. QED
  BY <1>1, ReplayTypesKept, PTL

----------------------------------------------------------------------------
(* The pull half. *)

\* What its invariant says of frames types them.
LEMMA ReplayTyped == ReplayInv => TypeInv
<1>1. ASSUME ReplayInv
      PROVE  TypeInv
  <2>1. TypeOK /\ out = <<>> /\ \A i \in DOMAIN down : down[i].ops \subseteq committed
    BY <1>1 DEF ReplayInv, Sound
  <2>2. stored.ops \subseteq committed
    BY <1>1 DEF ReplayInv, GenerationCovers
  <2>3. InFlight = {down[i] : i \in DOMAIN down}
    BY <2>1 DEF InFlight, ToSet
  <2>. QED
    BY <2>1, <2>2, <2>3 DEF TypeInv
<1>. QED
  BY <1>1

\* Every step leaves every position, wherever it is, sound.
LEMMA PositionsStep ==
  ASSUME ReplayInv, Next, ~Streams, ~Overlaps
  PROVE  /\ SoundNext(cursor', {}) /\ SoundNext(saved', {})
         /\ \A i \in DOMAIN up' : SoundNext(up'[i], {})
         /\ SoundNext(task'.since, {})
         /\ \A i \in DOMAIN down' : SoundNext(down'[i].cursor, down'[i].ops)
         /\ GenerationCovers'
         /\ out' = <<>>
<1>. DEFINE Cursors == SoundNext(cursor', {}) /\ SoundNext(saved', {})
            Ups == \A i \in DOMAIN up' : SoundNext(up'[i], {})
            Downs == \A i \in DOMAIN down' : SoundNext(down'[i].cursor, down'[i].ops)
            Goal == /\ Cursors /\ Ups /\ SoundNext(task'.since, {}) /\ Downs
                    /\ GenerationCovers' /\ out' = <<>>
<1>1. /\ TypeOK /\ CommitsInOrder /\ GenerationCovers /\ out = <<>>
      /\ TxStep /\ applied \subseteq applied'
  BY TxSteps DEF ReplayInv
<1>2. \A p \in -1 .. MaxSeq : \A ops : Sound(p, ops) => SoundNext(p, ops)
  BY <1>1, SoundKept
<1>3. /\ SoundNext(cursor, {}) /\ SoundNext(saved, {}) /\ SoundNext(task.since, {})
      /\ \A i \in DOMAIN up : SoundNext(up[i], {})
      /\ SoundNext(-1, {})
  <2>1. /\ cursor \in -1 .. MaxSeq /\ saved \in -1 .. MaxSeq /\ task.since \in -1 .. MaxSeq
        /\ \A i \in DOMAIN up : up[i] \in -1 .. MaxSeq
        /\ -1 \in -1 .. MaxSeq
    BY <1>1, LogSeqs DEF TypeOK
  <2>2. Sound(-1, {})
    BY SoundBelow, <1>1, LogSeqs
  <2>. QED
    BY <1>2, <2>1, <2>2 DEF ReplayInv
<1>4. \A i \in DOMAIN down : SoundNext(down[i].cursor, down[i].ops)
  <2>1. \A i \in DOMAIN down : down[i] \in Frame
    BY <1>1 DEF TypeOK
  <2>2. \A i \in DOMAIN down : down[i].cursor \in -1 .. MaxSeq
    BY <1>1, <2>1, LogSeqs DEF Frame
  <2>. QED
    BY <1>2, <2>2 DEF ReplayInv
<1>5. UNCHANGED stored => GenerationCovers'
  BY <1>1, GenerationKept
<1>6. Idle.since = -1 /\ DOMAIN <<>> = {}
  BY DEF Idle
<1>. HIDE DEF ReplayInv
<1>7. ASSUME UNCHANGED <<saved, cursor, stored, up, down, task, out>>
      PROVE  Goal
  BY <1>1, <1>3, <1>4, <1>5, <1>7
<1>8. ASSUME UNCHANGED stored, cursor' \in {cursor, saved}, UNCHANGED saved, CloseSocket
      PROVE  Goal
  BY <1>3, <1>5, <1>6, <1>8 DEF CloseSocket
\* A frame behind those on their way.
<1>9. ASSUME NEW f \in Frame, SoundNext(f.cursor, f.ops), down' = Append(down, f)
      PROVE  Downs
  BY <1>1, <1>4, <1>9, InAppend DEF TypeOK
\* A Pull behind those on their way.
<1>10. ASSUME NEW p \in -1 .. MaxSeq, SoundNext(p, {}), up' = Append(up, p)
       PROVE  Ups
  BY <1>1, <1>3, <1>10, InAppend DEF TypeOK
\* The device takes the first frame.
<1>11. ASSUME down # <<>>
       PROVE  /\ Head(down) \in Frame /\ SoundNext(Head(down).cursor, Head(down).ops)
              /\ Head(down).cursor \in -1 .. MaxSeq
              /\ down' = Tail(down) => Downs
  <2>0. /\ Head(down) \in Frame /\ 1 \in DOMAIN down /\ Head(down) = down[1]
        /\ \A i \in DOMAIN Tail(down) : i + 1 \in DOMAIN down /\ Tail(down)[i] = down[i + 1]
    BY <1>1, <1>11, InTail DEF TypeOK
  <2>1. /\ Head(down) \in Frame /\ Sound(Head(down).cursor, Head(down).ops)
        /\ \A i \in DOMAIN Tail(down) : i + 1 \in DOMAIN down /\ Tail(down)[i] = down[i + 1]
    BY <2>0 DEF ReplayInv
  <2>2. Head(down).cursor \in -1 .. MaxSeq
    BY <1>1, <2>1, LogSeqs DEF Frame
  <2>3. SoundNext(Head(down).cursor, Head(down).ops)
    BY <1>2, <2>1, <2>2
  <2>4. down' = Tail(down) => Downs
    BY <1>4, <2>1
  <2>. QED
    BY <2>1, <2>2, <2>3, <2>4
<1>12. CASE Begin \/ (\E s \in Seqs : Commit(s) \/ Rollback(s) \/ Prune(s))
  BY <1>7, <1>12 DEF Begin, Commit, Rollback, Prune, deviceVars, sessionVars
<1>13. CASE Connect
  <2>1. /\ up' = <<cursor>> /\ down' = <<>> /\ task' = Idle /\ out' = <<>>
        /\ UNCHANGED <<stored, saved, cursor>>
    BY <1>13 DEF Connect, deviceVars
  <2>2. DOMAIN <<cursor>> = {1} /\ <<cursor>>[1] = cursor
    OBVIOUS
  <2>. QED
    BY <1>3, <1>5, <1>6, <2>1, <2>2
<1>14. CASE AnswerPush
  <2>1. /\ down' = Append(down, [kind |-> "ack", ops |-> {}, cursor |-> 0])
        /\ UNCHANGED <<stored, saved, cursor, up, task, out>>
    BY <1>14 DEF AnswerPush, deviceVars
  <2>2. [kind |-> "ack", ops |-> {}, cursor |-> 0] \in Frame
    BY <1>1, LogSeqs DEF Frame
  <2>3. open = {} /\ nextSeq \in Nat
    BY <1>1, <1>14 DEF AnswerPush, TypeOK
  <2>4. Sound(0, {})
    BY SoundBelow, <1>1, LogSeqs
  <2>5. SoundNext(0, {}) /\ 0 \in -1 .. MaxSeq
    BY <1>1, <1>2, <2>4, LogSeqs
  <2>6. Downs
    BY <1>9, <2>1, <2>2, <2>5
  <2>. QED
    BY <1>1, <1>3, <1>5, <2>1, <2>6
<1>15. CASE DecidePull
  <2>1. /\ up # <<>> /\ up' = Tail(up) /\ task'.since = Head(up)
        /\ UNCHANGED <<stored, saved, cursor, down, out>>
    BY <1>15 DEF DecidePull, deviceVars
  <2>2. /\ 1 \in DOMAIN up /\ Head(up) = up[1]
        /\ \A i \in DOMAIN Tail(up) : i + 1 \in DOMAIN up /\ Tail(up)[i] = up[i + 1]
    BY <1>1, <2>1, InTail DEF TypeOK
  <2>3. SoundNext(task'.since, {}) /\ Ups
    BY <1>3, <2>1, <2>2
  <2>. QED
    BY <1>1, <1>3, <1>4, <1>5, <2>1, <2>3
<1>16. CASE AnswerReplay
  <2>1. /\ task' = Idle /\ down' = Append(down, PullSince(task.since))
        /\ UNCHANGED <<txVars, stored, applied, saved, cursor, up, out>>
    BY <1>16 DEF AnswerReplay, deviceVars
  <2>2. PullSince(task.since) \in Frame
        /\ SoundNext(PullSince(task.since).cursor, PullSince(task.since).ops)
    BY <1>1, <2>1, WindowIsSound DEF ReplayInv, TypeOK
  <2>3. Downs
    BY <1>9, <2>1, <2>2
  <2>. QED
    BY <1>1, <1>3, <1>5, <1>6, <2>1, <2>3
<1>17. CASE AnswerSnapshot
  <2>1. /\ task' = Idle
        /\ UNCHANGED <<txVars, applied, saved, cursor, up, out>>
        /\ down' = Append(down, [kind |-> "snapshot", ops |-> stored'.ops, cursor |-> stored'.seq])
        /\ (stored # NoGeneration /\ UNCHANGED stored) \/ stored' = Generation
    BY <1>17 DEF AnswerSnapshot, deviceVars
  <2>2. /\ Generation \in [seq : 0 .. MaxSeq, ops : SUBSET Seqs]
        /\ SoundNext(Generation.seq, Generation.ops)
        /\ stored' = Generation => GenerationCovers'
    BY <1>1, <2>1, GenerationIsWhole
  <2>3. GenerationCovers'
    BY <1>5, <2>1, <2>2
  <2>4. stored' \in [seq : 0 .. MaxSeq, ops : SUBSET Seqs]
    BY <1>1, <2>1, <2>2 DEF TypeOK
  <2>5. SoundNext(stored'.seq, stored'.ops)
    BY <2>3 DEF GenerationCovers, Settled, SoundNext
  <2>6. [kind |-> "snapshot", ops |-> stored'.ops, cursor |-> stored'.seq] \in Frame
    BY <2>4 DEF Frame
  <2>7. Downs
    BY <1>9, <2>1, <2>5, <2>6
  <2>. QED
    BY <1>1, <1>3, <1>6, <2>1, <2>3, <2>7
<1>18. CASE Rebuild
  <2>1. stored' = Generation /\ UNCHANGED <<txVars, saved, cursor, up, down, task, out>>
    BY <1>18 DEF Rebuild, deviceVars, sessionVars
  <2>2. GenerationCovers'
    BY <1>1, <2>1, GenerationIsWhole
  <2>. QED
    BY <1>1, <1>3, <1>4, <2>1, <2>2
<1>19. CASE Stream \/ Relay
  BY <1>1, <1>19 DEF Stream, Relay
<1>20. CASE HandleAck
  <2>1. /\ down # <<>> /\ down' = Tail(down) /\ up' = Append(up, cursor)
        /\ UNCHANGED <<stored, saved, cursor, task, out>>
    BY <1>20 DEF HandleAck, Received, deviceVars
  <2>2. Ups
    BY <1>1, <1>3, <1>10, <2>1 DEF TypeOK
  <2>. QED
    BY <1>1, <1>3, <1>5, <1>11, <2>1, <2>2
<1>21. CASE HandleEvents \/ HandleSnapshot
  <2>. DEFINE c == Head(down).cursor
  <2>1. /\ down # <<>> /\ down' = Tail(down) /\ SetCursor(c)
        /\ Head(down).ops \subseteq applied'
        /\ up' = up \/ up' = Append(up, c)
        /\ UNCHANGED <<stored, task, out>>
    BY <1>21 DEF HandleEvents, HandleSnapshot, Received
  <2>2. SoundNext(c, {}) /\ c \in -1 .. MaxSeq
    BY <1>11, <2>1, SoundArrives
  <2>3. cursor' = c /\ saved' \in {c, saved}
    BY <1>1, <2>1, <2>2, CursorMoves
  <2>4. Ups
    BY <1>3, <1>10, <2>1, <2>2
  <2>. HIDE DEF c
  <2>. QED
    BY <1>1, <1>3, <1>5, <1>11, <2>1, <2>2, <2>3, <2>4
<1>22. CASE HandleEventsFails
  <2>1. down # <<>> /\ down' = Tail(down) /\ UNCHANGED <<stored, saved, cursor, up, task, out>>
    BY <1>22 DEF HandleEventsFails, Received
  <2>. QED
    BY <1>1, <1>3, <1>5, <1>11, <2>1
<1>23. CASE HandleSnapshotFails \/ Disconnect \/ Crash
  <2>1. UNCHANGED stored /\ cursor' \in {cursor, saved} /\ UNCHANGED saved /\ CloseSocket
    BY <1>23 DEF HandleSnapshotFails, Disconnect, Crash, CloseSocket, deviceVars
  <2>. QED
    BY <1>8, <2>1
<1>. QED
  BY <1>12, <1>13, <1>14, <1>15, <1>16, <1>17, <1>18, <1>19, <1>20, <1>21, <1>22, <1>23 DEF Next

----------------------------------------------------------------------------
(* The theorems. *)

\* The strengthened invariant holds from the start: nothing is committed, and
\* the device, in memory and on disk, is before the first seq.
LEMMA ReplayInit == Init => ReplayInv
<1>. SUFFICES ASSUME Init
              PROVE  ReplayInv
  OBVIOUS
<1>1. TypeOK
  BY TypeInit DEF TypeInv
<1>2. Sound(-1, {})
  BY <1>1, SoundBelow
<1>3. /\ cursor = -1 /\ saved = -1 /\ task.since = -1
      /\ DOMAIN up = {} /\ DOMAIN down = {} /\ out = <<>>
  BY DEF Init, Idle
<1>4. GenerationCovers /\ CommitsInOrder
  BY DEF Init, NoGeneration, GenerationCovers, Settled, CommitsInOrder
<1>. QED
  BY <1>1, <1>2, <1>3, <1>4 DEF ReplayInv

\* Every step preserves it, when the driver does not stream and pushes do not
\* overlap.
LEMMA ReplayStep ==
  ASSUME ~Streams, ~Overlaps, ReplayInv, [Next]_vars
  PROVE  ReplayInv'
<1>1. CASE UNCHANGED vars
  BY <1>1 DEF vars, txVars, deviceVars, sessionVars, boundVars, ReplayInv, TypeOK, Sound, Settled,
     Covered, GenerationCovers, CommitsInOrder
<1>2. CASE Next
  <2>1. TypeOK'
    BY <1>2, ReplayTyped, TypeStep
  <2>2. CommitsInOrder'
    BY <1>2, TxSteps, OrderKept DEF ReplayInv
  <2>3. /\ SoundNext(cursor', {}) /\ SoundNext(saved', {})
        /\ \A i \in DOMAIN up' : SoundNext(up'[i], {})
        /\ SoundNext(task'.since, {})
        /\ \A i \in DOMAIN down' : SoundNext(down'[i].cursor, down'[i].ops)
        /\ GenerationCovers'
        /\ out' = <<>>
    BY <1>2, PositionsStep
  <2>. QED
    BY <2>1, <2>2, <2>3 DEF ReplayInv, Sound, Settled, Covered, SoundNext
<1>. QED
  BY <1>1, <1>2

\* sync.rs, engine/mod.rs, protocol.rs, ops.rs, snapshot.rs: for a device that
\* follows the log by Pulls alone, with pushes that commit in the order of their
\* seqs, every position in the system, in a cursor, a Pull, a task or a frame, is
\* one at which the device will have everything sync_log still has up to it.
THEOREM ReplayCorrect ==
  ASSUME ~Streams, ~Overlaps
  PROVE  Spec => []ReplayInv
<1>1. Init => ReplayInv
  BY ReplayInit
<1>2. ReplayInv /\ [Next]_vars => ReplayInv'
  BY ReplayStep
<1>. QED
  BY <1>1, <1>2, PTL DEF Spec

\* sync.rs:276-283, under the same conditions: neither the cursor in memory nor
\* the saved one ever passes an op that sync_log still has and the device lacks,
\* through failed applies, lost connections, restarts and pruning.
THEOREM PullPassesNothingOver ==
  ASSUME ~Streams, ~Overlaps
  PROVE  Spec => []NothingPassedOver
<1>1. ReplayInv => NothingPassedOver
  BY DEF ReplayInv, Sound, Covered, NothingPassedOver, PassedOver
<1>. QED
  BY <1>1, ReplayCorrect, PTL


----------------------------------------------------------------------------
(* The driver streams. *)

\* Coming, of the state after the step.
ComingNext(s) ==
  \/ \E since \in ToSet(up') : since < s
  \/ task'.how # "idle" /\ task'.since < s
  \/ \E f \in InFlight' : Brings(f, s)

\* Accounted, of the state after the step, at a position of either state.
AccountedNext(position) ==
  /\ position <= nextSeq' /\ \A o \in open' : position < o
  /\ \A s \in log' : s <= position => s \in applied' \/ ComingNext(s)

\* What the log has, and the device has or will get, it has or will get.
Kept == \A s \in log : s \in applied \/ Coming(s) => s \in applied' \/ ComingNext(s)

\* A position stays accounted for when nothing is dropped: what commits is above it.
LEMMA AccountedKept ==
  ASSUME TypeOK, TxStep, Kept, NEW p \in -1 .. MaxSeq, Accounted(p)
  PROVE  AccountedNext(p)
<1>0. /\ nextSeq \in Nat /\ p \in Int /\ p <= nextSeq /\ \A o \in open : p < o
      /\ \A s \in log : s <= p => s \in applied \/ Coming(s)
  BY DEF Accounted, Settled, TypeOK
<1>1. \A s \in log : s <= p => s \in applied' \/ ComingNext(s)
  BY <1>0 DEF Kept
<1>2. CASE Quiet
  BY <1>0, <1>1, <1>2 DEF Quiet, AccountedNext
<1>3. CASE Opens
  BY <1>0, <1>1, <1>3 DEF Opens, AccountedNext
<1>4. ASSUME NEW s \in open, Commits(s)
      PROVE  AccountedNext(p)
  <2>1. p < s /\ s \in Int
    BY <1>0 DEF TypeOK
  <2>. QED
    BY <1>0, <1>1, <1>4, <2>1 DEF Commits, AccountedNext
<1>5. ASSUME NEW s \in open, RollsBack(s)
      PROVE  AccountedNext(p)
  BY <1>0, <1>1, <1>5 DEF RollsBack, AccountedNext
<1>6. CASE Adds
  BY <1>0, <1>1, <1>6 DEF Adds, AccountedNext
<1>. QED
  BY <1>2, <1>3, <1>4, <1>5, <1>6 DEF TxStep

\* Below the first seq there is nothing to account for.
LEMMA AccountedBelow ==
  ASSUME TypeOK', NEW p \in {-1, 0}
  PROVE  AccountedNext(p)
<1>1. /\ nextSeq' \in Nat
      /\ \A s \in log' : s \in Int /\ 1 <= s
      /\ \A o \in open' : o \in Int /\ 1 <= o
  BY DEF TypeOK
<1>. QED
  BY <1>1 DEF AccountedNext

\* On a closed connection nothing is coming, so no cursor has passed anything over.
LEMMA ClosedCovered ==
  ASSUME StreamInv, sock = "closed"
  PROVE  /\ \A s \in log : ~Coming(s)
         /\ PassedOver \cap log = {}
<1>1. up = <<>> /\ down = <<>> /\ out = <<>> /\ task = Idle
  BY DEF StreamInv
<1>2. ToSet(up) = {} /\ InFlight = {} /\ task.how = "idle"
  BY <1>1 DEF ToSet, InFlight, Idle
<1>3. \A s \in log : ~Coming(s)
  BY <1>2 DEF Coming
<1>. QED
  BY <1>3 DEF StreamInv, Accounted, PassedOver

\* A window reaches on for all of the log that is behind its start.
LEMMA WindowBrings ==
  ASSUME TypeOK, NEW since \in -1 .. MaxSeq, NEW s \in log, since < s
  PROVE  Brings(PullSince(since), s)
<1>. DEFINE f == PullSince(since)
<1>1. /\ f \in Frame
      /\ \A q \in log : q <= f.cursor => q <= since \/ q \in f.ops
      /\ f.ops = {} => \A q \in log : q <= since
  BY WindowIsWhole
<1>2. f.kind = "events"
  BY DEF PullSince
<1>. HIDE DEF f
<1>3. s \in Int /\ f.cursor \in Int
  BY <1>1, LogSeqs DEF Frame
<1>4. ~(s <= since) /\ f.ops # {}
  BY <1>1, <1>3
<1>5. Brings(f, s)
  BY <1>1, <1>2, <1>3, <1>4 DEF Brings
<1>. QED
  BY <1>5 DEF f

\* One that starts at a position accounted for ends at one.
LEMMA WindowIsAccounted ==
  ASSUME TypeOK, CommitsInOrder, UNCHANGED txVars, Kept,
         NEW since \in -1 .. MaxSeq, Accounted(since), PullSince(since) \in InFlight'
  PROVE  AccountedNext(PullSince(since).cursor)
<1>. DEFINE f == PullSince(since)
<1>1. /\ f \in Frame
      /\ f.cursor = 0 \/ f.cursor \in log
      /\ \A s \in log : s <= f.cursor => s <= since \/ s \in f.ops
  BY WindowIsWhole
<1>2. f.kind = "events" /\ f \in InFlight'
  BY DEF PullSince
<1>. HIDE DEF f
<1>3. /\ \A s \in log : s <= since => s \in applied \/ Coming(s)
      /\ log \subseteq committed /\ nextSeq \in Nat
      /\ \A s \in committed : s \in Int /\ s <= nextSeq
      /\ \A o \in open : o \in Int /\ 0 < o
  BY DEF Accounted, TypeOK
<1>4. f.cursor <= nextSeq /\ \A o \in open : f.cursor < o
  BY <1>1, <1>3 DEF CommitsInOrder
<1>5. nextSeq' = nextSeq /\ open' = open /\ log' = log
  BY DEF txVars
<1>6. ASSUME NEW s \in log, s <= f.cursor
      PROVE  s \in applied' \/ ComingNext(s)
  <2>1. CASE s <= since
    BY <1>3, <2>1 DEF Kept
  <2>2. CASE s \in f.ops
    BY <1>2, <2>2 DEF ComingNext, Brings
  <2>. QED
    BY <1>1, <1>6, <2>1, <2>2
<1>7. AccountedNext(f.cursor)
  BY <1>4, <1>5, <1>6 DEF AccountedNext
<1>. QED
  BY <1>7 DEF f

\* A snapshot sent or stored brings all of the log, or goes on to it.
LEMMA SnapshotBrings ==
  ASSUME TypeOK', GenerationCovers', UNCHANGED txVars, stored' # NoGeneration,
         NEW f, f = [kind |-> "snapshot", ops |-> stored'.ops, cursor |-> stored'.seq]
  PROVE  /\ \A s \in log : Brings(f, s)
         /\ f \in InFlight' => AccountedNext(f.cursor)
<1>1. /\ stored'.seq \in Int /\ stored'.seq <= nextSeq' /\ \A o \in open' : stored'.seq < o
      /\ \A s \in log' : s \in Int /\ (s <= stored'.seq => s \in stored'.ops)
  BY DEF GenerationCovers, Settled, TypeOK
<1>2. f.kind = "snapshot" /\ f.ops = stored'.ops /\ f.cursor = stored'.seq /\ log' = log
  BY DEF txVars
<1>3. \A s \in log : Brings(f, s)
  BY <1>1, <1>2 DEF Brings
<1>4. f \in InFlight' => AccountedNext(f.cursor)
  BY <1>1, <1>2, <1>3 DEF AccountedNext, ComingNext
<1>. QED
  BY <1>3, <1>4

\* No step drops what is coming, but a batch that fails and a connection that is lost.
LEMMA KeptStep ==
  ASSUME TypeInv, StreamInv, ~Overlaps, TypeOK', GenerationCovers', Next,
         ~HandleEventsFails, ~HandleSnapshotFails, ~Disconnect, ~Crash
  PROVE  Kept
<1>. USE DEF txVars, sessionVars, deviceVars, boundVars
<1>0. TypeOK /\ up \in Seq(-1 .. MaxSeq) /\ \A s \in log : s \in Int
  BY LogSeqs DEF TypeInv, TypeOK
<1>1. CASE Begin \/ (\E s \in Seqs : Commit(s) \/ Rollback(s) \/ Prune(s)) \/ Rebuild
  <2>1. UNCHANGED <<applied, up, task, down, out>>
    BY <1>1 DEF Begin, Commit, Rollback, Prune, Rebuild
  <2>. QED
    BY <2>1 DEF Kept, Coming, ComingNext, InFlight
<1>2. CASE Connect
  <2>1. sock = "closed" /\ UNCHANGED applied
    BY <1>2 DEF Connect
  <2>. QED
    BY <2>1, ClosedCovered DEF Kept
<1>3. CASE AnswerPush
  <2>. DEFINE f == [kind |-> "ack", ops |-> {}, cursor |-> 0]
  <2>1. UNCHANGED <<applied, up, task, out>> /\ down' = Append(down, f)
    BY <1>3 DEF AnswerPush
  <2>2. f \in Frame
    BY <1>0, LogSeqs DEF Frame
  <2>3. InFlight' = InFlight \cup {f}
    BY <1>0, <2>1, <2>2, FrameSent
  <2>. QED
    BY <2>1, <2>3 DEF Kept, Coming, ComingNext
<1>4. CASE DecidePull
  <2>1. /\ task = Idle /\ up # <<>> /\ up' = Tail(up)
        /\ task'.how # "idle" /\ task'.since = Head(up)
        /\ UNCHANGED <<applied, down, out>>
    BY <1>4 DEF DecidePull
  <2>2. ToSet(up) = {Head(up)} \cup ToSet(up')
    BY <1>0, <2>1, ToSetHeadTail
  <2>. QED
    BY <2>1, <2>2 DEF Kept, Coming, ComingNext, InFlight, Idle
<1>5. CASE AnswerReplay
  <2>. DEFINE f == PullSince(task.since)
  <2>1. UNCHANGED <<applied, up, out>> /\ down' = Append(down, f) /\ task' = Idle
    BY <1>5 DEF AnswerReplay
  <2>2. f \in Frame /\ task.since \in -1 .. MaxSeq
    BY <1>0, WindowIsWhole DEF TypeOK
  <2>3. \A s \in log : task.since < s => Brings(f, s)
    BY <1>0, <2>2, WindowBrings
  <2>. HIDE DEF f
  <2>4. InFlight' = InFlight \cup {f}
    BY <1>0, <2>1, <2>2, FrameSent
  <2>. QED
    BY <2>1, <2>3, <2>4 DEF Kept, Coming, ComingNext
<1>6. CASE AnswerSnapshot
  <2>. DEFINE f == [kind |-> "snapshot", ops |-> stored'.ops, cursor |-> stored'.seq]
  <2>1. /\ UNCHANGED <<txVars, applied, up, out>> /\ down' = Append(down, f) /\ task' = Idle
        /\ (stored # NoGeneration /\ UNCHANGED stored) \/ stored' = Generation
    BY <1>6 DEF AnswerSnapshot
  <2>2. stored' \in [seq : 0 .. MaxSeq, ops : SUBSET Seqs]
    BY <1>0, <2>1, GenerationType DEF TypeOK
  <2>3. f \in Frame /\ stored' # NoGeneration
    BY <2>2 DEF Frame, NoGeneration
  <2>4. InFlight' = InFlight \cup {f}
    BY <1>0, <2>1, <2>3, FrameSent
  <2>5. \A s \in log : Brings(f, s)
    BY <2>1, <2>3, SnapshotBrings
  <2>. QED
    BY <2>1, <2>4, <2>5 DEF Kept, Coming, ComingNext
<1>7. CASE Stream
  <2>. DEFINE f == PullSince(streamCursor)
  <2>1. UNCHANGED <<applied, up, task, down>> /\ out' = Append(out, f)
    BY <1>7 DEF Stream
  <2>0. streamCursor \in -1 .. MaxSeq
    BY <1>0 DEF TypeOK
  <2>2. f \in Frame
    BY <1>0, <2>0, WindowIsWhole
  <2>. HIDE DEF f
  <2>3. InFlight' = InFlight \cup {f}
    BY <1>0, <2>1, <2>2, FrameSent
  <2>. QED
    BY <2>1, <2>3 DEF Kept, Coming, ComingNext
<1>8. CASE Relay
  <2>1. UNCHANGED <<applied, up, task>>
    BY <1>8 DEF Relay
  <2>. QED
    BY <1>0, <1>8, <2>1, FrameRelayed DEF Kept, Coming, ComingNext
<1>9. CASE HandleAck
  <2>1. /\ UNCHANGED <<applied, task, out>> /\ down # <<>> /\ Head(down).kind = "ack"
        /\ down' = Tail(down) /\ up' = Append(up, cursor)
    BY <1>9 DEF HandleAck, Received
  <2>2. InFlight = InFlight' \cup {Head(down)}
    BY <1>0, <2>1, FrameTaken
  <2>3. ToSet(up') = ToSet(up) \cup {cursor}
    <3>1. cursor \in -1 .. MaxSeq
      BY <1>0 DEF TypeOK
    <3>2. ToSet(Append(up, cursor)) = ToSet(up) \cup {cursor}
      BY <1>0, <3>1, ToSetAppend
    <3>. QED
      BY <2>1, <3>2
  <2>4. \A s \in log : ~Brings(Head(down), s)
    BY <2>1 DEF Brings
  <2>. QED
    BY <2>1, <2>2, <2>3, <2>4 DEF Kept, Coming, ComingNext
<1>10. CASE HandleEvents \/ HandleSnapshot
  <2>. DEFINE f == Head(down)
  <2>1. /\ UNCHANGED <<task, out>> /\ down # <<>> /\ down' = Tail(down)
        /\ applied' = applied \cup f.ops
        /\ \/ up' = Append(up, f.cursor)
           \/ up' = up /\ f.ops = {} /\ f.kind # "snapshot"
    BY <1>10 DEF HandleEvents, HandleSnapshot, Received
  <2>2. f \in Frame
    BY <2>1, Handled
  <2>3. InFlight = InFlight' \cup {f}
    BY <1>0, <2>1, FrameTaken
  <2>. HIDE DEF f
  <2>4. f.cursor \in -1 .. MaxSeq
    BY <1>0, <2>2, LogSeqs DEF Frame
  <2>5. \/ ToSet(up') = ToSet(up) \cup {f.cursor}
        \/ ToSet(up') = ToSet(up) /\ f.ops = {} /\ f.kind # "snapshot"
    <3>1. ToSet(Append(up, f.cursor)) = ToSet(up) \cup {f.cursor}
      BY <1>0, <2>4, ToSetAppend
    <3>. QED
      BY <2>1, <3>1
  <2>6. \A s \in log : Brings(f, s) => s \in applied' \/ ComingNext(s)
    BY <2>1, <2>5 DEF Brings, ComingNext
  <2>. QED
    BY <2>1, <2>3, <2>5, <2>6 DEF Kept, Coming, ComingNext
<1>. QED
  BY <1>1, <1>2, <1>3, <1>4, <1>5, <1>6, <1>7, <1>8, <1>9, <1>10 DEF Next

\* Every step but those leaves every position accounted for.
LEMMA AccountedStep ==
  ASSUME TypeInv, StreamInv, ~Overlaps, TypeOK', Next,
         ~HandleEventsFails, ~HandleSnapshotFails, ~Disconnect, ~Crash
  PROVE  /\ AccountedNext(cursor') /\ AccountedNext(saved') /\ AccountedNext(task'.since)
         /\ \A since \in ToSet(up') : AccountedNext(since)
         /\ \A f \in InFlight' : AccountedNext(f.cursor)
         /\ sock' = "open" => AccountedNext(streamCursor')
         /\ GenerationCovers'
         /\ sock' = "closed" => up' = <<>> /\ down' = <<>> /\ out' = <<>> /\ task' = Idle
<1>. DEFINE Cursors == AccountedNext(cursor') /\ AccountedNext(saved')
            Ups == \A since \in ToSet(up') : AccountedNext(since)
            Frames == \A f \in InFlight' : AccountedNext(f.cursor)
            Driver == sock' = "open" => AccountedNext(streamCursor')
            Closed == sock' = "closed" => up' = <<>> /\ down' = <<>> /\ out' = <<>> /\ task' = Idle
            Goal == /\ Cursors /\ AccountedNext(task'.since) /\ Ups /\ Frames /\ Driver
                    /\ GenerationCovers' /\ Closed
<1>1. /\ TypeOK /\ CommitsInOrder /\ GenerationCovers
      /\ TxStep /\ applied \subseteq applied'
  BY TxSteps DEF StreamInv
<1>2. GenerationCovers'
  <2>1. CASE UNCHANGED stored
    BY <1>1, <2>1, GenerationKept
  <2>2. CASE AnswerSnapshot \/ Rebuild
    <3>1. UNCHANGED txVars /\ (UNCHANGED stored \/ stored' = Generation)
      BY <2>2 DEF AnswerSnapshot, Rebuild
    <3>. QED
      BY <1>1, <2>1, <3>1, GenerationIsWhole
  <2>3. UNCHANGED stored \/ AnswerSnapshot \/ Rebuild
    BY DEF Next, Begin, Commit, Rollback, Prune, Connect, AnswerPush, DecidePull, AnswerReplay, Stream, Relay,
       HandleAck, HandleEvents, HandleSnapshot
  <2>. QED
    BY <2>1, <2>2, <2>3
<1>3. Kept
  BY <1>2, KeptStep
<1>4. \A p \in -1 .. MaxSeq : Accounted(p) => AccountedNext(p)
  BY <1>1, <1>3, AccountedKept
<1>5. /\ cursor \in -1 .. MaxSeq /\ saved \in -1 .. MaxSeq /\ task.since \in -1 .. MaxSeq
      /\ streamCursor \in -1 .. MaxSeq /\ up \in Seq(-1 .. MaxSeq)
      /\ down \in Seq(Frame) /\ out \in Seq(Frame)
      /\ \A p \in ToSet(up) : p \in -1 .. MaxSeq
      /\ \A f \in InFlight : f \in Frame /\ f.cursor \in -1 .. MaxSeq
  <2>1. /\ cursor \in -1 .. MaxSeq /\ saved \in -1 .. MaxSeq /\ task.since \in -1 .. MaxSeq
        /\ streamCursor \in -1 .. MaxSeq /\ up \in Seq(-1 .. MaxSeq)
        /\ down \in Seq(Frame) /\ out \in Seq(Frame)
    BY <1>1 DEF TypeOK
  <2>2. \A p \in ToSet(up) : p \in -1 .. MaxSeq
    BY <2>1 DEF ToSet
  <2>3. \A f \in InFlight : f \in Frame
    BY <2>1 DEF InFlight, ToSet
  <2>4. \A f \in Frame : f.cursor \in -1 .. MaxSeq
    BY <1>1, LogSeqs DEF Frame
  <2>. QED
    BY <2>1, <2>2, <2>3, <2>4
<1>6. /\ AccountedNext(cursor) /\ AccountedNext(saved) /\ AccountedNext(task.since)
      /\ \A p \in ToSet(up) : AccountedNext(p)
      /\ \A f \in InFlight : AccountedNext(f.cursor)
      /\ sock = "open" => AccountedNext(streamCursor)
      /\ AccountedNext(-1) /\ AccountedNext(0)
  BY <1>4, <1>5, AccountedBelow DEF StreamInv
<1>7. sock = "closed" => up = <<>> /\ down = <<>> /\ out = <<>> /\ task = Idle
  BY DEF StreamInv
<1>8. Idle.since = -1 /\ ToSet(<<>>) = {}
  BY DEF Idle, ToSet
<1>. HIDE DEF StreamInv
<1>9. CASE Begin \/ (\E s \in Seqs : Commit(s) \/ Rollback(s) \/ Prune(s)) \/ Rebuild
  <2>1. UNCHANGED <<cursor, saved, sock, up, task, down, out, streamCursor>>
    BY <1>9 DEF Begin, Commit, Rollback, Prune, Rebuild, sessionVars, deviceVars
  <2>. QED
    BY <1>2, <1>6, <1>7, <2>1 DEF InFlight
<1>10. CASE Connect
  <2>1. /\ UNCHANGED <<txVars, applied, cursor, saved>> /\ up' = <<cursor>> /\ task' = Idle
        /\ down' = <<>> /\ out' = <<>> /\ sock' = "open" /\ streamCursor' = CurrentCursor
    BY <1>10 DEF Connect, deviceVars
  <2>2. ToSet(up') = {cursor} /\ InFlight' = {}
    BY <2>1, <1>8 DEF ToSet, InFlight
  <2>3. AccountedNext(CurrentCursor)
    <3>1. /\ CurrentCursor \in 0 .. MaxSeq /\ (CurrentCursor = 0 \/ CurrentCursor \in log)
      BY <1>1, HeadOfLog
    <3>2. \A s \in log' : s <= cursor \/ cursor < s
      BY <1>1, <1>5, <2>1, LogSeqs DEF txVars
    <3>3. \A s \in log' : s \in applied' \/ ComingNext(s)
      BY <1>6, <2>1, <2>2, <3>2 DEF AccountedNext, ComingNext
    <3>4. CurrentCursor <= nextSeq' /\ \A o \in open' : CurrentCursor < o
      <4>1. /\ nextSeq' = nextSeq /\ open' = open /\ log \subseteq committed
            /\ \A s \in committed : s <= nextSeq
        BY <1>1, <2>1 DEF txVars, TypeOK
      <4>2. CASE CurrentCursor = 0
        BY <1>6, <4>2 DEF AccountedNext
      <4>3. CASE CurrentCursor \in log
        BY <1>1, <4>1, <4>3 DEF CommitsInOrder
      <4>. QED
        BY <3>1, <4>2, <4>3
    <3>. QED
      BY <3>3, <3>4 DEF AccountedNext
  <2>. QED
    BY <1>2, <1>6, <1>8, <2>1, <2>2, <2>3
<1>11. CASE AnswerPush
  <2>. DEFINE f == [kind |-> "ack", ops |-> {}, cursor |-> 0]
  <2>1. /\ UNCHANGED <<cursor, saved, sock, up, task, out, streamCursor>> /\ down' = Append(down, f)
        /\ sock = "open"
    BY <1>11 DEF AnswerPush, deviceVars
  <2>2. f \in Frame
    BY <1>1, LogSeqs DEF Frame
  <2>3. InFlight' = InFlight \cup {f}
    BY <1>1, <2>1, <2>2, FrameSent
  <2>. QED
    BY <1>2, <1>6, <2>1, <2>3
<1>12. CASE DecidePull
  <2>1. /\ UNCHANGED <<cursor, saved, sock, down, out, streamCursor>> /\ sock = "open"
        /\ up # <<>> /\ up' = Tail(up) /\ task'.since = Head(up)
    BY <1>12 DEF DecidePull, deviceVars
  <2>2. ToSet(up) = {Head(up)} \cup ToSet(up')
    BY <1>5, <2>1, ToSetHeadTail
  <2>. QED
    BY <1>2, <1>6, <2>1, <2>2 DEF InFlight
<1>13. CASE AnswerReplay
  <2>. DEFINE f == PullSince(task.since)
  <2>1. /\ UNCHANGED <<txVars, cursor, saved, sock, up, out, streamCursor>> /\ sock = "open"
        /\ down' = Append(down, f) /\ task' = Idle
    BY <1>13 DEF AnswerReplay, deviceVars
  <2>2. f \in Frame
    BY <1>1, <1>5, WindowIsWhole
  <2>3. InFlight' = InFlight \cup {f}
    BY <1>1, <2>1, <2>2, FrameSent
  <2>4. AccountedNext(f.cursor)
    BY <1>1, <1>3, <1>5, <2>1, <2>3, WindowIsAccounted DEF StreamInv
  <2>. HIDE DEF f
  <2>. QED
    BY <1>2, <1>6, <1>8, <2>1, <2>3, <2>4
<1>14. CASE AnswerSnapshot
  <2>. DEFINE f == [kind |-> "snapshot", ops |-> stored'.ops, cursor |-> stored'.seq]
  <2>1. /\ UNCHANGED <<txVars, cursor, saved, sock, up, out, streamCursor>> /\ sock = "open"
        /\ down' = Append(down, f) /\ task' = Idle
        /\ (stored # NoGeneration /\ UNCHANGED stored) \/ stored' = Generation
    BY <1>14 DEF AnswerSnapshot, deviceVars
  <2>2. stored' \in [seq : 0 .. MaxSeq, ops : SUBSET Seqs]
    BY <1>1, <2>1, GenerationType DEF TypeOK
  <2>3. f \in Frame /\ stored' # NoGeneration
    BY <2>2 DEF Frame, NoGeneration
  <2>4. InFlight' = InFlight \cup {f}
    BY <1>1, <2>1, <2>3, FrameSent
  <2>5. AccountedNext(f.cursor)
    BY <1>2, <2>1, <2>3, <2>4, SnapshotBrings
  <2>. HIDE DEF f
  <2>. QED
    BY <1>2, <1>6, <1>8, <2>1, <2>4, <2>5
<1>15. CASE Stream
  <2>. DEFINE f == PullSince(streamCursor)
  <2>1. /\ UNCHANGED <<txVars, cursor, saved, sock, up, task, down>> /\ sock = "open"
        /\ out' = Append(out, f) /\ streamCursor' = f.cursor
    BY <1>15 DEF Stream, deviceVars
  <2>2. f \in Frame
    BY <1>1, <1>5, WindowIsWhole
  <2>3. InFlight' = InFlight \cup {f}
    BY <1>1, <2>1, <2>2, FrameSent
  <2>4. AccountedNext(f.cursor)
    BY <1>1, <1>3, <1>5, <2>1, <2>3, WindowIsAccounted DEF StreamInv
  <2>. HIDE DEF f
  <2>. QED
    BY <1>2, <1>6, <2>1, <2>3, <2>4
<1>16. CASE Relay
  <2>1. UNCHANGED <<cursor, saved, sock, up, task, streamCursor>> /\ sock = "open"
    BY <1>16 DEF Relay, deviceVars
  <2>2. InFlight' = InFlight
    BY <1>1, <1>16, FrameRelayed
  <2>. QED
    BY <1>2, <1>6, <2>1, <2>2
<1>17. CASE HandleAck
  <2>1. /\ UNCHANGED <<cursor, saved, sock, task, out, streamCursor>> /\ sock = "open"
        /\ down # <<>> /\ down' = Tail(down) /\ up' = Append(up, cursor)
    BY <1>17 DEF HandleAck, Received, deviceVars
  <2>2. InFlight' \subseteq InFlight
    BY <1>1, <2>1, FrameTaken
  <2>3. ToSet(Append(up, cursor)) = ToSet(up) \cup {cursor}
    BY <1>5, ToSetAppend
  <2>. QED
    BY <1>2, <1>6, <2>1, <2>2, <2>3
<1>18. CASE HandleEvents \/ HandleSnapshot
  <2>. DEFINE c == Head(down).cursor
  <2>1. /\ UNCHANGED <<sock, task, out, streamCursor>> /\ sock = "open"
        /\ down # <<>> /\ down' = Tail(down) /\ SetCursor(c)
        /\ up' = up \/ up' = Append(up, c)
    BY <1>18 DEF HandleEvents, HandleSnapshot, Received
  <2>2. InFlight = InFlight' \cup {Head(down)}
    BY <1>1, <2>1, FrameTaken
  <2>3. c \in -1 .. MaxSeq /\ AccountedNext(c)
    BY <1>5, <1>6, <2>2
  <2>. HIDE DEF c
  <2>4. cursor' = c /\ saved' \in {c, saved}
    BY <1>1, <2>1, <2>3, CursorMoves
  <2>5. ToSet(Append(up, c)) = ToSet(up) \cup {c}
    BY <1>5, <2>3, ToSetAppend
  <2>. QED
    BY <1>2, <1>6, <2>1, <2>2, <2>3, <2>4, <2>5
<1>. QED
  BY <1>9, <1>10, <1>11, <1>12, <1>13, <1>14, <1>15, <1>16, <1>17, <1>18 DEF Next

\* So does the loss of the connection, when no cursor has passed anything over: the
\* device starts again from one of the two.
LEMMA LostStep ==
  ASSUME TypeInv, StreamInv, ~Overlaps, TypeOK', Next,
         HandleSnapshotFails \/ Disconnect \/ Crash, PassedOver \cap log = {}
  PROVE  /\ AccountedNext(cursor') /\ AccountedNext(saved')
         /\ up' = <<>> /\ down' = <<>> /\ out' = <<>> /\ task' = Idle /\ sock' = "closed"
         /\ GenerationCovers'
<1>1. /\ UNCHANGED <<nextSeq, open, committed, log, stored, saved>> /\ cursor' \in {cursor, saved}
      /\ CloseSocket
  BY DEF HandleSnapshotFails, Disconnect, Crash, CloseSocket, deviceVars, txVars
<1>2. /\ TypeOK /\ CommitsInOrder /\ GenerationCovers /\ TxStep /\ applied \subseteq applied'
  BY TxSteps DEF StreamInv
<1>3. GenerationCovers'
  BY <1>1, <1>2, GenerationKept
<1>4. ASSUME NEW p \in {cursor, saved}
      PROVE  AccountedNext(p)
  <2>1. Accounted(p)
    BY DEF StreamInv
  <2>2. \A s \in log : s <= p => s \in applied
    BY <1>2 DEF PassedOver, TypeOK
  <2>. QED
    BY <1>1, <1>2, <2>1, <2>2 DEF Accounted, Settled, AccountedNext
<1>. QED
  BY <1>1, <1>3, <1>4 DEF CloseSocket

\* A step keeps the invariant, or a batch fails, or the connection is lost while
\* something passed over is coming.
LEMMA StreamStep ==
  ASSUME ~Overlaps, TypeInv, StreamInv, [Next]_vars
  PROVE  StreamInv' \/ HandleEventsFails \/ (sock' = "closed" /\ PassedOver \cap log # {})
<1>1. CASE UNCHANGED vars
  BY <1>1 DEF vars, txVars, deviceVars, sessionVars, boundVars, StreamInv, TypeOK, Accounted, Settled,
     Coming, InFlight, GenerationCovers, CommitsInOrder
<1>2. CASE Next /\ ~HandleEventsFails /\ ~(sock' = "closed" /\ PassedOver \cap log # {})
  <2>1. /\ TypeOK' /\ CommitsInOrder'
        /\ \A f \in InFlight' : f.ops \subseteq committed'
    BY <1>2, TypeStep, OpsStep, TxSteps, OrderKept DEF StreamInv
  <2>2. /\ AccountedNext(cursor') /\ AccountedNext(saved') /\ AccountedNext(task'.since)
        /\ \A since \in ToSet(up') : AccountedNext(since)
        /\ \A f \in InFlight' : AccountedNext(f.cursor)
        /\ sock' = "open" => AccountedNext(streamCursor')
        /\ GenerationCovers'
        /\ sock' = "closed" => up' = <<>> /\ down' = <<>> /\ out' = <<>> /\ task' = Idle
    <3>1. CASE ~HandleSnapshotFails /\ ~Disconnect /\ ~Crash
      BY <1>2, <2>1, <3>1, AccountedStep
    <3>2. CASE HandleSnapshotFails \/ Disconnect \/ Crash
      <4>1. sock' = "closed"
        BY <3>2 DEF HandleSnapshotFails, Disconnect, Crash, CloseSocket
      <4>2. /\ AccountedNext(cursor') /\ AccountedNext(saved')
            /\ up' = <<>> /\ down' = <<>> /\ out' = <<>> /\ task' = Idle
            /\ GenerationCovers'
        BY <1>2, <2>1, <3>2, <4>1, LostStep
      <4>3. AccountedNext(-1) /\ Idle.since = -1
        BY <2>1, AccountedBelow DEF Idle
      <4>4. ToSet(up') = {} /\ InFlight' = {}
        BY <4>2 DEF ToSet, InFlight
      <4>. QED
        BY <4>1, <4>2, <4>3, <4>4
    <3>. QED
      BY <3>1, <3>2
  <2>. QED
    BY <2>1, <2>2 DEF StreamInv, Accounted, AccountedNext, Settled, Coming, ComingNext
<1>. QED
  BY <1>1, <1>2

\* ws.rs:110-218, sync.rs:276-304: with pushes that commit in the order of their
\* seqs, an op is left to nobody only by a batch that fails to apply, or by a
\* connection lost while an op that streaming has passed over is on its way.
THEOREM FaultsThatStrand ==
  ASSUME ~Overlaps
  PROVE  Spec => OnlyFaultsStrand
<1>1. ASSUME TypeInv, [Next]_vars
      PROVE  [StreamInv => \/ StreamInv'
                           \/ HandleEventsFails
                           \/ sock' = "closed" /\ PassedOver \cap log # {}]_vars
  BY <1>1, StreamStep
<1>. QED
  BY <1>1, ReplayTypesKept, PTL DEF Spec, OnlyFaultsStrand

\* Without a fault the connection stays as it is once it is up.
LEMMA OnlyFaultsClose ==
  ASSUME TypeInv, [Next]_vars, faults' = 0
  PROVE  faults = 0 /\ ~HandleEventsFails /\ (sock' = "closed" => sock = "closed")
<1>1. faults \in Nat /\ ~Fault
  <2>1. faults \in Nat
    BY DEF TypeInv, TypeOK
  <2>. QED
    BY <2>1 DEF Fault
<1>2. ~HandleEventsFails /\ ~HandleSnapshotFails /\ ~Disconnect /\ ~Crash
  BY <1>1 DEF HandleEventsFails, HandleSnapshotFails, Disconnect, Crash
<1>3. UNCHANGED faults
  BY <1>1, <1>2 DEF Next, Begin, Commit, Rollback, Prune, Connect, AnswerPush, DecidePull, AnswerReplay,
     AnswerSnapshot, Rebuild, Stream, Relay, HandleAck, HandleEvents, HandleSnapshot, SetCursor, vars
<1>4. sock' = "closed" => sock = "closed"
  BY <1>2 DEF Next, Begin, Commit, Rollback, Prune, Connect, AnswerPush, DecidePull, AnswerReplay,
     AnswerSnapshot, Rebuild, Stream, Relay, HandleAck, HandleEvents, HandleSnapshot, vars, sessionVars
<1>. QED
  BY <1>2, <1>3, <1>4

\* The same of a run: until something fails, every position is accounted for.
THEOREM StreamCorrect ==
  ASSUME ~Overlaps
  PROVE  Spec => [](faults = 0 => StreamInv)
<1>1. ASSUME Init
      PROVE  StreamInv
  <2>1. TypeOK
    BY <1>1, TypeInit DEF TypeInv
  <2>2. Sound(-1, {})
    BY <2>1, SoundBelow
  <2>3. Accounted(-1)
    BY <2>2 DEF Sound, Covered, Accounted
  <2>4. /\ cursor = -1 /\ saved = -1 /\ task.since = -1 /\ task = Idle
        /\ up = <<>> /\ down = <<>> /\ out = <<>> /\ sock = "closed"
        /\ ToSet(up) = {} /\ InFlight = {}
    BY <1>1 DEF Init, Idle, InFlight, ToSet
  <2>5. GenerationCovers /\ CommitsInOrder
    BY <1>1 DEF Init, NoGeneration, GenerationCovers, Settled, CommitsInOrder
  <2>. QED
    BY <2>1, <2>3, <2>4, <2>5 DEF StreamInv
<1>2. ASSUME TypeInv, faults = 0 => StreamInv, [Next]_vars
      PROVE  (faults = 0 => StreamInv)'
  <2>1. SUFFICES ASSUME faults' = 0
                 PROVE  StreamInv'
    OBVIOUS
  <2>2. StreamInv /\ ~HandleEventsFails /\ (sock' = "closed" => sock = "closed")
    BY <1>2, <2>1, OnlyFaultsClose
  <2>3. ~(sock' = "closed" /\ PassedOver \cap log # {})
    BY <2>2, ClosedCovered
  <2>. QED
    BY <1>2, <2>2, <2>3, StreamStep
<1>. QED
  BY <1>1, <1>2, ReplayTypesKept, PTL DEF Spec

\* sync.rs:276-283: streamed batches may take a cursor past ops the device lacks, but
\* while nothing has failed each of them is in a frame on its way or behind a Pull.
THEOREM StreamForgetsNothing ==
  ASSUME ~Overlaps
  PROVE  Spec => []NothingForgotten
<1>1. (faults = 0 => StreamInv) => NothingForgotten
  BY DEF StreamInv, Accounted, NothingForgotten, Forgotten
<1>. QED
  BY <1>1, StreamCorrect, PTL
=============================================================================
