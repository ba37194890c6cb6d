----------------------------- MODULE SeqLemmas -----------------------------
(***************************************************************************)
(* What the sequence operators of the op log do to the set of elements,    *)
(* and how to reason up to a number.                                       *)
(***************************************************************************)
EXTENDS Integers, Sequences, SequencesExt, SequenceTheorems, WellFoundedInduction, TLAPS

\* Appending adds the element and keeps the others.
LEMMA ToSetAppend ==
  ASSUME NEW S, NEW s \in Seq(S), NEW e \in S
  PROVE  ToSet(Append(s, e)) = ToSet(s) \cup {e}
<1>1. \A i \in 1 .. Len(s) : Append(s, e)[i] = s[i]
  OBVIOUS
<1>2. Append(s, e)[Len(s) + 1] = e /\ Len(Append(s, e)) = Len(s) + 1
  OBVIOUS
<1>3. DOMAIN Append(s, e) = 1 .. Len(s) + 1 /\ DOMAIN s = 1 .. Len(s)
  BY <1>2
<1>. QED
  BY <1>1, <1>2, <1>3 DEF ToSet

\* A concatenation has the elements of both.
LEMMA ToSetConcat ==
  ASSUME NEW S, NEW s \in Seq(S), NEW t \in Seq(S)
  PROVE  ToSet(s \o t) = ToSet(s) \cup ToSet(t)
<1>1. DOMAIN (s \o t) = 1 .. Len(s) + Len(t) /\ DOMAIN s = 1 .. Len(s) /\ DOMAIN t = 1 .. Len(t)
  OBVIOUS
<1>2. \A i \in 1 .. Len(s) : (s \o t)[i] = s[i]
  OBVIOUS
<1>3. \A i \in 1 .. Len(t) : (s \o t)[Len(s) + i] = t[i]
  OBVIOUS
<1>4. \A i \in 1 .. Len(s) + Len(t) : i > Len(s) => i - Len(s) \in 1 .. Len(t) /\ i = Len(s) + (i - Len(s))
  OBVIOUS
<1>5. ToSet(s \o t) \subseteq ToSet(s) \cup ToSet(t)
  BY <1>1, <1>2, <1>3, <1>4 DEF ToSet
<1>6. ToSet(s) \subseteq ToSet(s \o t)
  BY <1>1, <1>2 DEF ToSet
<1>7. ToSet(t) \subseteq ToSet(s \o t)
  <2>1. \A i \in 1 .. Len(t) : Len(s) + i \in 1 .. Len(s) + Len(t)
    OBVIOUS
  <2>. QED
    BY <1>1, <1>3, <2>1 DEF ToSet
<1>. QED
  BY <1>5, <1>6, <1>7

\* Consuming the head of a channel leaves only elements it had.
LEMMA ToSetTail ==
  ASSUME NEW S, NEW s \in Seq(S), s # <<>>
  PROVE  /\ Tail(s) \in Seq(S)
         /\ Head(s) \in ToSet(s)
         /\ ToSet(Tail(s)) \subseteq ToSet(s)
<1>1. Tail(s) \in Seq(S) /\ Len(Tail(s)) = Len(s) - 1 /\ Len(s) > 0
  OBVIOUS
<1>2. \A i \in 1 .. Len(s) - 1 : Tail(s)[i] = s[i + 1] /\ i + 1 \in 1 .. Len(s)
  OBVIOUS
<1>3. Head(s) = s[1] /\ 1 \in DOMAIN s
  BY <1>1
<1>. QED
  BY <1>1, <1>2, <1>3 DEF ToSet

\* The head and what is behind it are all there was.
LEMMA ToSetHeadTail ==
  ASSUME NEW S, NEW s \in Seq(S), s # <<>>
  PROVE  ToSet(s) = {Head(s)} \cup ToSet(Tail(s))
<1>1. Len(s) \in Nat /\ Len(s) > 0 /\ DOMAIN s = 1 .. Len(s) /\ DOMAIN Tail(s) = 1 .. Len(s) - 1
  OBVIOUS
<1>2. Head(s) = s[1] /\ \A i \in 1 .. Len(s) - 1 : Tail(s)[i] = s[i + 1]
  OBVIOUS
<1>3. \A i \in 1 .. Len(s) : i = 1 \/ (i - 1 \in 1 .. Len(s) - 1 /\ (i - 1) + 1 = i)
  BY <1>1
<1>4. ASSUME NEW i \in 1 .. Len(s)
      PROVE  s[i] \in {Head(s)} \cup ToSet(Tail(s))
  <2>1. CASE i = 1
    BY <1>2, <2>1
  <2>2. CASE i # 1
    <3>1. i - 1 \in DOMAIN Tail(s) /\ Tail(s)[i - 1] = s[i]
      BY <1>1, <1>2, <1>3, <2>2
    <3>. QED
      BY <3>1 DEF ToSet
  <2>. QED
    BY <2>1, <2>2
<1>5. ToSet(s) \subseteq {Head(s)} \cup ToSet(Tail(s))
  BY <1>1, <1>4 DEF ToSet
<1>. QED
  BY <1>5, ToSetTail

\* Deleting a row removes at most the element at its place.
LEMMA ToSetRemoveAt ==
  ASSUME NEW S, NEW s \in Seq(S), NEW i \in DOMAIN s
  PROVE  /\ RemoveAt(s, i) \in Seq(S)
         /\ ToSet(RemoveAt(s, i)) \subseteq ToSet(s)
         /\ ToSet(s) \subseteq ToSet(RemoveAt(s, i)) \cup {s[i]}
<1> DEFINE l == SubSeq(s, 1, i - 1)
           r == SubSeq(s, i + 1, Len(s))
<1>1. i \in 1 .. Len(s)
  OBVIOUS
<1>2. l \in Seq(S) /\ Len(l) = i - 1 /\ \A j \in 1 .. i - 1 : l[j] = s[j]
  BY <1>1
<1>3. r \in Seq(S) /\ Len(r) = Len(s) - i /\ \A j \in 1 .. Len(s) - i : r[j] = s[i + j]
  BY <1>1
<1>4. RemoveAt(s, i) = l \o r
  BY DEF RemoveAt
<1>5. ToSet(l \o r) = ToSet(l) \cup ToSet(r)
  BY <1>2, <1>3, ToSetConcat
<1>6. ToSet(l) \subseteq ToSet(s)
  BY <1>1, <1>2 DEF ToSet
<1>7. ToSet(r) \subseteq ToSet(s)
  BY <1>1, <1>3 DEF ToSet
<1>8. ASSUME NEW j \in 1 .. Len(s), j # i
      PROVE  s[j] \in ToSet(l) \cup ToSet(r)
  <2>1. CASE j < i
    BY <1>2, <2>1 DEF ToSet
  <2>2. CASE j > i
    <3>1. j - i \in 1 .. Len(s) - i /\ i + (j - i) = j
      BY <1>1, <2>2
    <3>2. r[j - i] = s[j]
      BY <1>3, <3>1
    <3>3. j - i \in DOMAIN r
      BY <1>3, <3>1
    <3>. QED
      BY <3>2, <3>3 DEF ToSet
  <2>. QED
    BY <1>1, <1>8, <2>1, <2>2
<1>9. ToSet(s) \subseteq ToSet(l) \cup ToSet(r) \cup {s[i]}
  <2>1. ASSUME NEW x \in ToSet(s)
        PROVE  x \in ToSet(l) \cup ToSet(r) \cup {s[i]}
    <3>1. PICK j \in 1 .. Len(s) : x = s[j]
      BY <2>1 DEF ToSet
    <3>. HIDE DEF l, r
    <3>. QED
      BY <1>8, <3>1
  <2>. QED
    BY <2>1
<1>. HIDE DEF l, r
<1>. QED
  BY <1>2, <1>3, <1>4, <1>5, <1>6, <1>7, <1>9

\* The places of a sequence after an append: as before, or the new element.
LEMMA InAppend ==
  ASSUME NEW S, NEW s \in Seq(S), NEW e \in S
  PROVE  /\ Append(s, e) \in Seq(S)
         /\ \A i \in DOMAIN Append(s, e) :
              (i \in DOMAIN s /\ Append(s, e)[i] = s[i]) \/ Append(s, e)[i] = e
<1>1. DOMAIN Append(s, e) = 1 .. Len(s) + 1 /\ DOMAIN s = 1 .. Len(s) /\ Len(s) \in Nat
  OBVIOUS
<1>2. \A i \in 1 .. Len(s) : Append(s, e)[i] = s[i]
  OBVIOUS
<1>3. Append(s, e)[Len(s) + 1] = e
  OBVIOUS
<1>4. \A i \in 1 .. Len(s) + 1 : i \in 1 .. Len(s) \/ i = Len(s) + 1
  BY <1>1
<1>. QED
  BY <1>1, <1>2, <1>3, <1>4

\* The places of the tail of a channel held the same elements in the channel.
LEMMA InTail ==
  ASSUME NEW S, NEW s \in Seq(S), s # <<>>
  PROVE  /\ Tail(s) \in Seq(S)
         /\ 1 \in DOMAIN s /\ Head(s) = s[1] /\ Head(s) \in S
         /\ \A i \in DOMAIN Tail(s) : i + 1 \in DOMAIN s /\ Tail(s)[i] = s[i + 1]
<1>1. Tail(s) \in Seq(S) /\ Len(Tail(s)) = Len(s) - 1 /\ Len(s) > 0
  OBVIOUS
<1>2. \A i \in 1 .. Len(s) - 1 : Tail(s)[i] = s[i + 1] /\ i + 1 \in 1 .. Len(s)
  OBVIOUS
<1>. QED
  BY <1>1, <1>2

\* The places of a concatenation: those of the first part, then those of the second.
LEMMA InConcat ==
  ASSUME NEW S, NEW s \in Seq(S), NEW t \in Seq(S)
  PROVE  /\ s \o t \in Seq(S)
         /\ \A i \in DOMAIN (s \o t) :
              \/ i \in DOMAIN s /\ (s \o t)[i] = s[i]
              \/ i - Len(s) \in DOMAIN t /\ Len(s) < i /\ (s \o t)[i] = t[i - Len(s)]
<1>1. DOMAIN (s \o t) = 1 .. Len(s) + Len(t) /\ DOMAIN s = 1 .. Len(s) /\ DOMAIN t = 1 .. Len(t)
      /\ Len(s) \in Nat /\ Len(t) \in Nat
  OBVIOUS
<1>2. \A i \in 1 .. Len(s) : (s \o t)[i] = s[i]
  OBVIOUS
<1>3. \A i \in 1 .. Len(s) + Len(t) : i \notin 1 .. Len(s) => i - Len(s) \in 1 .. Len(t) /\ Len(s) < i
  BY <1>1
<1>4. \A i \in 1 .. Len(s) + Len(t) : i \notin 1 .. Len(s) => (s \o t)[i] = t[i - Len(s)]
  OBVIOUS
<1>. QED
  BY <1>1, <1>2, <1>3, <1>4

\* Two messages, one after the other.
LEMMA AppendTwo ==
  ASSUME NEW S, NEW a \in S, NEW b \in S
  PROVE  Append(<<a>>, b) = <<a, b>>
<1>. DEFINE s == <<a>>
            u == <<a, b>>
<1>1. s \in Seq(S) /\ Len(s) = 1 /\ s[1] = a
  OBVIOUS
<1>2. u \in Seq(S) /\ Len(u) = 2 /\ u[1] = a /\ u[2] = b
  OBVIOUS
<1>. HIDE DEF s, u
<1>3. /\ Append(s, b) \in Seq(S)
      /\ Len(Append(s, b)) = Len(s) + 1
      /\ \A i \in 1 .. Len(s) : Append(s, b)[i] = s[i]
      /\ Append(s, b)[Len(s) + 1] = b
  BY <1>1, AppendProperties
<1>4. Append(s, b) = u
  <2>1. Len(Append(s, b)) = 2 /\ Append(s, b)[1] = a /\ Append(s, b)[2] = b
    BY <1>1, <1>3
  <2>. QED
    BY <1>2, <1>3, <2>1
<1>. QED
  BY <1>4 DEF s, u

----------------------------------------------------------------------------
(* Numbers. *)

\* A set of numbers has a least element.
LEMMA LeastExists ==
  ASSUME NEW S \in SUBSET Nat, S # {}
  PROVE  \E m \in S : \A x \in S : m <= x
<1>1. \E m \in S : \A x \in S : <<x, m>> \notin OpToRel(<, Nat)
  BY NatLessThanWellFounded, WFMin
<1>2. PICK m \in S : \A x \in S : <<x, m>> \notin OpToRel(<, Nat)
  BY <1>1
<1>3. \A x \in S : ~(x < m)
  BY <1>2 DEF OpToRel
<1>. QED
  BY <1>3

\* What holds of 0 and passes from each number below n to the next holds up to n:
\* there is no least number that it fails for.
LEMMA InductionUpTo ==
  ASSUME NEW n \in Nat, NEW P, 0 \in P,
         \A k \in Nat : k < n /\ k \in P => k + 1 \in P
  PROVE  \A k \in 0 .. n : k \in P
<1>. DEFINE S == {k \in 0 .. n : k \notin P}
<1>1. SUFFICES ASSUME S # {} PROVE FALSE
  OBVIOUS
<1>2. S \in SUBSET Nat
  OBVIOUS
<1>3. PICK m \in S : \A x \in S : m <= x
  <2>. HIDE DEF S
  <2>. QED
    BY <1>1, <1>2, LeastExists
<1>4. m # 0 /\ m - 1 \in 0 .. n /\ m - 1 \notin S
  BY <1>3
<1>5. m - 1 \in Nat /\ m - 1 < n /\ m - 1 \in P
  BY <1>3, <1>4
<1>6. (m - 1) + 1 \in P /\ (m - 1) + 1 = m
  BY <1>3, <1>5
<1>. QED
  BY <1>3, <1>6

\* A nonempty set of places has a last one, which Max names.
LEMMA MaxUpTo ==
  ASSUME NEW n \in Nat, NEW S \in SUBSET (0 .. n), S # {}
  PROVE  Max(S) \in S /\ \A x \in S : x <= Max(S)
<1> DEFINE T == {n - x : x \in S}
<1>1. T \in SUBSET Nat /\ T # {}
  <2>1. \A x \in S : n - x \in Nat
    OBVIOUS
  <2>2. PICK x \in S : TRUE
    OBVIOUS
  <2>3. n - x \in T
    OBVIOUS
  <2>. QED
    BY <2>1, <2>3
<1>2. PICK m \in T : \A y \in T : m <= y
  <2>. HIDE DEF T
  <2>. QED
    BY <1>1, LeastExists
<1>3. PICK x \in S : m = n - x
  BY <1>2
<1>4. \A y \in S : n - x <= n - y
  BY <1>2, <1>3
<1>5. x \in S /\ \A y \in S : x >= y
  BY <1>3, <1>4
<1>6. Max(S) \in S /\ \A y \in S : Max(S) >= y
  <2>. HIDE DEF T
  <2>. QED
    BY <1>5 DEF Max
<1>. QED
  BY <1>6
=============================================================================
