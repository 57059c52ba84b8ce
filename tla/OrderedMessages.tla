--------------------------- MODULE OrderedMessages --------------------------
(***************************************************************************)
(* What the proofs about the Adapter and about the EAP server share: a     *)
(* message is a pair of its source and its number, and a queue, a socket   *)
(* or a buffer is a sequence of them.  The lemmas turn what Append, Head   *)
(* and Tail do to the order of a sequence into what they do to its set.    *)
(***************************************************************************)
EXTENDS Naturals, Sequences, SequencesExt, SequenceTheorems, FiniteSetTheorems, TLAPS

\* The order of the messages of one source.
Before(m, n)    == m[1] = n[1] => m[2] < n[2]
AllBefore(A, B) == \A m \in A, n \in B : Before(m, n)
Increasing(s)   == \A i, j \in DOMAIN s : i < j => Before(s[i], s[j])

\* The empty sequence has no elements.
LEMMA ToSetEmpty ==
  ASSUME NEW M
  PROVE  <<>> \in Seq(M) /\ ToSet(<<>>) = {} /\ Increasing(<<>>)
<1>1. <<>> \in Seq(M) /\ DOMAIN <<>> = {}
  BY EmptySeq
<1>. QED
  BY <1>1 DEF ToSet, Increasing

\* What Append adds, and when the result is in order.
LEMMA ToSetAppend ==
  ASSUME NEW M, NEW s \in Seq(M), NEW m \in M
  PROVE  /\ Append(s, m) \in Seq(M) /\ Append(s, m) # <<>>
         /\ ToSet(Append(s, m)) = ToSet(s) \cup {m}
         /\ Increasing(s) /\ AllBefore(ToSet(s), {m}) => Increasing(Append(s, m))
<1>. DEFINE r == Append(s, m)
<1>1. /\ r \in Seq(M) /\ r # <<>> /\ Len(s) \in Nat
      /\ DOMAIN s = 1..Len(s) /\ DOMAIN r = 1..(Len(s) + 1)
      /\ \A i \in 1..Len(s) : r[i] = s[i]
      /\ r[Len(s) + 1] = m
  BY AppendProperties, LenProperties
<1>2. ToSet(r) = ToSet(s) \cup {m}
  BY <1>1 DEF ToSet
<1>3. ASSUME Increasing(s), AllBefore(ToSet(s), {m})
      PROVE  Increasing(r)
  <2>. SUFFICES ASSUME NEW i \in DOMAIN r, NEW j \in DOMAIN r, i < j
                PROVE  Before(r[i], r[j])
    BY DEF Increasing
  <2>1. CASE j = Len(s) + 1
    BY <1>1, <1>3, <2>1 DEF ToSet, AllBefore
  <2>2. CASE j # Len(s) + 1
    BY <1>1, <1>3, <2>2 DEF Increasing
  <2>. QED
    BY <2>1, <2>2
<1>. HIDE DEF r
<1>. QED
  BY <1>1, <1>2, <1>3 DEF r

\* What Tail removes, and where the head of a sequence in order stands.
LEMMA ToSetTail ==
  ASSUME NEW M, NEW s \in Seq(M), s # <<>>
  PROVE  /\ Head(s) \in M /\ Tail(s) \in Seq(M)
         /\ ToSet(s) = {Head(s)} \cup ToSet(Tail(s))
         /\ Len(s) = 1 <=> Tail(s) = <<>>
         /\ Increasing(s) => Increasing(Tail(s)) /\ AllBefore({Head(s)}, ToSet(Tail(s)))
<1>. DEFINE r == Tail(s)
<1>1. /\ Head(s) \in M /\ Head(s) = s[1] /\ r \in Seq(M)
      /\ Len(s) \in Nat \ {0} /\ DOMAIN s = 1..Len(s)
      /\ Len(r) = Len(s) - 1 /\ DOMAIN r = 1..(Len(s) - 1)
      /\ \A i \in 1..(Len(s) - 1) : r[i] = s[i + 1]
  BY HeadTailProperties, LenProperties, EmptySeq
<1>2. ToSet(s) = {Head(s)} \cup ToSet(r)
  <2>1. \A i \in DOMAIN s : i = 1 \/ (i - 1 \in DOMAIN r /\ s[i] = r[i - 1])
    BY <1>1
  <2>2. \A i \in DOMAIN r : i + 1 \in DOMAIN s /\ r[i] = s[i + 1]
    BY <1>1
  <2>3. 1 \in DOMAIN s
    BY <1>1
  <2>. HIDE DEF r
  <2>4. ToSet(s) \subseteq {Head(s)} \cup ToSet(r)
    BY <1>1, <2>1 DEF ToSet
  <2>5. ToSet(r) \subseteq ToSet(s) /\ Head(s) \in ToSet(s)
    BY <1>1, <2>2, <2>3 DEF ToSet
  <2>. QED
    BY <2>4, <2>5
<1>3. Len(s) = 1 <=> r = <<>>
  <2>. HIDE DEF r
  <2>1. Len(<<>>) = 0 /\ (r # <<>> => Len(r) # 0)
    BY <1>1, EmptySeq
  <2>2. r = <<>> => Len(r) = 0
    BY <2>1, Zenon
  <2>. QED
    BY <1>1, <2>1, <2>2
<1>4. ASSUME Increasing(s)
      PROVE  Increasing(r) /\ AllBefore({Head(s)}, ToSet(r))
  <2>1. Increasing(r)
    BY <1>1, <1>4 DEF Increasing
  <2>2. AllBefore({Head(s)}, ToSet(r))
    BY <1>1, <1>4 DEF Increasing, AllBefore, ToSet
  <2>. QED
    BY <2>1, <2>2
<1>. HIDE DEF r
<1>. QED
  BY <1>1, <1>2, <1>3, <1>4 DEF r

\* The elements of a sequence of messages are messages.
LEMMA ToSetType ==
  ASSUME NEW M, NEW s \in Seq(M)
  PROVE  ToSet(s) \subseteq M
  BY ElementOfSeq, LenProperties DEF ToSet

\* Nobody takes a message for an empty hand.
LEMMA PairNotEmpty ==
  ASSUME NEW S, NEW T
  PROVE  <<>> \notin S \X T
<1>. SUFFICES ASSUME NEW m \in S \X T
              PROVE  m # <<>>
  OBVIOUS
<1>1. PICK p \in S, n \in T : m = <<p, n>>
  OBVIOUS
<1>2. Len(<<p, n>>) = 2 /\ Len(<<>>) = 0
  BY EmptySeq
<1>. QED
  BY <1>1, <1>2, Zenon

=============================================================================
