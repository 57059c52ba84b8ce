-------------------------- MODULE EofFramingProofs --------------------------
(***************************************************************************)
(* Theorems about the framing: whatever the messages, the end mark and the *)
(* division of the bytes into reads, the receiver gets what was sent.      *)
(***************************************************************************)
EXTENDS EofFraming, SequenceTheorems, TLAPS

Bytes == Seq(Alphabet)

\* t stands in s, right behind its first p characters.
At(s, p, t) ==
  /\ p + Len(t) <= Len(s)
  /\ \A j \in 1..Len(t) : s[p + j] = t[j]

\* What was sent and not handed on: the string, and what is still to be read.
Stream == data \o wire

\* The messages that are not handed on follow each other in the stream, each with its
\* end mark; pos[i] is where message i has ended.
Follow(pos) ==
  /\ pos \in [Len(received)..Len(written) -> Nat]
  /\ pos[Len(received)] = 0 /\ pos[Len(written)] = Len(Stream)
  /\ \A i, j \in Len(received)..Len(written) : i <= j => pos[i] <= pos[j]
  /\ \A i \in (Len(received) + 1)..Len(written) :
       /\ pos[i] = pos[i - 1] + Len(written[i]) + Len(Eof)
       /\ At(Stream, pos[i - 1], written[i])
       /\ At(Stream, pos[i - 1] + Len(written[i]), Eof)

Types ==
  /\ written \in Seq(Messages) /\ received \in Seq(Bytes)
  /\ data \in Bytes /\ wire \in Bytes /\ inHandler \in BOOLEAN

Handed ==
  /\ Len(received) <= Len(written)
  /\ \A i \in 1..Len(received) : received[i] = written[i]

FramingInv ==
  /\ Types /\ Handed
  /\ inHandler <=> ContainsEof(data)
  /\ \E pos : Follow(pos)

-----------------------------------------------------------------------------
(* The end mark.                                                           *)

\* The end mark is a sequence of at least one character.
LEMMA EofFacts == Eof \in Bytes /\ Len(Eof) \in Nat /\ Len(Eof) >= 1
  BY FramingAssumption, EmptySeq, LenProperties DEF FramingAssumption, Bytes

\* A message is a sequence of characters without an end mark in it.
LEMMA MessageFacts ==
  ASSUME NEW m \in Messages
  PROVE  m \in Bytes /\ ~ContainsEof(m)
<1>1. PICK n \in 0..MaxLength : m \in [1..n -> Alphabet]
  BY DEF Messages
<1>2. n \in Nat
  BY FramingAssumption DEF FramingAssumption
<1>. QED
  BY <1>1, <1>2, SeqDef DEF Messages, Bytes

\* An index of the end mark is a position at which it stands.
LEMMA EofIndexIsAt ==
  ASSUME NEW s \in Bytes, NEW i \in Nat \ {0}
  PROVE  i \in EofIndices(s) <=> At(s, i - 1, Eof)
<1>. DEFINE n == i + Len(Eof) - 1
            sub == SubSeq(s, i, n)
<1>1. Len(s) \in Nat /\ \A k \in 1..Len(s) : s[k] \in Alphabet
  BY LenProperties, ElementOfSeq DEF Bytes
<1>2. CASE i + Len(Eof) - 1 > Len(s)
  BY <1>1, <1>2, EofFacts DEF EofIndices, At
<1>3. CASE i + Len(Eof) - 1 <= Len(s)
  <2>1. i \in 1..(Len(s) + 1 - Len(Eof)) /\ n \in Int /\ i <= n /\ n - i + 1 = Len(Eof)
    BY <1>1, <1>3, EofFacts
  <2>2. \A k \in i..n : s[k] \in Alphabet
    BY <1>1, <1>3, EofFacts
  <2>3. sub \in Bytes /\ Len(sub) = Len(Eof) /\ \A j \in 1..Len(Eof) : sub[j] = s[i + j - 1]
    BY <2>1, <2>2, SubSeqProperties DEF Bytes
  <2>4. sub = Eof <=> \A j \in 1..Len(Eof) : sub[j] = Eof[j]
    BY <2>3, EofFacts, SeqEqual DEF Bytes
  <2>5. \A j \in 1..Len(Eof) : i + j - 1 = i - 1 + j
    BY EofFacts
  <2>6. At(s, i - 1, Eof) <=> \A j \in 1..Len(Eof) : s[i + j - 1] = Eof[j]
    BY <1>1, <1>3, <2>5, EofFacts DEF At
  <2>. QED
    BY <2>1, <2>3, <2>4, <2>6 DEF EofIndices
<1>. QED
  BY <1>1, <1>2, <1>3, EofFacts

\* The end mark, the characters of which differ, stands in a message followed by it no
\* earlier than behind the message.
LEMMA FirstEof ==
  ASSUME NEW s \in Bytes, NEW m \in Bytes, ~ContainsEof(m),
         At(s, 0, m), At(s, Len(m), Eof),
         NEW i \in Nat \ {0}, At(s, i - 1, Eof)
  PROVE  i > Len(m)
<1>. SUFFICES ASSUME i <= Len(m)
              PROVE  FALSE
  BY LenProperties DEF Bytes
<1>1. Len(m) \in Nat /\ Len(s) \in Nat /\ DOMAIN Eof = 1..Len(Eof)
  BY EofFacts, LenProperties DEF Bytes
<1>2. CASE i - 1 + Len(Eof) <= Len(m)
  <2>1. \A j \in 1..Len(Eof) : i - 1 + j \in 1..Len(m) /\ 0 + (i - 1 + j) = i - 1 + j
    BY <1>1, <1>2, EofFacts
  <2>2. At(m, i - 1, Eof)
    BY <1>2, <2>1 DEF At
  <2>. QED
    BY <2>2, EofIndexIsAt DEF ContainsEof
<1>3. CASE i - 1 + Len(Eof) > Len(m)
  <2>. DEFINE j == Len(m) + 2 - i
  <2>1. 1 \in 1..Len(Eof) /\ j \in 1..Len(Eof) /\ j # 1 /\ i - 1 + j = Len(m) + 1
    BY <1>1, <1>3, EofFacts
  <2>2. s[Len(m) + 1] = Eof[1] /\ s[i - 1 + j] = Eof[j]
    BY <2>1 DEF At
  <2>. QED
    BY <1>1, <2>1, <2>2, FramingAssumption DEF FramingAssumption, IsInjective
<1>. QED
  BY <1>1, <1>2, <1>3, EofFacts

-----------------------------------------------------------------------------
(* The string and the stream.                                              *)

\* The string is the front of the stream.
LEMMA DataIsFront ==
  ASSUME Types
  PROVE  /\ Stream \in Bytes /\ Len(Stream) = Len(data) + Len(wire)
         /\ \A i \in 1..Len(data) : Stream[i] = data[i]
         /\ Len(data) \in Nat /\ Len(wire) \in Nat
         /\ \A t \in Bytes, p \in Nat :
              p + Len(t) <= Len(data) => (At(data, p, t) <=> At(Stream, p, t))
<1>1. data \in Bytes /\ wire \in Bytes
  BY DEF Types
<1>2. /\ Stream \in Bytes /\ Len(Stream) = Len(data) + Len(wire)
      /\ \A i \in 1..(Len(data) + Len(wire)) :
           Stream[i] = IF i <= Len(data) THEN data[i] ELSE wire[i - Len(data)]
  BY <1>1, ConcatProperties DEF Stream, Bytes
<1>3. Len(data) \in Nat /\ Len(wire) \in Nat
  BY <1>1, LenProperties DEF Bytes
<1>4. \A i \in 1..Len(data) : Stream[i] = data[i]
  BY <1>2, <1>3
<1>5. ASSUME NEW t \in Bytes, NEW p \in Nat, p + Len(t) <= Len(data)
      PROVE  At(data, p, t) <=> At(Stream, p, t)
  <2>1. Len(t) \in Nat
    BY LenProperties DEF Bytes
  <2>2. \A j \in 1..Len(t) : p + j \in 1..Len(data)
    BY <2>1, <1>3, <1>5
  <2>. QED
    BY <2>1, <2>2, <1>2, <1>3, <1>4, <1>5 DEF At
<1>. QED
  BY <1>2, <1>3, <1>4, <1>5

\* The string contains an end mark if and only if it has the next message with its own,
\* which is then the first.
LEMMA NextMessage ==
  ASSUME Types, Handed, NEW pos, Follow(pos), Len(received) < Len(written)
  PROVE  LET m == written[Len(received) + 1]
         IN /\ m \in Bytes /\ At(Stream, 0, m) /\ Len(m) \in Nat
            /\ pos[Len(received) + 1] = Len(m) + Len(Eof)
            /\ ContainsEof(data) <=> Len(m) + Len(Eof) <= Len(data)
            /\ ContainsEof(data) => IndexOfEof(data) = Len(m) + 1
<1>. DEFINE k == Len(received)
            m == written[k + 1]
<1>1. k \in Nat /\ Len(written) \in Nat /\ k + 1 \in 1..Len(written)
  BY LenProperties DEF Types
<1>2. m \in Bytes /\ ~ContainsEof(m) /\ Len(m) \in Nat
  <2>1. m \in Messages
    BY <1>1, ElementOfSeq DEF Types
  <2>. QED
    BY <2>1, MessageFacts, LenProperties DEF Bytes
<1>3. /\ pos[k + 1] = Len(m) + Len(Eof)
      /\ At(Stream, 0, m) /\ At(Stream, Len(m), Eof)
  <2>1. k + 1 \in (k + 1)..Len(written) /\ k + 1 - 1 = k /\ pos[k] = 0
    BY <1>1 DEF Follow
  <2>2. /\ pos[k + 1] = pos[k + 1 - 1] + Len(m) + Len(Eof)
        /\ At(Stream, pos[k + 1 - 1], m) /\ At(Stream, pos[k + 1 - 1] + Len(m), Eof)
    BY <2>1 DEF Follow
  <2>. QED
    BY <2>1, <2>2, <1>2, EofFacts
<1>4. ASSUME NEW i \in Nat \ {0}, i \in EofIndices(data)
      PROVE  i > Len(m) /\ Len(m) + Len(Eof) <= Len(data)
  <2>1. data \in Bytes /\ At(data, i - 1, Eof) /\ i - 1 \in Nat
    BY <1>4, EofIndexIsAt DEF Types
  <2>2. i - 1 + Len(Eof) <= Len(data)
    BY <2>1 DEF At
  <2>3. At(Stream, i - 1, Eof)
    BY <2>1, <2>2, DataIsFront, EofFacts
  <2>4. i > Len(m)
    BY <2>3, <1>2, <1>3, DataIsFront, FirstEof
  <2>. QED
    BY <2>2, <2>4, <1>2, EofFacts, DataIsFront
<1>5. ASSUME Len(m) + Len(Eof) <= Len(data)
      PROVE  Len(m) + 1 \in EofIndices(data)
  <2>1. At(data, Len(m), Eof)
    BY <1>2, <1>3, <1>5, DataIsFront, EofFacts
  <2>2. data \in Bytes /\ Len(m) + 1 \in Nat \ {0} /\ Len(m) + 1 - 1 = Len(m)
    BY <1>2 DEF Types
  <2>. QED
    BY <2>1, <2>2, EofIndexIsAt
<1>6. EofIndices(data) \subseteq Nat \ {0}
  BY DataIsFront, EofFacts DEF EofIndices
<1>7. ContainsEof(data) <=> Len(m) + Len(Eof) <= Len(data)
  BY <1>4, <1>5, <1>6 DEF ContainsEof
<1>8. ASSUME ContainsEof(data)
      PROVE  IndexOfEof(data) = Len(m) + 1
  <2>1. Len(m) + 1 \in EofIndices(data) /\ \A i \in EofIndices(data) : Len(m) + 1 <= i
    BY <1>8, <1>7, <1>5, <1>4, <1>6, <1>2
  <2>2. \A i \in EofIndices(data) : i <= Len(m) + 1 => i = Len(m) + 1
    BY <2>1, <1>6, <1>2
  <2>. QED
    BY <2>1, <2>2, <1>6 DEF IndexOfEof, Min
<1>. QED
  BY <1>2, <1>3, <1>7, <1>8

\* If all messages have been handed on, nothing is left in the stream.
LEMMA NothingLeft ==
  ASSUME Types, NEW pos, Follow(pos), Len(received) = Len(written)
  PROVE  data = <<>> /\ wire = <<>> /\ ~ContainsEof(data)
<1>1. Len(Stream) = 0
  BY LenProperties DEF Follow, Types
<1>2. Len(data) = 0 /\ Len(wire) = 0
  BY <1>1, DataIsFront
<1>3. data = <<>> /\ wire = <<>>
  BY <1>2, EmptySeq DEF Types, Bytes
<1>4. EofIndices(data) = {}
  BY <1>2, EofFacts DEF EofIndices
<1>. QED
  BY <1>3, <1>4 DEF ContainsEof

-----------------------------------------------------------------------------
(* The steps.                                                              *)

\* What stands in a sequence still does when others are appended, and so do they.
LEMMA AtConcat ==
  ASSUME NEW s \in Bytes, NEW u \in Bytes, NEW t \in Bytes
  PROVE  /\ \A p \in Nat : At(s, p, t) => At(s \o u, p, t)
         /\ At((s \o t) \o u, Len(s), t)
         /\ At(s \o t, Len(s), t)
<1>1. /\ s \o u \in Bytes /\ Len(s \o u) = Len(s) + Len(u)
      /\ \A i \in 1..(Len(s) + Len(u)) : (s \o u)[i] = IF i <= Len(s) THEN s[i] ELSE u[i - Len(s)]
  BY ConcatProperties DEF Bytes
<1>2. /\ s \o t \in Bytes /\ Len(s \o t) = Len(s) + Len(t)
      /\ \A i \in 1..(Len(s) + Len(t)) : (s \o t)[i] = IF i <= Len(s) THEN s[i] ELSE t[i - Len(s)]
  BY ConcatProperties DEF Bytes
<1>3. /\ Len((s \o t) \o u) = Len(s) + Len(t) + Len(u)
      /\ \A i \in 1..(Len(s) + Len(t)) : ((s \o t) \o u)[i] = (s \o t)[i]
  <2>1. /\ Len((s \o t) \o u) = Len(s \o t) + Len(u)
        /\ \A i \in 1..(Len(s \o t) + Len(u)) :
             ((s \o t) \o u)[i] = IF i <= Len(s \o t) THEN (s \o t)[i] ELSE u[i - Len(s \o t)]
    BY <1>2, ConcatProperties DEF Bytes
  <2>. QED
    BY <1>2, <2>1, LenProperties DEF Bytes
<1>4. Len(s) \in Nat /\ Len(t) \in Nat /\ Len(u) \in Nat
  BY LenProperties DEF Bytes
<1>5. \A j \in 1..Len(t) : (s \o t)[Len(s) + j] = t[j]
  BY <1>2, <1>4
<1>6. ASSUME NEW p \in Nat, At(s, p, t)
      PROVE  At(s \o u, p, t)
  <2>1. \A j \in 1..Len(t) : (s \o u)[p + j] = s[p + j]
    BY <1>1, <1>4, <1>6 DEF At
  <2>. QED
    BY <2>1, <1>1, <1>4, <1>6 DEF At
<1>7. At(s \o t, Len(s), t)
  BY <1>2, <1>4, <1>5 DEF At
<1>8. At((s \o t) \o u, Len(s), t)
  <2>1. \A j \in 1..Len(t) : ((s \o t) \o u)[Len(s) + j] = (s \o t)[Len(s) + j]
    BY <1>3, <1>4
  <2>. QED
    BY <2>1, <1>3, <1>4, <1>5 DEF At
<1>. QED
  BY <1>6, <1>7, <1>8

\* A message that is sent follows the others.
LEMMA SendKeeps ==
  ASSUME FramingInv, NEW m \in Messages, SendMsg(m)
  PROVE  FramingInv'
<1>. DEFINE k == Len(received)
            n == Len(written)
            s == Stream
<1>0. /\ written' = Append(written, m) /\ wire' = (wire \o m) \o Eof
      /\ data' = data /\ inHandler' = inHandler /\ received' = received
  BY DEF SendMsg
<1>1. m \in Bytes /\ Len(m) \in Nat /\ Eof \in Bytes /\ Len(Eof) \in Nat /\ Types /\ Handed
  BY MessageFacts, EofFacts, LenProperties DEF FramingInv, Bytes
<1>2. data \in Bytes /\ wire \in Bytes /\ s \in Bytes /\ Len(s) \in Nat
  BY <1>1, DataIsFront, LenProperties DEF Types, Bytes
<1>3. k \in Nat /\ n \in Nat /\ k <= n
  BY <1>1, LenProperties DEF Types, Handed
<1>4. /\ written' \in Seq(Messages) /\ Len(written') = n + 1 /\ written'[n + 1] = m
      /\ \A i \in 1..n : written'[i] = written[i]
  BY <1>0, <1>1, AppendProperties DEF Types
<1>5. wire' \in Bytes
  BY <1>0, <1>1, <1>2, ConcatProperties DEF Bytes
<1>6. Stream' = (s \o m) \o Eof
  <2>1. wire' = wire \o (m \o Eof) /\ m \o Eof \in Bytes
    BY <1>0, <1>1, <1>2, ConcatAssociative, ConcatProperties DEF Bytes
  <2>2. ASSUME NEW t \in Bytes
        PROVE  data \o (wire \o t) = (data \o wire) \o t
    BY <1>2, ConcatAssociative DEF Bytes
  <2>3. s \o (m \o Eof) = (s \o m) \o Eof
    BY <1>1, <1>2, ConcatAssociative DEF Bytes
  <2>4. Stream' = data' \o wire' /\ s = data \o wire
    BY DEF Stream
  <2>. QED
    BY <2>1, <2>2, <2>3, <2>4, <1>0
<1>7. s \o m \in Bytes /\ Len(s \o m) = Len(s) + Len(m) /\ Len(Stream') = Len(s) + Len(m) + Len(Eof)
  BY <1>1, <1>2, <1>6, ConcatProperties, LenProperties DEF Bytes
<1>8. /\ At(Stream', Len(s), m) /\ At(Stream', Len(s) + Len(m), Eof)
      /\ \A p \in Nat, t \in Bytes : At(s, p, t) => At(Stream', p, t)
  BY <1>1, <1>2, <1>6, <1>7, AtConcat
<1>9. PICK pos : Follow(pos)
  BY DEF FramingInv
<1>10. /\ pos \in [k..n -> Nat] /\ pos[k] = 0 /\ pos[n] = Len(s)
       /\ \A i, j \in k..n : i <= j => pos[i] <= pos[j]
       /\ \A i \in (k + 1)..n : /\ pos[i] = pos[i - 1] + Len(written[i]) + Len(Eof)
                                /\ At(s, pos[i - 1], written[i])
                                /\ At(s, pos[i - 1] + Len(written[i]), Eof)
  BY <1>9 DEF Follow
<1>. DEFINE new == [i \in k..(n + 1) |-> IF i = n + 1 THEN Len(s) + Len(m) + Len(Eof) ELSE pos[i]]
<1>11. new \in [k..(n + 1) -> Nat] /\ new[k] = 0 /\ new[n + 1] = Len(Stream')
  BY <1>1, <1>2, <1>3, <1>7, <1>10
<1>12. \A i, j \in k..(n + 1) : i <= j => new[i] <= new[j]
  <2>1. \A i \in k..n : pos[i] <= Len(s) /\ pos[i] \in Nat
    BY <1>3, <1>10
  <2>. QED
    BY <2>1, <1>1, <1>2, <1>3, <1>10
<1>13. ASSUME NEW i \in (k + 1)..(n + 1)
       PROVE  /\ new[i] = new[i - 1] + Len(written'[i]) + Len(Eof)
              /\ At(Stream', new[i - 1], written'[i])
              /\ At(Stream', new[i - 1] + Len(written'[i]), Eof)
  <2>1. CASE i = n + 1
    <3>1. new[i - 1] = Len(s) /\ written'[i] = m /\ new[i] = Len(s) + Len(m) + Len(Eof)
      BY <2>1, <1>3, <1>4, <1>10
    <3>. QED
      BY <3>1, <1>8
  <2>2. CASE i # n + 1
    <3>1. /\ i \in (k + 1)..n /\ i \in 1..n /\ i - 1 \in k..n
          /\ new[i] = pos[i] /\ new[i - 1] = pos[i - 1] /\ pos[i - 1] \in Nat
          /\ written'[i] = written[i]
      BY <2>2, <1>3, <1>4, <1>10
    <3>2. written[i] \in Bytes /\ Len(written[i]) \in Nat
      <4>1. written[i] \in Messages
        BY <3>1, <1>1, ElementOfSeq DEF Types
      <4>. QED
        BY <4>1, MessageFacts, LenProperties DEF Bytes
    <3>3. At(s, pos[i - 1], written[i]) /\ At(s, pos[i - 1] + Len(written[i]), Eof)
      BY <3>1, <1>10
    <3>. HIDE DEF new
    <3>4. At(Stream', pos[i - 1], written[i]) /\ At(Stream', pos[i - 1] + Len(written[i]), Eof)
      BY <3>1, <3>2, <3>3, <1>1, <1>8
    <3>. QED
      BY <3>1, <3>4, <1>10
  <2>. QED
    BY <2>1, <2>2
<1>. HIDE DEF new
<1>14. (\E q : Follow(q))'
  <2>1. ASSUME NEW q, q = new
        PROVE  Follow(q)'
    BY <2>1, <1>0, <1>4, <1>11, <1>12, <1>13 DEF Follow
  <2>. QED
    BY <2>1
<1>15. Types'
  BY <1>0, <1>1, <1>4, <1>5 DEF Types
<1>16. Handed'
  BY <1>0, <1>1, <1>3, <1>4 DEF Handed
<1>17. (inHandler <=> ContainsEof(data))'
  BY <1>0 DEF FramingInv, ContainsEof, EofIndices
<1>. QED
  BY <1>14, <1>15, <1>16, <1>17 DEF FramingInv

\* A read moves bytes within the stream, however many it returns.
LEMMA ReadKeeps ==
  ASSUME FramingInv, NEW length \in Nat \ {0}, Read(length)
  PROVE  FramingInv'
<1>. DEFINE front == SubSeq(wire, 1, length)
            back == SubSeq(wire, length + 1, Len(wire))
<1>1. /\ length <= Len(wire) /\ data' = data \o front /\ wire' = back
      /\ inHandler' = ContainsEof(data') /\ written' = written /\ received' = received
  BY DEF Read
<1>2. Types /\ data \in Bytes /\ wire \in Bytes /\ Len(wire) \in Nat
  BY LenProperties DEF FramingInv, Types, Bytes
<1>3. /\ \A i \in 1..length : wire[i] \in Alphabet
      /\ \A i \in (length + 1)..Len(wire) : wire[i] \in Alphabet
  BY <1>1, <1>2, ElementOfSeq DEF Bytes
<1>4. front \in Bytes /\ back \in Bytes
  BY <1>2, <1>3, SubSeqProperties DEF Bytes
<1>5. front \o back = wire
  <2>1. /\ 1 \in 1..(Len(wire) + 1) /\ length \in (1 - 1)..Len(wire)
        /\ Len(wire) \in length..Len(wire)
    BY <1>1, <1>2
  <2>2. front \o back = SubSeq(wire, 1, Len(wire))
    BY <2>1, <1>2, ConcatAdjacentSubSeq DEF Bytes
  <2>. QED
    BY <2>2, <1>2, SubSeqFull DEF Bytes
<1>6. data' \in Bytes
  BY <1>1, <1>2, <1>4, ConcatProperties DEF Bytes
<1>. HIDE DEF front, back
<1>7. Stream' = Stream
  <2>1. Stream' = (data \o front) \o back /\ Stream = data \o wire
    BY <1>1 DEF Stream
  <2>2. (data \o front) \o back = data \o (front \o back)
    BY <1>2, <1>4, ConcatAssociative DEF Bytes
  <2>. QED
    BY <2>1, <2>2, <1>5
<1>8. ContainsEof(data)' = ContainsEof(data') /\ ContainsEof(data') \in BOOLEAN
  BY DEF ContainsEof, EofIndices
<1>9. Types' /\ (inHandler <=> ContainsEof(data))'
  BY <1>1, <1>2, <1>4, <1>6, <1>8 DEF Types
<1>10. Handed'
  BY <1>1 DEF FramingInv, Handed
<1>11. ASSUME NEW pos, Follow(pos)
       PROVE  Follow(pos)'
  BY <1>1, <1>7, <1>11 DEF Follow
<1>. QED
  BY <1>9, <1>10, <1>11 DEF FramingInv

\* The handler cuts off the next message, and nothing else.
LEMMA CutKeeps ==
  ASSUME FramingInv, CutMessage
  PROVE  FramingInv'
<1>. DEFINE k == Len(received)
            n == Len(written)
            m == written[k + 1]
            c == Len(m) + Len(Eof)
            head == SubSeq(data, 1, Len(m))
            rest == SubSeq(data, c + 1, Len(data))
<1>1. PICK pos : Follow(pos)
  BY DEF FramingInv
<1>2. Types /\ Handed /\ ContainsEof(data) /\ data \in Bytes /\ wire \in Bytes
  BY DEF FramingInv, CutMessage, Types
<1>3. k \in Nat /\ n \in Nat /\ k < n
  BY <1>1, <1>2, NothingLeft, LenProperties DEF Types, Handed
<1>4. /\ m \in Bytes /\ At(Stream, 0, m) /\ pos[k + 1] = c
      /\ c <= Len(data) /\ IndexOfEof(data) = Len(m) + 1 /\ Len(m) \in Nat
  BY <1>1, <1>2, <1>3, NextMessage
<1>5. c \in Nat /\ Len(Eof) \in Nat /\ Len(Eof) >= 1 /\ Len(data) \in Nat /\ Len(wire) \in Nat
  BY <1>2, <1>4, EofFacts, LenProperties DEF Bytes
<1>6. /\ received' = Append(received, head) /\ data' = rest
      /\ inHandler' = ContainsEof(data') /\ written' = written /\ wire' = wire
  <2>. DEFINE i == IndexOfEof(data)
  <2>1. i - 1 = Len(m) /\ i + Len(Eof) = c + 1
    BY <1>4, <1>5
  <2>2. /\ received' = Append(received, SubSeq(data, 1, i - 1))
        /\ data' = SubSeq(data, i + Len(Eof), Len(data))
        /\ inHandler' = ContainsEof(data') /\ written' = written /\ wire' = wire
    BY DEF CutMessage, Rest
  <2>. HIDE DEF i, c
  <2>. QED
    BY <2>1, <2>2
<1>7. \A i \in 1..Len(data) : data[i] \in Alphabet
  BY <1>2, ElementOfSeq DEF Bytes
<1>8. head = m
  <2>1. \A i \in 1..Len(m) : data[i] \in Alphabet
    BY <1>4, <1>5, <1>7
  <2>2. head \in Bytes /\ Len(head) = Len(m) /\ \A i \in 1..Len(m) : head[i] = data[i]
    BY <1>4, <2>1, SubSeqProperties DEF Bytes
  <2>3. At(data, 0, m)
    BY <1>2, <1>4, <1>5, DataIsFront
  <2>4. \A i \in 1..Len(m) : data[i] = m[i]
    BY <2>3, <1>4 DEF At
  <2>. QED
    BY <2>2, <2>4, <1>4, SeqEqual DEF Bytes
<1>9. rest \in Bytes /\ Len(rest) = Len(data) - c /\ \A i \in 1..Len(rest) : rest[i] = data[c + i]
  <2>. HIDE DEF c
  <2>1. PICK a \in Int : a = c + 1
    BY <1>5
  <2>2. \A i \in a..Len(data) : data[i] \in Alphabet
    BY <2>1, <1>5, <1>7
  <2>3. /\ SubSeq(data, a, Len(data)) \in Bytes
        /\ Len(SubSeq(data, a, Len(data))) = IF a <= Len(data) THEN Len(data) - a + 1 ELSE 0
        /\ \A i \in 1..(Len(data) - a + 1) : SubSeq(data, a, Len(data))[i] = data[a + i - 1]
    BY <2>2, <1>5, SubSeqProperties DEF Bytes
  <2>4. SubSeq(data, a, Len(data)) = rest
    BY <2>1
  <2>. HIDE DEF rest
  <2>5. \A i \in 1..(Len(data) - c) : rest[i] = data[c + i]
    <3>1. \A i \in 1..(Len(data) - c) : i \in 1..(Len(data) - a + 1) /\ a + i - 1 = c + i
      BY <2>1, <1>5
    <3>. QED
      BY <3>1, <2>3, <2>4
  <2>6. Len(rest) = Len(data) - c
    BY <2>1, <2>3, <2>4, <1>4, <1>5
  <2>. QED
    BY <2>3, <2>4, <2>5, <2>6
<1>. HIDE DEF head, rest, c
<1>10. /\ Stream' \in Bytes /\ Len(Stream') = Len(Stream) - c /\ Len(Stream) \in Nat
       /\ \A i \in 1..Len(Stream') : Stream'[i] = Stream[c + i]
  <2>1. Stream' = rest \o wire /\ Stream = data \o wire
    BY <1>6 DEF Stream
  <2>2. /\ Len(data \o wire) = Len(data) + Len(wire)
        /\ \A i \in 1..(Len(data) + Len(wire)) :
             (data \o wire)[i] = IF i <= Len(data) THEN data[i] ELSE wire[i - Len(data)]
    BY <1>2, ConcatProperties DEF Bytes
  <2>3. /\ rest \o wire \in Bytes /\ Len(rest \o wire) = Len(data) - c + Len(wire)
        /\ \A i \in 1..(Len(data) - c + Len(wire)) :
             (rest \o wire)[i] = IF i <= Len(data) - c THEN rest[i] ELSE wire[i - (Len(data) - c)]
    BY <1>2, <1>9, ConcatProperties DEF Bytes
  <2>4. ASSUME NEW i \in 1..(Len(data) - c + Len(wire))
        PROVE  (rest \o wire)[i] = (data \o wire)[c + i]
    <3>1. c + i \in 1..(Len(data) + Len(wire)) /\ i - (Len(data) - c) = c + i - Len(data)
      BY <1>4, <1>5
    <3>2. CASE i <= Len(data) - c
      BY <3>1, <3>2, <2>2, <2>3, <1>5, <1>9
    <3>3. CASE ~(i <= Len(data) - c)
      BY <3>1, <3>3, <2>2, <2>3, <1>5
    <3>. QED
      BY <3>2, <3>3
  <2>. QED
    BY <2>1, <2>2, <2>3, <2>4, <1>4, <1>5
<1>11. ASSUME NEW p \in Nat, NEW t \in Bytes, c <= p, At(Stream, p, t)
       PROVE  At(Stream', p - c, t)
  <2>1. Len(t) \in Nat
    BY LenProperties DEF Bytes
  <2>2. p - c + Len(t) <= Len(Stream')
    BY <2>1, <1>5, <1>10, <1>11 DEF At
  <2>3. ASSUME NEW j \in 1..Len(t)
        PROVE  Stream'[p - c + j] = t[j]
    <3>1. p - c + j \in 1..Len(Stream') /\ c + (p - c + j) = p + j
      BY <2>1, <2>2, <1>5, <1>10, <1>11
    <3>. QED
      BY <3>1, <1>10, <1>11 DEF At
  <2>. QED
    BY <2>2, <2>3 DEF At
<1>12. received' \in Seq(Bytes) /\ Len(received') = k + 1 /\ received'[k + 1] = m
       /\ \A i \in 1..k : received'[i] = received[i]
  BY <1>2, <1>4, <1>6, <1>8, AppendProperties DEF Types
<1>13. Types'
  BY <1>2, <1>6, <1>9, <1>12 DEF Types, ContainsEof
<1>14. Handed'
  BY <1>2, <1>3, <1>6, <1>12 DEF Handed
<1>15. (inHandler <=> ContainsEof(data))'
  BY <1>6 DEF ContainsEof, EofIndices
<1>16. /\ pos \in [k..n -> Nat] /\ pos[k + 1] = c /\ pos[n] = Len(Stream)
       /\ \A i, j \in k..n : i <= j => pos[i] <= pos[j]
       /\ \A i \in (k + 1)..n : /\ pos[i] = pos[i - 1] + Len(written[i]) + Len(Eof)
                                /\ At(Stream, pos[i - 1], written[i])
                                /\ At(Stream, pos[i - 1] + Len(written[i]), Eof)
  BY <1>1, <1>4 DEF Follow
<1>. HIDE DEF m
<1>17. \A i \in (k + 1)..n : pos[i] \in Nat /\ c <= pos[i]
  BY <1>3, <1>16
<1>. DEFINE new == [i \in (k + 1)..n |-> pos[i] - c]
<1>18. /\ new \in [(k + 1)..n -> Nat] /\ new[k + 1] = 0 /\ new[n] = Len(Stream')
       /\ \A i, j \in (k + 1)..n : i <= j => new[i] <= new[j]
  <2>1. k + 1 \in (k + 1)..n /\ n \in (k + 1)..n
    BY <1>3
  <2>2. \A i \in (k + 1)..n : new[i] = pos[i] - c /\ new[i] \in Nat
    BY <1>5, <1>17
  <2>. HIDE DEF new
  <2>3. \A i, j \in (k + 1)..n : i <= j => pos[i] <= pos[j]
    BY <1>3, <1>16
  <2>4. \A i, j \in (k + 1)..n : i <= j => new[i] <= new[j]
    BY <2>2, <2>3, <1>5, <1>17
  <2>5. new \in [(k + 1)..n -> Nat]
    BY <2>2 DEF new
  <2>. QED
    BY <2>1, <2>2, <2>4, <2>5, <1>5, <1>10, <1>16
<1>19. ASSUME NEW i \in (k + 2)..n
       PROVE  /\ new[i] = new[i - 1] + Len(written[i]) + Len(Eof)
              /\ At(Stream', new[i - 1], written[i])
              /\ At(Stream', new[i - 1] + Len(written[i]), Eof)
  <2>1. i \in (k + 1)..n /\ i - 1 \in (k + 1)..n /\ i \in 1..n
    BY <1>3
  <2>2. written[i] \in Bytes /\ Len(written[i]) \in Nat
    <3>1. written[i] \in Messages
      BY <2>1, <1>2, ElementOfSeq DEF Types
    <3>. QED
      BY <3>1, MessageFacts, LenProperties DEF Bytes
  <2>3. /\ new[i] = pos[i] - c /\ new[i - 1] = pos[i - 1] - c
        /\ pos[i] \in Nat /\ pos[i - 1] \in Nat /\ c <= pos[i - 1]
    BY <2>1, <1>17
  <2>. HIDE DEF new
  <2>4. At(Stream', pos[i - 1] - c, written[i])
    BY <2>1, <2>2, <2>3, <1>11, <1>16
  <2>5. At(Stream', (pos[i - 1] + Len(written[i])) - c, Eof)
    <3>1. PICK p \in Nat : p = pos[i - 1] + Len(written[i])
      BY <2>2, <2>3
    <3>2. At(Stream, pos[i - 1] + Len(written[i]), Eof)
      BY <2>1, <1>16
    <3>3. c <= p
      BY <3>1, <2>2, <2>3, <1>5
    <3>4. At(Stream, p, Eof)
      BY <3>1, <3>2, Zenon
    <3>5. At(Stream', p - c, Eof)
      BY <3>3, <3>4, <1>11, EofFacts
    <3>. QED
      BY <3>1, <3>5, Zenon
  <2>6. pos[i] = pos[i - 1] + Len(written[i]) + Len(Eof)
    BY <2>1, <1>16
  <2>7. (pos[i - 1] + Len(written[i])) - c = pos[i - 1] - c + Len(written[i])
    BY <2>2, <2>3, <1>5
  <2>. QED
    BY <2>2, <2>3, <2>4, <2>5, <2>6, <2>7, <1>5
<1>. HIDE DEF new
<1>20. (\E q : Follow(q))'
  <2>1. ASSUME NEW q, q = new
        PROVE  Follow(q)'
    <3>1. k + 1 + 1 = k + 2
      BY <1>3
    <3>. QED
      BY <2>1, <3>1, <1>6, <1>12, <1>18, <1>19 DEF Follow
  <2>. QED
    BY <2>1
<1>. QED
  BY <1>13, <1>14, <1>15, <1>20 DEF FramingInv

\* A connection begins with nothing sent, read or handed on.
LEMMA FramingInit == Init => FramingInv
<1>. SUFFICES ASSUME written = <<>>, wire = <<>>, data = <<>>, inHandler = FALSE, received = <<>>
              PROVE  FramingInv
  BY DEF Init
<1>1. Len(written) = 0 /\ Len(received) = 0 /\ Len(data) = 0
  BY EmptySeq
<1>2. Types
  BY EmptySeq DEF Types, Bytes
<1>3. Len(Stream) = 0
  BY <1>2, <1>1, DataIsFront, EmptySeq
<1>4. Follow([i \in 0..0 |-> 0])
  BY <1>1, <1>3 DEF Follow
<1>5. ~ContainsEof(data)
  BY <1>1, EofFacts DEF ContainsEof, EofIndices
<1>. QED
  BY <1>1, <1>2, <1>4, <1>5 DEF FramingInv, Handed

\* Every step keeps the messages in their places in the stream.
LEMMA FramingNext == FramingInv /\ [Next]_vars => FramingInv'
<1>. SUFFICES ASSUME FramingInv, [Next]_vars
              PROVE  FramingInv'
  OBVIOUS
<1>1. ASSUME NEW m \in Messages, SendMsg(m)
      PROVE  FramingInv'
  BY <1>1, SendKeeps
<1>2. ASSUME NEW length \in 1..(MaxMsgs * (MaxLength + Len(Eof))), Read(length)
      PROVE  FramingInv'
  BY <1>2, ReadKeeps
<1>3. CASE CutMessage
  BY <1>3, CutKeeps
<1>4. CASE Reconnect
  <2>1. Init'
    BY <1>4 DEF Reconnect, Init
  <2>. QED
    BY <2>1, FramingInit, PTL
<1>5. CASE UNCHANGED vars
  BY <1>5 DEF vars, FramingInv, Types, Handed, Follow, Stream, ContainsEof, EofIndices
<1>. QED
  BY <1>1, <1>2, <1>3, <1>4, <1>5 DEF Next

\* Every state of a connection is framed.
LEMMA Framed == Spec => []FramingInv
  BY FramingInit, FramingNext, PTL DEF Spec

\* For messages of any number, length and contents, and for any end mark whose characters
\* differ, the receiver gets the messages that were sent, whole and in their order, however
\* startReciveData's reads divide the bytes.
THEOREM MessagesAsSent == Spec => []ReceivedAsSent
<1>1. FramingInv => ReceivedAsSent
  <2>. SUFFICES ASSUME FramingInv PROVE ReceivedAsSent
    OBVIOUS
  <2>. DEFINE k == Len(received)
  <2>1. Types /\ Handed /\ k \in Nat /\ Len(written) \in Nat /\ k <= Len(written)
    BY LenProperties DEF FramingInv, Types, Handed
  <2>2. \A i \in 1..k : received[i] = written[i] /\ received[i] \in Bytes
    BY <2>1, ElementOfSeq DEF Handed, Types
  <2>3. /\ SubSeq(written, 1, k) \in Seq(Bytes) /\ Len(SubSeq(written, 1, k)) = k
        /\ \A i \in 1..k : SubSeq(written, 1, k)[i] = written[i]
    BY <2>1, <2>2, SubSeqProperties
  <2>4. SubSeq(written, 1, k) = received
    BY <2>1, <2>2, <2>3, SeqEqual DEF Types
  <2>5. SubSeq(received, 1, k) = received
    BY <2>1, SubSeqFull DEF Types
  <2>. QED
    BY <2>1, <2>4, <2>5 DEF ReceivedAsSent, IsPrefix
<1>. QED
  BY <1>1, Framed, PTL

\* When all bytes are read and reciveMsg has returned, every message has been handed on,
\* and nothing of the local string is left.
THEOREM NothingStays == Spec => []NothingHeldBack
<1>1. FramingInv => NothingHeldBack
  <2>. SUFFICES ASSUME FramingInv, wire = <<>>, ~inHandler
                PROVE  received = written /\ data = <<>>
    BY DEF NothingHeldBack
  <2>1. PICK pos : Follow(pos)
    BY DEF FramingInv
  <2>2. Types /\ Handed /\ Len(received) \in Nat /\ Len(written) \in Nat /\ ~ContainsEof(data)
    BY LenProperties DEF FramingInv, Types
  <2>3. Len(received) = Len(written)
    <3>. SUFFICES ASSUME Len(received) < Len(written) PROVE FALSE
      BY <2>2 DEF Handed
    <3>. DEFINE m == written[Len(received) + 1]
    <3>1. /\ pos[Len(received) + 1] = Len(m) + Len(Eof)
          /\ ~(Len(m) + Len(Eof) <= Len(data)) /\ Len(m) \in Nat
      BY <2>1, <2>2, NextMessage
    <3>2. pos[Len(received) + 1] <= Len(Stream)
      BY <2>1, <2>2 DEF Follow
    <3>3. Len(Stream) = Len(data) /\ Len(data) \in Nat
      BY <2>2, DataIsFront, EmptySeq
    <3>. QED
      BY <3>1, <3>2, <3>3, EofFacts
  <2>4. data = <<>>
    BY <2>1, <2>2, <2>3, NothingLeft
  <2>5. received = written
    <3>1. written \in Seq(Bytes)
      BY <2>2, MessageFacts, SeqMonotonic DEF Types
    <3>. QED
      BY <3>1, <2>2, <2>3, SeqEqual DEF Types, Handed
  <2>. QED
    BY <2>4, <2>5
<1>. QED
  BY <1>1, Framed, PTL
=============================================================================
