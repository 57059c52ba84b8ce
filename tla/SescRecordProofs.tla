-------------------------- MODULE SescRecordProofs --------------------------
(***************************************************************************)
(* Theorems about the rows of a flush, for messages with any values and    *)
(* items and for batches of any length.  What the loop over the items      *)
(* computes is proved by an induction over the items.                      *)
(***************************************************************************)
EXTENDS SescRecord, SequenceTheorems, WellFoundedInduction, TLAPS

-----------------------------------------------------------------------------
(* Induction.  The induction theorems of the library have an operator as   *)
(* a parameter; these have a set.                                          *)

\* A non-empty set of numbers has a least one.
LEMMA LeastElement ==
  ASSUME NEW T, T \subseteq Nat, T # {}
  PROVE  \E n \in T : \A m \in T : n <= m
<1>1. PICK n \in T : \A m \in T : ~ (<<m, n>> \in OpToRel(<, Nat))
  BY WFMin, NatLessThanWellFounded, Zenon
<1>2. \A m \in T : ~(m < n)
  BY <1>1 DEF OpToRel
<1>. QED
  BY <1>2

\* A set with 0 and with the successor of each of its numbers has all numbers.
LEMMA SetInduction ==
  ASSUME NEW T, 0 \in T, \A n \in Nat : n \in T => n + 1 \in T
  PROVE  Nat \subseteq T
<1>. SUFFICES ASSUME Nat \ T # {}
              PROVE  FALSE
  OBVIOUS
<1>1. PICK n \in Nat \ T : \A m \in Nat \ T : n <= m
  BY LeastElement
<1>2. n - 1 \in Nat /\ n - 1 \in T /\ n = n - 1 + 1
  BY <1>1
<1>. QED
  BY <1>1, <1>2

\* A non-empty set of numbers with a bound has a greatest one.
LEMMA MaxFacts ==
  ASSUME NEW n \in Nat, NEW s, s \subseteq 1..n, s # {}
  PROVE  Max(s) \in s /\ \A y \in s : y <= Max(s)
<1>. DEFINE T == {n - x : x \in s}
<1>0. \A x \in s : x \in Int /\ n - x \in Nat
  OBVIOUS
<1>1. T \subseteq Nat /\ T # {}
  BY <1>0
<1>2. PICK b \in T : \A m \in T : b <= m
  BY <1>1, LeastElement
<1>3. PICK x \in s : b = n - x
  BY <1>2
<1>4. \A y \in s : n - y \in T
  OBVIOUS
<1>5. \A y \in s : y <= x
  <2>1. ASSUME NEW y \in s
        PROVE  y <= x
    <3>1. n - x <= n - y
      BY <1>2, <1>3, <1>4
    <3>. QED
      BY <3>1, <1>0
  <2>. QED
    BY <2>1
<1>. QED
  BY <1>5 DEF Max

-----------------------------------------------------------------------------
(* The loop over the items.                                                *)

\* The loop before its first round, and one round.
Begun(row) == [row |-> row, thrown |-> FALSE]
Stored(acc, item) ==
  IF acc.thrown \/ Throws(item) THEN [acc EXCEPT !.thrown = TRUE]
  ELSE [acc EXCEPT !.row.datas[item.idx] = item.value]

\* What the fold computes for each set of positions up to n.
FoldsTo(g, row, list, n) ==
  g = [s \in SUBSET (1..n) |->
         IF s = {} THEN Begun(row) ELSE Stored(g[s \ {Max(s)}], list[Max(s)])]

\* There is a function that satisfies the recursive definition in FoldLeft.
LEMMA FoldExists ==
  ASSUME NEW row, NEW list
  PROVE  \A n \in Nat : \E g : FoldsTo(g, row, list, n)
<1>. DEFINE T == {n \in Nat : \E g : FoldsTo(g, row, list, n)}
<1>1. 0 \in T
  <2>. DEFINE g == [s \in SUBSET (1..0) |-> Begun(row)]
  <2>1. \A s \in SUBSET (1..0) : s = {}
    OBVIOUS
  <2>2. g = [s \in SUBSET (1..0) |->
               IF s = {} THEN Begun(row) ELSE Stored(g[s \ {Max(s)}], list[Max(s)])]
    BY <2>1
  <2>3. FoldsTo(g, row, list, 0)
    BY <2>2 DEF FoldsTo
  <2>. QED
    BY <2>3
<1>2. ASSUME NEW n \in Nat, n \in T
      PROVE  n + 1 \in T
  <2>1. PICK g : FoldsTo(g, row, list, n)
    BY <1>2
  <2>. DEFINE new == [s \in SUBSET (1..(n + 1)) |->
                        IF n + 1 \in s THEN Stored(g[s \ {n + 1}], list[n + 1]) ELSE g[s]]
  <2>2. ASSUME NEW s \in SUBSET (1..(n + 1))
        PROVE  new[s] = IF s = {} THEN Begun(row)
                        ELSE Stored(new[s \ {Max(s)}], list[Max(s)])
    <3>1. CASE n + 1 \in s
      <4>1. Max(s) = n + 1
        <5>1. n + 1 \in Nat /\ s \subseteq 1..(n + 1) /\ s # {}
          BY <3>1
        <5>2. Max(s) \in s /\ \A y \in s : y <= Max(s)
          BY <5>1, MaxFacts
        <5>3. Max(s) \in 1..(n + 1) /\ n + 1 <= Max(s)
          BY <3>1, <5>1, <5>2
        <5>. QED
          BY <5>3
      <4>2. s \ {n + 1} \in SUBSET (1..(n + 1)) /\ n + 1 \notin s \ {n + 1}
        OBVIOUS
      <4>3. new[s \ {n + 1}] = g[s \ {n + 1}]
        BY <4>2
      <4>. QED
        BY <3>1, <4>1, <4>3
    <3>2. CASE n + 1 \notin s
      <4>1. s \in SUBSET (1..n)
        BY <3>2
      <4>2. g[s] = IF s = {} THEN Begun(row) ELSE Stored(g[s \ {Max(s)}], list[Max(s)])
        BY <2>1, <4>1 DEF FoldsTo
      <4>3. s \ {Max(s)} \in SUBSET (1..(n + 1)) /\ n + 1 \notin s \ {Max(s)}
        BY <3>2
      <4>4. new[s] = g[s] /\ new[s \ {Max(s)}] = g[s \ {Max(s)}]
        BY <3>2, <4>3
      <4>. HIDE DEF new
      <4>. QED
        BY <4>2, <4>4
    <3>. QED
      BY <3>1, <3>2
  <2>3. new = [s \in SUBSET (1..(n + 1)) |->
                 IF s = {} THEN Begun(row) ELSE Stored(new[s \ {Max(s)}], list[Max(s)])]
    <3>1. new = [s \in SUBSET (1..(n + 1)) |-> new[s]]
      OBVIOUS
    <3>. HIDE DEF new
    <3>. QED
      BY <3>1, <2>2, Zenon
  <2>. HIDE DEF new
  <2>4. FoldsTo(new, row, list, n + 1)
    BY <2>3 DEF FoldsTo
  <2>. QED
    BY <2>4
<1>. HIDE DEF T
<1>3. Nat \subseteq T
  BY <1>1, <1>2, SetInduction
<1>. QED
  BY <1>3 DEF T

\* StoreItems goes through the items in their order.
LEMMA LoopOfItems ==
  ASSUME NEW row, NEW list \in Lists
  PROVE  \E acc : /\ acc[0] = Begun(row)
                  /\ \A i \in 1..Len(list) : acc[i] = Stored(acc[i - 1], list[i])
                  /\ StoreItems(row, list) = acc[Len(list)].row
<1>1. PICK n \in Nat : list \in [1..n -> Items] /\ Len(list) = n /\ DOMAIN list = 1..n
  BY RecordAssumption DEF RecordAssumption, Lists
<1>. DEFINE Iter == CHOOSE iter : iter = [s \in SUBSET DOMAIN list |->
                      IF s = {} THEN [row |-> row, thrown |-> FALSE]
                      ELSE LET x == Max(s)
                               acc == iter[s \ {x}]
                               item == list[x]
                           IN IF acc.thrown \/ Throws(item)
                              THEN [acc EXCEPT !.thrown = TRUE]
                              ELSE [acc EXCEPT !.row.datas[item.idx] = item.value]]
<1>2. StoreItems(row, list) = Iter[DOMAIN list].row
  BY Zenon DEF StoreItems, FoldLeft, MapThenFoldSet
<1>3. Iter = CHOOSE g : FoldsTo(g, row, list, n)
  BY <1>1 DEF FoldsTo, Begun, Stored
<1>. HIDE DEF Iter
<1>4. FoldsTo(Iter, row, list, n)
  BY <1>3, FoldExists
<1>5. \A s \in SUBSET (1..n) :
        Iter[s] = IF s = {} THEN Begun(row) ELSE Stored(Iter[s \ {Max(s)}], list[Max(s)])
  BY <1>4 DEF FoldsTo
<1>. DEFINE acc == [i \in 0..n |-> Iter[1..i]]
<1>6. acc[0] = Begun(row)
  <2>1. 1..0 = {} /\ {} \in SUBSET (1..n) /\ 0 \in 0..n
    OBVIOUS
  <2>. QED
    BY <2>1, <1>5
<1>7. ASSUME NEW i \in 1..n
      PROVE  acc[i] = Stored(acc[i - 1], list[i])
  <2>1. /\ 1..i \in SUBSET (1..n) /\ 1..i # {} /\ (1..i) \ {i} = 1..(i - 1)
        /\ i \in 0..n /\ i - 1 \in 0..n
    OBVIOUS
  <2>2. Max(1..i) = i
    <3>1. Max(1..i) \in 1..i /\ \A y \in 1..i : y <= Max(1..i)
      BY <2>1, MaxFacts
    <3>. QED
      BY <3>1
  <2>3. Iter[1..i] = Stored(Iter[(1..i) \ {i}], list[i])
    BY <2>1, <2>2, <1>5
  <2>. QED
    BY <2>1, <2>3
<1>8. acc[n] = Iter[DOMAIN list]
  BY <1>1
<1>. HIDE DEF acc
<1>. QED
  BY <1>1, <1>2, <1>6, <1>7, <1>8

\* The first item that throws, or the position behind the last item.
LEMMA FirstThrowFacts ==
  ASSUME NEW list \in Lists
  PROVE  /\ Len(list) \in Nat /\ \A i \in 1..Len(list) : list[i] \in Items
         /\ FirstThrow(list) \in 1..(Len(list) + 1)
         /\ \A i \in 1..Len(list) : i < FirstThrow(list) => ~Throws(list[i])
         /\ FirstThrow(list) <= Len(list) => Throws(list[FirstThrow(list)])
<1>1. PICK n \in Nat : list \in [1..n -> Items] /\ Len(list) = n /\ DOMAIN list = 1..n
  BY RecordAssumption DEF RecordAssumption, Lists
<1>. DEFINE T == {i \in DOMAIN list : Throws(list[i])} \cup {Len(list) + 1}
<1>2. T \subseteq 1..(n + 1) /\ T # {} /\ T \subseteq Nat
  BY <1>1
<1>3. PICK a \in T : \A m \in T : a <= m
  BY <1>2, LeastElement
<1>4. FirstThrow(list) \in T /\ \A m \in T : FirstThrow(list) <= m
  BY <1>3 DEF FirstThrow, Min
<1>. QED
  BY <1>1, <1>2, <1>4

\* The value that the last of the first e items with the number k gives it.
LastUpTo(list, k, e) ==
  LET named == {j \in 1..e : list[j].idx = k}
  IN IF named = {} THEN 0 ELSE list[Max(named)].value

\* How far an item changes that.
LEMMA LastUpToNext ==
  ASSUME NEW list, NEW k, NEW e \in Nat
  PROVE  /\ LastUpTo(list, k, 0) = 0
         /\ LastUpTo(list, k, e + 1) =
              IF list[e + 1].idx = k THEN list[e + 1].value ELSE LastUpTo(list, k, e)
<1>. DEFINE Named(d) == {j \in 1..d : list[j].idx = k}
<1>1. Named(0) = {}
  OBVIOUS
<1>2. CASE list[e + 1].idx = k
  <2>1. e + 1 \in Nat /\ Named(e + 1) \subseteq 1..(e + 1) /\ e + 1 \in Named(e + 1)
    BY <1>2
  <2>2. Max(Named(e + 1)) \in Named(e + 1) /\ \A y \in Named(e + 1) : y <= Max(Named(e + 1))
    BY <2>1, MaxFacts
  <2>3. Max(Named(e + 1)) = e + 1
    BY <2>1, <2>2
  <2>. QED
    BY <1>1, <1>2, <2>1, <2>3 DEF LastUpTo
<1>3. CASE list[e + 1].idx # k
  <2>1. Named(e + 1) = Named(e)
    BY <1>3
  <2>. QED
    BY <1>1, <1>3, <2>1 DEF LastUpTo
<1>. QED
  BY <1>2, <1>3

\* The loop gives each number the value of the last item that has it, of those before the
\* first that throws, and leaves the rest of the row alone.
LEMMA ItemsStored ==
  ASSUME NEW row \in Rows, \A k \in 1..NumItems : row.datas[k] = 0, NEW list \in Lists
  PROVE  LET stored == StoreItems(row, list)
         IN /\ stored \in Rows /\ stored.time = row.time /\ stored.toolID = row.toolID
            /\ \A k \in 1..NumItems : stored.datas[k] = LastValue(list, k)
<1>. DEFINE n == Len(list)
            first == FirstThrow(list)
            Handled(i) == IF first <= i THEN first - 1 ELSE i
<1>1. PICK acc : /\ acc[0] = Begun(row)
                 /\ \A i \in 1..n : acc[i] = Stored(acc[i - 1], list[i])
                 /\ StoreItems(row, list) = acc[n].row
  BY LoopOfItems
<1>2. /\ n \in Nat /\ \A i \in 1..n : list[i] \in Items
      /\ first \in 1..(n + 1)
      /\ \A i \in 1..n : i < first => ~Throws(list[i])
      /\ first <= n => Throws(list[first])
  BY FirstThrowFacts
<1>. DEFINE Good(i) ==
              /\ acc[i] \in [row : Rows, thrown : BOOLEAN]
              /\ acc[i].row.time = row.time /\ acc[i].row.toolID = row.toolID
              /\ acc[i].thrown <=> first <= i
              /\ \A k \in 1..NumItems : acc[i].row.datas[k] = LastUpTo(list, k, Handled(i))
            T == {i \in Nat : i <= n => Good(i)}
<1>. HIDE DEF n, first
<1>3. Good(0)
  <2>1. Handled(0) = 0
    BY <1>2
  <2>2. \A k \in 1..NumItems : LastUpTo(list, k, 0) = 0
    BY LastUpToNext
  <2>. HIDE DEF Handled
  <2>. QED
    BY <1>1, <1>2, <2>1, <2>2 DEF Begun
<1>4. ASSUME NEW i \in Nat, i + 1 <= n, Good(i)
      PROVE  Good(i + 1)
  <2>1. i + 1 \in 1..n /\ acc[i + 1] = Stored(acc[i], list[i + 1])
    <3>1. i + 1 \in 1..n /\ i + 1 - 1 = i
      BY <1>2, <1>4
    <3>. QED
      BY <3>1, <1>1
  <2>2. acc[i].thrown \/ Throws(list[i + 1]) <=> first <= i + 1
    <3>1. CASE first <= i
      BY <3>1, <1>2, <1>4
    <3>2. CASE first = i + 1
      BY <3>2, <1>2, <1>4
    <3>3. CASE first > i + 1
      BY <3>3, <1>2, <1>4, <2>1
    <3>. QED
      BY <3>1, <3>2, <3>3, <1>2
  <2>3. CASE first <= i + 1
    <3>1. acc[i + 1] = [acc[i] EXCEPT !.thrown = TRUE]
      BY <2>1, <2>2, <2>3 DEF Stored
    <3>2. Handled(i + 1) = Handled(i)
      BY <2>3, <1>2
    <3>. HIDE DEF Handled
    <3>. QED
      BY <3>1, <3>2, <2>3, <1>4
  <2>4. CASE first > i + 1
    <3>. DEFINE item == list[i + 1]
    <3>1. acc[i + 1] = [acc[i] EXCEPT !.row.datas[item.idx] = item.value]
      BY <2>1, <2>2, <2>4, <1>2 DEF Stored
    <3>2. item \in Items /\ item.idx \in 1..NumItems /\ item.value \in Values
      BY <2>1, <2>4, <1>2 DEF Throws, Items
    <3>3. Handled(i) = i /\ Handled(i + 1) = i + 1
      BY <2>4, <1>2
    <3>. HIDE DEF Handled
    <3>4. /\ acc[i + 1] \in [row : Rows, thrown : BOOLEAN]
          /\ acc[i + 1].row.time = acc[i].row.time
          /\ acc[i + 1].row.toolID = acc[i].row.toolID
          /\ acc[i + 1].thrown = acc[i].thrown
          /\ \A k \in 1..NumItems :
               acc[i + 1].row.datas[k] = IF k = item.idx THEN item.value ELSE acc[i].row.datas[k]
      <4>. DEFINE a == acc[i]
                  r == a.row
                  d == [r.datas EXCEPT ![item.idx] = item.value]
      <4>1. a \in [row : Rows, thrown : BOOLEAN] /\ r \in Rows
        BY <1>4
      <4>2. /\ d \in [1..NumItems -> Values \cup {0}]
            /\ \A k \in 1..NumItems : d[k] = IF k = item.idx THEN item.value ELSE r.datas[k]
        BY <3>2, <4>1 DEF Rows
      <4>3. acc[i + 1] = [a EXCEPT !.row = [r EXCEPT !.datas = d]]
        BY <3>1
      <4>. HIDE DEF a, d, item
      <4>4. /\ [r EXCEPT !.datas = d] \in Rows /\ [r EXCEPT !.datas = d].datas = d
            /\ [r EXCEPT !.datas = d].time = r.time /\ [r EXCEPT !.datas = d].toolID = r.toolID
        BY <4>1, <4>2 DEF Rows
      <4>. HIDE DEF r
      <4>5. /\ acc[i + 1] \in [row : Rows, thrown : BOOLEAN]
            /\ acc[i + 1].row = [r EXCEPT !.datas = d] /\ acc[i + 1].thrown = a.thrown
        BY <4>1, <4>3, <4>4
      <4>. QED
        BY <4>2, <4>4, <4>5 DEF a, r
    <3>5. ASSUME NEW k \in 1..NumItems
          PROVE  LastUpTo(list, k, i + 1) =
                   IF item.idx = k THEN item.value ELSE LastUpTo(list, k, i)
      BY LastUpToNext
    <3>6. ~(first <= i) /\ ~(first <= i + 1)
      BY <2>4, <1>2
    <3>. HIDE DEF item
    <3>. QED
      BY <3>3, <3>4, <3>5, <3>6, <1>4
  <2>. QED
    BY <2>3, <2>4, <1>2
<1>. HIDE DEF Good, Handled
<1>5. Nat \subseteq T
  <2>1. 0 \in T
    BY <1>3
  <2>2. ASSUME NEW i \in Nat, i \in T
        PROVE  i + 1 \in T
    BY <2>2, <1>2, <1>4
  <2>. HIDE DEF T
  <2>. QED
    BY <2>1, <2>2, SetInduction
<1>6. Good(n)
  BY <1>2, <1>5
<1>7. Handled(n) = first - 1
  BY <1>2 DEF Handled
<1>8. \A k \in 1..NumItems : LastValue(list, k) = LastUpTo(list, k, first - 1)
  BY DEF LastValue, LastUpTo, first
<1>. QED
  BY <1>1, <1>6, <1>7, <1>8 DEF Good

\* The row of a message: what becomes of its time and of its items.
LEMMA RowFacts ==
  ASSUME NEW m \in Messages
  PROVE  LET r == convertToSescData(m)
         IN /\ r \in Rows
            /\ r.time = IF m.time = Null THEN Null ELSE ParsedHour(m.time)
            /\ m.time # Null =>
                 \A k \in 1..NumItems :
                   r.datas[k] = IF m.hasTool THEN LastValue(m.list, k) ELSE 0
<1>. DEFINE timed == [NewSescData EXCEPT !.time = ParsedHour(m.time)]
            named == [timed EXCEPT !.toolID = TRUE]
<1>1. /\ m.time \in Hours \cup {Null} /\ m.hasTool \in BOOLEAN /\ m.list \in Lists
      /\ Hours \subseteq 0..23
  BY RecordAssumption DEF Messages, RecordAssumption
<1>2. NewSescData \in Rows /\ NewSescData.time = Null
  BY DEF NewSescData, Rows
<1>3. CASE m.time = Null
  BY <1>2, <1>3 DEF convertToSescData
<1>4. CASE m.time # Null
  <2>1. ParsedHour(m.time) \in 0..23
    <3>1. m.time \in 0..23
      BY <1>1, <1>4
    <3>. QED
      BY <3>1 DEF ParsedHour
  <2>2. /\ timed \in Rows /\ timed.time = ParsedHour(m.time)
        /\ \A k \in 1..NumItems : timed.datas[k] = 0
    BY <2>1 DEF NewSescData, Rows
  <2>3. /\ named \in Rows /\ named.time = ParsedHour(m.time)
        /\ \A k \in 1..NumItems : named.datas[k] = 0
    BY <2>1 DEF NewSescData, Rows
  <2>. HIDE DEF timed, named
  <2>4. /\ StoreItems(named, m.list) \in Rows
        /\ StoreItems(named, m.list).time = named.time
        /\ \A k \in 1..NumItems : StoreItems(named, m.list).datas[k] = LastValue(m.list, k)
    BY <2>3, <1>1, ItemsStored
  <2>5. convertToSescData(m) = IF ~m.hasTool THEN timed ELSE StoreItems(named, m.list)
    BY <1>4 DEF convertToSescData, timed, named
  <2>. QED
    BY <2>2, <2>3, <2>4, <2>5, <1>4
<1>. QED
  BY <1>3, <1>4

-----------------------------------------------------------------------------
(* The rows of a flush.                                                    *)

\* Each row is the conversion of the message at its position.
Converted ==
  /\ taken \in Seq(Messages)
  /\ sescList \in Seq({convertToSescData(m) : m \in Messages})
  /\ Len(sescList) <= Len(taken)
  /\ \A i \in 1..Len(sescList) : sescList[i] = convertToSescData(taken[i])

\* A batch that is bound is complete, and each of its rows has a time.
Bound ==
  Len(sescList) = Len(taken) /\ \A i \in 1..Len(sescList) : sescList[i].time # Null

BatchInv ==
  /\ Converted
  /\ phase = "execute" => Bound
  /\ table # {} => phase = "done" /\ Bound

\* A message without a time gives a row without one.
LEMMA NoTimeNoRow ==
  ASSUME NEW m \in Messages, m.time = Null
  PROVE  convertToSescData(m).time = Null
  BY DEF convertToSescData, NewSescData

\* A flush starts without rows.
LEMMA BatchInit == Init => BatchInv
<1>. SUFFICES ASSUME Init
              PROVE  BatchInv
  OBVIOUS
<1>. DEFINE Row == {convertToSescData(m) : m \in Messages}
<1>1. PICK n \in 1..MaxBatch : taken \in [1..n -> Messages]
  BY DEF Init
<1>2. taken \in Seq(Messages) /\ Len(taken) = n
  BY <1>1, RecordAssumption DEF RecordAssumption
<1>. HIDE DEF Row
<1>3. <<>> \in Seq(Row) /\ Len(<<>>) = 0
  BY EmptySeq
<1>. QED
  BY <1>2, <1>3 DEF Init, BatchInv, Converted, Bound, Row

\* Every step of the flush keeps the rows in their positions.
LEMMA BatchNext == BatchInv /\ [Next]_vars => BatchInv'
<1>. SUFFICES ASSUME BatchInv, [Next]_vars
              PROVE  BatchInv'
  OBVIOUS
<1>. DEFINE Row == {convertToSescData(m) : m \in Messages}
            k == Len(sescList) + 1
<1>1. CASE Convert
  <2>1. /\ taken \in Seq(Messages) /\ sescList \in Seq(Row)
        /\ k \in 1..Len(taken) /\ taken[k] \in Messages
    BY <1>1, ElementOfSeq, LenProperties DEF BatchInv, Converted, Convert
  <2>2. convertToSescData(taken[k]) \in Row
    BY <2>1
  <2>3. sescList' = Append(sescList, convertToSescData(taken[k])) /\ taken' = taken
    BY <1>1 DEF Convert
  <2>. HIDE DEF Row
  <2>4. /\ sescList' \in Seq(Row) /\ Len(sescList') = k /\ k \in Nat
        /\ \A i \in 1..Len(sescList) : sescList'[i] = sescList[i]
        /\ sescList'[k] = convertToSescData(taken[k])
    BY <2>1, <2>2, <2>3, AppendProperties, LenProperties
  <2>5. \A i \in 1..Len(sescList') : sescList'[i] = convertToSescData(taken[i])
    <3>. SUFFICES ASSUME NEW i \in 1..Len(sescList')
                  PROVE  sescList'[i] = convertToSescData(taken[i])
      OBVIOUS
    <3>1. CASE i = k
      BY <2>4, <3>1
    <3>2. CASE i # k
      <4>1. i \in 1..Len(sescList)
        BY <2>1, <2>4, <3>2, LenProperties
      <4>. QED
        BY <2>4, <4>1 DEF BatchInv, Converted
    <3>. QED
      BY <3>1, <3>2
  <2>6. Converted'
    BY <2>1, <2>3, <2>4, <2>5, LenProperties DEF Converted, Row
  <2>7. phase' = "convert" /\ table' = {}
    BY <1>1 DEF Convert, BatchInv
  <2>. QED
    BY <2>6, <2>7 DEF BatchInv
<1>2. CASE BindRows
  <2>1. table = {} /\ table' = {} /\ Converted'
    BY <1>2 DEF BindRows, BatchInv, Converted
  <2>2. phase' = "execute" => Bound'
    BY <1>2 DEF BindRows, Bound
  <2>. QED
    BY <2>1, <2>2 DEF BatchInv
<1>3. CASE ExecuteBatch
  BY <1>3 DEF ExecuteBatch, BatchInv, Converted, Bound
<1>4. CASE UNCHANGED vars
  BY <1>4 DEF vars, BatchInv, Converted, Bound
<1>. QED
  BY <1>1, <1>2, <1>3, <1>4 DEF Next

\* One message without a timestamp throws while the rows are bound, and then none of the
\* flush is inserted.
THEOREM BatchRejected == Spec => []BatchFate
<1>1. BatchInv => BatchFate
  <2>. SUFFICES ASSUME BatchInv, table # {}
                PROVE  /\ Len(sescList) = Len(taken)
                       /\ \A i \in DOMAIN taken : taken[i].time # Null
    BY DEF BatchFate
  <2>1. Bound /\ Converted
    BY DEF BatchInv
  <2>2. ASSUME NEW i \in DOMAIN taken, taken[i].time = Null
        PROVE  FALSE
    <3>1. taken[i] \in Messages /\ i \in 1..Len(sescList)
      BY <2>1, <2>2, ElementOfSeq, LenProperties DEF Bound, Converted
    <3>2. sescList[i].time = Null
      BY <2>1, <2>2, <3>1, NoTimeNoRow DEF Converted
    <3>. QED
      BY <2>1, <3>1, <3>2 DEF Bound
  <2>. QED
    BY <2>1, <2>2 DEF Bound
<1>. QED
  BY <1>1, BatchInit, BatchNext, PTL DEF Spec

\* All rows are well-typed, and only rows are executed.
RowsInv == BatchInv /\ TypeOK /\ table \subseteq DOMAIN sescList

\* The rows of a batch are well-typed.
LEMMA RowsTyped == Converted => sescList \in Seq(Rows)
<1>1. {convertToSescData(m) : m \in Messages} \subseteq Rows
  BY RowFacts
<1>. QED
  BY <1>1, SeqMonotonic DEF Converted

\* Every step of the flush keeps the rows well-typed.
LEMMA RowsNext == RowsInv /\ [Next]_vars => RowsInv'
<1>. SUFFICES ASSUME RowsInv, [Next]_vars
              PROVE  RowsInv'
  OBVIOUS
<1>1. BatchInv'
  BY BatchNext DEF RowsInv
<1>2. /\ (taken \in Seq(Messages))' /\ (sescList \in Seq(Rows))'
      /\ (DOMAIN sescList = 1..Len(sescList))' /\ (DOMAIN taken = 1..Len(taken))'
      /\ Len(sescList)' \in Nat /\ Len(taken)' \in Nat /\ Len(sescList)' <= Len(taken)'
  <2>1. Converted'
    BY <1>1 DEF BatchInv
  <2>2. (sescList \in Seq(Rows))'
    BY <2>1, RowsTyped, PTL
  <2>. QED
    BY <2>1, <2>2, LenProperties DEF Converted
<1>3. phase' \in {"convert", "execute", "done"}
  BY DEF RowsInv, TypeOK, Next, Convert, BindRows, ExecuteBatch, vars
<1>4. (table \subseteq DOMAIN sescList)'
  <2>1. CASE Convert
    BY <2>1 DEF Convert, RowsInv, BatchInv
  <2>2. CASE BindRows
    BY <2>2 DEF BindRows, RowsInv
  <2>3. CASE ExecuteBatch
    BY <2>3 DEF ExecuteBatch
  <2>4. CASE UNCHANGED vars
    BY <2>4 DEF vars, RowsInv
  <2>. QED
    BY <2>1, <2>2, <2>3, <2>4 DEF Next
<1>. QED
  BY <1>1, <1>2, <1>3, <1>4 DEF RowsInv, TypeOK

\* Every state of a flush has such rows.
LEMMA RowsCorrect == Spec => []RowsInv
<1>1. Init => RowsInv
  <2>. SUFFICES ASSUME Init PROVE RowsInv
    OBVIOUS
  <2>1. BatchInv
    BY BatchInit
  <2>2. sescList \in Seq(Rows) /\ taken \in Seq(Messages)
    BY <2>1, RowsTyped DEF BatchInv, Converted
  <2>. QED
    BY <2>1, <2>2 DEF RowsInv, TypeOK, Init
<1>. QED
  BY <1>1, RowsNext, PTL DEF Spec

\* Every state of a flush is well-typed: the values of the items stay in the ten positions
\* of datas, whatever numbers the messages name.
THEOREM TypeSafe == Spec => []TypeOK
<1>1. RowsInv => TypeOK
  BY DEF RowsInv
<1>. QED
  BY <1>1, RowsCorrect, PTL

\* What is known of a row that was inserted.
LEMMA RowInserted ==
  ASSUME RowsInv, NEW i \in table
  PROVE  /\ taken[i] \in Messages /\ taken[i].time # Null
         /\ sescList[i] = convertToSescData(taken[i])
<1>1. Converted /\ Bound /\ i \in 1..Len(sescList) /\ Len(sescList) = Len(taken)
  BY LenProperties DEF RowsInv, BatchInv, TypeOK, Bound
<1>2. taken[i] \in Messages /\ sescList[i] = convertToSescData(taken[i])
  BY <1>1, ElementOfSeq DEF Converted
<1>3. sescList[i].time # Null
  BY <1>1 DEF Bound
<1>. QED
  BY <1>2, <1>3, NoTimeNoRow

\* Each row that batchInsert adds has, at the positions the items of its own message name,
\* the last value each has before the first item that throws, and zero elsewhere.
THEOREM RowsAreRight == Spec => []RowsRight
<1>1. RowsInv => RowsRight
  BY RowInserted, RowFacts DEF RowsRight
<1>. QED
  BY <1>1, RowsCorrect, PTL

\* Two messages of different hours get rows of different hours, but for noon and midnight:
\* that is all the pattern "hh" of the timestamp format costs.
THEOREM HoursApart == Spec => []HoursKeptApart
<1>1. RowsInv => HoursKeptApart
  <2>. SUFFICES ASSUME RowsInv, NEW i \in table, NEW j \in table,
                       taken[i].time # taken[j].time,
                       {taken[i].time, taken[j].time} # {0, 12}
                PROVE  sescList[i].time # sescList[j].time
    BY DEF HoursKeptApart
  <2>1. /\ sescList[i].time = ParsedHour(taken[i].time)
        /\ sescList[j].time = ParsedHour(taken[j].time)
    BY RowInserted, RowFacts
  <2>2. /\ ~(taken[i].time = 0 /\ taken[j].time = 12)
        /\ ~(taken[i].time = 12 /\ taken[j].time = 0)
    OBVIOUS
  <2>. QED
    BY <2>1, <2>2 DEF ParsedHour
<1>. QED
  BY <1>1, RowsCorrect, PTL
=============================================================================
