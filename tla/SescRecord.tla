----------------------------- MODULE SescRecord -----------------------------
(***************************************************************************)
(* What a flush makes of the messages it took: convertToSescData turns     *)
(* each into a SescData, catching whatever throws and returning what is    *)
(* filled by then; batchInsert binds one row for each and executes them    *)
(* together.  Module CollectionServer has this as one step, ColInsert,     *)
(* over messages without contents; this module has the contents.           *)
(***************************************************************************)
EXTENDS Naturals, Sequences, FiniteSets, SequencesExt, FiniteSetsExt

CONSTANTS
  NumItems,    \* the length of SescData.datas, 10 in the code
  Hours,       \* the hours that messages carry: a subset of 0..23
  Values,      \* the values of their items
  MaxList,     \* bound: items in a message
  MaxBatch     \* bound: messages in a flush

ASSUME RecordAssumption ==
  /\ NumItems \in Nat \ {0} /\ Hours \subseteq 0..23 /\ Values \subseteq Nat \ {0}
  /\ MaxList \in Nat /\ MaxBatch \in Nat

\* A field of SescData that was never assigned.
Null == 99

\* An item is the number in its name and its value.  One that cannot be converted, its
\* name too short or not a number, its value no double, has the number 0; the numbers 0
\* and NumItems + 1 are outside of datas.
Items == [idx : 0..(NumItems + 1), value : Values]

\* A message that is not XML, or whose timestamp is missing or cannot be parsed, has the
\* time Null; hasTool is false if there is no TOOL_ID.
Lists    == UNION {[1..n -> Items] : n \in 0..MaxList}
Messages == [time : Hours \cup {Null}, hasTool : BOOLEAN, list : Lists]

VARIABLES
  taken,       \* the messages that the flush took from the queue, oldest first
  sescList,    \* the rows converted so far
  phase,       \* "convert", "execute", "done"
  table        \* the rows of taken, by position, that the database has

vars == <<taken, sescList, phase, table>>

Rows == [time : (0..23) \cup {Null}, toolID : BOOLEAN, datas : [1..NumItems -> Values \cup {0}]]

TypeOK ==
  /\ taken \in Seq(Messages)
  /\ sescList \in Seq(Rows)
  /\ phase \in {"convert", "execute", "done"}
  /\ table \subseteq DOMAIN taken

-----------------------------------------------------------------------------
(* convertToSescData.                                                      *)

\* Mutant: what is widely believed of "hh".
M_ParsedHourMod(h) == h % 12

\* The pattern "hh" reads the hours of a 12-hour clock, 1 to 12.  Parsing is lenient and
\* takes any number as it is, but for 12, which is the hour 0.
ParsedHour(h) == IF h = 12 THEN 0 ELSE h

\* Mutant: the array has one element too many.
M_NewSescDataLong ==
  [time |-> Null, toolID |-> FALSE, datas |-> [k \in 1..(NumItems + 1) |-> 0]]

NewSescData == [time |-> Null, toolID |-> FALSE, datas |-> [k \in 1..NumItems |-> 0]]

\* Parsing or storing an item throws.
Throws(item) == item.idx \notin 1..NumItems

\* Mutant: an item that throws is skipped.
M_StoreItemsSkip(row, list) ==
  FoldLeft(LAMBDA r, item : IF Throws(item) THEN r ELSE [r EXCEPT !.datas[item.idx] = item.value],
           row, list)

\* The loop over the items, which the first item that throws ends.
StoreItems(row, list) ==
  LET Step(acc, item) ==
        IF acc.thrown \/ Throws(item)
        THEN [acc EXCEPT !.thrown = TRUE]
        ELSE [acc EXCEPT !.row.datas[item.idx] = item.value]
  IN FoldLeft(Step, [row |-> row, thrown |-> FALSE], list).row

convertToSescData(msg) ==
  LET timed == [NewSescData EXCEPT !.time = ParsedHour(msg.time)]
      named == [timed EXCEPT !.toolID = TRUE]
  IN IF msg.time = Null THEN NewSescData
     ELSE IF ~msg.hasTool THEN timed
     ELSE StoreItems(named, msg.list)

-----------------------------------------------------------------------------
(* insertDataToDb, from the taken messages on, and batchInsert.            *)

Init ==
  /\ taken \in UNION {[1..n -> Messages] : n \in 1..MaxBatch}
  /\ sescList = <<>> /\ phase = "convert" /\ table = {}

Convert ==
  /\ phase = "convert" /\ Len(sescList) < Len(taken)
  /\ sescList' = Append(sescList, convertToSescData(taken[Len(sescList) + 1]))
  /\ UNCHANGED <<taken, phase, table>>

\* Mutant: the rows before the one that throws are executed.
M_BindRowsSome ==
  /\ phase = "convert" /\ Len(sescList) = Len(taken)
  /\ phase' = "execute"
  /\ sescList' = SelectSeq(sescList, LAMBDA row : row.time # Null)
  /\ UNCHANGED <<taken, table>>

\* The loop over the rows binds the parameters: format() of a time that is null throws,
\* and nothing is executed.
BindRows ==
  /\ phase = "convert" /\ Len(sescList) = Len(taken)
  /\ phase' = IF \E i \in DOMAIN sescList : sescList[i].time = Null THEN "done" ELSE "execute"
  /\ UNCHANGED <<taken, sescList, table>>

\* executeBatch: each row is a statement of its own, and the connection is in
\* auto-commit mode; the database takes all of them, or some, or none.
ExecuteBatch ==
  /\ phase = "execute" /\ phase' = "done"
  /\ \E rows \in SUBSET DOMAIN sescList : table' = rows
  /\ UNCHANGED <<taken, sescList>>

Next == Convert \/ BindRows \/ ExecuteBatch

Spec == Init /\ [][Next]_vars

-----------------------------------------------------------------------------
(* Properties.                                                             *)

\* What the datas of a row should be: for each number, the value of the last item that
\* has it, of those before the first that throws.
FirstThrow(list) ==
  Min({i \in DOMAIN list : Throws(list[i])} \cup {Len(list) + 1})
LastValue(list, k) ==
  LET named == {i \in 1..(FirstThrow(list) - 1) : list[i].idx = k}
  IN IF named = {} THEN 0 ELSE list[Max(named)].value

\* Each row that is inserted has the values of its own message, and of no other one of
\* the flush, at the positions their names say.
RowsRight ==
  \A i \in table : \A k \in 1..NumItems :
    sescList[i].datas[k] = IF taken[i].hasTool THEN LastValue(taken[i].list, k) ELSE 0

\* The rows that a flush adds are among those that CollectionServer's InsertOutcomes
\* allows: one message without a timestamp keeps all the others out.
BatchFate ==
  table # {} => /\ Len(sescList) = Len(taken)
                /\ \A i \in DOMAIN taken : taken[i].time # Null

\* "hh" does not fold the afternoon into the morning: two messages of different hours get
\* rows of different hours, but for noon and midnight.
HoursKeptApart ==
  \A i, j \in table :
    taken[i].time # taken[j].time /\ {taken[i].time, taken[j].time} # {0, 12}
      => sescList[i].time # sescList[j].time

=============================================================================
