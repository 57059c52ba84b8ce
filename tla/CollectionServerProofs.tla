----------------------- MODULE CollectionServerProofs -----------------------
(***************************************************************************)
(* Theorems about one collection server, for any number of agents, any     *)
(* messages and any batch size.                                            *)
(***************************************************************************)
EXTENDS CollectionServer, SequenceTheorems, FiniteSetTheorems, TLAPS

\* The theorems are proved of the open specification, the process alone, whose table
\* others may change, and follow for Spec, which is OpenSpec with the table told.

\* What the program counters say of the data in hand: a thread that is about to
\* put a message has one, and only agents that were started run.
InHand ==
  /\ colPc \in {"put", "append", "sync"} => data # <<>>
  /\ \A a \in Agents : agPc[a] \in {"put", "append"} => trans[a] # <<>>
  /\ \A a \in Agents : a > syncAgent => agPc[a] = "off"

TypeInv == NodeTypeOK /\ InHand

\* The chunks of the environment are sequences of messages, and not empty.
LEMMA ChunkSeq ==
  ASSUME NEW c \in Chunks
  PROVE  c \in Seq(Msg) /\ c # <<>> /\ Len(c) \in Nat
<1>1. PICK n \in 1..MaxChunk : c \in [1..n -> Msg]
  BY DEF Chunks
<1>2. n \in Nat /\ n > 0
  BY <1>1, ServerAssumption
<1>3. c \in Seq(Msg)
  BY <1>1, <1>2, SeqDef
<1>4. Len(c) = n
  BY <1>1, <1>2, <1>3, LenProperties
<1>. QED
  BY <1>2, <1>3, <1>4, EmptySeq

\* A sequence whose tail is empty has one element.
LEMMA TailEmpty ==
  ASSUME NEW s \in Seq(Msg), s # <<>>, Tail(s) = <<>>
  PROVE  Len(s) = 1
<1>1. Len(Tail(s)) = Len(s) - 1 /\ Len(s) \in Nat
  BY HeadTailProperties, LenProperties
<1>2. Len(<<>>) = 0
  BY EmptySeq
<1>3. Len(Tail(s)) = 0
  BY <1>2, Zenon
<1>. QED
  BY <1>1, <1>3

\* What travels between agents are transactions.
LEMMA TransactionType ==
  /\ GetAll \in Transactions
  /\ ClearAll \in Transactions
  /\ \A ms \in Seq(Msg) : Data(ms) \in Transactions
  /\ PeerTransactions \subseteq Transactions
<1>1. GetAll \in Transactions /\ ClearAll \in Transactions
  BY EmptySeq DEF GetAll, ClearAll, Transactions
<1>2. \A ms \in Seq(Msg) : Data(ms) \in Transactions
  BY DEF Data, Transactions
<1>3. PeerTransactions \subseteq Transactions
  <2>1. \A c \in Chunks \cup {<<>>} : Data(c) \in Transactions
    BY <1>2, ChunkSeq, EmptySeq
  <2>. QED
    BY <1>1, <2>1 DEF PeerTransactions
<1>. QED
  BY <1>1, <1>2, <1>3

\* The list of a transaction is a sequence of messages.
LEMMA TransactionList ==
  ASSUME NEW t \in Transactions
  PROVE  t.list \in Seq(Msg)
  BY DEF Transactions

\* Sending and closing keep the types of the connections.
LEMMA SendMsgType ==
  ASSUME NodeTypeOK, NEW a \in Agents, NEW t \in Transactions, SendMsg(a, t)
  PROVE  outbox' \in [Agents -> Seq(Transactions)]
<1>1. Append(outbox[a], t) \in Seq(Transactions)
  BY AppendProperties DEF NodeTypeOK, AgentTypeOK
<1>. QED
  BY <1>1 DEF SendMsg, NodeTypeOK, AgentTypeOK

\* close(), whatever it leaves to dispatch, keeps the types of the connections.
LEMMA CloseLinkType ==
  ASSUME NodeTypeOK, NEW a \in Agents, NEW n \in 0..Len(inbox[a]), CloseLink(a, n)
  PROVE  /\ link' \in [Agents -> {"none", "waiting", "up", "cut"}]
         /\ inbox' \in [Agents -> Seq(Transactions)]
         /\ outbox' \in [Agents -> Seq(Transactions)]
<1>1. SubSeq(inbox[a], 1, n) \in Seq(Transactions)
  BY SubSeqProperties DEF NodeTypeOK, AgentTypeOK
<1>2. <<>> \in Seq(Transactions)
  BY EmptySeq
<1>. QED
  BY <1>1, <1>2 DEF CloseLink, NodeTypeOK, AgentTypeOK

\* The catch clause of run() keeps the types of an agent's state.
LEMMA CatchType ==
  ASSUME TypeInv, NEW a \in Agents, agPc[a] # "off", CatchException(a)
  PROVE  /\ agPc' \in [Agents -> AgentPcs]
         /\ trans' \in [Agents -> Seq(Msg)]
         /\ connected' \in [Agents -> BOOLEAN]
         /\ link' \in [Agents -> {"none", "waiting", "up", "cut"}]
         /\ inbox' \in [Agents -> Seq(Transactions)]
         /\ outbox' \in [Agents -> Seq(Transactions)]
         /\ \A b \in Agents : agPc'[b] \in {"put", "append"} => trans'[b] # <<>>
         /\ \A b \in Agents : b > syncAgent => agPc'[b] = "off"
<1>1. 0 \in 0..Len(inbox[a])
  BY LenProperties DEF TypeInv, NodeTypeOK, AgentTypeOK
<1>2. /\ link' \in [Agents -> {"none", "waiting", "up", "cut"}]
      /\ inbox' \in [Agents -> Seq(Transactions)]
      /\ outbox' \in [Agents -> Seq(Transactions)]
  BY <1>1, CloseLinkType DEF CatchException, TypeInv
<1>3. <<>> \in Seq(Msg)
  BY EmptySeq
<1>4. agPc' \in [Agents -> AgentPcs]
  BY DEF CatchException, TypeInv, NodeTypeOK, AgentTypeOK, AgentPcs
<1>5. trans' \in [Agents -> Seq(Msg)] /\ connected' \in [Agents -> BOOLEAN]
  BY <1>3 DEF CatchException, TypeInv, NodeTypeOK, AgentTypeOK
<1>6. \A b \in Agents : agPc'[b] \in {"put", "append"} => trans'[b] # <<>>
  BY DEF CatchException, TypeInv, InHand, NodeTypeOK, AgentTypeOK
<1>7. \A b \in Agents : b > syncAgent => agPc'[b] = "off"
  BY DEF CatchException, TypeInv, InHand, NodeTypeOK, AgentTypeOK
<1>. QED
  BY <1>2, <1>4, <1>5, <1>6, <1>7


-----------------------------------------------------------------------------
(* The type invariant: one lemma for each thread.                          *)

\* Every step of the collector's thread preserves the type invariant.
LEMMA CollectorType ==
  ASSUME TypeInv, Collector
  PROVE  TypeInv'
<1>. USE DEF TypeInv, InHand, NodeTypeOK, QueueTypeOK, AgentTypeOK, ColPcs, ColGoto,
             queueVars, agentVars, netVars
<1>0. <<>> \in Seq(Msg)
  BY EmptySeq
<1>1. CASE ColWait
  BY <1>1 DEF ColWait
<1>2. CASE ColPut
  <2>1. Append(msgQue, Head(data)) \in Seq(Msg)
    BY <1>2, HeadTailProperties, AppendProperties DEF ColPut
  <2>. QED
    BY <1>2, <2>1 DEF ColPut, Put
<1>3. CASE ColSync
  <2>1. CASE SendMsg(syncAgent, Data(<<Head(data)>>)) /\ data' = Tail(data)
    <3>1. Head(data) \in Msg /\ Tail(data) \in Seq(Msg) /\ Len(data) \in Nat
          /\ Len(Tail(data)) = Len(data) - 1
      BY <1>3, HeadTailProperties, LenProperties DEF ColSync
    <3>2. <<Head(data)>> \in Seq(Msg)
      BY <3>1
    <3>3. outbox' \in [Agents -> Seq(Transactions)]
      BY <2>1, <3>2, TransactionType, SendMsgType
    <3>4. colPc' = "put" => data' # <<>>
      <4>1. data # <<>> /\ (Tail(data) = <<>> => Len(data) = 1)
        BY <1>3, TailEmpty DEF ColSync
      <4>2. colPc' = "put" => Len(data) # 1
        BY <1>3 DEF ColSync, Disconnect
      <4>. QED
        BY <2>1, <4>1, <4>2
    <3>. QED
      BY <1>3, <2>1, <3>1, <3>3, <3>4 DEF ColSync, Disconnect
  <2>2. CASE Disconnect /\ UNCHANGED outbox
    BY <1>0, <1>3, <2>2 DEF ColSync, Disconnect
  <2>. QED
    BY <1>3, <2>1, <2>2 DEF ColSync
<1>4. CASE ColThreshold
  BY <1>0, <1>4 DEF ColThreshold
<1>5. CASE ColSize
  BY <1>5 DEF ColSize
<1>6. CASE ColTakeWait
  BY <1>6 DEF ColTakeWait
<1>7. CASE ColTake
  <2>1. Tail(msgQue) \in Seq(Msg) /\ Append(sescList, Head(msgQue)) \in Seq(Msg)
    BY <1>7, HeadTailProperties, AppendProperties DEF ColTake, CanTake
  <2>. QED
    BY <1>7, <2>1 DEF ColTake, Take
<1>8. CASE ColInsert
  BY <1>0, <1>8 DEF ColInsert
<1>9. CASE ColSendClear
  <2>1. CASE SendMsg(syncAgent, ClearAll) /\ UNCHANGED data
    <3>1. outbox' \in [Agents -> Seq(Transactions)]
      BY <2>1, TransactionType, SendMsgType
    <3>. QED
      BY <1>9, <2>1, <3>1 DEF ColSendClear, Disconnect
  <2>2. CASE Disconnect /\ UNCHANGED outbox
    BY <1>0, <1>9, <2>2 DEF ColSendClear, Disconnect
  <2>. QED
    BY <1>9, <2>1, <2>2 DEF ColSendClear
<1>. QED
  BY <1>1, <1>2, <1>3, <1>4, <1>5, <1>6, <1>7, <1>8, <1>9 DEF Collector

\* The table keeps its type: an insert counts the rows of the batch that went in.
LEMMA InsertTable ==
  ASSUME TypeInv, table \in [Msg -> Nat], ColInsert
  PROVE  table' \in [Msg -> Nat]
<1>1. PICK rows \in InsertOutcomes : AddRows(rows)
  BY DEF ColInsert
<1>2. \A m \in Msg : Cardinality({i \in rows : sescList[i] = m}) \in Nat
  <2>1. IsFiniteSet(DOMAIN sescList)
    BY LenProperties, FS_Interval DEF TypeInv, NodeTypeOK
  <2>2. rows \subseteq DOMAIN sescList
    BY <1>1 DEF InsertOutcomes
  <2>3. \A m \in Msg : IsFiniteSet({i \in rows : sescList[i] = m})
    BY <2>1, <2>2, FS_Subset
  <2>. QED
    BY <2>3, FS_CardinalityType
<1>3. table' \in [Msg -> Nat]
  <2>. DEFINE Count(m) == table[m] + Cardinality({i \in rows : sescList[i] = m})
  <2>1. \A m \in Msg : (IF Count(m) < MaxRows THEN Count(m) ELSE MaxRows) \in Nat
    <3>1. ASSUME NEW m \in Msg
          PROVE  Count(m) \in Nat
      <4>. DEFINE added == Cardinality({i \in rows : sescList[i] = m})
      <4>1. added \in Nat
        BY <1>2
      <4>. HIDE DEF added
      <4>2. table[m] + added \in Nat
        BY <4>1
      <4>. QED
        BY <4>2, Zenon DEF added
    <3>. HIDE DEF Count
    <3>. QED
      BY <3>1, ServerAssumption
  <2>2. table' = [m \in Msg |-> IF Count(m) < MaxRows THEN Count(m) ELSE MaxRows]
    BY <1>1, Zenon DEF AddRows
  <2>. HIDE DEF Count
  <2>. QED
    BY <2>1, <2>2
<1>. QED
  BY <1>3

\* Every step of an agent's thread preserves the type invariant.
LEMMA AgentThreadType ==
  ASSUME TypeInv, NEW a \in Agents, AgentThread(a), UNCHANGED colVars
  PROVE  TypeInv'
<1>. USE DEF TypeInv, InHand, NodeTypeOK, QueueTypeOK, AgentTypeOK, AgentPcs, Goto,
             queueVars, netVars, colVars
<1>0. <<>> \in Seq(Msg) /\ syncAgent \in Agents
  BY EmptySeq
<1>1. CASE RaiseFlags(a)
  BY <1>1 DEF RaiseFlags
<1>2. CASE RequestAll(a)
  <2>1. CASE SendMsg(syncAgent, GetAll) /\ agPc[a] = "init" /\ Goto(a, "read")
    <3>1. outbox' \in [Agents -> Seq(Transactions)]
      BY <2>1, <1>0, TransactionType, SendMsgType
    <3>2. UNCHANGED <<trans, connected, link, inbox>> \/ CatchException(a)
      BY <1>2 DEF RequestAll
    <3>3. CASE CatchException(a)
      BY <1>2, <2>1, <3>3, CatchType DEF RequestAll
    <3>. QED
      BY <1>2, <2>1, <3>1, <3>2, <3>3 DEF RequestAll
  <2>2. CASE UNCHANGED <<outbox, trans, connected, link, inbox>> /\ Goto(a, "read")
    BY <1>2, <2>2 DEF RequestAll
  <2>3. CASE CatchException(a)
    BY <1>2, <2>3, CatchType DEF RequestAll
  <2>. QED
    BY <1>2, <2>1, <2>2, <2>3 DEF RequestAll
<1>3. CASE ReadTransaction(a)
  <2>. DEFINE t == Head(inbox[a])
  <2>1. /\ t \in Transactions
        /\ Tail(inbox[a]) \in Seq(Transactions)
    BY <1>3, HeadTailProperties DEF ReadTransaction
  <2>2. t.list \in Seq(Msg)
    BY <2>1, TransactionList
  <2>3. CASE CatchException(a) /\ UNCHANGED <<msgQue, wiped>>
    BY <1>3, <2>3, CatchType DEF ReadTransaction
  <2>4. CASE ~(CatchException(a) /\ UNCHANGED <<msgQue, wiped>>)
    <3>. HIDE DEF t
    <3>1. \/ Goto(a, "post") /\ UNCHANGED <<msgQue, trans, wiped>>
          \/ msgQue' = <<>> /\ wiped' = TRUE /\ UNCHANGED <<agPc, trans>>
          \/ /\ trans' = [trans EXCEPT ![a] = t.list]
             /\ Goto(a, IF t.list = <<>> THEN "read" ELSE "put")
             /\ UNCHANGED <<msgQue, wiped>>
      BY <1>3, <2>4 DEF ReadTransaction, Clear, t
    <3>2. /\ inbox' = [inbox EXCEPT ![a] = Tail(@)]
          /\ UNCHANGED <<connected, link, outbox, isLock, syncAgent, init, probing>>
          /\ agPc[a] = "read"
      BY <1>3, <2>4 DEF ReadTransaction
    <3>. QED
      BY <1>0, <2>1, <2>2, <3>1, <3>2
  <2>. QED
    BY <1>3, <2>3, <2>4 DEF ReadTransaction
<1>4. CASE ReadEof(a)
  BY <1>4 DEF ReadEof
<1>5. CASE ReadThrows(a)
  BY <1>5, CatchType DEF ReadThrows
<1>6. CASE AgentWait(a)
  BY <1>6 DEF AgentWait
<1>7. CASE AgentPut(a)
  <2>1. /\ Append(msgQue, Head(trans[a])) \in Seq(Msg)
        /\ Tail(trans[a]) \in Seq(Msg)
    BY <1>7, HeadTailProperties, AppendProperties DEF AgentPut
  <2>2. Tail(trans[a]) = <<>> => Len(trans[a]) = 1
    BY <1>7, TailEmpty DEF AgentPut
  <2>. QED
    BY <1>7, <2>1, <2>2 DEF AgentPut, Put
<1>8. CASE PostAllData(a)
  BY <1>8 DEF PostAllData
<1>9. CASE LockQueue(a)
  BY <1>9 DEF LockQueue, Lock
<1>10. CASE Snapshot(a)
  BY <1>10 DEF Snapshot
<1>11. CASE PostSnapshot(a)
  <2>1. CASE CatchException(a)
    BY <1>11, <2>1, CatchType DEF PostSnapshot
  <2>2. CASE SendMsg(a, Data(trans[a])) /\ Goto(a, "unlock")
             /\ UNCHANGED <<trans, connected, link, inbox>>
    <3>1. outbox' \in [Agents -> Seq(Transactions)]
      BY <2>2, TransactionType, SendMsgType
    <3>. QED
      BY <1>11, <2>2, <3>1 DEF PostSnapshot
  <2>. QED
    BY <1>11, <2>1, <2>2 DEF PostSnapshot
<1>12. CASE UnlockQueue(a)
  BY <1>0, <1>12 DEF UnlockQueue, UnLock
<1>. QED
  BY <1>1, <1>2, <1>3, <1>4, <1>5, <1>6, <1>7, <1>8, <1>9, <1>10, <1>11, <1>12
  DEF AgentThread

\* Every step of a ping thread preserves the type invariant; a failed ping of the
\* secondary starts an agent that was off.
LEMMA PingThreadType ==
  ASSUME TypeInv, NEW a \in Agents, PingThread(a), UNCHANGED colVars
  PROVE  TypeInv'
<1>. USE DEF TypeInv, InHand, NodeTypeOK, QueueTypeOK, AgentTypeOK, AgentPcs, Goto,
             queueVars, netVars, colVars
<1>1. CASE PingProbe(a)
  BY <1>1 DEF PingProbe
<1>2. CASE PingAnswered(a)
  BY <1>2 DEF PingAnswered
<1>3. CASE PingFailsServer(a)
  BY <1>3, CloseLinkType DEF PingFailsServer, CloseUnderway
<1>4. CASE PingFailsClient(a)
  <2>1. syncAgent + 1 \in Agents
    BY <1>4, ServerAssumption DEF PingFailsClient, Agents
  <2>2. \A b \in Agents : b > syncAgent + 1 => b > syncAgent /\ b # syncAgent + 1
    BY <2>1, ServerAssumption DEF Agents
  <2>. QED
    BY <1>4, <2>1, <2>2, CloseLinkType DEF PingFailsClient, CloseUnderway
<1>. QED
  BY <1>1, <1>2, <1>3, <1>4 DEF PingThread

\* What the adapter, the peer and the network do preserves the type invariant.
LEMMA EnvironmentType ==
  ASSUME TypeInv, Adapter \/ Network
  PROVE  TypeInv'
<1>. USE DEF TypeInv, InHand, NodeTypeOK, QueueTypeOK, AgentTypeOK, AgentPcs, ColPcs, Goto,
             ColGoto, queueVars, agentVars, netVars, colVars, NetUnchanged, AdapterUnchanged
<1>1. CASE AdapterConnects
  BY <1>1 DEF AdapterConnects
<1>2. CASE AdapterCloses
  BY <1>2 DEF AdapterCloses
<1>3. CASE AdapterBreaks
  BY <1>3 DEF AdapterBreaks
<1>4. ASSUME NEW chunk \in Chunks, AdapterSends(chunk)
      PROVE  TypeInv'
  BY <1>4, ChunkSeq DEF AdapterSends
<1>5. ASSUME NEW a \in Agents, Connect(a)
      PROVE  TypeInv'
  <2>1. agPc[a] = "connect" /\ ~(a > syncAgent)
    BY <1>5 DEF Connect
  <2>. QED
    BY <1>5, <2>1 DEF Connect
<1>6. ASSUME NEW a \in Agents, Serve(a)
      PROVE  TypeInv'
  BY <1>6 DEF Serve
<1>7. ASSUME NEW a \in Agents, PeerReads(a)
      PROVE  TypeInv'
  <2>1. Tail(outbox[a]) \in Seq(Transactions)
    BY <1>7, HeadTailProperties DEF PeerReads
  <2>. QED
    BY <1>7, <2>1 DEF PeerReads
<1>8. CASE Cut
  <2>1. <<>> \in Seq(Transactions)
    BY EmptySeq
  <2>. QED
    BY <1>8, <2>1 DEF Cut
<1>9. ASSUME NEW a \in Agents, NEW t \in PeerTransactions, PeerSends(a, t)
      PROVE  TypeInv'
  <2>1. Append(inbox[a], t) \in Seq(Transactions)
    BY TransactionType, AppendProperties
  <2>. QED
    BY <1>9, <2>1 DEF PeerSends
<1>. QED
  BY <1>1, <1>2, <1>3, <1>4, <1>5, <1>6, <1>7, <1>8, <1>9 DEF Adapter, Network

\* A restarted process is well-typed.
LEMMA RestartType ==
  ASSUME TypeInv, Restart
  PROVE  TypeInv'
<1>. USE DEF TypeInv
<1>1. <<>> \in Seq(Msg) /\ <<>> \in Seq(Transactions) /\ 1 \in Agents
  BY EmptySeq, ServerAssumption DEF Agents
<1>2. QueueTypeOK' /\ AgentTypeOK'
  BY <1>1 DEF Restart, QueueTypeOK, AgentTypeOK, AgentPcs
<1>3. NodeTypeOK'
  BY <1>1, <1>2 DEF Restart, NodeTypeOK, ColPcs
<1>4. \A a \in Agents : a > 1 => a # 1
  BY ServerAssumption DEF Agents
<1>5. InHand'
  BY <1>1, <1>4 DEF Restart, InHand
<1>. QED
  BY <1>3, <1>5

\* Type correctness of a collection server: in every state its queue, batch and
\* transactions hold messages, a thread about to put one has one in hand, and no
\* agent runs that was not started.
THEOREM OpenTypeCorrect == OpenSpec => []TypeInv
<1>1. ProcessInit => TypeInv
  <2>1. <<>> \in Seq(Msg) /\ <<>> \in Seq(Transactions) /\ 1 \in Agents
    BY EmptySeq, ServerAssumption DEF Agents
  <2>2. ProcessInit => QueueTypeOK /\ AgentTypeOK
    <3>1. AgentInit => AgentTypeOK
      <4>1. AgentInit => syncAgent \in Agents /\ agPc \in [Agents -> AgentPcs]
        BY <2>1 DEF AgentInit, AgentPcs
      <4>2. AgentInit => trans \in [Agents -> Seq(Msg)] /\ wiped \in BOOLEAN
        BY <2>1 DEF AgentInit
      <4>3. AgentInit => /\ init \in [Agents -> BOOLEAN]
                         /\ connected \in [Agents -> BOOLEAN]
                         /\ probing \in [Agents -> BOOLEAN]
        BY DEF AgentInit
      <4>4. AgentInit => /\ link \in [Agents -> {"none", "waiting", "up", "cut"}]
                         /\ inbox \in [Agents -> Seq(Transactions)]
                         /\ outbox \in [Agents -> Seq(Transactions)]
        BY <2>1 DEF AgentInit
      <4>. QED
        BY <4>1, <4>2, <4>3, <4>4 DEF AgentTypeOK
    <3>2. QueueInit => QueueTypeOK
      BY <2>1 DEF QueueInit, QueueTypeOK
    <3>. QED
      BY <3>1, <3>2 DEF ProcessInit
  <2>3. ProcessInit => NodeTypeOK
    BY <2>1, <2>2 DEF ProcessInit, NodeTypeOK, ColPcs
  <2>4. \A a \in Agents : a > 1 => a # 1
    BY ServerAssumption DEF Agents
  <2>5. ProcessInit => InHand
    BY <2>4 DEF ProcessInit, AgentInit, InHand
  <2>. QED
    BY <2>3, <2>5 DEF TypeInv
<1>2. TypeInv /\ [Next]_nodeVars => TypeInv'
  <2>. SUFFICES ASSUME TypeInv, [Next]_nodeVars PROVE TypeInv'
    OBVIOUS
  <2>1. CASE Collector
    BY <2>1, CollectorType
  <2>2. CASE AgentStep
    BY <2>2, AgentThreadType, PingThreadType DEF AgentStep, ColIdle
  <2>3. CASE Adapter \/ Network
    BY <2>3, EnvironmentType
  <2>4. CASE Restart
    BY <2>4, RestartType
  <2>5. CASE UNCHANGED nodeVars
    BY <2>5 DEF nodeVars, queueVars, agentVars, netVars, colVars, TypeInv, InHand,
                NodeTypeOK, QueueTypeOK, AgentTypeOK
  <2>. QED
    BY <2>1, <2>2, <2>3, <2>4, <2>5 DEF Next, NodeNext
<1>. QED
  BY <1>1, <1>2, PTL DEF OpenSpec

\* A server whose table only it changes is one whose table others may change: what is
\* proved of the open specification holds in particular of the closed one.
LEMMA SpecIsOpen == Spec => OpenSpec
<1>1. NodeInit => ProcessInit
  BY DEF NodeInit
<1>2. [Next]_vars => [Next]_nodeVars
  BY DEF vars
<1>. QED
  BY <1>1, <1>2, PTL DEF Spec, OpenSpec

\* The same of the server alone with its table.
THEOREM TypeCorrect == Spec => []TypeInv
  BY OpenTypeCorrect, SpecIsOpen, PTL

\* What the runs check of it: no interleaving of the collector, the agents, the pings
\* and a restart leaves a counter, a queue or a connection in an unknown state.
THEOREM TypeSafe == Spec => []TypeOK
<1>. DEFINE TableOK == table \in [Msg -> Nat]
<1>1. NodeInit => TableOK
  BY DEF NodeInit
<1>2. TypeInv /\ TableOK /\ [Next]_vars => TableOK'
  <2>. SUFFICES ASSUME TypeInv, TableOK, [Next]_vars PROVE TableOK'
    OBVIOUS
  <2>1. CASE ColInsert
    BY <2>1, InsertTable
  <2>2. CASE Collector /\ ~ColInsert
    BY <2>2 DEF Collector, ColWait, ColPut, ColSync, ColThreshold, ColSize, ColTakeWait,
                ColTake, ColSendClear
  <2>3. CASE AgentStep
    BY <2>3 DEF AgentStep, ColIdle
  <2>4. CASE Adapter
    BY <2>4 DEF Adapter, AdapterConnects, AdapterCloses, AdapterBreaks, AdapterSends,
                AdapterUnchanged
  <2>5. CASE Network
    BY <2>5 DEF Network, Connect, Serve, PeerReads, Cut, PeerSends, NetUnchanged
  <2>6. CASE Restart
    BY <2>6 DEF Restart
  <2>7. CASE UNCHANGED vars
    BY <2>7 DEF vars
  <2>. QED
    BY <2>1, <2>2, <2>3, <2>4, <2>5, <2>6, <2>7 DEF Next, NodeNext
<1>3. TypeInv /\ TableOK => TypeOK
  BY DEF TypeInv, TypeOK
<1>. QED
  BY <1>1, <1>2, <1>3, TypeCorrect, PTL DEF Spec

-----------------------------------------------------------------------------
(* The flush.  The number of messages that insertDataToDb has taken or has *)
(* still to take never falls below the BatchSize it was started with,      *)
(* unless a CLEAR arrived; and the collector, the only consumer, never     *)
(* waits on an empty queue otherwise.                                      *)

FlushInv ==
  /\ Flushing /\ ~wiped => Len(sescList) + Len(msgQue) >= BatchSize
  /\ colPc = "insert" /\ ~wiped => Len(sescList) >= BatchSize
  /\ BlockedOnlyByClear

\* An agent's step changes the queue by appending to it or by obeying a CLEAR.
LEMMA AgentOnQueue ==
  ASSUME TypeInv, NEW a \in Agents, AgentThread(a) \/ PingThread(a)
  PROVE  \/ msgQue' = msgQue /\ wiped' = wiped
         \/ msgQue' = Append(msgQue, Head(trans[a])) /\ wiped' = wiped
            /\ agPc[a] = "append"
         \/ msgQue' = <<>> /\ wiped' = TRUE /\ agPc[a] = "read"
<1>1. CASE ReadTransaction(a)
  BY <1>1 DEF ReadTransaction, Clear
<1>2. CASE AgentPut(a)
  BY <1>2 DEF AgentPut, Put
<1>. QED
  BY <1>1, <1>2 DEF AgentThread, RaiseFlags, RequestAll, ReadEof, ReadThrows, AgentWait,
     PostAllData, LockQueue, Snapshot, PostSnapshot, UnlockQueue, PingThread, PingProbe,
     PingAnswered, PingFailsServer, PingFailsClient, queueVars

\* The collector's own steps keep the count of the flush: what leaves the queue is in
\* the batch.
LEMMA FlushCollector ==
  ASSUME TypeInv, FlushInv, Collector
  PROVE  FlushInv'
<1>. USE DEF FlushInv, Flushing, Taking, BlockedOnlyByClear, ColGoto, queueVars
<1>0. /\ msgQue \in Seq(Msg) /\ sescList \in Seq(Msg) /\ data \in Seq(Msg)
      /\ Len(msgQue) \in Nat /\ Len(sescList) \in Nat /\ BatchSize \in Nat
      /\ Len(<<>>) = 0
  BY LenProperties, EmptySeq, ServerAssumption DEF TypeInv, NodeTypeOK, QueueTypeOK
<1>1. CASE ColWait \/ ColPut \/ ColSync \/ ColInsert \/ ColSendClear
  BY <1>1 DEF ColWait, ColPut, ColSync, ColInsert, ColSendClear, Disconnect
<1>2. CASE ColThreshold
  BY <1>0, <1>2 DEF ColThreshold
<1>3. CASE ColSize
  <2>1. msgQue = <<>> => Len(msgQue) = 0
    BY <1>0, Zenon
  <2>. QED
    BY <1>0, <1>3, <2>1 DEF ColSize
<1>4. CASE ColTakeWait
  BY <1>4 DEF ColTakeWait
<1>5. CASE ColTake
  <2>1. Len(msgQue') = Len(msgQue) - 1
    BY <1>0, <1>5, HeadTailProperties DEF ColTake, CanTake, Take
  <2>2. Len(sescList') = Len(sescList) + 1
    BY <1>0, <1>5, HeadTailProperties, AppendProperties DEF ColTake, CanTake
  <2>. QED
    BY <1>0, <1>5, <2>1, <2>2 DEF ColTake
<1>. QED
  BY <1>1, <1>2, <1>3, <1>4, <1>5 DEF Collector

\* An agent's steps keep the count of the flush: they append, or they are a CLEAR and
\* say so.
LEMMA FlushAgent ==
  ASSUME TypeInv, FlushInv, AgentStep
  PROVE  FlushInv'
<1>. USE DEF FlushInv, Flushing, Taking, BlockedOnlyByClear, colVars
<1>1. PICK a \in Agents : (AgentThread(a) \/ PingThread(a)) /\ UNCHANGED colVars
  BY DEF AgentStep, ColIdle
<1>2. CASE msgQue' = msgQue /\ wiped' = wiped
  BY <1>1, <1>2
<1>3. CASE msgQue' = Append(msgQue, Head(trans[a])) /\ wiped' = wiped /\ agPc[a] = "append"
  <2>1. msgQue \in Seq(Msg) /\ Head(trans[a]) \in Msg
    BY <1>3, HeadTailProperties DEF TypeInv, NodeTypeOK, QueueTypeOK, AgentTypeOK, InHand
  <2>2. Len(msgQue') = Len(msgQue) + 1 /\ msgQue' # <<>>
    BY <1>3, <2>1, AppendProperties
  <2>3. Len(msgQue) \in Nat /\ Len(sescList) \in Nat /\ BatchSize \in Nat
    BY LenProperties, ServerAssumption DEF TypeInv, NodeTypeOK, QueueTypeOK
  <2>. QED
    BY <1>1, <1>3, <2>2, <2>3
<1>4. CASE msgQue' = <<>> /\ wiped' = TRUE
  BY <1>1, <1>4
<1>. QED
  BY <1>1, <1>2, <1>3, <1>4, AgentOnQueue

\* A flush inserts a full batch and the collector waits on an empty queue only if
\* a CLEAR of the peer arrived while the flush ran.
THEOREM OpenFlushCorrect == OpenSpec => [](FlushIsFull /\ BlockedOnlyByClear)
<1>1. ProcessInit => FlushInv
  BY DEF ProcessInit, FlushInv, Flushing, Taking, BlockedOnlyByClear
<1>2. TypeInv /\ FlushInv /\ [Next]_nodeVars => FlushInv'
  <2>. SUFFICES ASSUME TypeInv, FlushInv, [Next]_nodeVars PROVE FlushInv'
    OBVIOUS
  <2>. USE DEF FlushInv, Flushing, Taking, BlockedOnlyByClear
  <2>1. CASE Collector
    BY <2>1, FlushCollector
  <2>2. CASE AgentStep
    BY <2>2, FlushAgent
  <2>3. CASE Adapter
    BY <2>3 DEF Adapter, AdapterConnects, AdapterCloses, AdapterBreaks, AdapterSends,
                ColGoto, AdapterUnchanged, queueVars
  <2>4. CASE Network
    BY <2>4 DEF Network, Connect, Serve, PeerReads, Cut, PeerSends, NetUnchanged, colVars,
                queueVars
  <2>5. CASE Restart
    BY <2>5 DEF Restart
  <2>6. CASE UNCHANGED nodeVars
    BY <2>6 DEF nodeVars, queueVars, colVars
  <2>. QED
    BY <2>1, <2>2, <2>3, <2>4, <2>5, <2>6 DEF Next, NodeNext
<1>3. FlushInv => FlushIsFull /\ BlockedOnlyByClear
  BY DEF FlushInv, FlushIsFull
<1>. QED
  BY <1>1, <1>2, <1>3, OpenTypeCorrect, PTL DEF OpenSpec

\* The same of the server alone with its table.
THEOREM FlushCorrect == Spec => [](FlushIsFull /\ BlockedOnlyByClear)
  BY OpenFlushCorrect, SpecIsOpen, PTL

\* In particular, take() blocks the collector only behind a CLEAR that emptied the queue
\* under its loop.
THEOREM BlockCorrect == Spec => []BlockedOnlyByClear
  BY FlushCorrect, PTL

-----------------------------------------------------------------------------
(* The flag.  While the only agent posts, the flag is up, so nobody passes *)
(* it; the collector may have passed it before, and then nothing has moved *)
(* the queue since the snapshot.                                           *)

PostInv ==
  syncAgent = 1 /\ Posting(1) =>
    /\ isLock
    /\ agPc[1] \in {"send", "unlock"} => Drifted(trans[1])
    /\ agPc[1] \in {"send", "unlock"} /\ colPc \in {"append", "take"} => msgQue = trans[1]

\* While the queue is posted the collector moves it once at most.
LEMMA PostCollector ==
  ASSUME TypeInv, PostInv, Collector
  PROVE  PostInv'
<1>. USE DEF PostInv, Posting, Drifted, ColGoto, queueVars, agentVars
<1>1. CASE ColWait \/ ColTakeWait
  BY <1>1 DEF ColWait, ColTakeWait, LockIsFree
<1>2. CASE ColPut
  <2>1. Head(data) \in Msg
    BY <1>2, HeadTailProperties DEF ColPut, TypeInv, NodeTypeOK, InHand
  <2>. QED
    BY <1>2, <2>1 DEF ColPut, Put
<1>3. CASE ColTake
  BY <1>3 DEF ColTake, Take
<1>4. CASE ColSync \/ ColThreshold \/ ColSize \/ ColInsert \/ ColSendClear
  BY <1>4 DEF ColSync, ColThreshold, ColSize, ColInsert, ColSendClear, Disconnect
<1>. QED
  BY <1>1, <1>2, <1>3, <1>4 DEF Collector

\* The steps of the only agent keep what it posts equal to the queue, but for the
\* collector's one step.
LEMMA PostAgent ==
  ASSUME TypeInv, PostInv, AgentStep
  PROVE  PostInv'
<1>. USE DEF PostInv, Posting, Drifted, Goto, colVars, queueVars
<1>1. PICK a \in Agents : (AgentThread(a) \/ PingThread(a)) /\ UNCHANGED colVars
  BY DEF AgentStep, ColIdle
<1>2. 1 \in Agents /\ (syncAgent = 1 /\ a # 1 => agPc[a] = "off") /\ syncAgent \in Agents
  BY ServerAssumption DEF Agents, TypeInv, InHand, NodeTypeOK, AgentTypeOK
<1>3. agPc \in [Agents -> AgentPcs] /\ trans \in [Agents -> Seq(Msg)]
  BY DEF TypeInv, NodeTypeOK, AgentTypeOK
<1>4. CASE PingThread(a)
  <2>1. CASE PingFailsClient(a)
    <3>1. syncAgent' # 1
      BY <1>2, <2>1 DEF PingFailsClient, Agents
    <3>. QED
      BY <3>1
  <2>2. CASE ~PingFailsClient(a)
    <3>1. UNCHANGED <<msgQue, isLock, agPc, trans, syncAgent, colPc>>
      BY <1>1, <1>4, <2>2
      DEF PingThread, PingProbe, PingAnswered, PingFailsServer
    <3>. QED
      BY <3>1
  <2>. QED
    BY <2>1, <2>2
<1>5. CASE AgentThread(a) /\ syncAgent # 1
  <2>1. syncAgent' = syncAgent
    BY <1>5 DEF AgentThread, RaiseFlags, RequestAll, ReadTransaction, ReadEof, ReadThrows,
       AgentWait, AgentPut, PostAllData, LockQueue, Snapshot, PostSnapshot, UnlockQueue
  <2>. QED
    BY <1>5, <2>1
<1>6. CASE AgentThread(a) /\ syncAgent = 1
  <2>1. a = 1
    BY <1>2, <1>6 DEF AgentThread, RaiseFlags, RequestAll, ReadTransaction, ReadEof,
       ReadThrows, AgentWait, AgentPut, PostAllData, LockQueue, Snapshot, PostSnapshot,
       UnlockQueue
  <2>2. CASE RaiseFlags(a) \/ RequestAll(a) \/ ReadEof(a) \/ ReadThrows(a)
    BY <1>2, <1>3, <2>1, <2>2 DEF RaiseFlags, RequestAll, ReadEof, ReadThrows, CatchException
  <2>3. CASE ReadTransaction(a)
    BY <1>2, <1>3, <2>1, <2>3 DEF ReadTransaction, CatchException
  <2>4. CASE AgentWait(a) \/ AgentPut(a) \/ PostAllData(a)
    BY <1>2, <1>3, <2>1, <2>4 DEF AgentWait, AgentPut, PostAllData
  <2>5. CASE LockQueue(a)
    BY <1>2, <1>3, <2>1, <2>5 DEF LockQueue, Lock
  <2>6. CASE Snapshot(a)
    BY <1>2, <1>3, <2>1, <2>6 DEF Snapshot
  <2>7. CASE PostSnapshot(a)
    BY <1>1, <1>2, <1>3, <2>1, <2>7 DEF PostSnapshot, CatchException
  <2>8. CASE UnlockQueue(a)
    BY <1>2, <1>3, <2>1, <2>8 DEF UnlockQueue
  <2>. QED
    BY <1>6, <2>2, <2>3, <2>4, <2>5, <2>6, <2>7, <2>8 DEF AgentThread
<1>. QED
  BY <1>1, <1>4, <1>5, <1>6

\* What an agent posts is what the queue still holds when it takes the flag down,
\* but for one put or one take of the collector.
THEOREM OpenPostCorrect == OpenSpec => []PostedIsQueued
<1>1. ProcessInit => PostInv
  <2>1. 1 \in Agents
    BY ServerAssumption DEF Agents
  <2>. QED
    BY <2>1 DEF ProcessInit, AgentInit, PostInv, Posting
<1>2. TypeInv /\ PostInv /\ [Next]_nodeVars => PostInv'
  <2>. SUFFICES ASSUME TypeInv, PostInv, [Next]_nodeVars PROVE PostInv'
    OBVIOUS
  <2>. USE DEF PostInv, Posting, Drifted
  <2>1. CASE Collector
    BY <2>1, PostCollector
  <2>2. CASE AgentStep
    BY <2>2, PostAgent
  <2>3. CASE Adapter
    BY <2>3 DEF Adapter, AdapterConnects, AdapterCloses, AdapterBreaks, AdapterSends,
                ColGoto, AdapterUnchanged, queueVars, agentVars
  <2>4. CASE Network
    <3>1. /\ UNCHANGED <<msgQue, isLock, trans, syncAgent, colPc>>
          /\ agPc' = agPc \/ \E a \in Agents : agPc[a] = "connect" /\ Goto(a, "connected")
      BY <2>4 DEF Network, Connect, Serve, PeerReads, Cut, PeerSends, NetUnchanged, colVars,
                  queueVars
    <3>2. agPc \in [Agents -> AgentPcs] /\ 1 \in Agents
      BY ServerAssumption DEF TypeInv, NodeTypeOK, AgentTypeOK, Agents
    <3>3. Posting(1)' => agPc'[1] = agPc[1]
      BY <3>1, <3>2 DEF Goto
    <3>. QED
      BY <3>1, <3>3
  <2>5. CASE Restart
    <3>1. 1 \in Agents
      BY ServerAssumption DEF Agents
    <3>. QED
      BY <2>5, <3>1 DEF Restart
  <2>6. CASE UNCHANGED nodeVars
    BY <2>6 DEF nodeVars, queueVars, agentVars, colVars
  <2>. QED
    BY <2>1, <2>2, <2>3, <2>4, <2>5, <2>6 DEF Next, NodeNext
<1>3. PostInv => PostedIsQueued
  BY DEF PostInv, PostedIsQueued, Posting
<1>. QED
  BY <1>1, <1>2, <1>3, OpenTypeCorrect, PTL DEF OpenSpec

\* The same of the server alone with its table.
THEOREM PostCorrect == Spec => []PostedIsQueued
  BY OpenPostCorrect, SpecIsOpen, PTL


-----------------------------------------------------------------------------
\* The flag goes up only under a posting, and a posting leaves it up only when its
\* send throws: the one way in which the queue can stay frozen.
THEOREM OpenLockOwned == OpenSpec => [][LockStep]_nodeVars
<1>1. TypeInv /\ [Next]_nodeVars => [LockStep]_nodeVars
  <2>. SUFFICES ASSUME TypeInv, [Next]_nodeVars PROVE LockStep
    OBVIOUS
  <2>. USE DEF LockStep, Posting, Goto
  <2>0. agPc \in [Agents -> AgentPcs]
    BY DEF TypeInv, NodeTypeOK, AgentTypeOK
  <2>1. CASE Collector \/ Adapter
    <3>1. UNCHANGED <<isLock, agPc>>
      BY <2>1 DEF Collector, ColWait, ColPut, ColSync, ColThreshold, ColSize, ColTakeWait,
         ColTake, ColInsert, ColSendClear, queueVars, agentVars, Adapter, AdapterConnects,
         AdapterCloses, AdapterBreaks, AdapterSends, AdapterUnchanged
    <3>. QED
      BY <3>1
  <2>2. ASSUME NEW a \in Agents, PingThread(a)
        PROVE  LockStep
    <3>1. PICK b : isLock' = isLock /\ (agPc' = agPc \/ Goto(b, "connect"))
      BY <2>2 DEF PingThread, PingProbe, PingAnswered, PingFailsServer, PingFailsClient,
         queueVars
    <3>. QED
      BY <2>0, <3>1
  <2>3. ASSUME NEW a \in Agents, AgentThread(a)
        PROVE  LockStep
    <3>1. CASE LockQueue(a)
      BY <2>0, <3>1 DEF LockQueue, Lock
    <3>2. CASE UnlockQueue(a)
      BY <2>0, <3>2 DEF UnlockQueue, UnLock
    <3>3. CASE PostSnapshot(a)
      BY <2>0, <3>3 DEF PostSnapshot, CatchException, queueVars
    <3>4. CASE Snapshot(a)
      BY <2>0, <3>4 DEF Snapshot, queueVars
    <3>5. CASE ReadTransaction(a)
      BY <2>0, <3>5 DEF ReadTransaction, CatchException
    <3>6. CASE RaiseFlags(a) \/ RequestAll(a) \/ ReadEof(a) \/ ReadThrows(a)
      BY <2>0, <3>6 DEF RaiseFlags, RequestAll, ReadEof, ReadThrows, CatchException, queueVars
    <3>7. CASE AgentWait(a) \/ AgentPut(a) \/ PostAllData(a)
      BY <2>0, <3>7 DEF AgentWait, AgentPut, PostAllData, queueVars
    <3>. QED
      BY <2>3, <3>1, <3>2, <3>3, <3>4, <3>5, <3>6, <3>7 DEF AgentThread
  <2>4. CASE Network
    <3>1. isLock' = isLock
      BY <2>4 DEF Network, Connect, Serve, PeerReads, Cut, PeerSends, NetUnchanged, queueVars
    <3>2. \/ agPc' = agPc
          \/ \E a \in Agents : agPc[a] = "connect" /\ Goto(a, "connected")
      BY <2>4 DEF Network, Connect, Serve, PeerReads, Cut, PeerSends
    <3>3. CASE agPc' = agPc
      BY <3>1, <3>3
    <3>4. ASSUME NEW a \in Agents, agPc[a] = "connect", Goto(a, "connected")
          PROVE  LockStep
      BY <2>0, <3>1, <3>4
    <3>. QED
      BY <3>2, <3>3, <3>4
  <2>5. CASE Restart
    BY <2>5 DEF Restart
  <2>6. CASE UNCHANGED nodeVars
    BY <2>6 DEF nodeVars, queueVars, agentVars
  <2>. QED
    BY <2>1, <2>2, <2>3, <2>4, <2>5, <2>6 DEF Next, NodeNext, AgentStep
<1>. QED
  BY <1>1, OpenTypeCorrect, PTL DEF OpenSpec

\* The same of the server alone with its table.
THEOREM LockOwned == Spec => LockHasOwner
<1>1. [LockStep]_nodeVars => [LockStep]_vars
  BY DEF LockStep, Posting, vars, nodeVars, queueVars, agentVars
<1>. QED
  BY <1>1, OpenLockOwned, SpecIsOpen, PTL DEF LockHasOwner

=============================================================================
