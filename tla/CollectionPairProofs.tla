------------------------- MODULE CollectionPairProofs -------------------------
(***************************************************************************)
(* Theorems about the pair of collection servers.  First, each of the two  *)
(* does what module CollectionServer says of a server in its environment,  *)
(* for any number of agents, messages and faults.  Then, when all adapters *)
(* send to the primary: what the standby, its connection and its CLEARs    *)
(* can and cannot cost, and that each server's copy is complete.           *)
(***************************************************************************)
EXTENDS CollectionPair, SequenceTheorems, FiniteSetTheorems, TLAPS

-----------------------------------------------------------------------------
(* Sequences: what the steps of the queue and the channels do to them.     *)

\* What put, take and the truncation of a channel leave is a sequence of the same type.
LEMMA SeqTypes ==
  ASSUME NEW T
  PROVE  /\ <<>> \in Seq(T)
         /\ \A s \in Seq(T), t \in T : Append(s, t) \in Seq(T)
         /\ \A s \in Seq(T) : s # <<>> => Head(s) \in T /\ Tail(s) \in Seq(T)
         /\ \A s \in Seq(T) : \A n \in 0..Len(s) : SubSeq(s, 1, n) \in Seq(T)
<1>1. <<>> \in Seq(T)
  BY EmptySeq
<1>2. \A s \in Seq(T), t \in T : Append(s, t) \in Seq(T)
  BY AppendProperties
<1>3. \A s \in Seq(T) : s # <<>> => Head(s) \in T /\ Tail(s) \in Seq(T)
  BY HeadTailProperties
<1>4. \A s \in Seq(T) : \A n \in 0..Len(s) : SubSeq(s, 1, n) \in Seq(T)
  BY SubSeqProperties
<1>. QED
  BY <1>1, <1>2, <1>3, <1>4

\* A sequence of more than one element has a tail.
LEMMA TailFull ==
  ASSUME NEW T, NEW s \in Seq(T), s # <<>>, Len(s) # 1
  PROVE  Tail(s) # <<>>
<1>1. Len(Tail(s)) = Len(s) - 1 /\ Len(s) \in Nat
  BY HeadTailProperties, LenProperties
<1>2. Len(<<>>) = 0
  BY EmptySeq
<1>3. Tail(s) = <<>> => Len(Tail(s)) = 0
  BY <1>2, Zenon
<1>. QED
  BY <1>1, <1>3

-----------------------------------------------------------------------------
(* What a server holds, and its control.                                   *)

\* The transactions whose messages are among X.
Wire(X) == {P!GetAll, P!ClearAll} \cup {P!Data(ms) : ms \in Seq(X)}

\* The messages that the primary has, in its queue, its agents and its connections, are
\* among X.
PHold(X) ==
  /\ pMsgQue \in Seq(X) /\ pSescList \in Seq(X)
  /\ pTrans \in [P!Agents -> Seq(X)]
  /\ pInbox \in [P!Agents -> Seq(Wire(X))]
  /\ pOutbox \in [P!Agents -> Seq(Wire(X))]

\* Its program counters and flags, and what they say of the data in hand: a thread that
\* is about to put a message has one.
PControl ==
  /\ pIsLock \in BOOLEAN /\ pWiped \in BOOLEAN
  /\ pSyncAgent \in P!Agents
  /\ pAgPc \in [P!Agents -> P!AgentPcs]
  /\ pInit \in [P!Agents -> BOOLEAN]
  /\ pConnected \in [P!Agents -> BOOLEAN]
  /\ pProbing \in [P!Agents -> BOOLEAN]
  /\ pLink \in [P!Agents -> {"none", "waiting", "up", "cut"}]
  /\ pColPc \in P!ColPcs /\ pData \in Seq(Msgs)
  /\ pColPc \in {"put", "append", "sync"} => pData # <<>>
  /\ \A a \in P!Agents : pAgPc[a] \in {"put", "append"} => pTrans[a] # <<>>

PTypes == PControl /\ PHold(Msgs)

\* The messages that the secondary has, in its queue, its agents and its connections, are
\* among X.
SHold(X) ==
  /\ sMsgQue \in Seq(X) /\ sSescList \in Seq(X)
  /\ sTrans \in [S!Agents -> Seq(X)]
  /\ sInbox \in [S!Agents -> Seq(Wire(X))]
  /\ sOutbox \in [S!Agents -> Seq(Wire(X))]

\* Its program counters and flags, and what they say of the data in hand: a thread that
\* is about to put a message has one.
SControl ==
  /\ sIsLock \in BOOLEAN /\ sWiped \in BOOLEAN
  /\ sSyncAgent \in S!Agents
  /\ sAgPc \in [S!Agents -> S!AgentPcs]
  /\ sInit \in [S!Agents -> BOOLEAN]
  /\ sConnected \in [S!Agents -> BOOLEAN]
  /\ sProbing \in [S!Agents -> BOOLEAN]
  /\ sLink \in [S!Agents -> {"none", "waiting", "up", "cut"}]
  /\ sColPc \in S!ColPcs /\ sData \in Seq(Msgs)
  /\ sColPc \in {"put", "append", "sync"} => sData # <<>>
  /\ \A a \in S!Agents : sAgPc[a] \in {"put", "append"} => sTrans[a] # <<>>

STypes == SControl /\ SHold(Msgs)

PairTypes == PTypes /\ STypes

\* The transactions of both servers are the same, and a list of messages is one of them.
LEMMA WireTypes ==
  ASSUME NEW X
  PROVE  /\ P!GetAll \in Wire(X) /\ P!ClearAll \in Wire(X)
         /\ S!GetAll \in Wire(X) /\ S!ClearAll \in Wire(X)
         /\ \A ms \in Seq(X) : P!Data(ms) \in Wire(X) /\ S!Data(ms) \in Wire(X)
  BY DEF Wire, P!GetAll, P!ClearAll, P!Data, S!GetAll, S!ClearAll, S!Data

\* The list of a transaction holds what the transaction does.
LEMMA WireList ==
  ASSUME NEW X, NEW t \in Wire(X)
  PROVE  t.list \in Seq(X)
<1>1. CASE t = P!GetAll \/ t = P!ClearAll
  <2>1. <<>> \in Seq(X)
    BY EmptySeq
  <2>2. P!GetAll.list = <<>> /\ P!ClearAll.list = <<>>
    BY DEF P!GetAll, P!ClearAll
  <2>. QED
    BY <1>1, <2>1, <2>2, Zenon
<1>2. CASE \E ms \in Seq(X) : t = P!Data(ms)
  BY <1>2 DEF P!Data
<1>. QED
  BY <1>1, <1>2 DEF Wire

\* Each transaction is a request, a CLEAR or data.
LEMMA WireSplit ==
  ASSUME NEW X, NEW t \in Wire(X)
  PROVE  \/ t = P!GetAll /\ t = S!GetAll
         \/ t = P!ClearAll /\ t = S!ClearAll
         \/ t = P!Data(t.list) /\ t = S!Data(t.list) /\ t.list \in Seq(X)
<1>1. CASE t = P!GetAll \/ t = P!ClearAll
  BY <1>1 DEF P!GetAll, P!ClearAll, S!GetAll, S!ClearAll
<1>2. ASSUME NEW ms \in Seq(X), t = P!Data(ms)
      PROVE  t = P!Data(t.list) /\ t = S!Data(t.list) /\ t.list \in Seq(X)
  <2>1. P!Data(ms).list = ms
    BY DEF P!Data
  <2>2. t.list = ms
    BY <1>2, <2>1, Zenon
  <2>. QED
    BY <1>2, <2>2, Zenon DEF P!Data, S!Data
<1>. QED
  BY <1>1, <1>2 DEF Wire

\* A sequence that is no longer than the bound is one of the chunks of module
\* CollectionServer.
LEMMA BoundedChunk ==
  ASSUME NEW c \in Seq(Msgs), c # <<>>, Len(c) <= 4 * MaxMsgs
  PROVE  c \in UNION {[1..n -> Msgs] : n \in 1..(4 * MaxMsgs)}
<1>1. Len(c) \in Nat /\ c \in [1..Len(c) -> Msgs] /\ Len(c) # 0
  BY LenProperties, EmptySeq
<1>2. Len(c) \in 1..(4 * MaxMsgs)
  BY <1>1, PairAssumption
<1>. QED
  BY <1>1, <1>2

\* New messages are numbered on from those produced.
LEMMA ChunkTypes ==
  ASSUME produced \in Nat, NEW n \in 1..PairChunk, produced + n <= MaxMsgs
  PROVE  /\ [i \in 1..n |-> produced + i] \in Seq(Msgs)
         /\ [i \in 1..n |-> produced + i] # <<>>
         /\ Len([i \in 1..n |-> produced + i]) = n
<1>. DEFINE chunk == [i \in 1..n |-> produced + i]
<1>1. chunk \in [1..n -> Msgs]
  BY PairAssumption DEF Msgs
<1>2. n \in Nat /\ n # 0
  BY PairAssumption
<1>3. chunk \in Seq(Msgs) /\ Len(chunk) = n
  BY <1>1, <1>2, SeqDef, LenProperties
<1>. QED
  BY <1>2, <1>3, EmptySeq

\* The last of five numbers is no greater than what bounds their sum.
LEMMA LastOfFive ==
  \A i, j, k, m, n \in Nat : i + j + k + m + n <= 4 * MaxMsgs => n <= 4 * MaxMsgs
  BY PairAssumption

\* What is done to the primary, or left: its adapter, the network, a restart, nothing.
\* What arrives from the peer is among X.
PEnvironment(X) ==
  \/ P!AdapterConnects
  \/ \E c \in Seq(Msgs) : c # <<>> /\ P!AdapterSends(c)
  \/ \E a \in P!Agents : P!Connect(a) \/ P!Serve(a) \/ P!PeerReads(a)
  \/ \E a \in P!Agents, t \in Wire(X) : P!PeerSends(a, t)
  \/ P!Cut \/ P!Restart \/ P!NodeIdle

\* Everything the primary does: its collector, its agents and their pings, or what its
\* environment does.
PDoes(X) ==
  \/ P!Collector
  \/ \E a \in P!Agents : (P!AgentThread(a) \/ P!PingThread(a)) /\ P!ColIdle
  \/ PEnvironment(X)

\* The message that the primary's collector is queueing or forwarding.
PHead(X) == pColPc \in {"append", "sync"} => Head(pData) \in X

\* What an agent of the primary sends was held.
LEMMA PSendHold ==
  ASSUME NEW X, PHold(X), NEW a \in P!Agents, NEW t \in Wire(X), P!SendMsg(a, t)
  PROVE  pOutbox' \in [P!Agents -> Seq(Wire(X))]
<1>1. Append(pOutbox[a], t) \in Seq(Wire(X))
  BY AppendProperties DEF PHold
<1>. QED
  BY <1>1 DEF P!SendMsg, PHold

\* The primary's collector adds nothing to what is held but the message it queues.
LEMMA PCollectorHold ==
  ASSUME NEW X, PHold(X), PControl, PHead(X), P!Collector
  PROVE  PHold(X)'
<1>. USE DEF PHold, P!ColGoto, P!queueVars, P!agentVars, P!netVars
<1>0. <<>> \in Seq(X) /\ pSyncAgent \in P!Agents
  BY EmptySeq DEF PControl
<1>1. CASE P!ColWait \/ P!ColThreshold \/ P!ColSize \/ P!ColTakeWait \/ P!ColInsert
  BY <1>0, <1>1 DEF P!ColWait, P!ColThreshold, P!ColSize, P!ColTakeWait, P!ColInsert
<1>2. CASE P!ColPut
  BY <1>2, SeqTypes DEF P!ColPut, P!Put, PHead
<1>3. CASE P!ColTake
  BY <1>3, SeqTypes DEF P!ColTake, P!CanTake, P!Take
<1>4. CASE P!ColSync
  <2>1. <<Head(pData)>> \in Seq(X)
    BY <1>4 DEF P!ColSync, PHead
  <2>2. P!Data(<<Head(pData)>>) \in Wire(X)
    BY <2>1, WireTypes
  <2>3. pOutbox' \in [P!Agents -> Seq(Wire(X))]
    BY <1>0, <1>4, <2>2, PSendHold DEF P!ColSync
  <2>. QED
    BY <1>4, <2>3 DEF P!ColSync
<1>5. CASE P!ColSendClear
  <2>1. pOutbox' \in [P!Agents -> Seq(Wire(X))]
    BY <1>0, <1>5, WireTypes, PSendHold DEF P!ColSendClear
  <2>. QED
    BY <1>5, <2>1 DEF P!ColSendClear
<1>. QED
  BY <1>1, <1>2, <1>3, <1>4, <1>5 DEF P!Collector

\* Whatever closes a connection of the primary adds nothing.
LEMMA PCloseHold ==
  ASSUME NEW X, PHold(X), NEW a \in P!Agents, NEW n \in 0..Len(pInbox[a]), P!CloseLink(a, n)
  PROVE  /\ pInbox' \in [P!Agents -> Seq(Wire(X))]
         /\ pOutbox' \in [P!Agents -> Seq(Wire(X))]
  BY SeqTypes DEF PHold, P!CloseLink

\* Nor does the catch clause of an agent's run().
LEMMA PCatchHold ==
  ASSUME NEW X, PHold(X), NEW a \in P!Agents, P!CatchException(a),
         UNCHANGED <<pMsgQue, P!colVars>>
  PROVE  PHold(X)'
<1>1. 0 \in 0..Len(pInbox[a])
  BY LenProperties DEF PHold
<1>. QED
  BY <1>1, PCloseHold, SeqTypes DEF PHold, P!CatchException, P!colVars

\* An agent of the primary only moves messages.
LEMMA PAgentHold ==
  ASSUME NEW X, PHold(X), PControl, NEW a \in P!Agents, P!AgentThread(a), UNCHANGED P!colVars
  PROVE  PHold(X)'
<1>. USE DEF PHold, P!queueVars, P!netVars, P!colVars
<1>0. <<>> \in Seq(X) /\ pSyncAgent \in P!Agents
  BY EmptySeq DEF PControl
<1>1. CASE P!RaiseFlags(a) \/ P!ReadEof(a) \/ P!AgentWait(a) \/ P!PostAllData(a)
           \/ P!LockQueue(a)
  BY <1>1 DEF P!RaiseFlags, P!ReadEof, P!AgentWait, P!PostAllData, P!LockQueue
<1>2. CASE P!Snapshot(a) \/ P!UnlockQueue(a)
  BY <1>0, <1>2 DEF P!Snapshot, P!UnlockQueue
<1>3. CASE P!RequestAll(a)
  <2>1. CASE P!CatchException(a)
    BY <1>3, <2>1, PCatchHold DEF P!RequestAll
  <2>2. CASE ~P!CatchException(a)
    <3>1. pOutbox' \in [P!Agents -> Seq(Wire(X))]
      BY <1>0, <1>3, <2>2, WireTypes, PSendHold DEF P!RequestAll
    <3>. QED
      BY <1>3, <2>2, <3>1 DEF P!RequestAll
  <2>. QED
    BY <2>1, <2>2
<1>4. CASE P!ReadTransaction(a)
  <2>1. CASE P!CatchException(a) /\ UNCHANGED pMsgQue
    BY <1>4, <2>1, PCatchHold
  <2>2. CASE ~(P!CatchException(a) /\ UNCHANGED pMsgQue)
    <3>1. Head(pInbox[a]).list \in Seq(X) /\ Tail(pInbox[a]) \in Seq(Wire(X))
      BY <1>4, WireList, SeqTypes DEF P!ReadTransaction
    <3>. QED
      BY <1>0, <1>4, <2>2, <3>1 DEF P!ReadTransaction, P!Clear
  <2>. QED
    BY <2>1, <2>2
<1>5. CASE P!ReadThrows(a)
  BY <1>5, PCatchHold DEF P!ReadThrows
<1>6. CASE P!AgentPut(a)
  <2>1. pTrans[a] # <<>>
    BY <1>6 DEF P!AgentPut, PControl
  <2>2. Append(pMsgQue, Head(pTrans[a])) \in Seq(X) /\ Tail(pTrans[a]) \in Seq(X)
    BY <2>1, SeqTypes
  <2>. QED
    BY <1>6, <2>2 DEF P!AgentPut, P!Put
<1>7. CASE P!PostSnapshot(a)
  <2>1. CASE P!CatchException(a)
    BY <1>7, <2>1, PCatchHold DEF P!PostSnapshot
  <2>2. CASE ~P!CatchException(a)
    <3>1. P!Data(pTrans[a]) \in Wire(X)
      BY WireTypes
    <3>2. pOutbox' \in [P!Agents -> Seq(Wire(X))]
      BY <1>7, <2>2, <3>1, PSendHold DEF P!PostSnapshot
    <3>. QED
      BY <1>7, <2>2, <3>2 DEF P!PostSnapshot
  <2>. QED
    BY <2>1, <2>2
<1>. QED
  BY <1>1, <1>2, <1>3, <1>4, <1>5, <1>6, <1>7 DEF P!AgentThread

\* The pings of the primary and its environment only move messages, but for those that
\* arrive, which are among X.
LEMMA POtherHold ==
  ASSUME NEW X, PHold(X),
         (\E a \in P!Agents : P!PingThread(a) /\ P!ColIdle) \/ PEnvironment(X)
  PROVE  PHold(X)'
<1>. USE DEF PHold, P!queueVars, P!agentVars, P!netVars, P!colVars, P!AdapterUnchanged,
             P!NetUnchanged
<1>1. ASSUME NEW a \in P!Agents, P!PingThread(a), P!ColIdle
      PROVE  PHold(X)'
  <2>1. CASE P!PingProbe(a) \/ P!PingAnswered(a)
    BY <1>1, <2>1 DEF P!PingProbe, P!PingAnswered, P!ColIdle
  <2>2. CASE P!PingFailsServer(a) \/ P!PingFailsClient(a)
    BY <1>1, <2>2, PCloseHold
    DEF P!PingFailsServer, P!PingFailsClient, P!CloseUnderway, P!ColIdle
  <2>. QED
    BY <1>1, <2>1, <2>2 DEF P!PingThread
<1>2. CASE P!AdapterConnects \/ (\E c \in Seq(Msgs) : c # <<>> /\ P!AdapterSends(c))
  BY <1>2 DEF P!AdapterConnects, P!AdapterSends
<1>3. CASE \E a \in P!Agents : P!Connect(a) \/ P!Serve(a)
  BY <1>3 DEF P!Connect, P!Serve
<1>4. CASE \E a \in P!Agents : P!PeerReads(a)
  BY <1>4, SeqTypes DEF P!PeerReads
<1>5. CASE \E a \in P!Agents, t \in Wire(X) : P!PeerSends(a, t)
  BY <1>5, SeqTypes DEF P!PeerSends
<1>6. CASE P!Cut
  BY <1>6, SeqTypes DEF P!Cut
<1>7. CASE P!Restart
  <2>1. <<>> \in Seq(X) /\ <<>> \in Seq(Wire(X))
    BY EmptySeq
  <2>. QED
    BY <1>7, <2>1 DEF P!Restart
<1>8. CASE P!NodeIdle
  BY <1>8 DEF P!NodeIdle, P!nodeVars
<1>. QED
  BY <1>1, <1>2, <1>3, <1>4, <1>5, <1>6, <1>7, <1>8 DEF PEnvironment

\* Whatever happens, the primary holds only what it held, what it queues for its adapter
\* and what arrives from the peer.
LEMMA PDoesHold ==
  ASSUME NEW X, PHold(X), PControl, P!Collector => PHead(X), PDoes(X)
  PROVE  PHold(X)'
  BY PCollectorHold, PAgentHold, POtherHold DEF PDoes, P!ColIdle

\* The steps of the primary's collector keep its control.
LEMMA PCollectorControl ==
  ASSUME PTypes, P!Collector
  PROVE  PControl'
<1>. USE DEF PTypes, PControl, P!ColPcs, P!ColGoto, P!queueVars, P!agentVars, P!netVars
<1>0. <<>> \in Seq(Msgs)
  BY EmptySeq
<1>1. CASE P!ColWait \/ P!ColThreshold \/ P!ColSize \/ P!ColTakeWait \/ P!ColInsert
           \/ P!ColPut \/ P!ColTake
  BY <1>1
  DEF P!ColWait, P!ColThreshold, P!ColSize, P!ColTakeWait, P!ColInsert, P!ColPut, P!ColTake
<1>2. CASE P!ColSync
  <2>1. Tail(pData) \in Seq(Msgs) /\ (Len(pData) # 1 => Tail(pData) # <<>>)
    BY <1>2, SeqTypes, TailFull DEF P!ColSync
  <2>. QED
    BY <1>0, <1>2, <2>1 DEF P!ColSync, P!Disconnect
<1>3. CASE P!ColSendClear
  BY <1>0, <1>3 DEF P!ColSendClear, P!Disconnect
<1>. QED
  BY <1>1, <1>2, <1>3 DEF P!Collector

\* The steps of an agent's thread of the primary keep its control.
LEMMA PAgentControl ==
  ASSUME PTypes, NEW a \in P!Agents, P!AgentThread(a), UNCHANGED P!colVars
  PROVE  PControl'
<1>. USE DEF PTypes, PControl, P!AgentPcs, P!Goto, P!queueVars, P!netVars, P!colVars
<1>1. CASE P!RaiseFlags(a) \/ P!ReadEof(a) \/ P!AgentWait(a) \/ P!PostAllData(a)
  BY <1>1 DEF P!RaiseFlags, P!ReadEof, P!AgentWait, P!PostAllData
<1>2. CASE P!LockQueue(a) \/ P!Snapshot(a) \/ P!UnlockQueue(a)
  BY <1>2 DEF P!LockQueue, P!Lock, P!Snapshot, P!UnlockQueue, P!UnLock, PHold
<1>3. CASE P!RequestAll(a)
  BY <1>3 DEF P!RequestAll, P!CatchException, P!CloseLink, PHold
<1>4. CASE P!ReadTransaction(a)
  BY <1>4 DEF P!ReadTransaction, P!CatchException, P!CloseLink, PHold
<1>5. CASE P!ReadThrows(a)
  BY <1>5 DEF P!ReadThrows, P!CatchException, P!CloseLink, PHold
<1>6. CASE P!AgentPut(a)
  <2>1. Len(pTrans[a]) # 1 => Tail(pTrans[a]) # <<>>
    BY <1>6, TailFull DEF P!AgentPut, PHold
  <2>. QED
    BY <1>6, <2>1 DEF P!AgentPut, PHold
<1>7. CASE P!PostSnapshot(a)
  BY <1>7 DEF P!PostSnapshot, P!CatchException, P!CloseLink, PHold
<1>. QED
  BY <1>1, <1>2, <1>3, <1>4, <1>5, <1>6, <1>7 DEF P!AgentThread

\* The pings of the primary and its environment keep its control.
LEMMA POtherControl ==
  ASSUME PTypes, NEW X,
         (\E a \in P!Agents : P!PingThread(a) /\ P!ColIdle) \/ PEnvironment(X)
  PROVE  PControl'
<1>. USE DEF PTypes, PControl, P!ColPcs, P!ColGoto, P!AdapterUnchanged, P!NetUnchanged, P!Goto,
             P!queueVars, P!agentVars, P!netVars, P!colVars, P!AgentPcs
<1>1. ASSUME NEW a \in P!Agents, P!PingThread(a), P!ColIdle
      PROVE  PControl'
  <2>1. CASE P!PingProbe(a) \/ P!PingAnswered(a)
    BY <1>1, <2>1 DEF P!PingProbe, P!PingAnswered, P!ColIdle
  <2>2. CASE P!PingFailsServer(a)
    BY <1>1, <2>2 DEF P!PingFailsServer, P!CloseUnderway, P!CloseLink, P!ColIdle
  <2>3. CASE P!PingFailsClient(a)
    <3>1. pSyncAgent + 1 \in P!Agents
      BY <2>3, PairAssumption DEF P!PingFailsClient, P!Agents
    <3>. QED
      BY <1>1, <2>3, <3>1 DEF P!PingFailsClient, P!CloseUnderway, P!CloseLink, P!ColIdle
  <2>. QED
    BY <1>1, <2>1, <2>2, <2>3 DEF P!PingThread
<1>2. CASE P!AdapterConnects \/ (\E c \in Seq(Msgs) : c # <<>> /\ P!AdapterSends(c))
  BY <1>2 DEF P!AdapterConnects, P!AdapterSends
<1>3. CASE \E a \in P!Agents : P!Connect(a) \/ P!Serve(a) \/ P!PeerReads(a)
  BY <1>3 DEF P!Connect, P!Serve, P!PeerReads
<1>4. CASE \E a \in P!Agents, t \in Wire(X) : P!PeerSends(a, t)
  BY <1>4 DEF P!PeerSends
<1>5. CASE P!Cut
  BY <1>5 DEF P!Cut
<1>6. CASE P!Restart
  <2>1. 1 \in P!Agents /\ <<>> \in Seq(Msgs)
    BY PairAssumption, EmptySeq DEF P!Agents
  <2>. QED
    BY <1>6, <2>1 DEF P!Restart
<1>7. CASE P!NodeIdle
  BY <1>7 DEF P!NodeIdle, P!nodeVars
<1>. QED
  BY <1>1, <1>2, <1>3, <1>4, <1>5, <1>6, <1>7 DEF PEnvironment

\* Everything keeps the control of the primary.
LEMMA PDoesControl ==
  ASSUME PTypes, NEW X, PDoes(X)
  PROVE  PControl'
  BY PCollectorControl, PAgentControl, POtherControl DEF PDoes, P!ColIdle

\* It is a step that module CollectionServer gives a server, or none.
LEMMA PDoesNext ==
  ASSUME PTypes, PDoes(Msgs)
  PROVE  [P!Next]_(P!nodeVars)
<1>1. CASE P!Collector \/ P!Restart \/ P!NodeIdle
  BY <1>1 DEF P!Next, P!NodeNext, P!NodeIdle
<1>2. CASE \E a \in P!Agents : (P!AgentThread(a) \/ P!PingThread(a)) /\ P!ColIdle
  BY <1>2 DEF P!Next, P!NodeNext, P!AgentStep
<1>3. CASE P!AdapterConnects
  BY <1>3 DEF P!Next, P!Adapter
<1>4. ASSUME NEW c \in Seq(Msgs), c # <<>>, P!AdapterSends(c)
      PROVE  P!Next
  <2>1. Len(c) <= 4 * MaxMsgs
    BY <1>4, PairAssumption, LenProperties DEF P!AdapterSends, P!Held, PTypes, PHold, PControl
  <2>2. c \in P!Chunks
    BY <1>4, <2>1, BoundedChunk DEF P!Chunks
  <2>. QED
    BY <1>4, <2>2 DEF P!Next, P!Adapter
<1>5. CASE \E a \in P!Agents : P!Connect(a) \/ P!Serve(a) \/ P!PeerReads(a)
  BY <1>5 DEF P!Next, P!Network
<1>6. ASSUME NEW a \in P!Agents, NEW t \in Wire(Msgs), P!PeerSends(a, t)
      PROVE  P!Next
  <2>1. t \in P!PeerTransactions
    <3>0. /\ t.list \in Seq(Msgs) /\ pTrans[a] \in Seq(Msgs) /\ Len(t.list) \in Nat
          /\ Len(pTrans[a]) \in Nat /\ Len(pMsgQue) \in Nat
          /\ Len(pData) \in Nat /\ Len(pSescList) \in Nat
      BY WireList, LenProperties DEF PTypes, PControl, PHold
    <3>5. Len(pMsgQue) + Len(pData) + Len(pSescList) + Len(pTrans[a]) + Len(t.list)
            <= 4 * MaxMsgs
      BY <1>6, Zenon DEF P!PeerSends, P!Held
    <3>1. Len(t.list) <= 4 * MaxMsgs /\ t.list \in Seq(Msgs)
      BY <3>0, <3>5, LastOfFive
    <3>2. t.list = <<>> \/ t.list \in P!Chunks
      BY <3>1, BoundedChunk DEF P!Chunks
    <3>. QED
      BY <3>2, WireSplit DEF P!PeerTransactions
  <2>. QED
    BY <1>6, <2>1 DEF P!Next, P!Network
<1>7. CASE P!Cut
  <2>1. \E a \in P!Agents : TRUE
    BY <1>7 DEF P!Cut
  <2>. QED
    BY <1>7, <2>1 DEF P!Next, P!Network
<1>. QED
  BY <1>1, <1>2, <1>3, <1>4, <1>5, <1>6, <1>7 DEF PDoes, PEnvironment

\* The start of the primary is well-typed.
LEMMA PInitTypes ==
  ASSUME P!ProcessInit
  PROVE  PTypes
<1>1. /\ <<>> \in Seq(Msgs) /\ <<>> \in Seq(Wire(Msgs))
      /\ 1 \in P!Agents
  BY EmptySeq, PairAssumption DEF P!Agents
<1>2. /\ pSyncAgent \in P!Agents
      /\ pAgPc \in [P!Agents -> P!AgentPcs]
      /\ pTrans \in [P!Agents -> Seq(Msgs)]
  BY <1>1 DEF P!ProcessInit, P!AgentInit, P!AgentPcs
<1>3. /\ pInit \in [P!Agents -> BOOLEAN]
      /\ pConnected \in [P!Agents -> BOOLEAN]
      /\ pProbing \in [P!Agents -> BOOLEAN]
      /\ pWiped \in BOOLEAN
  BY DEF P!ProcessInit, P!AgentInit
<1>4. /\ pLink \in [P!Agents -> {"none", "waiting", "up", "cut"}]
      /\ pInbox \in [P!Agents -> Seq(Wire(Msgs))]
      /\ pOutbox \in [P!Agents -> Seq(Wire(Msgs))]
  BY <1>1 DEF P!ProcessInit, P!AgentInit
<1>5. /\ pMsgQue \in Seq(Msgs) /\ pIsLock \in BOOLEAN
      /\ pColPc \in P!ColPcs /\ pData \in Seq(Msgs) /\ pSescList \in Seq(Msgs)
      /\ pColPc = "listen"
  BY <1>1 DEF P!ProcessInit, P!QueueInit, P!ColPcs
<1>6. \A a \in P!Agents : pAgPc[a] \in {"connect", "off"}
  BY DEF P!ProcessInit, P!AgentInit
<1>. QED
  BY <1>2, <1>3, <1>4, <1>5, <1>6 DEF PTypes, PControl, PHold

\* What is done to the secondary, or left: its adapter, the network, a restart, nothing.
\* What arrives from the peer is among X.
SEnvironment(X) ==
  \/ S!AdapterConnects
  \/ \E c \in Seq(Msgs) : c # <<>> /\ S!AdapterSends(c)
  \/ \E a \in S!Agents : S!Connect(a) \/ S!Serve(a) \/ S!PeerReads(a)
  \/ \E a \in S!Agents, t \in Wire(X) : S!PeerSends(a, t)
  \/ S!Cut \/ S!Restart \/ S!NodeIdle

\* Everything the secondary does: its collector, its agents and their pings, or what its
\* environment does.
SDoes(X) ==
  \/ S!Collector
  \/ \E a \in S!Agents : (S!AgentThread(a) \/ S!PingThread(a)) /\ S!ColIdle
  \/ SEnvironment(X)

\* The message that the secondary's collector is queueing or forwarding.
SHead(X) == sColPc \in {"append", "sync"} => Head(sData) \in X

\* What an agent of the secondary sends was held.
LEMMA SSendHold ==
  ASSUME NEW X, SHold(X), NEW a \in S!Agents, NEW t \in Wire(X), S!SendMsg(a, t)
  PROVE  sOutbox' \in [S!Agents -> Seq(Wire(X))]
<1>1. Append(sOutbox[a], t) \in Seq(Wire(X))
  BY AppendProperties DEF SHold
<1>. QED
  BY <1>1 DEF S!SendMsg, SHold

\* The secondary's collector adds nothing to what is held but the message it queues.
LEMMA SCollectorHold ==
  ASSUME NEW X, SHold(X), SControl, SHead(X), S!Collector
  PROVE  SHold(X)'
<1>. USE DEF SHold, S!ColGoto, S!queueVars, S!agentVars, S!netVars
<1>0. <<>> \in Seq(X) /\ sSyncAgent \in S!Agents
  BY EmptySeq DEF SControl
<1>1. CASE S!ColWait \/ S!ColThreshold \/ S!ColSize \/ S!ColTakeWait \/ S!ColInsert
  BY <1>0, <1>1 DEF S!ColWait, S!ColThreshold, S!ColSize, S!ColTakeWait, S!ColInsert
<1>2. CASE S!ColPut
  BY <1>2, SeqTypes DEF S!ColPut, S!Put, SHead
<1>3. CASE S!ColTake
  BY <1>3, SeqTypes DEF S!ColTake, S!CanTake, S!Take
<1>4. CASE S!ColSync
  <2>1. <<Head(sData)>> \in Seq(X)
    BY <1>4 DEF S!ColSync, SHead
  <2>2. S!Data(<<Head(sData)>>) \in Wire(X)
    BY <2>1, WireTypes
  <2>3. sOutbox' \in [S!Agents -> Seq(Wire(X))]
    BY <1>0, <1>4, <2>2, SSendHold DEF S!ColSync
  <2>. QED
    BY <1>4, <2>3 DEF S!ColSync
<1>5. CASE S!ColSendClear
  <2>1. sOutbox' \in [S!Agents -> Seq(Wire(X))]
    BY <1>0, <1>5, WireTypes, SSendHold DEF S!ColSendClear
  <2>. QED
    BY <1>5, <2>1 DEF S!ColSendClear
<1>. QED
  BY <1>1, <1>2, <1>3, <1>4, <1>5 DEF S!Collector

\* Whatever closes a connection of the secondary adds nothing.
LEMMA SCloseHold ==
  ASSUME NEW X, SHold(X), NEW a \in S!Agents, NEW n \in 0..Len(sInbox[a]), S!CloseLink(a, n)
  PROVE  /\ sInbox' \in [S!Agents -> Seq(Wire(X))]
         /\ sOutbox' \in [S!Agents -> Seq(Wire(X))]
  BY SeqTypes DEF SHold, S!CloseLink

\* Nor does the catch clause of an agent's run().
LEMMA SCatchHold ==
  ASSUME NEW X, SHold(X), NEW a \in S!Agents, S!CatchException(a),
         UNCHANGED <<sMsgQue, S!colVars>>
  PROVE  SHold(X)'
<1>1. 0 \in 0..Len(sInbox[a])
  BY LenProperties DEF SHold
<1>. QED
  BY <1>1, SCloseHold, SeqTypes DEF SHold, S!CatchException, S!colVars

\* An agent of the secondary only moves messages.
LEMMA SAgentHold ==
  ASSUME NEW X, SHold(X), SControl, NEW a \in S!Agents, S!AgentThread(a), UNCHANGED S!colVars
  PROVE  SHold(X)'
<1>. USE DEF SHold, S!queueVars, S!netVars, S!colVars
<1>0. <<>> \in Seq(X) /\ sSyncAgent \in S!Agents
  BY EmptySeq DEF SControl
<1>1. CASE S!RaiseFlags(a) \/ S!ReadEof(a) \/ S!AgentWait(a) \/ S!PostAllData(a)
           \/ S!LockQueue(a)
  BY <1>1 DEF S!RaiseFlags, S!ReadEof, S!AgentWait, S!PostAllData, S!LockQueue
<1>2. CASE S!Snapshot(a) \/ S!UnlockQueue(a)
  BY <1>0, <1>2 DEF S!Snapshot, S!UnlockQueue
<1>3. CASE S!RequestAll(a)
  <2>1. CASE S!CatchException(a)
    BY <1>3, <2>1, SCatchHold DEF S!RequestAll
  <2>2. CASE ~S!CatchException(a)
    <3>1. sOutbox' \in [S!Agents -> Seq(Wire(X))]
      BY <1>0, <1>3, <2>2, WireTypes, SSendHold DEF S!RequestAll
    <3>. QED
      BY <1>3, <2>2, <3>1 DEF S!RequestAll
  <2>. QED
    BY <2>1, <2>2
<1>4. CASE S!ReadTransaction(a)
  <2>1. CASE S!CatchException(a) /\ UNCHANGED sMsgQue
    BY <1>4, <2>1, SCatchHold
  <2>2. CASE ~(S!CatchException(a) /\ UNCHANGED sMsgQue)
    <3>1. Head(sInbox[a]).list \in Seq(X) /\ Tail(sInbox[a]) \in Seq(Wire(X))
      BY <1>4, WireList, SeqTypes DEF S!ReadTransaction
    <3>. QED
      BY <1>0, <1>4, <2>2, <3>1 DEF S!ReadTransaction, S!Clear
  <2>. QED
    BY <2>1, <2>2
<1>5. CASE S!ReadThrows(a)
  BY <1>5, SCatchHold DEF S!ReadThrows
<1>6. CASE S!AgentPut(a)
  <2>1. sTrans[a] # <<>>
    BY <1>6 DEF S!AgentPut, SControl
  <2>2. Append(sMsgQue, Head(sTrans[a])) \in Seq(X) /\ Tail(sTrans[a]) \in Seq(X)
    BY <2>1, SeqTypes
  <2>. QED
    BY <1>6, <2>2 DEF S!AgentPut, S!Put
<1>7. CASE S!PostSnapshot(a)
  <2>1. CASE S!CatchException(a)
    BY <1>7, <2>1, SCatchHold DEF S!PostSnapshot
  <2>2. CASE ~S!CatchException(a)
    <3>1. S!Data(sTrans[a]) \in Wire(X)
      BY WireTypes
    <3>2. sOutbox' \in [S!Agents -> Seq(Wire(X))]
      BY <1>7, <2>2, <3>1, SSendHold DEF S!PostSnapshot
    <3>. QED
      BY <1>7, <2>2, <3>2 DEF S!PostSnapshot
  <2>. QED
    BY <2>1, <2>2
<1>. QED
  BY <1>1, <1>2, <1>3, <1>4, <1>5, <1>6, <1>7 DEF S!AgentThread

\* The pings of the secondary and its environment only move messages, but for those that
\* arrive, which are among X.
LEMMA SOtherHold ==
  ASSUME NEW X, SHold(X),
         (\E a \in S!Agents : S!PingThread(a) /\ S!ColIdle) \/ SEnvironment(X)
  PROVE  SHold(X)'
<1>. USE DEF SHold, S!queueVars, S!agentVars, S!netVars, S!colVars, S!AdapterUnchanged,
             S!NetUnchanged
<1>1. ASSUME NEW a \in S!Agents, S!PingThread(a), S!ColIdle
      PROVE  SHold(X)'
  <2>1. CASE S!PingProbe(a) \/ S!PingAnswered(a)
    BY <1>1, <2>1 DEF S!PingProbe, S!PingAnswered, S!ColIdle
  <2>2. CASE S!PingFailsServer(a) \/ S!PingFailsClient(a)
    BY <1>1, <2>2, SCloseHold
    DEF S!PingFailsServer, S!PingFailsClient, S!CloseUnderway, S!ColIdle
  <2>. QED
    BY <1>1, <2>1, <2>2 DEF S!PingThread
<1>2. CASE S!AdapterConnects \/ (\E c \in Seq(Msgs) : c # <<>> /\ S!AdapterSends(c))
  BY <1>2 DEF S!AdapterConnects, S!AdapterSends
<1>3. CASE \E a \in S!Agents : S!Connect(a) \/ S!Serve(a)
  BY <1>3 DEF S!Connect, S!Serve
<1>4. CASE \E a \in S!Agents : S!PeerReads(a)
  BY <1>4, SeqTypes DEF S!PeerReads
<1>5. CASE \E a \in S!Agents, t \in Wire(X) : S!PeerSends(a, t)
  BY <1>5, SeqTypes DEF S!PeerSends
<1>6. CASE S!Cut
  BY <1>6, SeqTypes DEF S!Cut
<1>7. CASE S!Restart
  <2>1. <<>> \in Seq(X) /\ <<>> \in Seq(Wire(X))
    BY EmptySeq
  <2>. QED
    BY <1>7, <2>1 DEF S!Restart
<1>8. CASE S!NodeIdle
  BY <1>8 DEF S!NodeIdle, S!nodeVars
<1>. QED
  BY <1>1, <1>2, <1>3, <1>4, <1>5, <1>6, <1>7, <1>8 DEF SEnvironment

\* Whatever happens, the secondary holds only what it held, what it queues for its adapter
\* and what arrives from the peer.
LEMMA SDoesHold ==
  ASSUME NEW X, SHold(X), SControl, S!Collector => SHead(X), SDoes(X)
  PROVE  SHold(X)'
  BY SCollectorHold, SAgentHold, SOtherHold DEF SDoes, S!ColIdle

\* The steps of the secondary's collector keep its control.
LEMMA SCollectorControl ==
  ASSUME STypes, S!Collector
  PROVE  SControl'
<1>. USE DEF STypes, SControl, S!ColPcs, S!ColGoto, S!queueVars, S!agentVars, S!netVars
<1>0. <<>> \in Seq(Msgs)
  BY EmptySeq
<1>1. CASE S!ColWait \/ S!ColThreshold \/ S!ColSize \/ S!ColTakeWait \/ S!ColInsert
           \/ S!ColPut \/ S!ColTake
  BY <1>1
  DEF S!ColWait, S!ColThreshold, S!ColSize, S!ColTakeWait, S!ColInsert, S!ColPut, S!ColTake
<1>2. CASE S!ColSync
  <2>1. Tail(sData) \in Seq(Msgs) /\ (Len(sData) # 1 => Tail(sData) # <<>>)
    BY <1>2, SeqTypes, TailFull DEF S!ColSync
  <2>. QED
    BY <1>0, <1>2, <2>1 DEF S!ColSync, S!Disconnect
<1>3. CASE S!ColSendClear
  BY <1>0, <1>3 DEF S!ColSendClear, S!Disconnect
<1>. QED
  BY <1>1, <1>2, <1>3 DEF S!Collector

\* The steps of an agent's thread of the secondary keep its control.
LEMMA SAgentControl ==
  ASSUME STypes, NEW a \in S!Agents, S!AgentThread(a), UNCHANGED S!colVars
  PROVE  SControl'
<1>. USE DEF STypes, SControl, S!AgentPcs, S!Goto, S!queueVars, S!netVars, S!colVars
<1>1. CASE S!RaiseFlags(a) \/ S!ReadEof(a) \/ S!AgentWait(a) \/ S!PostAllData(a)
  BY <1>1 DEF S!RaiseFlags, S!ReadEof, S!AgentWait, S!PostAllData
<1>2. CASE S!LockQueue(a) \/ S!Snapshot(a) \/ S!UnlockQueue(a)
  BY <1>2 DEF S!LockQueue, S!Lock, S!Snapshot, S!UnlockQueue, S!UnLock, SHold
<1>3. CASE S!RequestAll(a)
  BY <1>3 DEF S!RequestAll, S!CatchException, S!CloseLink, SHold
<1>4. CASE S!ReadTransaction(a)
  BY <1>4 DEF S!ReadTransaction, S!CatchException, S!CloseLink, SHold
<1>5. CASE S!ReadThrows(a)
  BY <1>5 DEF S!ReadThrows, S!CatchException, S!CloseLink, SHold
<1>6. CASE S!AgentPut(a)
  <2>1. Len(sTrans[a]) # 1 => Tail(sTrans[a]) # <<>>
    BY <1>6, TailFull DEF S!AgentPut, SHold
  <2>. QED
    BY <1>6, <2>1 DEF S!AgentPut, SHold
<1>7. CASE S!PostSnapshot(a)
  BY <1>7 DEF S!PostSnapshot, S!CatchException, S!CloseLink, SHold
<1>. QED
  BY <1>1, <1>2, <1>3, <1>4, <1>5, <1>6, <1>7 DEF S!AgentThread

\* The pings of the secondary and its environment keep its control.
LEMMA SOtherControl ==
  ASSUME STypes, NEW X,
         (\E a \in S!Agents : S!PingThread(a) /\ S!ColIdle) \/ SEnvironment(X)
  PROVE  SControl'
<1>. USE DEF STypes, SControl, S!ColPcs, S!ColGoto, S!AdapterUnchanged, S!NetUnchanged, S!Goto,
             S!queueVars, S!agentVars, S!netVars, S!colVars, S!AgentPcs
<1>1. ASSUME NEW a \in S!Agents, S!PingThread(a), S!ColIdle
      PROVE  SControl'
  <2>1. CASE S!PingProbe(a) \/ S!PingAnswered(a)
    BY <1>1, <2>1 DEF S!PingProbe, S!PingAnswered, S!ColIdle
  <2>2. CASE S!PingFailsServer(a)
    BY <1>1, <2>2 DEF S!PingFailsServer, S!CloseUnderway, S!CloseLink, S!ColIdle
  <2>3. CASE S!PingFailsClient(a)
    <3>1. sSyncAgent + 1 \in S!Agents
      BY <2>3, PairAssumption DEF S!PingFailsClient, S!Agents
    <3>. QED
      BY <1>1, <2>3, <3>1 DEF S!PingFailsClient, S!CloseUnderway, S!CloseLink, S!ColIdle
  <2>. QED
    BY <1>1, <2>1, <2>2, <2>3 DEF S!PingThread
<1>2. CASE S!AdapterConnects \/ (\E c \in Seq(Msgs) : c # <<>> /\ S!AdapterSends(c))
  BY <1>2 DEF S!AdapterConnects, S!AdapterSends
<1>3. CASE \E a \in S!Agents : S!Connect(a) \/ S!Serve(a) \/ S!PeerReads(a)
  BY <1>3 DEF S!Connect, S!Serve, S!PeerReads
<1>4. CASE \E a \in S!Agents, t \in Wire(X) : S!PeerSends(a, t)
  BY <1>4 DEF S!PeerSends
<1>5. CASE S!Cut
  BY <1>5 DEF S!Cut
<1>6. CASE S!Restart
  <2>1. 1 \in S!Agents /\ <<>> \in Seq(Msgs)
    BY PairAssumption, EmptySeq DEF S!Agents
  <2>. QED
    BY <1>6, <2>1 DEF S!Restart
<1>7. CASE S!NodeIdle
  BY <1>7 DEF S!NodeIdle, S!nodeVars
<1>. QED
  BY <1>1, <1>2, <1>3, <1>4, <1>5, <1>6, <1>7 DEF SEnvironment

\* Everything keeps the control of the secondary.
LEMMA SDoesControl ==
  ASSUME STypes, NEW X, SDoes(X)
  PROVE  SControl'
  BY SCollectorControl, SAgentControl, SOtherControl DEF SDoes, S!ColIdle

\* It is a step that module CollectionServer gives a server, or none.
LEMMA SDoesNext ==
  ASSUME STypes, SDoes(Msgs)
  PROVE  [S!Next]_(S!nodeVars)
<1>1. CASE S!Collector \/ S!Restart \/ S!NodeIdle
  BY <1>1 DEF S!Next, S!NodeNext, S!NodeIdle
<1>2. CASE \E a \in S!Agents : (S!AgentThread(a) \/ S!PingThread(a)) /\ S!ColIdle
  BY <1>2 DEF S!Next, S!NodeNext, S!AgentStep
<1>3. CASE S!AdapterConnects
  BY <1>3 DEF S!Next, S!Adapter
<1>4. ASSUME NEW c \in Seq(Msgs), c # <<>>, S!AdapterSends(c)
      PROVE  S!Next
  <2>1. Len(c) <= 4 * MaxMsgs
    BY <1>4, PairAssumption, LenProperties DEF S!AdapterSends, S!Held, STypes, SHold, SControl
  <2>2. c \in S!Chunks
    BY <1>4, <2>1, BoundedChunk DEF S!Chunks
  <2>. QED
    BY <1>4, <2>2 DEF S!Next, S!Adapter
<1>5. CASE \E a \in S!Agents : S!Connect(a) \/ S!Serve(a) \/ S!PeerReads(a)
  BY <1>5 DEF S!Next, S!Network
<1>6. ASSUME NEW a \in S!Agents, NEW t \in Wire(Msgs), S!PeerSends(a, t)
      PROVE  S!Next
  <2>1. t \in S!PeerTransactions
    <3>0. /\ t.list \in Seq(Msgs) /\ sTrans[a] \in Seq(Msgs) /\ Len(t.list) \in Nat
          /\ Len(sTrans[a]) \in Nat /\ Len(sMsgQue) \in Nat
          /\ Len(sData) \in Nat /\ Len(sSescList) \in Nat
      BY WireList, LenProperties DEF STypes, SControl, SHold
    <3>5. Len(sMsgQue) + Len(sData) + Len(sSescList) + Len(sTrans[a]) + Len(t.list)
            <= 4 * MaxMsgs
      BY <1>6, Zenon DEF S!PeerSends, S!Held
    <3>1. Len(t.list) <= 4 * MaxMsgs /\ t.list \in Seq(Msgs)
      BY <3>0, <3>5, LastOfFive
    <3>2. t.list = <<>> \/ t.list \in S!Chunks
      BY <3>1, BoundedChunk DEF S!Chunks
    <3>. QED
      BY <3>2, WireSplit DEF S!PeerTransactions
  <2>. QED
    BY <1>6, <2>1 DEF S!Next, S!Network
<1>7. CASE S!Cut
  <2>1. \E a \in S!Agents : TRUE
    BY <1>7 DEF S!Cut
  <2>. QED
    BY <1>7, <2>1 DEF S!Next, S!Network
<1>. QED
  BY <1>1, <1>2, <1>3, <1>4, <1>5, <1>6, <1>7 DEF SDoes, SEnvironment

\* The start of the secondary is well-typed.
LEMMA SInitTypes ==
  ASSUME S!ProcessInit
  PROVE  STypes
<1>1. /\ <<>> \in Seq(Msgs) /\ <<>> \in Seq(Wire(Msgs))
      /\ 1 \in S!Agents
  BY EmptySeq, PairAssumption DEF S!Agents
<1>2. /\ sSyncAgent \in S!Agents
      /\ sAgPc \in [S!Agents -> S!AgentPcs]
      /\ sTrans \in [S!Agents -> Seq(Msgs)]
  BY <1>1 DEF S!ProcessInit, S!AgentInit, S!AgentPcs
<1>3. /\ sInit \in [S!Agents -> BOOLEAN]
      /\ sConnected \in [S!Agents -> BOOLEAN]
      /\ sProbing \in [S!Agents -> BOOLEAN]
      /\ sWiped \in BOOLEAN
  BY DEF S!ProcessInit, S!AgentInit
<1>4. /\ sLink \in [S!Agents -> {"none", "waiting", "up", "cut"}]
      /\ sInbox \in [S!Agents -> Seq(Wire(Msgs))]
      /\ sOutbox \in [S!Agents -> Seq(Wire(Msgs))]
  BY <1>1 DEF S!ProcessInit, S!AgentInit
<1>5. /\ sMsgQue \in Seq(Msgs) /\ sIsLock \in BOOLEAN
      /\ sColPc \in S!ColPcs /\ sData \in Seq(Msgs) /\ sSescList \in Seq(Msgs)
      /\ sColPc = "listen"
  BY <1>1 DEF S!ProcessInit, S!QueueInit, S!ColPcs
<1>6. \A a \in S!Agents : sAgPc[a] \in {"connect", "off"}
  BY DEF S!ProcessInit, S!AgentInit
<1>. QED
  BY <1>2, <1>3, <1>4, <1>5, <1>6 DEF STypes, SControl, SHold

-----------------------------------------------------------------------------
(* The pair: whatever it does, each server takes a step of its own, of its *)
(* environment, or none.                                                   *)

\* A step of the primary's threads leaves the secondary alone or closes on it.
LEMMA PrimaryEffectDoes ==
  ASSUME PrimaryEffect, NEW X
  PROVE  SEnvironment(X)
  BY DEF PrimaryEffect, CutSecondary, SEnvironment

\* A step of the secondary's threads leaves the primary alone or closes on it.
LEMMA SecondaryEffectDoes ==
  ASSUME SecondaryEffect, NEW X
  PROVE  PEnvironment(X)
  BY DEF SecondaryEffect, CutPrimary, PEnvironment

\* Each step of the pair is one of each server; what arrives was held by the peer.
LEMMA PairDoes ==
  ASSUME produced \in Nat, NEW X, PHold(X), SHold(X), [PairNext]_pairVars
  PROVE  PDoes(X) /\ SDoes(X)
<1>. USE DEF PDoes, SDoes
<1>0. 1 \in P!Agents
  BY DEF P!Agents
<1>1. CASE PrimaryCollector
  BY <1>1, PrimaryEffectDoes DEF PrimaryCollector
<1>2. CASE SecondaryCollector
  BY <1>2, SecondaryEffectDoes DEF SecondaryCollector
<1>3. CASE PrimaryAgent
  BY <1>0, <1>3, PrimaryEffectDoes DEF PrimaryAgent
<1>4. CASE \E a \in S!Agents : SecondaryAgent(a)
  BY <1>4, SecondaryEffectDoes DEF SecondaryAgent
<1>5. CASE Collect
  <2>1. PICK n \in 1..PairChunk :
          LET chunk == [i \in 1..n |-> produced + i]
          IN /\ produced + n <= MaxMsgs
             /\ \/ P!AdapterSends(chunk) /\ S!NodeIdle
                \/ S!AdapterSends(chunk) /\ P!NodeIdle
    BY <1>5 DEF Collect
  <2>2. [i \in 1..n |-> produced + i] \in Seq(Msgs) /\ [i \in 1..n |-> produced + i] # <<>>
    BY <2>1, ChunkTypes
  <2>. QED
    BY <2>1, <2>2 DEF PEnvironment, SEnvironment
<1>6. CASE AdapterConnects
  BY <1>6 DEF AdapterConnects, PEnvironment, SEnvironment
<1>7. CASE Network
  <2>1. PICK a \in S!Agents :
          \/ SecondaryConnects(a) \/ PrimaryAccepts(a)
          \/ DeliverToSecondary(a) \/ DeliverToPrimary(a)
    BY <1>7 DEF Network
  <2>2. CASE SecondaryConnects(a) \/ PrimaryAccepts(a)
    BY <1>0, <2>2 DEF SecondaryConnects, PrimaryAccepts, PEnvironment, SEnvironment
  <2>3. CASE DeliverToSecondary(a)
    <3>1. Head(pOutbox[1]) \in Wire(X)
      BY <1>0, <2>3, SeqTypes DEF DeliverToSecondary, P!PeerReads, PHold
    <3>. QED
      BY <1>0, <2>3, <3>1 DEF DeliverToSecondary, PEnvironment, SEnvironment
  <2>4. CASE DeliverToPrimary(a)
    <3>1. Head(sOutbox[a]) \in Wire(X)
      BY <2>4, SeqTypes DEF DeliverToPrimary, S!PeerReads, SHold
    <3>. QED
      BY <1>0, <2>4, <3>1 DEF DeliverToPrimary, PEnvironment, SEnvironment
  <2>. QED
    BY <2>1, <2>2, <2>3, <2>4
<1>8. CASE Faults
  <2>1. CASE Break
    BY <2>1 DEF Break, PEnvironment, SEnvironment
  <2>2. CASE PingProbes \/ PingAnswers \/ PingFails
    BY <1>0, <2>2, PrimaryEffectDoes, SecondaryEffectDoes
    DEF PingProbes, PingAnswers, PingFails, P!PingThread, S!PingThread
  <2>3. CASE Crash
    BY <2>3 DEF Crash, CutPrimary, CutSecondary, PEnvironment, SEnvironment
  <2>. QED
    BY <1>8, <2>1, <2>2, <2>3 DEF Faults
<1>9. CASE UNCHANGED pairVars
  BY <1>9 DEF pairVars, PEnvironment, SEnvironment, P!NodeIdle, S!NodeIdle
<1>. QED
  BY <1>1, <1>2, <1>3, <1>4, <1>5, <1>6, <1>7, <1>8, <1>9 DEF PairNext

\* The message a collector is queueing is one of the messages.
LEMMA HeadTyped ==
  ASSUME PairTypes
  PROVE  PHead(Msgs) /\ SHead(Msgs)
  BY HeadTailProperties
  DEF PairTypes, PTypes, STypes, PControl, SControl, PHead, SHead

\* Type correctness of the pair.
THEOREM PairTypeCorrect == PairSpec => [](PairTypes /\ produced \in Nat)
<1>1. PairInit => PairTypes /\ produced \in Nat
  BY PInitTypes, SInitTypes DEF PairInit, PairTypes
<1>2. PairTypes /\ produced \in Nat /\ [PairNext]_pairVars => PairTypes'
  BY PairDoes, PDoesControl, SDoesControl, PDoesHold, SDoesHold, HeadTyped
  DEF PairTypes, PTypes, STypes
<1>3. produced \in Nat /\ [PairNext]_pairVars => (produced \in Nat)'
  <2>1. produced \in Nat /\ Collect => produced' \in Nat
    BY DEF Collect
  <2>. QED
    BY <2>1
    DEF PairNext, pairVars, PrimaryCollector, SecondaryCollector, PrimaryAgent,
        SecondaryAgent, AdapterConnects, Network, Faults
<1>. QED
  BY <1>1, <1>2, <1>3, PTL DEF PairSpec

\* The primary of the pair does only what module CollectionServer says that a server in
\* its environment may do: the secondary, the adapters and the network are no more than
\* that environment.
THEOREM PrimaryRefines == PairSpec => PrimaryIsANode
<1>1. PairInit => P!ProcessInit
  BY DEF PairInit
<1>2. PairTypes /\ produced \in Nat /\ [PairNext]_pairVars => [P!Next]_(P!nodeVars)
  BY PairDoes, PDoesNext DEF PairTypes, PTypes, STypes
<1>. QED
  BY <1>1, <1>2, PairTypeCorrect, PTL DEF PairSpec, PrimaryIsANode, P!OpenSpec

\* So does the secondary.
THEOREM SecondaryRefines == PairSpec => SecondaryIsANode
<1>1. PairInit => S!ProcessInit
  BY DEF PairInit
<1>2. PairTypes /\ produced \in Nat /\ [PairNext]_pairVars => [S!Next]_(S!nodeVars)
  BY PairDoes, SDoesNext DEF PairTypes, PTypes, STypes
<1>. QED
  BY <1>1, <1>2, PairTypeCorrect, PTL DEF PairSpec, SecondaryIsANode, S!OpenSpec

-----------------------------------------------------------------------------
(* One collecting server.  The hypotheses of the theorems below are about  *)
(* the constants: who collects, who may crash (PrimaryLives) and how many  *)
(* connections the secondary makes (OneAgent).                             *)

OnlyPrimary == Collectors = {"P"}
PrimaryLives == "P" \notin Crashes

-----------------------------------------------------------------------------
(* Sequences.                                                              *)

\* What the steps of a queue do to the set of its elements.
LEMMA ElementsFacts ==
  ASSUME NEW T
  PROVE  /\ Elements(<<>>) = {}
         /\ \A s \in Seq(T), e \in T : Elements(Append(s, e)) = Elements(s) \cup {e}
         /\ \A s \in Seq(T) : s # <<>> => Elements(s) = {Head(s)} \cup Elements(Tail(s))
         /\ \A s \in Seq(T) : Elements(s) \subseteq T
<1>1. Elements(<<>>) = {}
  BY DEF Elements
<1>2. ASSUME NEW s \in Seq(T), NEW e \in T
      PROVE  Elements(Append(s, e)) = Elements(s) \cup {e}
  <2>1. /\ Append(s, e) \in Seq(T) /\ Len(Append(s, e)) = Len(s) + 1
        /\ \A i \in 1..Len(s) : Append(s, e)[i] = s[i]
        /\ Append(s, e)[Len(s) + 1] = e
    BY AppendProperties
  <2>2. DOMAIN s = 1..Len(s) /\ DOMAIN Append(s, e) = 1..(Len(s) + 1) /\ Len(s) \in Nat
    BY <2>1, LenProperties
  <2>. QED
    BY <2>1, <2>2 DEF Elements
<1>3. ASSUME NEW s \in Seq(T), s # <<>>
      PROVE  Elements(s) = {Head(s)} \cup Elements(Tail(s))
  <2>1. /\ Head(s) = s[1] /\ Tail(s) \in Seq(T) /\ Len(Tail(s)) = Len(s) - 1
        /\ \A i \in 1..Len(Tail(s)) : Tail(s)[i] = s[i + 1]
    BY <1>3, HeadTailProperties
  <2>2. /\ DOMAIN s = 1..Len(s) /\ Len(s) \in Nat /\ Len(s) # 0
        /\ DOMAIN Tail(s) = 1..(Len(s) - 1)
    BY <1>3, <2>1, LenProperties, EmptySeq
  <2>3. \A i \in 1..Len(s) : i = 1 \/ (i - 1 \in 1..(Len(s) - 1) /\ s[i] = Tail(s)[i - 1])
    BY <2>1, <2>2
  <2>4. \A i \in 1..(Len(s) - 1) : i + 1 \in 1..Len(s) /\ Tail(s)[i] = s[i + 1]
    BY <2>1, <2>2
  <2>5. Elements(s) = {s[i] : i \in 1..Len(s)}
    BY <2>2, Zenon DEF Elements
  <2>6. Elements(Tail(s)) = {Tail(s)[i] : i \in 1..(Len(s) - 1)}
    BY <2>2, Zenon DEF Elements
  <2>7. 1 \in 1..Len(s)
    BY <2>2
  <2>8. Elements(s) \subseteq {Head(s)} \cup Elements(Tail(s))
    BY <2>1, <2>3, <2>5, <2>6
  <2>9. {Head(s)} \cup Elements(Tail(s)) \subseteq Elements(s)
    BY <2>1, <2>4, <2>5, <2>6, <2>7
  <2>. QED
    BY <2>8, <2>9
<1>4. ASSUME NEW s \in Seq(T)
      PROVE  Elements(s) \subseteq T
  BY LenProperties, ElementOfSeq DEF Elements
<1>. QED
  BY <1>1, <1>2, <1>3, <1>4

\* A sequence of one element has no tail.
LEMMA TailEmpty ==
  ASSUME NEW T, NEW s \in Seq(T), s # <<>>, Len(s) = 1
  PROVE  Tail(s) = <<>>
<1>1. Tail(s) \in Seq(T) /\ Len(Tail(s)) = 0
  BY HeadTailProperties
<1>. QED
  BY <1>1, EmptySeq

\* A sequence is one over any set that has its elements.
LEMMA ElementsSeq ==
  ASSUME NEW T, NEW s \in Seq(T), NEW X, Elements(s) \subseteq X
  PROVE  s \in Seq(X)
<1>1. DOMAIN s = 1..Len(s) /\ Len(s) \in Nat /\ s \in [1..Len(s) -> T]
  BY LenProperties
<1>2. s \in [1..Len(s) -> X]
  BY <1>1 DEF Elements
<1>. QED
  BY <1>1, <1>2, SeqDef

\* What is among X is among every set that holds X.
LEMMA HoldMono ==
  ASSUME NEW X, NEW Y, X \subseteq Y
  PROVE  /\ Seq(X) \subseteq Seq(Y) /\ Wire(X) \subseteq Wire(Y)
         /\ Seq(Wire(X)) \subseteq Seq(Wire(Y))
         /\ PHold(X) => PHold(Y)
         /\ SHold(X) => SHold(Y)
<1>1. \A U, V : U \subseteq V => Seq(U) \subseteq Seq(V)
  <2>. SUFFICES ASSUME NEW U, NEW V, U \subseteq V, NEW s \in Seq(U)
                PROVE  s \in Seq(V)
    OBVIOUS
  <2>. QED
    BY ElementsFacts, ElementsSeq
<1>2. Seq(X) \subseteq Seq(Y)
  BY <1>1
<1>3. Wire(X) \subseteq Wire(Y)
  BY <1>2 DEF Wire
<1>4. Seq(Wire(X)) \subseteq Seq(Wire(Y))
  BY <1>1, <1>3
<1>5. PHold(X) => PHold(Y)
  BY <1>2, <1>4 DEF PHold
<1>6. SHold(X) => SHold(Y)
  BY <1>2, <1>4 DEF SHold
<1>. QED
  BY <1>2, <1>3, <1>4, <1>5, <1>6

-----------------------------------------------------------------------------
(* The secondary collects nothing, so it never sends a CLEAR.              *)

Clearless == {t \in Wire(Msgs) : t.name # "Clear"}

Quiet ==
  /\ sColPc = "listen"
  /\ sOutbox \in [S!Agents -> Seq(Clearless)]
  /\ pInbox \in [P!Agents -> Seq(Clearless)]

\* Requests and data are not CLEARs.
LEMMA ClearlessTypes ==
  /\ S!GetAll \in Clearless
  /\ \A ms \in Seq(Msgs) : S!Data(ms) \in Clearless
  BY WireTypes DEF Clearless, S!GetAll, S!Data

\* The agents of the secondary send requests and data.
LEMMA QuietAgent ==
  ASSUME STypes, Quiet, NEW a \in S!Agents, S!AgentThread(a) \/ S!PingThread(a)
  PROVE  sOutbox' \in [S!Agents -> Seq(Clearless)]
<1>. USE DEF Quiet, S!netVars
<1>0. sSyncAgent \in S!Agents
  BY DEF STypes, SControl
<1>1. ASSUME NEW b \in S!Agents, NEW t \in Clearless, S!SendMsg(b, t)
      PROVE  sOutbox' \in [S!Agents -> Seq(Clearless)]
  <2>1. Append(sOutbox[b], t) \in Seq(Clearless)
    BY AppendProperties
  <2>. QED
    BY <1>1, <2>1 DEF S!SendMsg
<1>2. ASSUME NEW b \in S!Agents, NEW n, S!CloseLink(b, n)
      PROVE  sOutbox' \in [S!Agents -> Seq(Clearless)]
  <2>1. <<>> \in Seq(Clearless)
    BY EmptySeq
  <2>. QED
    BY <1>2, <2>1 DEF S!CloseLink
<1>3. CASE S!RequestAll(a)
  BY <1>0, <1>1, <1>2, <1>3, ClearlessTypes DEF S!RequestAll, S!CatchException
<1>4. CASE S!PostSnapshot(a)
  <2>1. S!Data(sTrans[a]) \in Clearless
    BY ClearlessTypes DEF STypes, SHold
  <2>. QED
    BY <1>1, <1>2, <1>4, <2>1 DEF S!PostSnapshot, S!CatchException
<1>5. CASE S!ReadTransaction(a) \/ S!ReadThrows(a)
  BY <1>2, <1>5 DEF S!ReadTransaction, S!ReadThrows, S!CatchException
<1>6. CASE S!PingFailsServer(a) \/ S!PingFailsClient(a)
  BY <1>2, <1>6 DEF S!PingFailsServer, S!PingFailsClient, S!CloseUnderway
<1>7. CASE UNCHANGED sOutbox
  BY <1>7
<1>. QED
  BY <1>3, <1>4, <1>5, <1>6, <1>7
  DEF S!AgentThread, S!PingThread, S!RaiseFlags, S!ReadEof, S!AgentWait, S!AgentPut,
      S!PostAllData, S!LockQueue, S!Snapshot, S!UnlockQueue, S!PingProbe, S!PingAnswered

\* The agent of the primary consumes what it was sent.
LEMMA QuietInbox ==
  ASSUME PTypes, Quiet, NEW a \in P!Agents, P!AgentThread(a) \/ P!PingThread(a)
  PROVE  pInbox' \in [P!Agents -> Seq(Clearless)]
<1>. USE DEF Quiet, P!netVars
<1>1. ASSUME NEW n \in 0..Len(pInbox[a]), P!CloseLink(a, n)
      PROVE  pInbox' \in [P!Agents -> Seq(Clearless)]
  <2>1. SubSeq(pInbox[a], 1, n) \in Seq(Clearless)
    BY SeqTypes
  <2>. QED
    BY <1>1, <2>1 DEF P!CloseLink
<1>2. 0 \in 0..Len(pInbox[a])
  BY LenProperties
<1>3. CASE P!CatchException(a)
  BY <1>1, <1>2, <1>3 DEF P!CatchException
<1>4. CASE P!ReadTransaction(a)
  <2>1. Tail(pInbox[a]) \in Seq(Clearless)
    BY <1>4, SeqTypes DEF P!ReadTransaction
  <2>. QED
    BY <1>3, <1>4, <2>1 DEF P!ReadTransaction
<1>5. CASE P!PingFailsServer(a) \/ P!PingFailsClient(a)
  BY <1>1, <1>5 DEF P!PingFailsServer, P!PingFailsClient, P!CloseUnderway
<1>6. CASE UNCHANGED pInbox
  BY <1>6
<1>. QED
  BY <1>3, <1>4, <1>5, <1>6
  DEF P!AgentThread, P!PingThread, P!RaiseFlags, P!RequestAll, P!ReadEof, P!ReadThrows,
      P!AgentWait, P!AgentPut, P!PostAllData, P!LockQueue, P!Snapshot, P!PostSnapshot,
      P!UnlockQueue, P!PingProbe, P!PingAnswered

\* No step of the pair makes the secondary collect, or puts a CLEAR on the way to the
\* primary.
LEMMA QuietStep ==
  ASSUME OnlyPrimary, PairTypes, Quiet, [PairNext]_pairVars
  PROVE  Quiet'
<1>. USE DEF PairTypes, OnlyPrimary
<1>0. 1 \in P!Agents /\ <<>> \in Seq(Clearless)
  BY EmptySeq DEF P!Agents
<1>a. ~S!Collector
  BY DEF Quiet, S!Collector, S!ColWait, S!ColPut, S!ColSync, S!ColThreshold, S!ColSize,
         S!ColTakeWait, S!ColTake, S!ColInsert, S!ColSendClear, S!ColGoto
<1>b. S!NodeIdle => UNCHANGED <<sColPc, sOutbox>>
  BY DEF S!NodeIdle, S!nodeVars, S!netVars, S!colVars
<1>c. P!NodeIdle => UNCHANGED pInbox
  BY DEF P!NodeIdle, P!nodeVars, P!netVars
<1>d. S!Cut => sColPc' = sColPc /\ sOutbox' \in [S!Agents -> Seq(Clearless)]
  BY <1>0 DEF S!Cut, Quiet, S!NetUnchanged, S!colVars
<1>e. P!Cut => UNCHANGED pInbox
  BY DEF P!Cut
<1>f. PrimaryEffect => sColPc' = sColPc /\ sOutbox' \in [S!Agents -> Seq(Clearless)]
  BY <1>b, <1>d DEF PrimaryEffect, CutSecondary, Quiet
<1>g. SecondaryEffect => UNCHANGED pInbox
  BY <1>c, <1>e DEF SecondaryEffect, CutPrimary
<1>1. CASE PrimaryCollector
  <2>1. UNCHANGED pInbox
    BY <1>1 DEF PrimaryCollector, P!Collector, P!ColWait, P!ColPut, P!ColSync,
       P!ColThreshold, P!ColSize, P!ColTakeWait, P!ColTake, P!ColInsert, P!ColSendClear,
       P!netVars
  <2>. QED
    BY <1>1, <1>f, <2>1 DEF PrimaryCollector, Quiet
<1>2. CASE PrimaryAgent
  BY <1>0, <1>2, <1>f, QuietInbox DEF PrimaryAgent, Quiet
<1>3. CASE SecondaryCollector
  BY <1>3, <1>a DEF SecondaryCollector
<1>4. CASE \E a \in S!Agents : SecondaryAgent(a)
  BY <1>4, <1>g, QuietAgent DEF SecondaryAgent, Quiet, S!ColIdle, S!colVars
<1>5. CASE Collect
  BY <1>5, <1>b DEF Collect, Quiet, P!AdapterSends, P!AdapterUnchanged, P!netVars
<1>6. CASE AdapterConnects
  BY <1>6, <1>b DEF AdapterConnects, Quiet, P!AdapterConnects, P!AdapterUnchanged, P!netVars
<1>7. CASE Network
  <2>1. PICK a \in S!Agents :
          \/ SecondaryConnects(a) \/ PrimaryAccepts(a)
          \/ DeliverToSecondary(a) \/ DeliverToPrimary(a)
    BY <1>7 DEF Network
  <2>2. sColPc' = sColPc
    BY <2>1, <1>b DEF SecondaryConnects, PrimaryAccepts, DeliverToSecondary,
       DeliverToPrimary, S!Connect, S!Serve, S!PeerReads, S!PeerSends, S!NetUnchanged,
       S!colVars
  <2>3. sOutbox' = sOutbox \/ (sOutbox[a] # <<>> /\ sOutbox' = [sOutbox EXCEPT ![a] = Tail(@)])
    BY <2>1 DEF SecondaryConnects, PrimaryAccepts, DeliverToSecondary, DeliverToPrimary,
       S!Connect, S!Serve, S!PeerReads, S!PeerSends
  <2>4. \/ pInbox' = pInbox
        \/ /\ sOutbox[a] # <<>>
           /\ pInbox' = [pInbox EXCEPT ![1] = Append(@, Head(sOutbox[a]))]
    BY <2>1, <1>c DEF SecondaryConnects, PrimaryAccepts, DeliverToSecondary,
       DeliverToPrimary, P!Connect, P!Serve, P!PeerReads, P!PeerSends, S!PeerReads
  <2>5. sOutbox[a] # <<>> => Head(sOutbox[a]) \in Clearless /\ Tail(sOutbox[a]) \in Seq(Clearless)
    BY SeqTypes DEF Quiet
  <2>6. pInbox' \in [P!Agents -> Seq(Clearless)]
    <3>1. sOutbox[a] # <<>> => Append(pInbox[1], Head(sOutbox[a])) \in Seq(Clearless)
      BY <1>0, <2>5, AppendProperties DEF Quiet
    <3>. QED
      BY <2>4, <3>1 DEF Quiet
  <2>7. sOutbox' \in [S!Agents -> Seq(Clearless)]
    BY <2>3, <2>5 DEF Quiet
  <2>. QED
    BY <2>2, <2>6, <2>7 DEF Quiet
<1>8. CASE Faults
  <2>1. CASE Break
    BY <2>1, <1>d, <1>e DEF Break, Quiet
  <2>2. ASSUME P!PingThread(1), PrimaryEffect
        PROVE  Quiet'
    BY <1>0, <1>f, <2>2, QuietInbox DEF Quiet
  <2>3. ASSUME NEW a \in S!Agents, S!PingThread(a), S!ColIdle, SecondaryEffect
        PROVE  Quiet'
    BY <1>g, <2>3, QuietAgent DEF Quiet, S!ColIdle, S!colVars
  <2>4. CASE PingProbes \/ PingAnswers \/ PingFails
    BY <2>2, <2>3, <2>4 DEF PingProbes, PingAnswers, PingFails, P!PingThread, S!PingThread
  <2>5. CASE Crash
    <3>1. CASE P!Restart /\ CutSecondary
      <4>1. pInbox' \in [P!Agents -> Seq(Clearless)]
        BY <1>0, <3>1 DEF P!Restart
      <4>. QED
        BY <1>b, <1>d, <3>1, <4>1 DEF CutSecondary, Quiet
    <3>2. CASE S!Restart /\ (P!NodeIdle \/ CutPrimary)
      <4>1. sColPc' = "listen" /\ sOutbox' \in [S!Agents -> Seq(Clearless)]
        BY <1>0, <3>2 DEF S!Restart
      <4>. QED
        BY <1>c, <1>e, <3>2, <4>1 DEF CutPrimary, Quiet
    <3>. QED
      BY <2>5, <3>1, <3>2 DEF Crash
  <2>. QED
    BY <1>8, <2>1, <2>4, <2>5 DEF Faults
<1>9. CASE UNCHANGED pairVars
  BY <1>9 DEF pairVars, P!nodeVars, S!nodeVars, P!netVars, S!netVars, S!colVars, Quiet
<1>. QED
  BY <1>1, <1>2, <1>3, <1>4, <1>5, <1>6, <1>7, <1>8, <1>9 DEF PairNext

\* As long as no adapter sends to it, the secondary inserts nothing and never tells the
\* primary to clear its queue, whatever is restarted.
THEOREM SecondaryQuiet == OnlyPrimary /\ PairSpec => []Quiet
<1>1. PairInit => Quiet
  <2>1. <<>> \in Seq(Clearless)
    BY EmptySeq
  <2>. QED
    BY <2>1 DEF PairInit, P!ProcessInit, S!ProcessInit, P!AgentInit, S!AgentInit, Quiet
<1>. SUFFICES ASSUME OnlyPrimary PROVE PairSpec => []Quiet
  OBVIOUS
<1>2. PairTypes /\ Quiet /\ [PairNext]_pairVars => Quiet'
  BY QuietStep
<1>. QED
  BY <1>1, <1>2, PairTypeCorrect, PTL DEF PairSpec

-----------------------------------------------------------------------------
(* What a step of the pair does to the messages at the primary.            *)

home    == <<pMsgQue, pColPc, pData, pSescList>>
history == <<produced, flushed, early, dropped>>

\* An agent of the primary, to which no CLEAR is sent, only adds to the queue.
LEMMA PrimaryAgentQueue ==
  ASSUME PTypes, Quiet, NEW a \in P!Agents, P!AgentThread(a) \/ P!PingThread(a)
  PROVE  \/ pMsgQue' = pMsgQue
         \/ P!AgentPut(a)
<1>1. CASE P!ReadTransaction(a)
  <2>1. Head(pInbox[a]).name # "Clear"
    <3>1. Head(pInbox[a]) \in Clearless
      BY <1>1, SeqTypes DEF P!ReadTransaction, Quiet
    <3>. QED
      BY <3>1 DEF Clearless
  <2>. QED
    BY <1>1, <2>1 DEF P!ReadTransaction
<1>2. CASE ~P!ReadTransaction(a)
  BY <1>2
  DEF P!AgentThread, P!PingThread, P!RaiseFlags, P!RequestAll, P!ReadEof, P!ReadThrows,
      P!AgentWait, P!PostAllData, P!LockQueue, P!Snapshot, P!PostSnapshot,
      P!UnlockQueue, P!PingProbe, P!PingAnswered, P!PingFailsServer, P!PingFailsClient,
      P!queueVars
<1>. QED
  BY <1>1, <1>2

\* The primary is not restarted in this step.
PrimaryStays == "P" \in Crashes => ~P!Restart

\* The steps of the pair that can touch what the primary collects: its collector, a new
\* chunk or a new adapter, and the messages its agent puts back.
LEMMA MovesUnlessRestart ==
  ASSUME OnlyPrimary, PrimaryStays, PairTypes, Quiet, [PairNext]_pairVars
  PROVE  \/ PrimaryCollector
         \/ Collect /\ \E n \in 1..PairChunk :
              /\ produced + n <= MaxMsgs /\ produced' = produced + n
              /\ P!AdapterSends([i \in 1..n |-> produced + i])
         \/ P!AdapterConnects /\ UNCHANGED history
         \/ P!AgentPut(1) /\ UNCHANGED <<pColPc, pData, pSescList, history, table>>
         \/ UNCHANGED <<home, history, table>>
<1>. USE DEF PairTypes, OnlyPrimary, PrimaryStays, home, history, P!colVars, P!queueVars
<1>0. 1 \in P!Agents
  BY DEF P!Agents
<1>a. ~S!Collector
  BY DEF Quiet, S!Collector, S!ColWait, S!ColPut, S!ColSync, S!ColThreshold, S!ColSize,
         S!ColTakeWait, S!ColTake, S!ColInsert, S!ColSendClear, S!ColGoto
<1>b. P!NodeIdle => UNCHANGED home
  BY DEF P!NodeIdle, P!nodeVars
<1>c. P!Cut => UNCHANGED home
  BY DEF P!Cut, P!NetUnchanged
<1>d. SecondaryEffect => UNCHANGED home
  BY <1>b, <1>c DEF SecondaryEffect, CutPrimary
<1>e. ASSUME P!AgentThread(1) \/ P!PingThread(1), P!ColIdle
      PROVE  /\ \/ P!AgentPut(1) /\ UNCHANGED <<pColPc, pData, pSescList>>
                \/ UNCHANGED home
             /\ UNCHANGED table
  BY <1>0, <1>e, PrimaryAgentQueue DEF P!ColIdle
<1>1. CASE PrimaryCollector
  BY <1>1
<1>2. CASE PrimaryAgent
  <2>1. UNCHANGED history
    BY <1>2 DEF PrimaryAgent
  <2>. QED
    BY <1>2, <1>e, <2>1 DEF PrimaryAgent
<1>3. CASE SecondaryCollector
  BY <1>3, <1>a DEF SecondaryCollector
<1>4. CASE \E a \in S!Agents : SecondaryAgent(a)
  BY <1>4, <1>d DEF SecondaryAgent, S!ColIdle
<1>5. CASE Collect
  BY <1>5 DEF Collect
<1>6. CASE AdapterConnects
  BY <1>6 DEF AdapterConnects
<1>7. CASE Network
  BY <1>7, <1>b DEF Network, SecondaryConnects, PrimaryAccepts, DeliverToSecondary,
     DeliverToPrimary, P!Connect, P!PeerReads, P!PeerSends, P!NetUnchanged, S!Connect,
     S!Serve, S!PeerReads, S!PeerSends, S!NetUnchanged
<1>8. CASE Faults
  <2>1. UNCHANGED history
    BY <1>8 DEF Faults
  <2>2. CASE Break
    BY <1>c, <2>1, <2>2 DEF Break, P!Cut, P!NetUnchanged
  <2>3. CASE PingProbes \/ PingAnswers \/ PingFails
    <3>1. CASE P!PingThread(1) /\ P!ColIdle
      BY <1>e, <2>1, <3>1
    <3>2. CASE S!ColIdle /\ SecondaryEffect
      BY <1>d, <2>1, <3>2 DEF S!ColIdle
    <3>. QED
      BY <2>3, <3>1, <3>2 DEF PingProbes, PingAnswers, PingFails, P!PingThread
  <2>4. CASE Crash
    BY <1>b, <1>c, <2>1, <2>4 DEF Crash, CutPrimary, S!Restart
  <2>. QED
    BY <1>8, <2>2, <2>3, <2>4 DEF Faults
<1>9. CASE UNCHANGED pairVars
  BY <1>9 DEF pairVars, P!nodeVars
<1>. QED
  BY <1>1, <1>2, <1>3, <1>4, <1>5, <1>6, <1>7, <1>8, <1>9 DEF PairNext

\* So they are in every step, if the primary is never restarted.
LEMMA PrimaryMoves ==
  ASSUME OnlyPrimary, PrimaryLives, PairTypes, Quiet, [PairNext]_pairVars
  PROVE  \/ PrimaryCollector
         \/ Collect /\ \E n \in 1..PairChunk :
              /\ produced + n <= MaxMsgs /\ produced' = produced + n
              /\ P!AdapterSends([i \in 1..n |-> produced + i])
         \/ P!AdapterConnects /\ UNCHANGED history
         \/ P!AgentPut(1) /\ UNCHANGED <<pColPc, pData, pSescList, history, table>>
         \/ UNCHANGED <<home, history, table>>
<1>1. PrimaryStays
  BY DEF PrimaryStays, PrimaryLives
<1>. QED
  BY <1>1, MovesUnlessRestart

-----------------------------------------------------------------------------
(* Nothing is lost.                                                        *)

\* What the counter of the primary's collector says of its data and its batch.
Stages ==
  /\ pColPc \notin {"put", "append", "sync"} => pData = <<>>
  /\ pColPc \notin {"size", "takewait", "take", "insert"} => pSescList = <<>>
  /\ pColPc = "sync" => Head(pData) \in Elements(pMsgQue)

Kept == Stages /\ NothingLost

\* The collector takes from the queue into the batch, and drops only what it records.
LEMMA KeptCollector ==
  ASSUME PairTypes, produced \in Nat, Kept, PrimaryCollector
  PROVE  Kept'
<1>. DEFINE All == Elements(pData) \cup Elements(pMsgQue) \cup Elements(pSescList)
                     \cup flushed \cup dropped
<1>. USE DEF Kept, Stages, NothingLost, P!ColGoto, P!queueVars, PairTypes, PTypes, PControl, PHold
<1>0. UNCHANGED produced /\ P!Collector
      /\ flushed' = (IF pColPc = "insert" THEN flushed \cup Elements(pSescList) ELSE flushed)
      /\ dropped' = dropped \cup Dropped(pColPc, pColPc', pData)
  BY DEF PrimaryCollector
<1>1. CASE P!ColWait \/ P!ColThreshold \/ P!ColSize \/ P!ColTakeWait
  <2>1. flushed' = flushed /\ dropped' = dropped
    BY <1>0, <1>1 DEF Dropped, P!ColWait, P!ColThreshold, P!ColSize, P!ColTakeWait
  <2>. QED
    BY <1>0, <1>1, <2>1
    DEF P!ColWait, P!ColThreshold, P!ColSize, P!ColTakeWait
<1>2. CASE P!ColPut
  <2>1. flushed' = flushed /\ dropped' = dropped
    BY <1>0, <1>2 DEF Dropped, P!ColPut
  <2>2. Elements(pMsgQue') = Elements(pMsgQue) \cup {Head(pData)}
    BY <1>2, ElementsFacts, SeqTypes DEF P!ColPut, P!Put
  <2>. QED
    BY <1>0, <1>2, <2>1, <2>2 DEF P!ColPut
<1>3. CASE P!ColSync
  <2>1. flushed' = flushed
    BY <1>0, <1>3 DEF P!ColSync
  <2>2. Elements(pData) = {Head(pData)} \cup Elements(Tail(pData))
    BY <1>3, ElementsFacts DEF P!ColSync
  <2>3. CASE pData' = Tail(pData) /\ pColPc' = (IF Len(pData) = 1 THEN "threshold" ELSE "put")
    <3>1. dropped' = dropped
      BY <1>0, <2>3 DEF Dropped
    <3>2. Len(pData) = 1 => Tail(pData) = <<>>
      BY <1>3, TailEmpty DEF P!ColSync
    <3>. QED
      BY <1>0, <1>3, <2>1, <2>2, <2>3, <3>1, <3>2 DEF P!ColSync
  <2>4. CASE P!Disconnect
    <3>1. dropped' = dropped \cup Elements(Tail(pData))
      BY <1>0, <1>3, <2>4 DEF Dropped, P!ColSync, P!Disconnect
    <3>. QED
      BY <1>0, <1>3, <2>1, <2>2, <2>4, <3>1 DEF P!ColSync, P!Disconnect
  <2>. QED
    BY <1>3, <2>3, <2>4 DEF P!ColSync
<1>4. CASE P!ColTake
  <2>1. flushed' = flushed /\ dropped' = dropped
    BY <1>0, <1>4 DEF Dropped, P!ColTake
  <2>2. /\ Elements(pMsgQue) = {Head(pMsgQue)} \cup Elements(pMsgQue')
        /\ Elements(pSescList') = Elements(pSescList) \cup {Head(pMsgQue)}
    BY <1>4, ElementsFacts, SeqTypes DEF P!ColTake, P!CanTake, P!Take
  <2>. QED
    BY <1>0, <1>4, <2>1, <2>2 DEF P!ColTake
<1>5. CASE P!ColInsert
  <2>1. flushed' = flushed \cup Elements(pSescList) /\ dropped' = dropped
    BY <1>0, <1>5 DEF Dropped, P!ColInsert
  <2>. QED
    BY <1>0, <1>5, <2>1 DEF P!ColInsert
<1>6. CASE P!ColSendClear
  <2>1. flushed' = flushed /\ dropped' = dropped
    BY <1>0, <1>6 DEF Dropped, P!ColSendClear
  <2>2. Elements(pData') = Elements(pData)
    BY <1>6 DEF P!ColSendClear, P!Disconnect
  <2>. QED
    BY <1>0, <1>6, <2>1, <2>2 DEF P!ColSendClear, P!Disconnect
<1>. QED
  BY <1>0, <1>1, <1>2, <1>3, <1>4, <1>5, <1>6 DEF P!Collector

\* A new chunk is in the collector's hands.
LEMMA ChunkElements ==
  ASSUME produced \in Nat, NEW n \in 1..PairChunk, produced + n <= MaxMsgs
  PROVE  Elements([i \in 1..n |-> produced + i]) = (produced + 1)..(produced + n)
<1>1. n \in Nat
  BY PairAssumption
<1>2. \A k \in (produced + 1)..(produced + n) : k - produced \in 1..n /\ produced + (k - produced) = k
  BY <1>1
<1>3. \A i \in 1..n : produced + i \in (produced + 1)..(produced + n)
  BY <1>1
<1>. QED
  BY <1>2, <1>3 DEF Elements

\* Every step keeps every message produced.
LEMMA KeptStep ==
  ASSUME OnlyPrimary, PrimaryLives, PairTypes, produced \in Nat, Quiet, Kept,
         [PairNext]_pairVars
  PROVE  Kept'
<1>. USE DEF Kept, Stages, NothingLost
<1>1. CASE PrimaryCollector
  BY <1>1, KeptCollector
<1>2. ASSUME Collect, NEW n \in 1..PairChunk, produced + n <= MaxMsgs,
             produced' = produced + n, P!AdapterSends([i \in 1..n |-> produced + i])
      PROVE  Kept'
  <2>1. /\ UNCHANGED <<pMsgQue, pSescList, flushed, dropped>>
        /\ pColPc = "read" /\ pColPc' = "put" /\ pData' = [i \in 1..n |-> produced + i]
    BY <1>2 DEF Collect, P!AdapterSends, P!AdapterUnchanged, P!ColGoto, P!queueVars
  <2>2. Elements(pData') = (produced + 1)..(produced + n) /\ Elements(pData) = {}
    BY <1>2, <2>1, ChunkElements, ElementsFacts
  <2>3. \A m \in 1..(produced + n) : m \in 1..produced \/ m \in (produced + 1)..(produced + n)
    BY PairAssumption
  <2>. QED
    BY <1>2, <2>1, <2>2, <2>3
<1>3. CASE P!AdapterConnects /\ UNCHANGED history
  BY <1>3 DEF P!AdapterConnects, P!ColGoto, P!AdapterUnchanged, P!queueVars, history
<1>4. CASE P!AgentPut(1) /\ UNCHANGED <<pColPc, pData, pSescList, history, table>>
  <2>1. 1 \in P!Agents
    BY DEF P!Agents
  <2>2. Head(pTrans[1]) \in Msgs /\ pMsgQue \in Seq(Msgs)
    BY <1>4, <2>1, SeqTypes DEF P!AgentPut, PairTypes, PTypes, PControl, PHold
  <2>3. Elements(pMsgQue') = Elements(pMsgQue) \cup {Head(pTrans[1])}
    BY <1>4, <2>2, ElementsFacts DEF P!AgentPut, P!Put
  <2>. QED
    BY <1>4, <2>3 DEF history
<1>5. CASE UNCHANGED <<home, history, table>>
  BY <1>5 DEF home, history
<1>. QED
  BY <1>1, <1>2, <1>3, <1>4, <1>5, PrimaryMoves

\* With all adapters at the primary, whatever the standby, the connection and the
\* restarts of the standby do, every message produced waits at the primary, went through
\* an insert, or was dropped by the exception of a forwarding that threw: no CLEAR, no
\* posting and no message put back costs the primary one.
THEOREM NothingIsLost == OnlyPrimary /\ PrimaryLives /\ PairSpec => []NothingLost
<1>. SUFFICES ASSUME OnlyPrimary, PrimaryLives PROVE PairSpec => []NothingLost
  OBVIOUS
<1>1. PairInit => Kept
  BY PairAssumption
  DEF PairInit, P!ProcessInit, P!QueueInit, Kept, Stages, NothingLost
<1>2. PairTypes /\ produced \in Nat /\ Quiet /\ Kept /\ [PairNext]_pairVars => Kept'
  BY KeptStep
<1>3. PairSpec => []Kept
  BY <1>1, <1>2, PairTypeCorrect, SecondaryQuiet, PTL DEF PairSpec
<1>4. Kept => NothingLost
  BY DEF Kept
<1>. QED
  BY <1>3, <1>4, PTL


-----------------------------------------------------------------------------
(* What the servers hold, whatever it is, only grows by what is queued.    *)

\* The primary and the secondary hold only messages of X.
PairHold(X) == PHold(X) /\ SHold(X)

\* What is held stays among the same messages, if those the collectors queue are.
LEMMA HoldStep ==
  ASSUME OnlyPrimary, PairTypes, produced \in Nat, Quiet, [PairNext]_pairVars,
         NEW X, PairHold(X), P!Collector => PHead(X)
  PROVE  PairHold(X)'
<1>1. ~S!Collector
  BY DEF Quiet, S!Collector, S!ColWait, S!ColPut, S!ColSync, S!ColThreshold, S!ColSize,
         S!ColTakeWait, S!ColTake, S!ColInsert, S!ColSendClear, S!ColGoto
<1>. QED
  BY <1>1, PairDoes, PDoesHold, SDoesHold DEF PairHold, PairTypes, PTypes, STypes

\* What is held then among X is held among every set that holds X.
LEMMA HoldLater ==
  ASSUME NEW X, NEW Y, X \subseteq Y, PairHold(X)'
  PROVE  PairHold(Y)'
<1>1. Seq(X) \subseteq Seq(Y) /\ Seq(Wire(X)) \subseteq Seq(Wire(Y))
  BY HoldMono
<1>2. PHold(Y)'
  BY <1>1 DEF PairHold, PHold
<1>3. SHold(Y)'
  BY <1>1 DEF PairHold, SHold
<1>. QED
  BY <1>2, <1>3 DEF PairHold

-----------------------------------------------------------------------------
(* The messages of the adapter come in order: nothing is held that is not  *)
(* older than what the collector still has to queue.                       *)

\* What the primary's collector has read and not queued.
Unread == IF pColPc = "sync" THEN Elements(Tail(pData)) ELSE Elements(pData)

Older(y) == {x \in Msgs : x < y}

InOrder ==
  /\ produced <= MaxMsgs
  /\ \A i, j \in DOMAIN pData : i < j => pData[i] < pData[j]
  /\ PairHold(1..produced) /\ Elements(pData) \subseteq 1..produced
  /\ \A y \in Unread : PairHold(Older(y))

\* The elements of the tail of an ascending sequence are greater than its head.
LEMMA AscendingTail ==
  ASSUME NEW s \in Seq(Msgs), s # <<>>,
         \A i, j \in DOMAIN s : i < j => s[i] < s[j]
  PROVE  /\ \A y \in Elements(Tail(s)) : Head(s) < y
         /\ \A i, j \in DOMAIN Tail(s) : i < j => Tail(s)[i] < Tail(s)[j]
<1>1. /\ Head(s) = s[1] /\ Tail(s) \in Seq(Msgs) /\ Len(Tail(s)) = Len(s) - 1
      /\ \A i \in 1..Len(Tail(s)) : Tail(s)[i] = s[i + 1]
  BY HeadTailProperties
<1>2. /\ DOMAIN s = 1..Len(s) /\ Len(s) \in Nat /\ Len(s) # 0
      /\ DOMAIN Tail(s) = 1..(Len(s) - 1)
  BY <1>1, LenProperties, EmptySeq
<1>3. \A i \in DOMAIN Tail(s) :
        1 \in DOMAIN s /\ i + 1 \in DOMAIN s /\ 1 < i + 1 /\ Tail(s)[i] = s[i + 1]
  BY <1>1, <1>2
<1>4. \A i, j \in DOMAIN Tail(s) : i < j => i + 1 < j + 1
  BY <1>2
<1>5. \A i \in DOMAIN Tail(s) : Head(s) < Tail(s)[i]
  BY <1>1, <1>3
<1>6. \A i, j \in DOMAIN Tail(s) : i < j => Tail(s)[i] < Tail(s)[j]
  BY <1>3, <1>4
<1>. QED
  BY <1>5, <1>6 DEF Elements

\* Only a new chunk adds to what is unread; a message that is queued is older than what
\* is left.
LEMMA UnreadStep ==
  ASSUME OnlyPrimary, PrimaryLives, PairTypes, produced \in Nat, Quiet, Stages, InOrder,
         [PairNext]_pairVars, ~Collect
  PROVE  /\ UNCHANGED produced
         /\ Unread' \subseteq Unread
         /\ P!Collector => \A y \in Unread' : PHead(Older(y))
         /\ pData' = pData \/ pData' = <<>> \/ (pData # <<>> /\ pData' = Tail(pData))
<1>. USE DEF Unread
<1>0. pData \in Seq(Msgs) /\ (pColPc \in {"put", "append", "sync"} => pData # <<>>)
  BY DEF PairTypes, PTypes, PControl
<1>1. Elements(<<>>) = {} /\ (pData # <<>> => Elements(pData) = {Head(pData)} \cup Elements(Tail(pData)))
  BY <1>0, ElementsFacts
<1>2. pData # <<>> => /\ Head(pData) \in Msgs
                      /\ \A y \in Elements(Tail(pData)) : Head(pData) < y
  BY <1>0, AscendingTail, SeqTypes DEF InOrder
<1>3. CASE P!Collector /\ UNCHANGED produced
  <2>1. CASE pColPc = "append"
    <3>1. pColPc' = "sync" /\ pData' = pData
      BY <1>3, <2>1
      DEF P!Collector, P!ColWait, P!ColPut, P!ColSync, P!ColThreshold, P!ColSize,
          P!ColTakeWait, P!ColTake, P!ColInsert, P!ColSendClear, P!ColGoto
    <3>. QED
      BY <1>0, <1>1, <1>2, <1>3, <2>1, <3>1 DEF PHead, Older
  <2>2. CASE pColPc = "sync"
    <3>1. \/ pColPc' \in {"threshold", "put"} /\ pData' = Tail(pData)
          \/ pColPc' = "listen" /\ pData' = <<>>
      BY <1>3, <2>2
      DEF P!Collector, P!ColWait, P!ColPut, P!ColSync, P!ColThreshold, P!ColSize,
          P!ColTakeWait, P!ColTake, P!ColInsert, P!ColSendClear, P!ColGoto, P!Disconnect
    <3>. QED
      BY <1>0, <1>1, <1>2, <1>3, <2>2, <3>1 DEF PHead, Older
  <2>3. CASE pColPc \notin {"append", "sync"}
    <3>1. pColPc' # "sync" /\ (pData' = pData \/ pData' = <<>>)
      BY <1>3, <2>3
      DEF P!Collector, P!ColWait, P!ColPut, P!ColSync, P!ColThreshold, P!ColSize,
          P!ColTakeWait, P!ColTake, P!ColInsert, P!ColSendClear, P!ColGoto, P!Disconnect
    <3>. QED
      BY <1>1, <1>3, <2>3, <3>1 DEF PHead
  <2>. QED
    BY <2>1, <2>2, <2>3
<1>4. CASE ~P!Collector
  <2>1. CASE P!AdapterConnects /\ UNCHANGED history
    BY <1>1, <1>4, <2>1 DEF P!AdapterConnects, P!ColGoto, P!AdapterUnchanged, history
  <2>2. CASE UNCHANGED <<pColPc, pData, produced>>
    BY <1>4, <2>2
  <2>. QED
    BY <1>4, <2>1, <2>2, PrimaryMoves DEF PrimaryCollector, home, history
<1>5. PrimaryCollector => P!Collector /\ UNCHANGED produced
  BY DEF PrimaryCollector
<1>6. P!Collector => UNCHANGED produced
  BY <1>5, PrimaryMoves DEF history
<1>. QED
  BY <1>3, <1>4, <1>6

\* What is held after a step that produces nothing that is held was produced.
LEMMA HoldProduced ==
  ASSUME OnlyPrimary, PairTypes, produced \in Nat, Quiet, [PairNext]_pairVars,
         PairHold(1..produced), P!Collector => PHead(1..produced),
         produced' \in Nat, produced <= produced'
  PROVE  PairHold(1..produced)'
<1>1. PICK X : X = 1..produced
  OBVIOUS
<1>2. PICK Y : Y = 1..produced'
  OBVIOUS
<1>3. PairHold(X)'
  BY <1>1, HoldStep
<1>4. X \subseteq Y
  BY <1>1, <1>2
<1>5. PairHold(Y)'
  BY <1>3, <1>4, HoldLater
<1>6. PHold(Y)' /\ SHold(Y)'
  BY <1>5 DEF PairHold
<1>7. PHold(1..produced)'
  BY <1>2, <1>6 DEF PHold
<1>8. SHold(1..produced)'
  BY <1>2, <1>6 DEF SHold
<1>. QED
  BY <1>7, <1>8 DEF PairHold

\* The order holds over every step.
LEMMA InOrderStep ==
  ASSUME OnlyPrimary, PrimaryLives, PairTypes, produced \in Nat, Quiet, Stages, InOrder,
         [PairNext]_pairVars
  PROVE  InOrder'
<1>0. pData \in Seq(Msgs) /\ Elements(<<>>) = {}
  BY ElementsFacts DEF PairTypes, PTypes, PControl
<1>1. CASE Collect
  <2>1. PICK n \in 1..PairChunk :
          /\ produced + n <= MaxMsgs /\ produced' = produced + n
          /\ P!AdapterSends([i \in 1..n |-> produced + i])
    BY <1>1 DEF Collect, OnlyPrimary
  <2>2. /\ pColPc = "read" /\ pColPc' = "put"
        /\ pData' = [i \in 1..n |-> produced + i]
    BY <2>1 DEF P!AdapterSends, P!ColGoto
  <2>3. n \in Nat /\ Elements(pData') = (produced + 1)..(produced + n)
    BY <2>1, <2>2, ChunkElements, PairAssumption
  <2>4. produced' <= MaxMsgs /\ Elements(pData') \subseteq 1..produced'
    BY <2>1, <2>3, PairAssumption
  <2>5. \A i, j \in DOMAIN pData' : i < j => pData'[i] < pData'[j]
    BY <2>2, <2>3
  <2>6. \A X : PHead(X)
    BY <2>2 DEF PHead
  <2>7. PairHold(1..produced)'
    BY <2>1, <2>3, <2>6, HoldProduced DEF InOrder
  <2>8. ASSUME NEW y \in Unread'
        PROVE  PairHold(Older(y))'
    <3>1. y \in (produced + 1)..(produced + n)
      BY <2>2, <2>3 DEF Unread
    <3>2. PICK X : X = 1..produced
      OBVIOUS
    <3>3. X \subseteq Older(y)
      BY <2>1, <2>3, <3>1, <3>2, PairAssumption DEF Older, Msgs
    <3>4. PairHold(X)'
      BY <2>6, <3>2, HoldStep DEF InOrder
    <3>. QED
      BY <3>3, <3>4, HoldLater
  <2>. QED
    BY <2>4, <2>5, <2>7, <2>8 DEF InOrder
<1>2. CASE ~Collect
  <2>1. /\ produced' = produced /\ Unread' \subseteq Unread
        /\ P!Collector => \A y \in Unread' : PHead(Older(y))
        /\ pData' = pData \/ pData' = <<>> \/ (pData # <<>> /\ pData' = Tail(pData))
    BY <1>2, UnreadStep
  <2>2. pData # <<>> => Elements(pData) = {Head(pData)} \cup Elements(Tail(pData))
    BY <1>0, ElementsFacts
  <2>3. Elements(pData') \subseteq 1..produced'
    BY <1>0, <2>1, <2>2 DEF InOrder
  <2>4. \A i, j \in DOMAIN pData' : i < j => pData'[i] < pData'[j]
    <3>1. CASE pData' = pData
      BY <3>1 DEF InOrder
    <3>2. CASE pData' = <<>>
      BY <3>2
    <3>3. CASE pData # <<>> /\ pData' = Tail(pData)
      BY <1>0, <3>3, AscendingTail DEF InOrder
    <3>. QED
      BY <2>1, <3>1, <3>2, <3>3
  <2>5. PHead(1..produced)
    <3>1. pColPc \in {"append", "sync"} => pData # <<>>
      BY DEF PairTypes, PTypes, PControl
    <3>. QED
      BY <2>2, <3>1 DEF PHead, InOrder
  <2>6. PairHold(1..produced)'
    BY <2>1, <2>5, HoldProduced DEF InOrder
  <2>7. ASSUME NEW y \in Unread'
        PROVE  PairHold(Older(y))'
    BY <2>1, HoldStep DEF InOrder
  <2>. QED
    BY <2>1, <2>3, <2>4, <2>6, <2>7 DEF InOrder
<1>. QED
  BY <1>1, <1>2

\* Nothing is held at first.
LEMMA InOrderInit ==
  ASSUME PairInit
  PROVE  InOrder
<1>1. \A X : <<>> \in Seq(X) /\ <<>> \in Seq(Wire(X))
  BY EmptySeq
<1>2. \A X : PairHold(X)
  BY <1>1
  DEF PairInit, P!ProcessInit, S!ProcessInit, P!QueueInit, S!QueueInit, P!AgentInit,
      S!AgentInit, PairHold, PHold, SHold
<1>3. Unread = {} /\ pData = <<>> /\ Elements(pData) = {} /\ produced = 0
  BY ElementsFacts DEF PairInit, P!ProcessInit, Unread
<1>. QED
  BY <1>2, <1>3, PairAssumption DEF InOrder

-----------------------------------------------------------------------------
(* Data is dropped only for a cause.                                       *)

\* A message that is not XML was produced, and all that is unread came after it.
BadSeen == \E b \in PairBad : b \in 1..produced /\ \A y \in Unread : b < y

\* Nothing broke yet: the primary's flag says what its connection is, and its agent is
\* either connecting or connected.
PCalm ==
  /\ pConnected[1] => pLink[1] = "up"
  /\ pAgPc[1] # "connect" <=> pLink[1] = "up"

\* So is the secondary's, and it is the only one.
SCalm ==
  /\ sSyncAgent = 1
  /\ \A a \in S!Agents :
       /\ sConnected[a] => sAgPc[a] \notin {"off", "connect"}
       /\ sAgPc[a] \notin {"off", "connect"} <=> sLink[a] \in {"waiting", "up"}

Cause == faults > 0 \/ BadSeen \/ (PCalm /\ SCalm)

\* A cause stays one.
LEMMA BadSeenStep ==
  ASSUME OnlyPrimary, PrimaryLives, PairTypes, produced \in Nat, Quiet, Stages, InOrder,
         [PairNext]_pairVars, BadSeen
  PROVE  BadSeen'
<1>1. PICK b \in PairBad : b \in 1..produced /\ \A y \in Unread : b < y
  BY DEF BadSeen
<1>2. CASE ~Collect
  BY <1>1, <1>2, UnreadStep DEF BadSeen
<1>3. CASE Collect
  <2>1. PICK n \in 1..PairChunk :
          /\ produced + n <= MaxMsgs /\ produced' = produced + n
          /\ P!AdapterSends([i \in 1..n |-> produced + i])
    BY <1>3 DEF Collect, OnlyPrimary
  <2>2. pColPc' = "put" /\ pData' = [i \in 1..n |-> produced + i] /\ n \in Nat
    BY <2>1, PairAssumption DEF P!AdapterSends, P!ColGoto
  <2>3. Unread' = (produced + 1)..(produced + n)
    BY <2>1, <2>2, ChunkElements DEF Unread
  <2>. QED
    BY <1>1, <2>1, <2>2, <2>3 DEF BadSeen
<1>. QED
  BY <1>2, <1>3

\* A malformed message that is on the way is such a cause.
LEMMA BadOnTheWay ==
  ASSUME InOrder, NEW t, NEW i \in DOMAIN t.list, t.list[i] \in PairBad,
         t \in Wire(1..produced), \A y \in Unread : t \in Wire(Older(y))
  PROVE  BadSeen
<1>1. \A X : t \in Wire(X) => t.list[i] \in X
  <2>. SUFFICES ASSUME NEW X, t \in Wire(X) PROVE t.list[i] \in X
    OBVIOUS
  <2>1. t.list \in Seq(X)
    BY WireList
  <2>2. DOMAIN t.list = 1..Len(t.list)
    BY <2>1, LenProperties
  <2>. QED
    BY <2>1, <2>2, ElementOfSeq
<1>2. \A y \in Unread : t.list[i] < y
  BY <1>1 DEF Older
<1>. QED
  BY <1>1, <1>2 DEF BadSeen

\* As long as nothing broke, the thread of the primary's agent leaves the connection
\* alone, unless it gets what it cannot parse.
LEMMA PrimaryCalm ==
  ASSUME PTypes, InOrder, PCalm, P!AgentThread(1)
  PROVE  BadSeen \/ (PCalm' /\ UNCHANGED pLink)
<1>. USE DEF PTypes, PControl, PHold, PCalm, P!Goto, P!netVars, P!Agents
<1>0. 1 \in P!Agents /\ pSyncAgent = 1
  OBVIOUS
<1>1. CASE P!RaiseFlags(1) \/ P!ReadEof(1) \/ P!AgentWait(1) \/ P!PostAllData(1)
           \/ P!AgentPut(1)
  BY <1>1 DEF P!RaiseFlags, P!ReadEof, P!AgentWait, P!PostAllData, P!AgentPut
<1>2. CASE P!LockQueue(1) \/ P!Snapshot(1) \/ P!UnlockQueue(1)
  BY <1>2 DEF P!LockQueue, P!Snapshot, P!UnlockQueue
<1>3. CASE P!RequestAll(1)
  BY <1>0, <1>3 DEF P!RequestAll
<1>4. CASE P!ReadTransaction(1)
  <2>0. pInbox[1] # <<>> /\ pAgPc[1] = "read"
    BY <1>4 DEF P!ReadTransaction
  <2>1. CASE \E i \in DOMAIN Head(pInbox[1]).list : Head(pInbox[1]).list[i] \in PairBad
    <3>1. PICK i \in DOMAIN Head(pInbox[1]).list : Head(pInbox[1]).list[i] \in PairBad
      BY <2>1
    <3>2. ASSUME NEW X, pInbox \in [P!Agents -> Seq(Wire(X))]
          PROVE  Head(pInbox[1]) \in Wire(X)
      <4>1. pInbox[1] \in Seq(Wire(X))
        BY <1>0, <3>2
      <4>. QED
        BY <2>0, <4>1, SeqTypes
    <3>3. Head(pInbox[1]) \in Wire(1..produced)
      BY <3>2 DEF InOrder, PairHold
    <3>4. \A y \in Unread : Head(pInbox[1]) \in Wire(Older(y))
      BY <3>2 DEF InOrder, PairHold
    <3>. QED
      BY <3>1, <3>3, <3>4, BadOnTheWay
  <2>2. CASE \A i \in DOMAIN Head(pInbox[1]).list : Head(pInbox[1]).list[i] \notin PairBad
    <3>1. /\ UNCHANGED <<pConnected, pLink>>
          /\ \/ pAgPc' = pAgPc
             \/ \E pc \in {"post", "read", "put"} : pAgPc' = [pAgPc EXCEPT ![1] = pc]
      BY <1>4, <2>2, Zenon DEF P!ReadTransaction, P!Goto
    <3>. QED
      BY <2>0, <3>1
  <2>. QED
    BY <2>1, <2>2
<1>5. ~P!ReadThrows(1)
  BY DEF P!ReadThrows
<1>6. CASE P!PostSnapshot(1)
  BY <1>6 DEF P!PostSnapshot, P!SendThrows, P!Alive
<1>. QED
  BY <1>1, <1>2, <1>3, <1>4, <1>5, <1>6 DEF P!AgentThread

\* So do the threads of the secondary's.
LEMMA SecondaryCalm ==
  ASSUME STypes, InOrder, SCalm, NEW a \in S!Agents, S!AgentThread(a)
  PROVE  BadSeen \/ (SCalm' /\ UNCHANGED sLink)
<1>. USE DEF STypes, SControl, SHold, SCalm, S!Goto, S!netVars
<1>0. a \in S!Agents
  OBVIOUS
<1>1. CASE S!RaiseFlags(a) \/ S!ReadEof(a) \/ S!AgentWait(a) \/ S!PostAllData(a)
           \/ S!AgentPut(a)
  BY <1>1 DEF S!RaiseFlags, S!ReadEof, S!AgentWait, S!PostAllData, S!AgentPut
<1>2. CASE S!LockQueue(a) \/ S!Snapshot(a) \/ S!UnlockQueue(a)
  BY <1>2 DEF S!LockQueue, S!Snapshot, S!UnlockQueue
<1>3. CASE S!RequestAll(a)
  BY <1>3 DEF S!RequestAll
<1>4. CASE S!ReadTransaction(a)
  <2>0. sInbox[a] # <<>> /\ sAgPc[a] = "read"
    BY <1>4 DEF S!ReadTransaction
  <2>1. CASE \E i \in DOMAIN Head(sInbox[a]).list : Head(sInbox[a]).list[i] \in PairBad
    <3>1. PICK i \in DOMAIN Head(sInbox[a]).list : Head(sInbox[a]).list[i] \in PairBad
      BY <2>1
    <3>2. ASSUME NEW X, sInbox \in [S!Agents -> Seq(Wire(X))]
          PROVE  Head(sInbox[a]) \in Wire(X)
      <4>1. sInbox[a] \in Seq(Wire(X))
        BY <1>0, <3>2
      <4>. QED
        BY <2>0, <4>1, SeqTypes
    <3>3. Head(sInbox[a]) \in Wire(1..produced)
      BY <3>2 DEF InOrder, PairHold
    <3>4. \A y \in Unread : Head(sInbox[a]) \in Wire(Older(y))
      BY <3>2 DEF InOrder, PairHold
    <3>. QED
      BY <3>1, <3>3, <3>4, BadOnTheWay
  <2>2. CASE \A i \in DOMAIN Head(sInbox[a]).list : Head(sInbox[a]).list[i] \notin PairBad
    <3>1. /\ UNCHANGED <<sConnected, sLink, sSyncAgent>>
          /\ \/ sAgPc' = sAgPc
             \/ \E pc \in {"post", "read", "put"} : sAgPc' = [sAgPc EXCEPT ![a] = pc]
      BY <1>4, <2>2, Zenon DEF S!ReadTransaction, S!Goto
    <3>. QED
      BY <2>0, <3>1
  <2>. QED
    BY <2>1, <2>2
<1>5. ~S!ReadThrows(a)
  BY DEF S!ReadThrows
<1>6. CASE S!PostSnapshot(a)
  BY <1>6 DEF S!PostSnapshot, S!SendThrows, S!Alive
<1>. QED
  BY <1>1, <1>2, <1>3, <1>4, <1>5, <1>6 DEF S!AgentThread

\* A fault is counted, and nothing else breaks a connection but what cannot be parsed.
LEMMA CauseStep ==
  ASSUME OnlyPrimary, PrimaryLives, PairTypes, produced \in Nat, faults \in Nat, Quiet, Stages,
         InOrder, Cause, [PairNext]_pairVars
  PROVE  Cause' /\ faults' \in Nat
<1>. DEFINE calm == <<pConnected, pAgPc, pLink>>
<1>. DEFINE calmS == <<sSyncAgent, sConnected, sAgPc, sLink>>
<1>a. ~S!Collector
  BY DEF Quiet, S!Collector, S!ColWait, S!ColPut, S!ColSync, S!ColThreshold, S!ColSize,
         S!ColTakeWait, S!ColTake, S!ColInsert, S!ColSendClear, S!ColGoto
<1>b. P!NodeIdle => UNCHANGED calm
  BY DEF P!NodeIdle, P!nodeVars, P!agentVars, P!netVars
<1>c. S!NodeIdle => UNCHANGED calmS
  BY DEF S!NodeIdle, S!nodeVars, S!agentVars, S!netVars
<1>d. PrimaryEffect /\ UNCHANGED pLink => UNCHANGED calmS
  BY <1>c DEF PrimaryEffect
<1>e. SecondaryEffect /\ UNCHANGED sLink => UNCHANGED calm
  BY <1>b DEF SecondaryEffect, Served
<1>f. faults' \in Nat /\ (faults > 0 => faults' > 0) /\ (faults' = faults \/ faults' = faults + 1)
  BY DEF PairNext, pairVars, PrimaryCollector, SecondaryCollector, PrimaryAgent,
         SecondaryAgent, Collect, AdapterConnects, Network, Faults
<1>. SUFFICES Cause'
  BY <1>f
<1>g. UNCHANGED <<calm, calmS>> /\ PCalm /\ SCalm => Cause'
  BY DEF PCalm, SCalm, Cause
<1>1. CASE faults > 0 \/ BadSeen
  BY <1>f, <1>1, BadSeenStep DEF Cause
<1>2. CASE PCalm /\ SCalm
  <2>1. CASE PrimaryCollector
    <3>1. UNCHANGED calm
      BY <2>1
      DEF PrimaryCollector, P!Collector, P!ColWait, P!ColPut, P!ColSync, P!ColThreshold,
          P!ColSize, P!ColTakeWait, P!ColTake, P!ColInsert, P!ColSendClear, P!agentVars, P!netVars
    <3>. QED
      BY <1>2, <1>d, <1>g, <2>1, <3>1 DEF PrimaryCollector
  <2>2. CASE PrimaryAgent
    <3>1. BadSeen \/ (PCalm' /\ UNCHANGED pLink)
      BY <1>2, <2>2, PrimaryCalm DEF PrimaryAgent, PairTypes
    <3>2. UNCHANGED pLink => SCalm'
      BY <1>2, <1>d, <2>2 DEF PrimaryAgent, SCalm
    <3>. QED
      BY <3>1, <3>2, BadSeenStep DEF Cause
  <2>3. CASE SecondaryCollector
    BY <1>a, <2>3 DEF SecondaryCollector
  <2>4. ASSUME NEW a \in S!Agents, SecondaryAgent(a)
        PROVE  Cause'
    <3>1. BadSeen \/ (SCalm' /\ UNCHANGED sLink)
      BY <1>2, <2>4, SecondaryCalm DEF SecondaryAgent, PairTypes
    <3>2. UNCHANGED sLink => PCalm'
      BY <1>2, <1>e, <2>4 DEF SecondaryAgent, PCalm
    <3>. QED
      BY <3>1, <3>2, BadSeenStep DEF Cause
  <2>5. CASE Collect \/ AdapterConnects
    BY <1>2, <1>b, <1>c, <1>g, <2>5
    DEF Collect, AdapterConnects, P!AdapterSends, P!AdapterConnects, P!AdapterUnchanged,
        S!AdapterSends, S!AdapterConnects, S!AdapterUnchanged, P!agentVars, P!netVars,
        S!agentVars, S!netVars
  <2>6. CASE Network
    <3>0. PTypes /\ STypes
      BY DEF PairTypes
    <3>1. PICK a \in S!Agents :
            \/ SecondaryConnects(a) \/ PrimaryAccepts(a)
            \/ DeliverToSecondary(a) \/ DeliverToPrimary(a)
      BY <2>6 DEF Network
    <3>2. CASE DeliverToSecondary(a) \/ DeliverToPrimary(a)
      BY <1>2, <1>g, <3>1, <3>2
      DEF DeliverToSecondary, DeliverToPrimary, P!PeerReads, P!PeerSends, S!PeerReads,
          S!PeerSends, P!NetUnchanged, S!NetUnchanged
    <3>3. S!Connect(a) => SCalm'
      BY <1>2, <3>0 DEF S!Connect, SCalm, STypes, SControl, S!Goto, S!NetUnchanged
    <3>4. S!Serve(a) => SCalm'
      BY <1>2, <3>0 DEF S!Serve, SCalm, STypes, SControl, S!NetUnchanged
    <3>5. P!Connect(1) => PCalm'
      BY <1>2, <3>0
      DEF P!Connect, PCalm, PTypes, PControl, P!Goto, P!NetUnchanged, P!Agents
    <3>6. P!NodeIdle => PCalm'
      BY <1>2, <1>b DEF PCalm
    <3>. QED
      BY <3>1, <3>2, <3>3, <3>4, <3>5, <3>6 DEF SecondaryConnects, PrimaryAccepts, Cause
  <2>7. CASE Faults
    <3>1. CASE faults' = faults + 1
      BY <1>f, <3>1 DEF Cause
    <3>2. CASE PingProbes \/ PingAnswers
      <4>1. CASE (P!PingProbe(1) \/ P!PingAnswered(1)) /\ PrimaryEffect
        BY <1>2, <1>d, <1>g, <4>1 DEF P!PingProbe, P!PingAnswered, P!netVars
      <4>2. CASE \E a \in S!Agents : (S!PingProbe(a) \/ S!PingAnswered(a)) /\ SecondaryEffect
        BY <1>2, <1>e, <1>g, <4>2 DEF S!PingProbe, S!PingAnswered, S!netVars
      <4>. QED
        BY <3>2, <4>1, <4>2 DEF PingProbes, PingAnswers
    <3>. QED
      BY <2>7, <3>1, <3>2 DEF Faults
  <2>8. CASE UNCHANGED pairVars
    BY <1>2, <1>b, <1>c, <1>g, <2>8 DEF pairVars, P!NodeIdle, S!NodeIdle
  <2>. QED
    BY <1>2, <2>1, <2>2, <2>3, <2>4, <2>5, <2>6, <2>7, <2>8 DEF PairNext
<1>. QED
  BY <1>1, <1>2 DEF Cause

\* What is dropped came behind a message that is not XML, or there was a fault.
LEMMA DropStep ==
  ASSUME OnlyPrimary, PrimaryLives, PairTypes, faults \in Nat, Quiet, Cause, DropNeedsCause,
         [PairNext]_pairVars
  PROVE  DropNeedsCause'
<1>1. faults > 0 => faults' > 0
  BY DEF PairNext, pairVars, PrimaryCollector, SecondaryCollector, PrimaryAgent,
         SecondaryAgent, Collect, AdapterConnects, Network, Faults
<1>2. CASE dropped' = dropped
  BY <1>1, <1>2 DEF DropNeedsCause
<1>3. CASE PrimaryCollector
  <2>1. CASE pColPc = "sync" /\ pColPc' = "listen"
    <3>1. pConnected[1] /\ pLink[1] # "up"
      BY <1>3, <2>1
      DEF PrimaryCollector, P!Collector, P!ColWait, P!ColPut, P!ColSync, P!ColThreshold,
          P!ColSize, P!ColTakeWait, P!ColTake, P!ColInsert, P!ColSendClear, P!ColGoto,
          P!SendThrows, P!Alive, PairTypes, PTypes, PControl, P!Agents
    <3>2. faults > 0 \/ BadSeen
      BY <3>1 DEF Cause, PCalm
    <3>3. dropped' = dropped \cup Elements(Tail(pData)) /\ Unread = Elements(Tail(pData))
      BY <1>3, <2>1 DEF PrimaryCollector, Dropped, Unread
    <3>. QED
      BY <1>1, <3>2, <3>3 DEF DropNeedsCause, BadSeen
  <2>2. CASE ~(pColPc = "sync" /\ pColPc' = "listen")
    BY <1>2, <1>3, <2>2 DEF PrimaryCollector, Dropped
  <2>. QED
    BY <2>1, <2>2
<1>4. CASE Collect \/ AdapterConnects
  BY <1>2, <1>4 DEF Collect, AdapterConnects
<1>. QED
  BY <1>2, <1>3, <1>4, PrimaryMoves DEF history

\* The messages that the primary drops came behind one that is not XML, unless there was
\* a fault: without faults, only a transaction that cannot be parsed breaks the
\* connection, and it holds only messages older than those the collector still has.
THEOREM DropHasCause == OnlyPrimary /\ PrimaryLives /\ PairSpec => []DropNeedsCause
<1>. SUFFICES ASSUME OnlyPrimary, PrimaryLives PROVE PairSpec => []DropNeedsCause
  OBVIOUS
<1>. DEFINE IInv == Kept /\ InOrder /\ faults \in Nat /\ Cause /\ DropNeedsCause
<1>1. PairInit => IInv
  <2>. SUFFICES ASSUME PairInit PROVE IInv
    OBVIOUS
  <2>1. Kept
    BY PairAssumption DEF PairInit, P!ProcessInit, P!QueueInit, Kept, Stages, NothingLost
  <2>4. InOrder
    BY InOrderInit
  <2>5. PCalm
    BY DEF PairInit, P!ProcessInit, P!AgentInit, PCalm, P!Agents
  <2>6. SCalm
    BY DEF PairInit, S!ProcessInit, S!AgentInit, SCalm
  <2>7. faults = 0 /\ dropped = {}
    BY DEF PairInit
  <2>. QED
    BY <2>1, <2>4, <2>5, <2>6, <2>7 DEF Cause, DropNeedsCause
<1>2. PairTypes /\ produced \in Nat /\ Quiet /\ IInv /\ [PairNext]_pairVars => IInv'
  <2>. SUFFICES ASSUME PairTypes, produced \in Nat, Quiet, IInv, [PairNext]_pairVars
                PROVE  IInv'
    OBVIOUS
  <2>1. Kept'
    BY KeptStep
  <2>2. InOrder'
    BY InOrderStep DEF Kept
  <2>3. Cause' /\ faults' \in Nat
    BY CauseStep DEF Kept
  <2>4. DropNeedsCause'
    BY DropStep
  <2>. QED
    BY <2>1, <2>2, <2>3, <2>4
<1>3. PairSpec => []IInv
  BY <1>1, <1>2, PairTypeCorrect, SecondaryQuiet, PTL DEF PairSpec
<1>4. IInv => DropNeedsCause
  OBVIOUS
<1>. QED
  BY <1>3, <1>4, PTL

-----------------------------------------------------------------------------
(* The way from the primary to its standby, when the secondary has one     *)
(* agent: what the primary wrote, what has arrived, what the agent has.    *)

OneAgent == PairAgents = 1

\* What has got past the connection of the secondary's agent.
Arrived == Elements(sMsgQue) \cup Elements(sTrans[1])

\* A second agent is never started.
LEMMA NoSecondAgent ==
  ASSUME OneAgent, STypes, NEW a \in S!Agents
  PROVE  ~S!PingFailsServer(a) /\ ~S!PingFailsClient(a)
  BY DEF S!PingFailsServer, S!PingFailsClient, OneAgent, S!Agents, STypes, SControl

\* The agent of the secondary takes the next transaction, and nothing empties its queue
\* but a CLEAR; or it goes on with what it has; or it closes.
LEMMA SecondaryTakes ==
  ASSUME OneAgent, STypes, NEW a \in S!Agents, S!AgentThread(a) \/ S!PingThread(a)
  PROVE  \/ /\ sInbox[1] # <<>> /\ sInbox'[1] = Tail(sInbox[1])
            /\ \/ /\ Head(sInbox[1]).name = "Clear"
                  /\ sMsgQue' = <<>> /\ sTrans'[1] = sTrans[1]
               \/ /\ sMsgQue' = sMsgQue
                  /\ \/ sTrans'[1] = sTrans[1]
                     \/ Head(sInbox[1]).name = "Data" /\ sTrans'[1] = Head(sInbox[1]).list
         \/ /\ sInbox'[1] = sInbox[1] \/ sInbox'[1] = <<>>
            /\ Arrived' \subseteq Arrived
            /\ sMsgQue # <<>> => sMsgQue' # <<>>
<1>. USE DEF STypes, SControl, SHold, S!queueVars, S!netVars, Arrived
<1>0. a = 1 /\ 1 \in S!Agents /\ Elements(<<>>) = {}
  BY ElementsFacts DEF OneAgent, S!Agents
<1>1. CASE S!CatchException(a) /\ UNCHANGED sMsgQue
  <2>1. sInbox'[1] = <<>> /\ sTrans'[1] = <<>>
    BY <1>0, <1>1, SubSeqEmpty DEF S!CatchException, S!CloseLink
  <2>. QED
    BY <1>0, <1>1, <2>1
<1>2. CASE UNCHANGED <<sInbox, sTrans, sMsgQue>>
  BY <1>2
<1>3. CASE S!Snapshot(a) \/ S!UnlockQueue(a)
  BY <1>0, <1>3 DEF S!Snapshot, S!UnlockQueue
<1>4. CASE S!ReadTransaction(a)
  <2>1. CASE Head(sInbox[a]).name = "Clear"
    BY <1>0, <1>4, <2>1 DEF S!ReadTransaction, S!Clear
  <2>2. CASE Head(sInbox[a]).name # "Clear" /\ ~(S!CatchException(a) /\ UNCHANGED sMsgQue)
    BY <1>0, <1>4, <2>2 DEF S!ReadTransaction
  <2>. QED
    BY <1>1, <2>1, <2>2
<1>5. CASE S!AgentPut(a)
  <2>1. sTrans[1] # <<>> /\ UNCHANGED sInbox
    BY <1>0, <1>5 DEF S!AgentPut
  <2>2. Head(sTrans[1]) \in Msgs /\ Elements(sTrans[1]) = {Head(sTrans[1])} \cup Elements(Tail(sTrans[1]))
    BY <1>0, <2>1, ElementsFacts, SeqTypes
  <2>3. /\ sMsgQue' = Append(sMsgQue, Head(sTrans[1])) /\ sTrans'[1] = Tail(sTrans[1])
    BY <1>0, <1>5 DEF S!AgentPut, S!Put
  <2>4. Elements(sMsgQue') = Elements(sMsgQue) \cup {Head(sTrans[1])}
    BY <2>2, <2>3, ElementsFacts
  <2>5. sMsgQue' # <<>>
    BY <1>0, <2>4
  <2>. QED
    BY <2>1, <2>2, <2>3, <2>4, <2>5
<1>6. ~S!PingFailsServer(a) /\ ~S!PingFailsClient(a)
  BY NoSecondAgent
<1>7. CASE S!RequestAll(a) \/ S!PostSnapshot(a)
  BY <1>1, <1>2, <1>7 DEF S!RequestAll, S!PostSnapshot
<1>. QED
  BY <1>1, <1>2, <1>3, <1>4, <1>5, <1>6, <1>7
  DEF S!AgentThread, S!PingThread, S!RaiseFlags, S!ReadEof, S!ReadThrows, S!AgentWait,
      S!PostAllData, S!LockQueue, S!PingProbe, S!PingAnswered

\* The threads of the primary write a transaction, or close the connection; only its
\* collector, once it has inserted, writes a CLEAR, and only its agent, once it is
\* connected, a GET_ALL.
LEMMA PrimaryWrites ==
  ASSUME PTypes, P!Collector \/ P!AgentThread(1) \/ P!PingThread(1)
  PROVE  \/ pOutbox'[1] = pOutbox[1] \/ pOutbox'[1] = <<>>
         \/ \E t \in Wire(Msgs) :
              /\ pOutbox'[1] = Append(pOutbox[1], t)
              /\ t.name = "Clear" => pColPc = "clear" /\ P!Collector
              /\ t.name = "Get All" => P!RequestAll(1)
              /\ t.name = "Data" => \/ P!PostSnapshot(1)
                                    \/ /\ P!ColSync /\ pConnected[1]
                                       /\ Elements(t.list) = {Head(pData)}
<1>. USE DEF PTypes, PControl, PHold, P!netVars
<1>0. 1 \in P!Agents /\ pSyncAgent = 1
  BY DEF P!Agents
<1>1. \A t : P!SendMsg(1, t) =>
               \/ pOutbox' = pOutbox
               \/ pOutbox'[1] = Append(pOutbox[1], t) /\ pConnected[1]
  BY <1>0 DEF P!SendMsg
<1>2. \A ms \in Seq(Msgs) : P!Data(ms) \in Wire(Msgs) /\ P!Data(ms).name = "Data"
  BY WireTypes DEF P!Data
<1>3. CASE P!ColSync
  <2>1. <<Head(pData)>> \in Seq(Msgs)
    BY <1>3, SeqTypes DEF P!ColSync
  <2>2. Elements(<<Head(pData)>>) = {Head(pData)}
    BY DEF Elements
  <2>3. /\ P!Data(<<Head(pData)>>) \in Wire(Msgs) /\ P!Data(<<Head(pData)>>).name = "Data"
        /\ P!Data(<<Head(pData)>>).list = <<Head(pData)>>
    BY <1>2, <2>1 DEF P!Data
  <2>4. \/ pOutbox'[1] = pOutbox[1]
        \/ /\ pOutbox'[1] = Append(pOutbox[1], P!Data(<<Head(pData)>>)) /\ pConnected[1]
    BY <1>0, <1>1, <1>3 DEF P!ColSync
  <2>. QED
    BY <1>3, <2>2, <2>3, <2>4
<1>4. CASE P!ColSendClear
  <2>1. P!ClearAll.name = "Clear" /\ P!ClearAll \in Wire(Msgs)
    BY WireTypes DEF P!ClearAll
  <2>. QED
    BY <1>0, <1>1, <1>4, <2>1 DEF P!ColSendClear, P!Collector
<1>5. CASE P!RequestAll(1)
  <2>1. P!GetAll.name = "Get All" /\ P!GetAll \in Wire(Msgs)
    BY WireTypes DEF P!GetAll
  <2>. QED
    BY <1>0, <1>1, <1>5, <2>1 DEF P!RequestAll, P!CatchException, P!CloseLink
<1>6. CASE P!PostSnapshot(1)
  BY <1>0, <1>1, <1>2, <1>6 DEF P!PostSnapshot, P!CatchException, P!CloseLink
<1>7. CASE P!ReadTransaction(1) \/ P!ReadThrows(1)
  BY <1>0, <1>7 DEF P!ReadTransaction, P!ReadThrows, P!CatchException, P!CloseLink
<1>8. CASE P!PingFailsServer(1) \/ P!PingFailsClient(1)
  BY <1>0, <1>8 DEF P!PingFailsServer, P!PingFailsClient, P!CloseUnderway, P!CloseLink
<1>9. CASE UNCHANGED pOutbox
  BY <1>9
<1>. QED
  BY <1>3, <1>4, <1>5, <1>6, <1>7, <1>8, <1>9
  DEF P!Collector, P!ColWait, P!ColPut, P!ColThreshold, P!ColSize, P!ColTakeWait, P!ColTake,
      P!ColInsert, P!AgentThread, P!PingThread, P!RaiseFlags, P!ReadEof, P!AgentWait,
      P!AgentPut, P!PostAllData, P!LockQueue, P!Snapshot, P!UnlockQueue, P!PingProbe,
      P!PingAnswered

\* The next transaction is taken by the secondary's agent, ...
Takes ==
  /\ sInbox[1] # <<>> /\ sInbox'[1] = Tail(sInbox[1])
  /\ \/ /\ Head(sInbox[1]).name = "Clear"
        /\ sMsgQue' = <<>> /\ sTrans'[1] = sTrans[1]
     \/ /\ sMsgQue' = sMsgQue
        /\ \/ sTrans'[1] = sTrans[1]
           \/ Head(sInbox[1]).name = "Data" /\ sTrans'[1] = Head(sInbox[1]).list
  /\ pOutbox'[1] = pOutbox[1] \/ pOutbox'[1] = <<>>

\* ... or is delivered, ...
Delivers ==
  /\ pOutbox[1] # <<>> /\ pOutbox'[1] = Tail(pOutbox[1])
  /\ sInbox'[1] = Append(sInbox[1], Head(pOutbox[1]))
  /\ UNCHANGED <<sMsgQue, sTrans>>

\* ... or is written.
Writes ==
  /\ UNCHANGED <<sInbox, sMsgQue, sTrans>>
  /\ \E t \in Wire(Msgs) :
       /\ pOutbox'[1] = Append(pOutbox[1], t)
       /\ t.name = "Clear" => pColPc = "clear" /\ P!Collector
       /\ t.name = "Get All" => P!RequestAll(1)
       /\ t.name = "Data" => \/ P!PostSnapshot(1)
                             \/ /\ P!ColSync /\ pConnected[1]
                                /\ Elements(t.list) = {Head(pData)}

\* Otherwise the way only gets shorter.
Shrinks ==
  /\ pOutbox'[1] = pOutbox[1] \/ pOutbox'[1] = <<>>
  /\ sInbox'[1] = sInbox[1] \/ sInbox'[1] = <<>>
  /\ Arrived' \subseteq Arrived
  /\ sMsgQue # <<>> /\ sWiped' => sMsgQue' # <<>>

\* Every step of the pair does one of these to the way.
LEMMA WayMoves ==
  ASSUME OnlyPrimary, OneAgent, PairTypes, Quiet, [PairNext]_pairVars
  PROVE  Takes \/ Delivers \/ Writes \/ Shrinks
<1>. USE DEF S!queueVars
<1>. DEFINE there == UNCHANGED <<sInbox, sMsgQue, sTrans>>
<1>. DEFINE here  == pOutbox'[1] = pOutbox[1] \/ pOutbox'[1] = <<>>
<1>0. 1 \in P!Agents /\ S!Agents = {1} /\ pOutbox = [a \in P!Agents |-> pOutbox[a]]
  BY DEF P!Agents, S!Agents, OneAgent, PairTypes, PTypes, PHold
<1>a. ~S!Collector
  BY DEF Quiet, S!Collector, S!ColWait, S!ColPut, S!ColSync, S!ColThreshold, S!ColSize,
         S!ColTakeWait, S!ColTake, S!ColInsert, S!ColSendClear, S!ColGoto
<1>b. P!NodeIdle => UNCHANGED pOutbox
  BY DEF P!NodeIdle, P!nodeVars, P!netVars
<1>c. S!NodeIdle => there
  BY DEF S!NodeIdle, S!nodeVars, S!agentVars, S!netVars
<1>d. P!Cut => here
  BY <1>0 DEF P!Cut
<1>e. S!Cut => there
  BY DEF S!Cut, S!NetUnchanged
<1>f. PrimaryEffect => there
  BY <1>c, <1>e DEF PrimaryEffect, CutSecondary
<1>g. SecondaryEffect => here
  BY <1>b, <1>d DEF SecondaryEffect, CutPrimary
<1>h. there /\ here => Shrinks
  BY DEF Shrinks, Arrived
<1>i. ASSUME P!Collector \/ P!AgentThread(1) \/ P!PingThread(1), PrimaryEffect
      PROVE  Writes \/ Shrinks
  BY <1>f, <1>h, <1>i, PrimaryWrites DEF PairTypes, Writes
<1>j. ASSUME NEW a \in S!Agents, S!AgentThread(a) \/ S!PingThread(a), SecondaryEffect
      PROVE  Takes \/ Shrinks
  BY <1>g, <1>j, SecondaryTakes DEF PairTypes, Takes, Shrinks
<1>1. CASE PrimaryCollector \/ PrimaryAgent
  BY <1>1, <1>i DEF PrimaryCollector, PrimaryAgent
<1>2. CASE SecondaryCollector
  BY <1>2, <1>a DEF SecondaryCollector
<1>3. CASE \E a \in S!Agents : SecondaryAgent(a)
  BY <1>3, <1>j DEF SecondaryAgent
<1>4. CASE Collect \/ AdapterConnects
  <2>1. there
    BY <1>4, <1>c DEF Collect, AdapterConnects, OnlyPrimary
  <2>2. UNCHANGED pOutbox
    BY <1>4 DEF Collect, AdapterConnects, OnlyPrimary, P!AdapterSends, P!AdapterConnects,
                P!AdapterUnchanged, P!netVars
  <2>. QED
    BY <1>h, <2>1, <2>2
<1>5. CASE Network
  <2>1. CASE SecondaryConnects(1) \/ PrimaryAccepts(1)
    BY <1>b, <1>h, <2>1
    DEF SecondaryConnects, PrimaryAccepts, S!Connect, S!Serve, S!NetUnchanged, P!Connect
  <2>2. CASE DeliverToSecondary(1)
    BY <1>0, <2>2
    DEF DeliverToSecondary, Delivers, S!PeerSends, P!PeerReads, S!NetUnchanged, PairTypes,
        STypes, SHold
  <2>3. CASE DeliverToPrimary(1)
    BY <1>h, <2>3 DEF DeliverToPrimary, S!PeerReads, P!PeerSends, S!NetUnchanged
  <2>. QED
    BY <1>0, <1>5, <2>1, <2>2, <2>3 DEF Network
<1>6. CASE Faults
  <2>1. CASE Break
    BY <1>d, <1>e, <1>h, <2>1 DEF Break
  <2>2. CASE PingProbes \/ PingAnswers \/ PingFails
    BY <1>i, <1>j, <2>2 DEF PingProbes, PingAnswers, PingFails, P!PingThread, S!PingThread
  <2>3. CASE P!Restart /\ CutSecondary
    BY <1>0, <1>c, <1>e, <1>h, <2>3 DEF CutSecondary, P!Restart
  <2>4. CASE S!Restart /\ (P!NodeIdle \/ CutPrimary)
    <3>1. here
      BY <1>b, <1>d, <2>4 DEF CutPrimary
    <3>2. sInbox'[1] = <<>> /\ sMsgQue' = <<>> /\ sTrans'[1] = <<>> /\ ~sWiped'
      BY <1>0, <2>4 DEF S!Restart
    <3>. QED
      BY <3>1, <3>2, ElementsFacts DEF Shrinks, Arrived
  <2>. QED
    BY <1>6, <2>1, <2>2, <2>3, <2>4 DEF Faults, Crash
<1>7. CASE UNCHANGED pairVars
  BY <1>7, <1>b, <1>c, <1>h DEF pairVars, P!NodeIdle, S!NodeIdle
<1>. QED
  BY <1>1, <1>2, <1>3, <1>4, <1>5, <1>6, <1>7 DEF PairNext

-----------------------------------------------------------------------------
(* What is ahead of a transaction on that way.                             *)

\* A transaction of this name is in the sequence s; all of s is among G; so is what is
\* ahead of each transaction of this name.
Named(s, name)    == \E i \in DOMAIN s : s[i].name = name
AllIn(s, G)       == \A j \in DOMAIN s : Elements(s[j].list) \subseteq G
AheadIn(s, name, G) ==
  \A i \in DOMAIN s : s[i].name = name => \A j \in 1..i : Elements(s[j].list) \subseteq G

\* Where the elements of the tail and of the extension of a sequence were.
LEMMA Positions ==
  ASSUME NEW T, NEW s \in Seq(T)
  PROVE  /\ s # <<>> => /\ 1 \in DOMAIN s /\ Head(s) = s[1]
                        /\ \A i \in DOMAIN Tail(s) :
                             i + 1 \in DOMAIN s /\ Tail(s)[i] = s[i + 1]
         /\ \A t \in T : \A i \in DOMAIN Append(s, t) :
              \/ i \in DOMAIN s /\ Append(s, t)[i] = s[i]
              \/ i \notin DOMAIN s /\ Append(s, t)[i] = t
         /\ \A i \in DOMAIN s : i \in Nat /\ 1..i \subseteq DOMAIN s /\ i \in 1..i
         /\ \A i, j \in Nat : j \in 1..i => j + 1 \in 1..(i + 1) /\ 1 \in 1..(i + 1)
<1>1. DOMAIN s = 1..Len(s) /\ Len(s) \in Nat
  BY LenProperties
<1>2. ASSUME s # <<>>
      PROVE  /\ 1 \in DOMAIN s /\ Head(s) = s[1]
             /\ \A i \in DOMAIN Tail(s) : i + 1 \in DOMAIN s /\ Tail(s)[i] = s[i + 1]
  <2>1. /\ Head(s) = s[1] /\ Tail(s) \in Seq(T) /\ Len(Tail(s)) = Len(s) - 1
        /\ \A i \in 1..Len(Tail(s)) : Tail(s)[i] = s[i + 1]
    BY <1>2, HeadTailProperties
  <2>2. Len(s) # 0 /\ DOMAIN Tail(s) = 1..(Len(s) - 1)
    BY <1>2, <2>1, EmptySeq, LenProperties
  <2>3. 1 \in DOMAIN s /\ \A i \in 1..(Len(s) - 1) : i + 1 \in DOMAIN s
    BY <1>1, <2>2
  <2>. QED
    BY <2>1, <2>2, <2>3
<1>3. ASSUME NEW t \in T, NEW i \in DOMAIN Append(s, t)
      PROVE  \/ i \in DOMAIN s /\ Append(s, t)[i] = s[i]
             \/ i \notin DOMAIN s /\ Append(s, t)[i] = t
  <2>1. /\ Append(s, t) \in Seq(T) /\ Len(Append(s, t)) = Len(s) + 1
        /\ \A k \in 1..Len(s) : Append(s, t)[k] = s[k]
        /\ Append(s, t)[Len(s) + 1] = t
    BY AppendProperties
  <2>2. i \in 1..(Len(s) + 1)
    BY <1>3, <2>1, LenProperties
  <2>3. i \in 1..Len(s) \/ (i = Len(s) + 1 /\ i \notin 1..Len(s))
    BY <1>1, <2>2
  <2>. QED
    BY <1>1, <2>1, <2>3
<1>4. \A i \in DOMAIN s : i \in Nat /\ 1..i \subseteq DOMAIN s /\ i \in 1..i
  BY <1>1
<1>5. \A i, j \in Nat : j \in 1..i => j + 1 \in 1..(i + 1) /\ 1 \in 1..(i + 1)
  OBVIOUS
<1>. QED
  BY <1>2, <1>3, <1>4, <1>5

\* Nothing is ahead of anything in no transactions.
LEMMA AheadNone ==
  ASSUME NEW name, NEW G
  PROVE  ~Named(<<>>, name) /\ AllIn(<<>>, G) /\ AheadIn(<<>>, name, G)
<1>1. <<>> \in Seq({}) /\ Len(<<>>) = 0
  BY EmptySeq
<1>2. DOMAIN <<>> = 1..0
  BY <1>1, LenProperties
<1>. QED
  BY <1>2 DEF Named, AllIn, AheadIn

\* The first transaction leaves.
LEMMA AheadTail ==
  ASSUME NEW T, NEW s \in Seq(T), s # <<>>, NEW name, NEW G
  PROVE  /\ Named(Tail(s), name) => Named(s, name)
         /\ Head(s).name = name => Named(s, name)
         /\ AllIn(s, G) => AllIn(Tail(s), G) /\ Elements(Head(s).list) \subseteq G
         /\ AheadIn(s, name, G) =>
              /\ AheadIn(Tail(s), name, G)
              /\ Named(s, name) => Elements(Head(s).list) \subseteq G
<1>1. /\ 1 \in DOMAIN s /\ Head(s) = s[1]
      /\ \A i \in DOMAIN Tail(s) : i + 1 \in DOMAIN s /\ Tail(s)[i] = s[i + 1]
  BY Positions
<1>2. Tail(s) \in Seq(T)
  BY SeqTypes
<1>3. \A i \in DOMAIN Tail(s) : i \in Nat /\ 1..i \subseteq DOMAIN Tail(s)
  BY <1>2, Positions
<1>4. \A i \in DOMAIN s : 1 \in 1..i
  BY LenProperties
<1>5. \A i \in DOMAIN Tail(s) : \A j \in 1..i :
        j + 1 \in 1..(i + 1) /\ Tail(s)[j] = s[j + 1]
  BY <1>1, <1>3, Positions
<1>6. /\ Named(Tail(s), name) => Named(s, name)
      /\ Head(s).name = name => Named(s, name)
  BY <1>1 DEF Named
<1>7. AllIn(s, G) => AllIn(Tail(s), G) /\ Elements(Head(s).list) \subseteq G
  BY <1>1 DEF AllIn
<1>8. AheadIn(s, name, G) => AheadIn(Tail(s), name, G)
  BY <1>1, <1>5 DEF AheadIn
<1>9. AheadIn(s, name, G) /\ Named(s, name) => Elements(Head(s).list) \subseteq G
  BY <1>1, <1>4 DEF AheadIn, Named
<1>. QED
  BY <1>6, <1>7, <1>8, <1>9

\* A transaction joins at the end.
LEMMA AheadAppend ==
  ASSUME NEW T, NEW s \in Seq(T), NEW t \in T, NEW name, NEW G
  PROVE  /\ Named(Append(s, t), name) => Named(s, name) \/ t.name = name
         /\ AllIn(s, G) /\ Elements(t.list) \subseteq G => AllIn(Append(s, t), G)
         /\ /\ AheadIn(s, name, G)
            /\ t.name = name => AllIn(s, G) /\ Elements(t.list) \subseteq G
            => AheadIn(Append(s, t), name, G)
<1>1. \A i \in DOMAIN Append(s, t) :
        \/ i \in DOMAIN s /\ Append(s, t)[i] = s[i]
        \/ i \notin DOMAIN s /\ Append(s, t)[i] = t
  BY Positions
<1>2. Append(s, t) \in Seq(T)
  BY SeqTypes
<1>3. \A i \in DOMAIN Append(s, t) : 1..i \subseteq DOMAIN Append(s, t)
  BY <1>2, Positions
<1>4. \A i \in DOMAIN s : 1..i \subseteq DOMAIN s
  BY Positions
<1>5. Named(Append(s, t), name) => Named(s, name) \/ t.name = name
  BY <1>1 DEF Named
<1>6. AllIn(s, G) /\ Elements(t.list) \subseteq G => AllIn(Append(s, t), G)
  BY <1>1 DEF AllIn
<1>7. ASSUME AheadIn(s, name, G),
             t.name = name => AllIn(s, G) /\ Elements(t.list) \subseteq G,
             NEW i \in DOMAIN Append(s, t), Append(s, t)[i].name = name, NEW j \in 1..i
      PROVE  Elements(Append(s, t)[j].list) \subseteq G
  <2>1. j \in DOMAIN Append(s, t)
    BY <1>3
  <2>2. CASE i \in DOMAIN s /\ Append(s, t)[i] = s[i]
    <3>1. j \in DOMAIN s
      BY <1>4, <2>2
    <3>2. Append(s, t)[j] = s[j]
      BY <1>1, <2>1, <3>1
    <3>. QED
      BY <1>7, <2>2, <3>2 DEF AheadIn
  <2>3. CASE Append(s, t)[i] = t
    BY <1>1, <1>7, <2>1, <2>3 DEF AllIn
  <2>. QED
    BY <1>1, <2>2, <2>3
<1>8. /\ AheadIn(s, name, G)
      /\ t.name = name => AllIn(s, G) /\ Elements(t.list) \subseteq G
      => AheadIn(Append(s, t), name, G)
  BY <1>7 DEF AheadIn
<1>. QED
  BY <1>5, <1>6, <1>8

\* The one agent of each server.
LEMMA OneOfEach ==
  ASSUME OneAgent
  PROVE  1 \in P!Agents /\ 1 \in S!Agents /\ S!Agents = {1}
  BY DEF P!Agents, S!Agents, OneAgent

\* What has arrived or is on the way is in G.
OnWay(G) == Arrived \subseteq G /\ AllIn(sInbox[1], G) /\ AllIn(pOutbox[1], G)

\* What is held is everything that has arrived or is on the way.
LEMMA HoldAhead ==
  ASSUME OneAgent, NEW G, PairHold(G)
  PROVE  OnWay(G)
<1>1. Arrived \subseteq G
  BY OneOfEach, ElementsFacts DEF Arrived, PairHold, SHold
<1>2. ASSUME NEW s \in Seq(Wire(G))
      PROVE  AllIn(s, G)
  <2>. SUFFICES ASSUME NEW j \in DOMAIN s
                PROVE  Elements(s[j].list) \subseteq G
    BY DEF AllIn
  <2>1. s[j] \in Wire(G)
    BY LenProperties, ElementOfSeq
  <2>. QED
    BY <2>1, WireList, ElementsFacts
<1>. QED
  BY OneOfEach, <1>1, <1>2 DEF PairHold, PHold, SHold, OnWay

\* What has arrived or is on the way ahead of a transaction of this name is in G.
Preceded(name, G) ==
  /\ AheadIn(sInbox[1], name, G)
  /\ Named(sInbox[1], name) => Arrived \subseteq G
  /\ AheadIn(pOutbox[1], name, G)
  /\ Named(pOutbox[1], name) => Arrived \subseteq G /\ AllIn(sInbox[1], G)

\* What a transaction may be called.
LEMMA WireNames ==
  ASSUME NEW X, NEW t \in Wire(X)
  PROVE  t.name \in {"Clear", "Get All", "Data"}
<1>1. P!GetAll.name = "Get All" /\ P!ClearAll.name = "Clear" /\ P!Data(t.list).name = "Data"
  BY DEF P!GetAll, P!ClearAll, P!Data
<1>2. t = P!GetAll \/ t = P!ClearAll \/ t = P!Data(t.list)
  BY WireSplit
<1>3. t.name = P!GetAll.name \/ t.name = P!ClearAll.name \/ t.name = P!Data(t.list).name
  BY <1>2, Zenon
<1>. QED
  BY <1>1, <1>3

\* Requests and CLEARs have no messages.
LEMMA EmptyRequests ==
  ASSUME NEW X, NEW t \in Wire(X), t.name \in {"Clear", "Get All"}
  PROVE  Elements(t.list) = {}
<1>1. P!GetAll.list = <<>> /\ P!ClearAll.list = <<>>
  BY DEF P!GetAll, P!ClearAll
<1>2. P!Data(t.list).name = "Data"
  BY DEF P!Data
<1>3. t = P!GetAll \/ t = P!ClearAll
  BY <1>2, WireSplit
<1>4. t.list = <<>>
  BY <1>1, <1>3, Zenon
<1>. QED
  BY <1>4, ElementsFacts

\* A request or a CLEAR keeps what is ahead of it, if all the way is in G when it is
\* written.
LEMMA PrecededStep ==
  ASSUME OneAgent, PairTypes, NEW name \in {"Clear", "Get All"}, NEW G,
         Preceded(name, G), Takes \/ Delivers \/ Writes \/ Shrinks,
         \A t \in Wire(Msgs) :
           Writes /\ t.name = name /\ pOutbox'[1] = Append(pOutbox[1], t) => OnWay(G)
  PROVE  Preceded(name, G)'
<1>0. sInbox[1] \in Seq(Wire(Msgs)) /\ pOutbox[1] \in Seq(Wire(Msgs))
  BY OneOfEach DEF PairTypes, PTypes, STypes, PHold, SHold
<1>1. CASE Shrinks
  BY <1>1, AheadNone DEF Shrinks, Preceded
<1>2. CASE Takes
  <2>1. /\ sInbox[1] # <<>> /\ sInbox'[1] = Tail(sInbox[1])
        /\ pOutbox'[1] = pOutbox[1] \/ pOutbox'[1] = <<>>
    BY <1>2 DEF Takes
  <2>2. Arrived' \subseteq Arrived \cup Elements(Head(sInbox[1]).list)
    BY <1>2, ElementsFacts DEF Takes, Arrived
  <2>3. /\ Named(Tail(sInbox[1]), name) => Named(sInbox[1], name)
        /\ AllIn(sInbox[1], G) =>
             AllIn(Tail(sInbox[1]), G) /\ Elements(Head(sInbox[1]).list) \subseteq G
        /\ AheadIn(sInbox[1], name, G) =>
             /\ AheadIn(Tail(sInbox[1]), name, G)
             /\ Named(sInbox[1], name) => Elements(Head(sInbox[1]).list) \subseteq G
    BY <1>0, <2>1, AheadTail
  <2>4. ~Named(<<>>, name) /\ AheadIn(<<>>, name, G)
    BY AheadNone
  <2>. QED
    BY <2>1, <2>2, <2>3, <2>4 DEF Preceded
<1>3. CASE Delivers
  <2>0. PICK t : t = Head(pOutbox[1])
    OBVIOUS
  <2>1. /\ pOutbox[1] # <<>> /\ pOutbox'[1] = Tail(pOutbox[1])
        /\ sInbox'[1] = Append(sInbox[1], t)
        /\ t \in Wire(Msgs) /\ Arrived' = Arrived
    BY <1>0, <1>3, <2>0, SeqTypes DEF Delivers, Arrived
  <2>2. /\ Named(Tail(pOutbox[1]), name) => Named(pOutbox[1], name)
        /\ t.name = name => Named(pOutbox[1], name)
        /\ AheadIn(pOutbox[1], name, G) =>
             /\ AheadIn(Tail(pOutbox[1]), name, G)
             /\ Named(pOutbox[1], name) => Elements(t.list) \subseteq G
    BY <1>0, <2>0, <2>1, AheadTail
  <2>3. /\ Named(Append(sInbox[1], t), name) => Named(sInbox[1], name) \/ t.name = name
        /\ AllIn(sInbox[1], G) /\ Elements(t.list) \subseteq G => AllIn(Append(sInbox[1], t), G)
        /\ /\ AheadIn(sInbox[1], name, G)
           /\ t.name = name => AllIn(sInbox[1], G) /\ Elements(t.list) \subseteq G
           => AheadIn(Append(sInbox[1], t), name, G)
    BY <1>0, <2>1, AheadAppend
  <2>. QED
    BY <2>1, <2>2, <2>3 DEF Preceded
<1>4. CASE Writes
  <2>1. PICK t \in Wire(Msgs) : pOutbox'[1] = Append(pOutbox[1], t)
    BY <1>4 DEF Writes
  <2>2. sInbox' = sInbox /\ Arrived' = Arrived
    BY <1>4 DEF Writes, Arrived
  <2>3. t.name = name => OnWay(G) /\ Elements(t.list) = {}
    BY <1>4, <2>1, EmptyRequests
  <2>4. t.name = name => Arrived \subseteq G /\ AllIn(sInbox[1], G) /\ AllIn(pOutbox[1], G)
    BY <2>3 DEF OnWay
  <2>5. /\ Named(Append(pOutbox[1], t), name) => Named(pOutbox[1], name) \/ t.name = name
        /\ /\ AheadIn(pOutbox[1], name, G)
           /\ t.name = name => AllIn(pOutbox[1], G) /\ Elements(t.list) \subseteq G
           => AheadIn(Append(pOutbox[1], t), name, G)
    BY <1>0, AheadAppend
  <2>. QED
    BY <2>1, <2>2, <2>3, <2>4, <2>5 DEF Preceded
<1>. QED
  BY <1>1, <1>2, <1>3, <1>4

-----------------------------------------------------------------------------
(* A CLEAR takes from the standby only what was inserted.                  *)

\* What went through an insert or is due for one.
Due == flushed \cup Elements(pMsgQue) \cup Elements(pSescList)

\* The two servers hold only what is due; when a batch goes to the table, only what is in
\* it or was inserted; when a CLEAR is written, only what was inserted.
Backed ==
  /\ PairHold(Due)
  /\ pColPc = "insert" => PairHold(flushed \cup Elements(pSescList))
  /\ pColPc = "clear" => PairHold(flushed)

\* The steps of the primary's collector, by what they do to what is due.
LEMMA CollectorSteps ==
  ASSUME P!Collector
  PROVE  /\ pColPc' # pColPc
         /\ pColPc = "append" => P!ColPut
         /\ pColPc = "sync" => UNCHANGED <<pMsgQue, pSescList>>
         /\ pColPc' = "insert" => /\ pColPc = "size" /\ pMsgQue = <<>>
                                  /\ UNCHANGED <<pMsgQue, pSescList>>
         /\ pColPc' = "clear" => pColPc = "insert"
         /\ \/ pMsgQue' = pMsgQue /\ pSescList' = pSescList
            \/ P!ColPut \/ P!ColTake
            \/ pMsgQue' = pMsgQue /\ pColPc \in {"threshold", "insert"}
<1>. USE DEF P!ColGoto, P!queueVars
<1>1. CASE P!ColWait \/ P!ColThreshold \/ P!ColSize \/ P!ColTakeWait
  BY <1>1 DEF P!ColWait, P!ColThreshold, P!ColSize, P!ColTakeWait
<1>2. CASE P!ColPut \/ P!ColTake \/ P!ColInsert
  BY <1>2 DEF P!ColPut, P!ColTake, P!ColInsert
<1>3. CASE P!ColSync \/ P!ColSendClear
  BY <1>3 DEF P!ColSync, P!ColSendClear, P!Disconnect
<1>. QED
  BY <1>1, <1>2, <1>3 DEF P!Collector

\* What was inserted stays so, what is due stays due, and what the collector queues
\* becomes due.
LEMMA DueUnlessRestart ==
  ASSUME OnlyPrimary, PrimaryStays, PairTypes, produced \in Nat, Quiet, Stages,
         [PairNext]_pairVars, NEW Y, Y = Due'
  PROVE  /\ Due \subseteq Y /\ flushed \subseteq flushed'
         /\ P!Collector => PHead(Y)
<1>0. pMsgQue \in Seq(Msgs) /\ pSescList \in Seq(Msgs) /\ pData \in Seq(Msgs)
      /\ (pColPc \in {"append", "sync"} => pData # <<>>)
      /\ Elements(<<>>) = {}
  BY ElementsFacts DEF PairTypes, PTypes, PControl, PHold
<1>1. CASE PrimaryCollector
  <2>1. P!Collector /\ flushed' = (IF pColPc = "insert" THEN flushed \cup Elements(pSescList) ELSE flushed)
    BY <1>1 DEF PrimaryCollector
  <2>2. CASE P!ColPut
    <3>1. /\ pColPc = "append" /\ pSescList' = pSescList
          /\ pMsgQue' = Append(pMsgQue, Head(pData)) /\ Head(pData) \in Msgs
      BY <1>0, <2>2, SeqTypes DEF P!ColPut, P!Put, P!ColGoto
    <3>2. Elements(pMsgQue') = Elements(pMsgQue) \cup {Head(pData)}
      BY <1>0, <3>1, ElementsFacts
    <3>. QED
      BY <2>1, <3>1, <3>2 DEF Due, PHead
  <2>3. CASE P!ColTake
    <3>1. /\ pColPc = "take" /\ pMsgQue # <<>> /\ pMsgQue' = Tail(pMsgQue)
          /\ pSescList' = Append(pSescList, Head(pMsgQue)) /\ Head(pMsgQue) \in Msgs
      BY <1>0, <2>3, SeqTypes DEF P!ColTake, P!Take, P!CanTake, P!ColGoto
    <3>2. /\ Elements(pMsgQue) = {Head(pMsgQue)} \cup Elements(pMsgQue')
          /\ Elements(pSescList') = Elements(pSescList) \cup {Head(pMsgQue)}
      BY <1>0, <3>1, ElementsFacts
    <3>. QED
      BY <2>1, <3>1, <3>2 DEF Due, PHead
  <2>4. CASE pMsgQue' = pMsgQue /\ pColPc \in {"threshold", "insert"}
    BY <1>0, <2>1, <2>4 DEF Due, PHead, Stages
  <2>5. CASE pMsgQue' = pMsgQue /\ pSescList' = pSescList /\ ~P!ColPut
    <3>1. pColPc # "append"
      BY <2>1, <2>5, CollectorSteps
    <3>. QED
      BY <2>1, <2>5, <3>1 DEF Due, PHead, Stages
  <2>. QED
    BY <2>1, <2>2, <2>3, <2>4, <2>5, CollectorSteps
<1>2. CASE P!AgentPut(1) /\ UNCHANGED <<pColPc, pSescList, flushed>>
  <2>1. Head(pTrans[1]) \in Msgs
    BY <1>2, SeqTypes DEF P!AgentPut, P!Agents, PairTypes, PTypes, PControl, PHold
  <2>2. Elements(pMsgQue') = Elements(pMsgQue) \cup {Head(pTrans[1])}
    BY <1>0, <1>2, <2>1, ElementsFacts DEF P!AgentPut, P!Put
  <2>. QED
    BY <1>2, <2>2, CollectorSteps DEF Due
<1>3. CASE /\ UNCHANGED <<pMsgQue, pSescList, flushed>>
           /\ pColPc' = pColPc \/ pColPc \in {"listen", "read"}
  BY <1>3, CollectorSteps DEF Due, PHead
<1>4. CASE Collect \/ (P!AdapterConnects /\ UNCHANGED history)
  <2>1. pColPc \in {"listen", "read"} /\ UNCHANGED <<pMsgQue, pSescList, flushed>>
    BY <1>4 DEF Collect, OnlyPrimary, P!AdapterSends, P!AdapterConnects, P!AdapterUnchanged,
                P!ColGoto, P!queueVars, history
  <2>. QED
    BY <1>3, <2>1
<1>. QED
  BY <1>1, <1>2, <1>3, <1>4, MovesUnlessRestart DEF home, history

\* So it is in every step, if the primary is never restarted.
LEMMA DueStep ==
  ASSUME OnlyPrimary, PrimaryLives, PairTypes, produced \in Nat, Quiet, Stages,
         [PairNext]_pairVars, NEW Y, Y = Due'
  PROVE  /\ Due \subseteq Y /\ flushed \subseteq flushed'
         /\ P!Collector => PHead(Y)
<1>1. PrimaryStays
  BY DEF PrimaryStays, PrimaryLives
<1>. QED
  BY <1>1, DueUnlessRestart

\* All that the servers hold stays backed.
LEMMA BackedStep ==
  ASSUME OnlyPrimary, PrimaryLives, PairTypes, produced \in Nat, Quiet, Stages, Backed,
         [PairNext]_pairVars
  PROVE  Backed'
<1>1. PairHold(Due)'
  <2>1. PICK Y : Y = Due'
    OBVIOUS
  <2>2. Due \subseteq Y /\ (P!Collector => PHead(Y))
    BY <2>1, DueStep
  <2>3. PairHold(Y)
    BY <2>2, HoldMono DEF PairHold, Backed
  <2>4. PairHold(Y)'
    BY <2>2, <2>3, HoldStep
  <2>5. PHold(Due)'
    BY <2>1, <2>4 DEF PairHold, PHold
  <2>6. SHold(Due)'
    BY <2>1, <2>4 DEF PairHold, SHold
  <2>. QED
    BY <2>5, <2>6 DEF PairHold
<1>2. ASSUME NEW X, NEW Y, X \subseteq Y, PairHold(X), pColPc \notin {"append", "sync"}
      PROVE  PairHold(Y)'
  BY <1>2, HoldStep, HoldLater DEF PHead
<1>3. flushed \subseteq flushed'
  <2>1. PICK Y : Y = Due'
    OBVIOUS
  <2>. QED
    BY <2>1, DueStep
<1>4. pColPc' # pColPc => P!Collector \/ pColPc' \in {"put", "read"}
  BY PrimaryMoves
  DEF PrimaryCollector, Collect, P!AdapterSends, P!AdapterConnects, P!ColGoto, home
<1>5. ASSUME pColPc' = "insert"
      PROVE  PairHold(flushed \cup Elements(pSescList))'
  <2>1. PICK Y : Y = (flushed \cup Elements(pSescList))'
    OBVIOUS
  <2>2. PICK X : X = flushed \cup Elements(pSescList)
    OBVIOUS
  <2>3. PairHold(X) /\ UNCHANGED pSescList /\ pColPc \notin {"append", "sync"}
    <3>1. CASE pColPc = "insert"
      <4>1. UNCHANGED pSescList
        BY <1>5, <3>1, PrimaryMoves, CollectorSteps
        DEF PrimaryCollector, Collect, OnlyPrimary, P!AdapterSends, P!AdapterConnects,
            P!ColGoto, home
      <4>. QED
        BY <2>2, <3>1, <4>1 DEF Backed
    <3>2. CASE pColPc # "insert"
      <4>1. pColPc = "size" /\ pMsgQue = <<>> /\ UNCHANGED pSescList
        BY <1>4, <1>5, <3>2, CollectorSteps
      <4>2. X = Due
        BY <2>2, <4>1, ElementsFacts DEF Due
      <4>. QED
        BY <4>1, <4>2 DEF Backed
    <3>. QED
      BY <3>1, <3>2
  <2>4. PairHold(Y)'
    BY <1>2, <1>3, <2>1, <2>2, <2>3
  <2>5. PHold(flushed \cup Elements(pSescList))'
    BY <2>1, <2>4 DEF PairHold, PHold
  <2>6. SHold(flushed \cup Elements(pSescList))'
    BY <2>1, <2>4 DEF PairHold, SHold
  <2>. QED
    BY <2>5, <2>6 DEF PairHold
<1>6. ASSUME pColPc' = "clear"
      PROVE  PairHold(flushed)'
  <2>1. PICK Y : Y = flushed'
    OBVIOUS
  <2>2. PICK X : X = IF pColPc = "insert" THEN flushed \cup Elements(pSescList) ELSE flushed
    OBVIOUS
  <2>3. PairHold(X) /\ X \subseteq Y /\ pColPc \notin {"append", "sync"}
    <3>1. CASE pColPc = "insert"
      <4>1. PrimaryCollector
        BY <1>6, <3>1, PrimaryMoves
        DEF Collect, OnlyPrimary, P!AdapterSends, P!AdapterConnects, P!ColGoto, home
      <4>. QED
        BY <2>1, <2>2, <3>1, <4>1 DEF Backed, PrimaryCollector
    <3>2. CASE pColPc # "insert"
      <4>1. pColPc = "clear"
        BY <1>4, <1>6, <3>2, CollectorSteps
      <4>. QED
        BY <1>3, <2>1, <2>2, <4>1 DEF Backed
    <3>. QED
      BY <3>1, <3>2
  <2>4. PairHold(Y)'
    BY <1>2, <2>3
  <2>5. PHold(flushed)'
    BY <2>1, <2>4 DEF PairHold, PHold
  <2>6. SHold(flushed)'
    BY <2>1, <2>4 DEF PairHold, SHold
  <2>. QED
    BY <2>5, <2>6 DEF PairHold
<1>. QED
  BY <1>1, <1>5, <1>6 DEF Backed

\* Two transactions written in one step are the same.
LEMMA AppendOne ==
  ASSUME NEW T, NEW s \in Seq(T), NEW t \in T, NEW u \in T, Append(s, t) = Append(s, u)
  PROVE  t = u
<1>1. Append(s, t)[Len(s) + 1] = t /\ Append(s, u)[Len(s) + 1] = u
  BY AppendProperties
<1>. QED
  BY <1>1

\* All that is ahead of a CLEAR was inserted.
LEMMA ClearCovers ==
  ASSUME OnlyPrimary, PrimaryLives, OneAgent, PairTypes, produced \in Nat, Quiet, Stages,
         Backed, Preceded("Clear", flushed), [PairNext]_pairVars
  PROVE  Preceded("Clear", flushed)'
<1>1. PICK G : G = flushed'
  OBVIOUS
<1>2. flushed \subseteq G
  <2>1. PICK Y : Y = Due'
    OBVIOUS
  <2>. QED
    BY <1>1, <2>1, DueStep
<1>3. Preceded("Clear", G)
  BY <1>2 DEF Preceded, AheadIn, AllIn
<1>4. ASSUME NEW t \in Wire(Msgs), Writes, t.name = "Clear",
             pOutbox'[1] = Append(pOutbox[1], t)
      PROVE  OnWay(G)
  <2>1. pOutbox[1] \in Seq(Wire(Msgs))
    BY OneOfEach DEF PairTypes, PTypes, PHold
  <2>2. pColPc = "clear"
    BY <1>4, <2>1, AppendOne DEF Writes
  <2>3. PairHold(flushed)
    BY <2>2 DEF Backed
  <2>4. PairHold(G)
    BY <1>2, <2>3, HoldMono DEF PairHold
  <2>. QED
    BY <2>4, HoldAhead
<1>5. Preceded("Clear", G)'
  BY <1>3, <1>4, PrecededStep, WayMoves
<1>. QED
  BY <1>1, <1>5 DEF Preceded

\* What the primary holds is accounted for, what both hold is due, and so what is ahead of
\* a CLEAR on the way, or has arrived, went through an insert.
ClearInv == Kept /\ Backed /\ Preceded("Clear", flushed)

\* It holds: whatever is ahead of a CLEAR was due when the flush began, and the batch took
\* all that was due.
LEMMA ClearIsCovered == OnlyPrimary /\ PrimaryLives /\ OneAgent /\ PairSpec => []ClearInv
<1>. SUFFICES ASSUME OnlyPrimary, PrimaryLives, OneAgent PROVE PairSpec => []ClearInv
  OBVIOUS
<1>1. PairInit => ClearInv
  <2>. SUFFICES ASSUME PairInit PROVE ClearInv
    OBVIOUS
  <2>1. Kept
    BY PairAssumption DEF PairInit, P!ProcessInit, P!QueueInit, Kept, Stages, NothingLost
  <2>2. Backed
    <3>1. \A X : <<>> \in Seq(X) /\ <<>> \in Seq(Wire(X))
      BY EmptySeq
    <3>. QED
      BY <3>1
      DEF PairInit, P!ProcessInit, S!ProcessInit, P!QueueInit, S!QueueInit, P!AgentInit,
          S!AgentInit, Backed, PairHold, PHold, SHold
  <2>3. sInbox[1] = <<>> /\ pOutbox[1] = <<>>
    BY OneOfEach DEF PairInit, P!ProcessInit, S!ProcessInit, P!AgentInit, S!AgentInit
  <2>4. Preceded("Clear", flushed)
    BY <2>3, AheadNone DEF Preceded
  <2>. QED
    BY <2>1, <2>2, <2>4 DEF ClearInv
<1>2. PairTypes /\ produced \in Nat /\ Quiet /\ ClearInv /\ [PairNext]_pairVars => ClearInv'
  <2>. SUFFICES ASSUME PairTypes, produced \in Nat, Quiet, ClearInv, [PairNext]_pairVars
                PROVE  ClearInv'
    OBVIOUS
  <2>. QED
    BY KeptStep, BackedStep, ClearCovers DEF ClearInv, Kept
<1>. QED
  BY <1>1, <1>2, PairTypeCorrect, SecondaryQuiet, PTL DEF PairSpec

\* With all adapters at the primary and one connection between the servers, a CLEAR
\* takes from the standby only messages that went through a batch insert.
THEOREM ClearTakesFlushed ==
  OnlyPrimary /\ PrimaryLives /\ OneAgent /\ PairSpec => ClearAfterFlush
<1>. SUFFICES ASSUME OnlyPrimary, PrimaryLives, OneAgent PROVE PairSpec => ClearAfterFlush
  OBVIOUS
<1>. DEFINE Step == \A m \in Elements(sMsgQue) : sWiped' /\ sMsgQue' = <<>> => m \in flushed
<1>1. PairTypes /\ Quiet /\ ClearInv /\ [PairNext]_pairVars => Step
  <2>. SUFFICES ASSUME PairTypes, Quiet, ClearInv, [PairNext]_pairVars,
                       NEW m \in Elements(sMsgQue), sWiped', sMsgQue' = <<>>
                PROVE  m \in flushed
    OBVIOUS
  <2>1. sMsgQue # <<>>
    BY ElementsFacts
  <2>2. Takes /\ Head(sInbox[1]).name = "Clear"
    BY <2>1, WayMoves DEF Takes, Delivers, Writes, Shrinks
  <2>3. Named(sInbox[1], "Clear")
    <3>1. sInbox[1] \in Seq(Wire(Msgs)) /\ sInbox[1] # <<>>
      BY <2>2, OneOfEach DEF PairTypes, STypes, SHold, Takes
    <3>. QED
      BY <2>2, <3>1, AheadTail
  <2>. QED
    BY <2>3 DEF ClearInv, Preceded, Arrived
<1>2. PairTypes /\ Quiet /\ ClearInv /\ [PairNext]_pairVars => [Step]_pairVars
  BY <1>1
<1>. QED
  BY <1>2, ClearIsCovered, PairTypeCorrect, SecondaryQuiet, PTL DEF PairSpec, ClearAfterFlush

-----------------------------------------------------------------------------
(* The answer to the primary's GET_ALL brings back only what the primary   *)
(* forwarded before it asked.                                              *)

\* A prefix of transactions among G is among G.
LEMMA AllInPrefix ==
  ASSUME NEW T, NEW s \in Seq(T), NEW n \in 0..Len(s), NEW G, AllIn(s, G)
  PROVE  AllIn(SubSeq(s, 1, n), G)
<1>1. Len(s) \in Nat /\ DOMAIN s = 1..Len(s) /\ n \in Nat /\ n <= Len(s)
  BY LenProperties
<1>2. \A i \in 1..n : i \in DOMAIN s /\ s[i] \in T
  BY <1>1, ElementOfSeq
<1>3. /\ SubSeq(s, 1, n) \in Seq(T)
      /\ Len(SubSeq(s, 1, n)) = n
      /\ \A i \in 1..n : SubSeq(s, 1, n)[i] = s[i]
  BY <1>1, <1>2, SubSeqProperties
<1>4. DOMAIN SubSeq(s, 1, n) = 1..n
  BY <1>3, LenProperties
<1>. QED
  BY <1>2, <1>3, <1>4 DEF AllIn

\* Until it has asked, the primary's agent is not connected or about to ask; what it gets
\* and what it puts back is in G.
PEarly(G) ==
  /\ pInit[1] => pAgPc[1] \in {"connect", "connected", "init"}
  /\ pAgPc[1] = "init" => pInit[1]
  /\ AllIn(pInbox[1], G)
  /\ pAgPc[1] \in {"put", "append"} => Elements(pTrans[1]) \subseteq G

\* Between the GET_ALL and its answer the secondary's agent has only what is in G, and it
\* answers with that.
Answering == sAgPc[1] \in {"post", "lock", "snapshot", "send", "unlock"}

SEarly(G) ==
  /\ Answering => Arrived \subseteq G
  /\ AllIn(sOutbox[1], G)

\* The thread of the primary's agent only moves what is in G.
LEMMA PEarlyThread ==
  ASSUME PTypes, NEW G, PEarly(G), P!AgentThread(1) \/ P!PingThread(1)
  PROVE  PEarly(G)' /\ (pInit'[1] => pInit[1])
<1>0. 1 \in P!Agents /\ AllIn(<<>>, G)
  <2>1. 1 \in P!Agents
    BY DEF P!Agents
  <2>. QED
    BY <2>1, AheadNone
<1>. USE DEF PTypes, PControl, PHold, PEarly, P!Goto, P!queueVars, P!netVars
<1>1. CASE P!CatchException(1) /\ UNCHANGED pInit
  <2>1. pInbox'[1] = <<>> /\ pAgPc'[1] = "connect"
    BY <1>0, <1>1, SubSeqEmpty DEF P!CatchException, P!CloseLink
  <2>. QED
    BY <1>0, <1>1, <2>1
<1>2. CASE P!RaiseFlags(1)
  BY <1>0, <1>2 DEF P!RaiseFlags
<1>3. CASE P!RequestAll(1)
  BY <1>0, <1>1, <1>3 DEF P!RequestAll
<1>4. CASE P!ReadTransaction(1)
  <2>1. pInbox[1] # <<>> /\ pInbox[1] \in Seq(Wire(Msgs)) /\ pAgPc[1] = "read" /\ ~pInit[1]
    BY <1>0, <1>4 DEF P!ReadTransaction
  <2>2. AllIn(Tail(pInbox[1]), G) /\ Elements(Head(pInbox[1]).list) \subseteq G
    BY <2>1, AheadTail
  <2>3. CASE ~(P!CatchException(1) /\ UNCHANGED pMsgQue)
    <3>1. /\ pInbox'[1] = Tail(pInbox[1]) /\ pInit' = pInit
          /\ \/ pAgPc' = pAgPc
             \/ pAgPc'[1] = "post"
             \/ pAgPc'[1] \in {"read", "put"} /\ pTrans'[1] = Head(pInbox[1]).list
      BY <1>0, <1>4, <2>3 DEF P!ReadTransaction
    <3>. QED
      BY <2>1, <2>2, <3>1
  <2>4. CASE P!CatchException(1) /\ UNCHANGED pMsgQue
    BY <1>1, <1>4, <2>4 DEF P!ReadTransaction
  <2>. QED
    BY <2>3, <2>4
<1>5. CASE P!ReadEof(1) \/ P!ReadThrows(1)
  BY <1>0, <1>1, <1>5 DEF P!ReadEof, P!ReadThrows
<1>6. CASE P!AgentWait(1)
  BY <1>0, <1>6 DEF P!AgentWait
<1>7. CASE P!AgentPut(1)
  <2>1. pTrans[1] # <<>> /\ pTrans[1] \in Seq(Msgs)
    BY <1>0, <1>7 DEF P!AgentPut
  <2>2. Elements(Tail(pTrans[1])) \subseteq G
    BY <1>7, <2>1, ElementsFacts DEF P!AgentPut
  <2>. QED
    BY <1>0, <1>7, <2>2 DEF P!AgentPut
<1>8. CASE P!PostAllData(1) \/ P!LockQueue(1) \/ P!Snapshot(1) \/ P!UnlockQueue(1)
  BY <1>0, <1>8 DEF P!PostAllData, P!LockQueue, P!Snapshot, P!UnlockQueue
<1>9. CASE P!PostSnapshot(1)
  BY <1>0, <1>1, <1>9 DEF P!PostSnapshot
<1>10. CASE P!PingProbe(1) \/ P!PingAnswered(1)
  BY <1>10 DEF P!PingProbe, P!PingAnswered
<1>11. CASE P!PingFailsServer(1) \/ P!PingFailsClient(1)
  <2>1. P!PingFailsServer(1)
    BY <1>11 DEF P!PingFailsClient
  <2>2. PICK n \in 0..Len(pInbox[1]) : P!CloseLink(1, n)
    BY <2>1 DEF P!PingFailsServer, P!CloseUnderway
  <2>3. AllIn(SubSeq(pInbox[1], 1, n), G)
    BY <1>0, AllInPrefix
  <2>4. pInbox'[1] = SubSeq(pInbox[1], 1, n)
    BY <1>0, <2>2 DEF P!CloseLink
  <2>. QED
    BY <2>1, <2>3, <2>4 DEF P!PingFailsServer
<1>. QED
  BY <1>2, <1>3, <1>4, <1>5, <1>6, <1>7, <1>8, <1>9, <1>10, <1>11
  DEF P!AgentThread, P!PingThread

\* So does the thread of the secondary's, which answers with what had arrived before the
\* GET_ALL.
LEMMA SEarlyThread ==
  ASSUME OneAgent, STypes, NEW G, SEarly(G), Preceded("Get All", G),
         NEW a \in S!Agents, S!AgentThread(a) \/ S!PingThread(a)
  PROVE  SEarly(G)'
<1>. USE DEF STypes, SControl, SHold, SEarly, Answering, S!Goto, S!queueVars, S!netVars
<1>0. 1 \in S!Agents /\ a = 1 /\ sSyncAgent = 1 /\ AllIn(<<>>, G) /\ Elements(<<>>) = {}
  BY OneOfEach, AheadNone, ElementsFacts
<1>1. CASE S!CatchException(a)
  BY <1>0, <1>1 DEF S!CatchException, S!CloseLink
<1>2. ASSUME NEW t \in Wire(Msgs), Elements(t.list) \subseteq G, S!SendMsg(1, t)
      PROVE  AllIn(sOutbox'[1], G)
  <2>1. AllIn(Append(sOutbox[1], t), G)
    BY <1>0, <1>2, AheadAppend
  <2>. QED
    BY <1>0, <1>2, <2>1 DEF S!SendMsg
<1>3. CASE S!RaiseFlags(a) \/ S!ReadEof(a) \/ S!ReadThrows(a) \/ S!AgentWait(a)
  BY <1>0, <1>1, <1>3 DEF S!RaiseFlags, S!ReadEof, S!ReadThrows, S!AgentWait
<1>4. CASE S!RequestAll(a)
  <2>1. S!GetAll \in Wire(Msgs) /\ Elements(S!GetAll.list) \subseteq G
    <3>1. S!GetAll \in Wire(Msgs) /\ S!GetAll.name = "Get All"
      BY WireTypes DEF S!GetAll
    <3>. QED
      BY <3>1, EmptyRequests
  <2>2. CASE ~S!CatchException(a)
    <3>1. AllIn(sOutbox'[1], G)
      BY <1>0, <1>2, <1>4, <2>1, <2>2 DEF S!RequestAll
    <3>. QED
      BY <1>0, <1>4, <2>2, <3>1 DEF S!RequestAll
  <2>. QED
    BY <1>1, <2>2
<1>5. CASE S!ReadTransaction(a)
  <2>1. sInbox[1] # <<>> /\ sInbox[1] \in Seq(Wire(Msgs)) /\ sAgPc[1] = "read"
    BY <1>0, <1>5 DEF S!ReadTransaction
  <2>2. CASE Head(sInbox[1]).name = "Get All"
    <3>1. Arrived \subseteq G
      BY <2>1, <2>2, AheadTail DEF Preceded
    <3>. QED
      BY <1>0, <1>5, <2>1, <2>2, <3>1 DEF S!ReadTransaction, Arrived
  <2>3. CASE Head(sInbox[1]).name # "Get All"
    <3>1. S!CatchException(a) \/ (sOutbox' = sOutbox /\ sAgPc'[1] \in {"read", "put"})
      BY <1>0, <1>5, <2>1, <2>3 DEF S!ReadTransaction
    <3>. QED
      BY <1>1, <3>1
  <2>. QED
    BY <2>2, <2>3
<1>6. CASE S!AgentPut(a)
  BY <1>0, <1>6 DEF S!AgentPut
<1>7. CASE S!PostAllData(a) \/ S!LockQueue(a) \/ S!Snapshot(a) \/ S!UnlockQueue(a)
  BY <1>0, <1>7
  DEF S!PostAllData, S!LockQueue, S!Snapshot, S!UnlockQueue, Arrived
<1>8. CASE S!PostSnapshot(a)
  <2>1. S!Data(sTrans[1]) \in Wire(Msgs) /\ S!Data(sTrans[1]).list = sTrans[1]
    BY <1>0, WireTypes DEF S!Data
  <2>2. Arrived \subseteq G
    BY <1>0, <1>8 DEF S!PostSnapshot
  <2>3. CASE ~S!CatchException(a)
    <3>1. AllIn(sOutbox'[1], G)
      BY <1>0, <1>2, <1>8, <2>1, <2>2, <2>3 DEF S!PostSnapshot, Arrived
    <3>. QED
      BY <1>0, <1>8, <2>2, <2>3, <3>1 DEF S!PostSnapshot, Arrived
  <2>. QED
    BY <1>1, <2>3
<1>9. CASE S!PingThread(a)
  <2>1. ~S!PingFailsServer(a) /\ ~S!PingFailsClient(a)
    BY NoSecondAgent
  <2>. QED
    BY <1>9, <2>1 DEF S!PingThread, S!PingProbe, S!PingAnswered, Arrived
<1>. QED
  BY <1>3, <1>4, <1>5, <1>6, <1>7, <1>8, <1>9 DEF S!AgentThread

\* As long as the primary has not asked, everything on the way is in G; so is what its
\* GET_ALL and the answer bring back.
EarlyIn(G) ==
  /\ PEarly(G) /\ SEarly(G) /\ Preceded("Get All", G)
  /\ pInit[1] => OnWay(G)

\* The way stays in G if what is written is.
LEMMA OnWayStep ==
  ASSUME OneAgent, PairTypes, NEW G, OnWay(G), Takes \/ Delivers \/ Writes \/ Shrinks,
         \A t \in Wire(Msgs) :
           Writes /\ pOutbox'[1] = Append(pOutbox[1], t) => Elements(t.list) \subseteq G
  PROVE  OnWay(G)'
<1>0. sInbox[1] \in Seq(Wire(Msgs)) /\ pOutbox[1] \in Seq(Wire(Msgs))
  BY OneOfEach DEF PairTypes, PTypes, STypes, PHold, SHold
<1>1. CASE Shrinks
  BY <1>1, AheadNone DEF Shrinks, OnWay
<1>2. CASE Takes
  <2>1. /\ sInbox[1] # <<>> /\ sInbox'[1] = Tail(sInbox[1])
        /\ pOutbox'[1] = pOutbox[1] \/ pOutbox'[1] = <<>>
    BY <1>2 DEF Takes
  <2>2. Arrived' \subseteq Arrived \cup Elements(Head(sInbox[1]).list)
    BY <1>2, ElementsFacts DEF Takes, Arrived
  <2>3. AllIn(Tail(sInbox[1]), G) /\ Elements(Head(sInbox[1]).list) \subseteq G
    BY <1>0, <2>1, AheadTail DEF OnWay
  <2>4. AllIn(<<>>, G)
    BY AheadNone
  <2>. QED
    BY <2>1, <2>2, <2>3, <2>4 DEF OnWay
<1>3. CASE Delivers
  <2>0. PICK t : t = Head(pOutbox[1])
    OBVIOUS
  <2>1. /\ pOutbox[1] # <<>> /\ pOutbox'[1] = Tail(pOutbox[1])
        /\ sInbox'[1] = Append(sInbox[1], t)
        /\ t \in Wire(Msgs) /\ Arrived' = Arrived
    BY <1>0, <1>3, <2>0, SeqTypes DEF Delivers, Arrived
  <2>2. AllIn(Tail(pOutbox[1]), G) /\ Elements(t.list) \subseteq G
    BY <1>0, <2>0, <2>1, AheadTail DEF OnWay
  <2>3. AllIn(Append(sInbox[1], t), G)
    BY <1>0, <2>1, <2>2, AheadAppend DEF OnWay
  <2>. QED
    BY <2>1, <2>2, <2>3 DEF OnWay
<1>4. CASE Writes
  <2>1. PICK t \in Wire(Msgs) : pOutbox'[1] = Append(pOutbox[1], t)
    BY <1>4 DEF Writes
  <2>2. sInbox' = sInbox /\ Arrived' = Arrived
    BY <1>4 DEF Writes, Arrived
  <2>3. Elements(t.list) \subseteq G
    BY <1>4, <2>1
  <2>4. AllIn(Append(pOutbox[1], t), G)
    BY <1>0, <2>3, AheadAppend DEF OnWay
  <2>. QED
    BY <2>1, <2>2, <2>4 DEF OnWay
<1>. QED
  BY <1>1, <1>2, <1>3, <1>4

\* A step of the primary's collector is one of the pair that records what it forwards.
LEMMA CollectorIsPrimary ==
  ASSUME OnlyPrimary, PrimaryLives, PairTypes, Quiet, [PairNext]_pairVars,
         P!Collector, pColPc \notin {"listen", "read"}
  PROVE  PrimaryCollector
  BY PrimaryMoves, CollectorSteps
  DEF Collect, OnlyPrimary, P!AdapterSends, P!AdapterConnects, P!ColGoto, home

\* The servers between them only move what is in G.
LEMMA EarlyServers ==
  ASSUME OnlyPrimary, PrimaryLives, OneAgent, PairTypes, Quiet, [PairNext]_pairVars,
         NEW G, EarlyIn(G)
  PROVE  PEarly(G)' /\ SEarly(G)' /\ (pInit'[1] => pInit[1])
<1>. USE DEF EarlyIn, PairTypes
<1>. DEFINE here  == UNCHANGED <<pInit, pAgPc, pInbox, pTrans>>
<1>. DEFINE there == UNCHANGED <<sAgPc, sMsgQue, sTrans>> /\ AllIn(sOutbox'[1], G)
<1>0. 1 \in P!Agents /\ 1 \in S!Agents /\ S!Agents = {1} /\ AllIn(<<>>, G)
  BY OneOfEach, AheadNone
<1>a. ~S!Collector
  BY DEF Quiet, S!Collector, S!ColWait, S!ColPut, S!ColSync, S!ColThreshold, S!ColSize,
         S!ColTakeWait, S!ColTake, S!ColInsert, S!ColSendClear, S!ColGoto
<1>b. P!NodeIdle => here
  BY DEF P!NodeIdle, P!nodeVars, P!agentVars, P!netVars
<1>c. S!NodeIdle => there
  BY DEF S!NodeIdle, S!nodeVars, S!agentVars, S!netVars, S!queueVars, SEarly
<1>d. P!Cut => here
  BY DEF P!Cut, P!NetUnchanged
<1>e. S!Cut => there
  BY <1>0 DEF S!Cut, S!NetUnchanged, S!queueVars, SEarly, STypes, SHold
<1>f. PrimaryEffect => there
  BY <1>c, <1>e DEF PrimaryEffect, CutSecondary
<1>g. SecondaryEffect => here
  BY <1>b, <1>d DEF SecondaryEffect, CutPrimary
<1>h. here => PEarly(G)' /\ (pInit'[1] => pInit[1])
  BY DEF PEarly
<1>i. there => SEarly(G)'
  BY DEF SEarly, Answering, Arrived
<1>j. ASSUME P!AgentThread(1) \/ P!PingThread(1), PrimaryEffect
      PROVE  PEarly(G)' /\ SEarly(G)' /\ (pInit'[1] => pInit[1])
  BY <1>f, <1>i, <1>j, PEarlyThread
<1>k. ASSUME NEW a \in S!Agents, S!AgentThread(a) \/ S!PingThread(a), SecondaryEffect
      PROVE  PEarly(G)' /\ SEarly(G)' /\ (pInit'[1] => pInit[1])
  BY <1>g, <1>h, <1>k, SEarlyThread
<1>1. CASE PrimaryCollector
  <2>1. here
    BY <1>1
    DEF PrimaryCollector, P!Collector, P!ColWait, P!ColPut, P!ColSync, P!ColThreshold,
        P!ColSize, P!ColTakeWait, P!ColTake, P!ColInsert, P!ColSendClear, P!agentVars, P!netVars
  <2>. QED
    BY <1>1, <1>f, <1>h, <1>i, <2>1 DEF PrimaryCollector
<1>2. CASE PrimaryAgent
  BY <1>2, <1>j DEF PrimaryAgent
<1>3. CASE SecondaryCollector
  BY <1>3, <1>a DEF SecondaryCollector
<1>4. CASE \E a \in S!Agents : SecondaryAgent(a)
  BY <1>4, <1>k DEF SecondaryAgent
<1>5. CASE Collect \/ AdapterConnects
  <2>1. here
    BY <1>5 DEF Collect, AdapterConnects, OnlyPrimary, P!AdapterSends, P!AdapterConnects,
                P!AdapterUnchanged, P!agentVars, P!netVars
  <2>2. S!NodeIdle
    BY <1>5 DEF Collect, AdapterConnects, OnlyPrimary
  <2>. QED
    BY <1>c, <1>h, <1>i, <2>1, <2>2
<1>6. CASE Network
  <2>1. CASE SecondaryConnects(1)
    <3>1. SEarly(G)'
      BY <1>0, <2>1
      DEF SecondaryConnects, S!Connect, S!Goto, S!NetUnchanged, S!queueVars, SEarly, Answering,
          Arrived, STypes, SControl
    <3>. QED
      BY <1>b, <1>h, <2>1, <3>1 DEF SecondaryConnects
  <2>2. CASE PrimaryAccepts(1)
    <3>1. there
      BY <2>2 DEF PrimaryAccepts, S!Serve, S!NetUnchanged, S!queueVars, SEarly
    <3>2. PEarly(G)' /\ pInit' = pInit
      BY <1>0, <2>2
      DEF PrimaryAccepts, P!Connect, P!Goto, P!NetUnchanged, PEarly, PTypes, PControl
    <3>. QED
      BY <1>i, <3>1, <3>2
  <2>3. CASE DeliverToSecondary(1)
    <3>1. here
      BY <2>3 DEF DeliverToSecondary, P!PeerReads, P!NetUnchanged
    <3>2. there
      BY <2>3 DEF DeliverToSecondary, S!PeerSends, S!NetUnchanged, S!queueVars, SEarly
    <3>. QED
      BY <1>h, <1>i, <3>1, <3>2
  <2>4. CASE DeliverToPrimary(1)
    <3>0. PICK t : t = Head(sOutbox[1])
      OBVIOUS
    <3>1. /\ sOutbox[1] # <<>> /\ sOutbox[1] \in Seq(Wire(Msgs)) /\ t \in Wire(Msgs)
          /\ pInbox[1] \in Seq(Wire(Msgs))
          /\ sOutbox'[1] = Tail(sOutbox[1]) /\ pInbox'[1] = Append(pInbox[1], t)
      BY <1>0, <2>4, <3>0, SeqTypes
      DEF DeliverToPrimary, S!PeerReads, P!PeerSends, PTypes, STypes, PHold, SHold
    <3>2. AllIn(Tail(sOutbox[1]), G) /\ Elements(t.list) \subseteq G
      BY <3>0, <3>1, AheadTail DEF SEarly
    <3>3. AllIn(Append(pInbox[1], t), G)
      BY <3>1, <3>2, AheadAppend DEF PEarly
    <3>4. there
      BY <2>4, <3>1, <3>2 DEF DeliverToPrimary, S!PeerReads, S!NetUnchanged, S!queueVars
    <3>5. PEarly(G)' /\ pInit' = pInit
      BY <2>4, <3>1, <3>3 DEF DeliverToPrimary, P!PeerSends, P!NetUnchanged, PEarly
    <3>. QED
      BY <1>i, <3>4, <3>5
  <2>. QED
    BY <1>0, <1>6, <2>1, <2>2, <2>3, <2>4 DEF Network
<1>7. CASE Faults
  <2>1. CASE Break
    BY <1>d, <1>e, <1>h, <1>i, <2>1 DEF Break
  <2>2. CASE PingProbes \/ PingAnswers \/ PingFails
    BY <1>j, <1>k, <2>2 DEF PingProbes, PingAnswers, PingFails, P!PingThread, S!PingThread
  <2>3. CASE Crash
    <3>1. S!Restart /\ here
      BY <1>b, <1>d, <2>3 DEF Crash, CutPrimary, PrimaryLives
    <3>2. sAgPc'[1] = "connect" /\ sOutbox'[1] = <<>>
      BY <1>0, <3>1 DEF S!Restart
    <3>. QED
      BY <1>0, <1>h, <3>1, <3>2 DEF SEarly, Answering
  <2>. QED
    BY <1>7, <2>1, <2>2, <2>3 DEF Faults
<1>8. CASE UNCHANGED pairVars
  BY <1>8, <1>b, <1>c, <1>h, <1>i DEF pairVars, P!NodeIdle, S!NodeIdle
<1>. QED
  BY <1>1, <1>2, <1>3, <1>4, <1>5, <1>6, <1>7, <1>8 DEF PairNext

\* What the primary forwards before it asks is recorded in early.
LEMMA EarlyStep ==
  ASSUME OnlyPrimary, PrimaryLives, OneAgent, PairTypes, Quiet, [PairNext]_pairVars,
         NEW G, early' \subseteq G, EarlyIn(G)
  PROVE  EarlyIn(G)'
<1>0. pOutbox[1] \in Seq(Wire(Msgs))
  BY OneOfEach DEF PairTypes, PTypes, PHold
<1>1. PEarly(G)' /\ SEarly(G)' /\ (pInit'[1] => pInit[1])
  BY EarlyServers
<1>2. Takes \/ Delivers \/ Writes \/ Shrinks
  BY WayMoves
<1>3. ASSUME NEW t \in Wire(Msgs), Writes, pOutbox'[1] = Append(pOutbox[1], t)
      PROVE  /\ t.name = "Get All" => P!RequestAll(1)
             /\ t.name = "Data" => \/ P!PostSnapshot(1)
                                   \/ /\ P!ColSync /\ pConnected[1]
                                      /\ Elements(t.list) = {Head(pData)}
  BY <1>0, <1>3, AppendOne DEF Writes
<1>4. Preceded("Get All", G)'
  <2>1. ASSUME NEW t \in Wire(Msgs), Writes, t.name = "Get All",
               pOutbox'[1] = Append(pOutbox[1], t)
        PROVE  OnWay(G)
    BY <1>3, <2>1 DEF P!RequestAll, EarlyIn, PEarly
  <2>. QED
    BY <1>2, <2>1, PrecededStep DEF EarlyIn
<1>5. ASSUME pInit'[1]
      PROVE  OnWay(G)'
  <2>1. pInit[1] /\ OnWay(G)
    BY <1>1, <1>5 DEF EarlyIn
  <2>2. ASSUME NEW t \in Wire(Msgs), Writes, pOutbox'[1] = Append(pOutbox[1], t)
        PROVE  Elements(t.list) \subseteq G
    <3>1. CASE t.name = "Data"
      <4>1. P!ColSync /\ pConnected[1] /\ Elements(t.list) = {Head(pData)}
        BY <1>3, <2>1, <2>2, <3>1 DEF P!PostSnapshot, EarlyIn, PEarly
      <4>2. PrimaryCollector /\ pColPc = "sync"
        BY <4>1, CollectorIsPrimary DEF P!ColSync, P!Collector
      <4>. QED
        BY <2>1, <4>1, <4>2 DEF PrimaryCollector
    <3>2. CASE t.name # "Data"
      <4>1. t.name \in {"Clear", "Get All"}
        BY <3>2, WireNames
      <4>. QED
        BY <4>1, EmptyRequests
    <3>. QED
      BY <3>1, <3>2
  <2>. QED
    BY <1>2, <2>1, <2>2, OnWayStep
<1>. QED
  BY <1>1, <1>4, <1>5 DEF EarlyIn

-----------------------------------------------------------------------------
(* One row for each message.                                               *)

\* The message m is in s once at most.
Single(s, m) == \A i, j \in DOMAIN s : s[i] = m /\ s[j] = m => i = j

\* What the steps of a queue do to a message that is in it once.
LEMMA SingleFacts ==
  ASSUME NEW T, NEW m
  PROVE  /\ Single(<<>>, m)
         /\ \A s \in Seq(T), e \in T :
              Single(s, m) /\ (e = m => m \notin Elements(s)) => Single(Append(s, e), m)
         /\ \A s \in Seq(T) : s # <<>> /\ Single(s, m) =>
              Single(Tail(s), m) /\ (Head(s) = m => m \notin Elements(Tail(s)))
<1>1. Single(<<>>, m)
  <2>1. <<>> \in Seq({}) /\ Len(<<>>) = 0
    BY EmptySeq
  <2>2. DOMAIN <<>> = 1..0
    BY <2>1, LenProperties
  <2>. QED
    BY <2>2 DEF Single
<1>2. ASSUME NEW s \in Seq(T), NEW e \in T, Single(s, m), e = m => m \notin Elements(s)
      PROVE  Single(Append(s, e), m)
  <2>1. \A i \in DOMAIN Append(s, e) :
          \/ i \in DOMAIN s /\ Append(s, e)[i] = s[i]
          \/ i = Len(s) + 1 /\ Append(s, e)[i] = e
    <3>1. DOMAIN s = 1..Len(s) /\ Len(s) \in Nat
      BY LenProperties
    <3>2. /\ Append(s, e) \in Seq(T) /\ Len(Append(s, e)) = Len(s) + 1
          /\ \A i \in 1..Len(s) : Append(s, e)[i] = s[i]
          /\ Append(s, e)[Len(s) + 1] = e
      BY AppendProperties
    <3>3. DOMAIN Append(s, e) = 1..(Len(s) + 1)
      BY <3>2, LenProperties
    <3>. QED
      BY <3>1, <3>2, <3>3
  <2>. QED
    BY <1>2, <2>1 DEF Single, Elements
<1>3. ASSUME NEW s \in Seq(T), s # <<>>, Single(s, m)
      PROVE  Single(Tail(s), m) /\ (Head(s) = m => m \notin Elements(Tail(s)))
  <2>1. /\ 1 \in DOMAIN s /\ Head(s) = s[1]
        /\ \A i \in DOMAIN Tail(s) : i + 1 \in DOMAIN s /\ Tail(s)[i] = s[i + 1]
    BY <1>3, Positions
  <2>2. Tail(s) \in Seq(T)
    BY <1>3, SeqTypes
  <2>3. \A i \in DOMAIN Tail(s) : i \in Nat /\ i # 0
    BY <2>2, LenProperties
  <2>4. \A i, j \in DOMAIN Tail(s) : (i + 1 = j + 1 => i = j) /\ i + 1 # 1
    BY <2>3
  <2>. QED
    BY <1>3, <2>1, <2>4 DEF Single, Elements
<1>. QED
  BY <1>1, <1>2, <1>3

\* How often a message that is in the batch once goes to the table.
LEMMA SingleCount ==
  ASSUME NEW s \in Seq(Msgs), NEW rows \in SUBSET DOMAIN s, NEW m
  PROVE  /\ Cardinality({i \in rows : s[i] = m}) \in Nat
         /\ m \notin Elements(s) => Cardinality({i \in rows : s[i] = m}) = 0
         /\ Single(s, m) => Cardinality({i \in rows : s[i] = m}) \in {0, 1}
<1>. DEFINE C == {i \in rows : s[i] = m}
<1>1. DOMAIN s = 1..Len(s) /\ Len(s) \in Nat
  BY LenProperties
<1>2. IsFiniteSet(DOMAIN s)
  BY <1>1, FS_Interval
<1>3. Cardinality(C) \in Nat
  <2>1. C \subseteq DOMAIN s
    OBVIOUS
  <2>. QED
    BY <1>2, <2>1, FS_Subset, FS_CardinalityType
<1>4. C = {} => Cardinality(C) = 0
  BY FS_EmptySet
<1>5. m \notin Elements(s) => C = {}
  BY DEF Elements
<1>6. ASSUME Single(s, m), C # {}
      PROVE  Cardinality(C) = 1
  <2>1. PICK i : i \in C
    BY <1>6
  <2>2. C = {i}
    BY <1>6, <2>1 DEF Single
  <2>. QED
    BY <2>2, FS_Singleton
<1>. QED
  BY <1>3, <1>4, <1>5, <1>6

\* The table has rows of what was produced only.
Rows == table \in [Msgs -> Nat] /\ \A m \in Msgs : table[m] # 0 => m \in 1..produced

\* The message m is in one place of the primary at most, and has no row before it is
\* inserted.
Once(m) ==
  /\ Single(pMsgQue, m) /\ Single(pSescList, m)
  /\ m \in Elements(pMsgQue) => m \notin Elements(pSescList) /\ table[m] = 0
  /\ m \in Elements(pSescList) => table[m] = 0
  /\ m \in Unread => table[m] = 0
  /\ table[m] <= 1

\* The collector counts with the Cardinality of its own module.
LEMMA SameCardinality == \A C : P!Cardinality(C) = Cardinality(C)
BY Zenon DEF P!Cardinality, Cardinality

\* What an insert does to the rows of a message.
LEMMA InsertRows ==
  ASSUME PTypes, Rows, P!ColInsert
  PROVE  /\ table' \in [Msgs -> Nat]
         /\ \A m \in Msgs :
              /\ m \notin Elements(pSescList) => (table'[m] # 0 => table[m] # 0)
              /\ m \notin Elements(pSescList) /\ table[m] <= 1 => table'[m] = table[m]
              /\ Single(pSescList, m) /\ table[m] = 0 => table'[m] <= 1
<1>1. PICK rows \in P!InsertOutcomes : P!AddRows(rows)
  BY DEF P!ColInsert
<1>2. pSescList \in Seq(Msgs) /\ rows \in SUBSET DOMAIN pSescList
  BY DEF P!InsertOutcomes, PTypes, PHold
<1>. DEFINE c(k) == Cardinality({i \in rows : pSescList[i] = k})
<1>3. table' = [k \in Msgs |->
                  LET n == table[k] + Cardinality({i \in rows : pSescList[i] = k})
                  IN IF n < 2 THEN n ELSE 2]
  BY <1>1, SameCardinality, Zenon DEF P!AddRows
<1>4. \A k \in Msgs : table'[k] = IF table[k] + c(k) < 2 THEN table[k] + c(k) ELSE 2
  BY <1>3, Zenon
<1>5. \A k \in Msgs : /\ c(k) \in Nat /\ table[k] \in Nat
                      /\ k \notin Elements(pSescList) => c(k) = 0
                      /\ Single(pSescList, k) => c(k) \in {0, 1}
  BY <1>2, SingleCount DEF Rows
<1>. HIDE DEF c
<1>6. \A k \in Msgs : table'[k] \in Nat
  BY <1>4, <1>5
<1>7. DOMAIN table' = Msgs /\ table' = [k \in Msgs |-> table'[k]]
  BY <1>3, Zenon
<1>. QED
  BY <1>4, <1>5, <1>6, <1>7

\* The rows are those of messages that were produced.
LEMMA RowsStep ==
  ASSUME OnlyPrimary, PrimaryLives, PairTypes, produced \in Nat, Quiet, InOrder, Rows,
         [PairNext]_pairVars
  PROVE  Rows'
<1>1. CASE PrimaryCollector
  <2>1. produced' = produced /\ P!Collector
    BY <1>1 DEF PrimaryCollector
  <2>2. CASE P!ColInsert
    <3>1. Elements(pSescList) \subseteq 1..produced
      BY ElementsFacts DEF InOrder, PairHold, PHold
    <3>2. table' \in [Msgs -> Nat]
      BY <2>2, InsertRows DEF PairTypes
    <3>3. ASSUME NEW m \in Msgs, table'[m] # 0
          PROVE  m \in 1..produced
      <4>1. m \notin Elements(pSescList) => table[m] # 0
        BY <2>2, <3>3, InsertRows DEF PairTypes
      <4>. QED
        BY <3>1, <4>1 DEF Rows
    <3>. QED
      BY <2>1, <3>2, <3>3 DEF Rows
  <2>3. CASE ~P!ColInsert
    BY <2>1, <2>3
    DEF Rows, P!Collector, P!ColWait, P!ColPut, P!ColSync, P!ColThreshold, P!ColSize,
        P!ColTakeWait, P!ColTake, P!ColSendClear
  <2>. QED
    BY <2>2, <2>3
<1>2. CASE Collect
  <2>1. PICK n \in 1..PairChunk :
          produced' = produced + n /\ P!AdapterSends([i \in 1..n |-> produced + i])
    BY <1>2 DEF Collect, OnlyPrimary
  <2>2. n \in Nat /\ table' = table
    BY <2>1, PairAssumption DEF P!AdapterSends, P!AdapterUnchanged
  <2>. QED
    BY <2>1, <2>2 DEF Rows
<1>3. CASE P!AdapterConnects /\ UNCHANGED history
  BY <1>3 DEF Rows, P!AdapterConnects, P!AdapterUnchanged, history
<1>4. CASE UNCHANGED <<table, produced>>
  BY <1>4 DEF Rows
<1>. QED
  BY <1>1, <1>2, <1>3, <1>4, PrimaryMoves DEF history

\* The collector moves a message that is in one place to one place.
LEMMA OnceCollector ==
  ASSUME PairTypes, Stages, InOrder, Rows, NEW m \in Msgs, Once(m), P!Collector,
         Unread' \subseteq Unread
  PROVE  Once(m)'
<1>. USE DEF P!ColGoto, P!queueVars
<1>0. pMsgQue \in Seq(Msgs) /\ pSescList \in Seq(Msgs) /\ pData \in Seq(Msgs)
  BY DEF PairTypes, PTypes, PControl, PHold
<1>1. m \in Unread => m \notin Elements(pMsgQue) /\ m \notin Elements(pSescList)
  <2>. SUFFICES ASSUME m \in Unread
                PROVE  m \notin Elements(pMsgQue) /\ m \notin Elements(pSescList)
    OBVIOUS
  <2>1. PairHold(Older(m))
    BY DEF InOrder
  <2>2. pMsgQue \in Seq(Older(m)) /\ pSescList \in Seq(Older(m))
    BY <2>1 DEF PairHold, PHold
  <2>3. Elements(pMsgQue) \subseteq Older(m) /\ Elements(pSescList) \subseteq Older(m)
    BY <2>2, ElementsFacts
  <2>4. m \notin Older(m)
    BY PairAssumption DEF Older, Msgs
  <2>. QED
    BY <2>3, <2>4
<1>2. Single(<<>>, m) /\ Elements(<<>>) = {}
  BY SingleFacts, ElementsFacts
<1>3. CASE UNCHANGED <<pMsgQue, pSescList, table>>
  BY <1>3 DEF Once
<1>4. CASE P!ColThreshold
  BY <1>2, <1>4 DEF P!ColThreshold, Once
<1>5. CASE P!ColPut
  <2>1. pData # <<>> /\ pColPc = "append"
    BY <1>5 DEF P!ColPut, PairTypes, PTypes, PControl
  <2>2. PICK h \in Msgs : h = Head(pData) /\ h \in Unread
    <3>1. Head(pData) \in Msgs /\ Head(pData) \in Elements(pData)
      BY <1>0, <2>1, SeqTypes, ElementsFacts
    <3>. QED
      BY <2>1, <3>1 DEF Unread
  <2>3. pMsgQue' = Append(pMsgQue, h) /\ pSescList' = pSescList /\ table' = table
    BY <1>5, <2>2 DEF P!ColPut, P!Put
  <2>4. Elements(pMsgQue') = Elements(pMsgQue) \cup {h}
    BY <1>0, <2>2, <2>3, ElementsFacts
  <2>5. Single(pMsgQue, m) /\ (h = m => m \notin Elements(pMsgQue))
    BY <1>1, <2>2 DEF Once
  <2>6. Single(Append(pMsgQue, h), m)
    BY <1>0, <2>2, <2>5, SingleFacts
  <2>. QED
    BY <1>1, <2>2, <2>3, <2>4, <2>6 DEF Once
<1>6. CASE P!ColTake
  <2>1. PICK h \in Msgs : h = Head(pMsgQue)
    BY <1>0, <1>6, SeqTypes DEF P!ColTake, P!CanTake
  <2>2. /\ pMsgQue # <<>> /\ pMsgQue' = Tail(pMsgQue) /\ pSescList' = Append(pSescList, h)
        /\ table' = table
    BY <1>6, <2>1 DEF P!ColTake, P!CanTake, P!Take
  <2>3. /\ Elements(pMsgQue) = {h} \cup Elements(Tail(pMsgQue))
        /\ Elements(Append(pSescList, h)) = Elements(pSescList) \cup {h}
    BY <1>0, <2>1, <2>2, ElementsFacts
  <2>4. Single(Tail(pMsgQue), m) /\ (h = m => m \notin Elements(Tail(pMsgQue)))
    BY <1>0, <2>1, <2>2, SingleFacts DEF Once
  <2>5. Single(pSescList, m) /\ (h = m => m \notin Elements(pSescList))
    BY <2>3 DEF Once
  <2>6. Single(Append(pSescList, h), m)
    BY <1>0, <2>5, SingleFacts
  <2>. QED
    BY <2>2, <2>3, <2>4, <2>6 DEF Once
<1>7. CASE P!ColInsert
  <2>1. pSescList' = <<>> /\ pMsgQue' = pMsgQue
    BY <1>7 DEF P!ColInsert
  <2>2. /\ table'[m] \in Nat /\ table[m] \in Nat
        /\ m \notin Elements(pSescList) /\ table[m] <= 1 => table'[m] = table[m]
        /\ Single(pSescList, m) /\ table[m] = 0 => table'[m] <= 1
    BY <1>7, InsertRows DEF PairTypes, Rows
  <2>. QED
    BY <1>1, <1>2, <2>1, <2>2 DEF Once
<1>8. CASE P!ColWait \/ P!ColSize \/ P!ColTakeWait \/ P!ColSync \/ P!ColSendClear
  BY <1>3, <1>8 DEF P!ColWait, P!ColSize, P!ColTakeWait, P!ColSync, P!ColSendClear
<1>. QED
  BY <1>4, <1>5, <1>6, <1>7, <1>8 DEF P!Collector

\* What was forwarded early is not forgotten.
LEMMA EarlyGrows ==
  ASSUME [PairNext]_pairVars
  PROVE  early \subseteq early'
<1>1. CASE UNCHANGED early
  BY <1>1
<1>2. CASE PrimaryCollector
  BY <1>2 DEF PrimaryCollector
<1>. QED
  BY <1>1, <1>2
  DEF PairNext, pairVars, SecondaryCollector, PrimaryAgent, SecondaryAgent, Collect,
      AdapterConnects, Network, Faults

\* Every step keeps a message in one place, if the answer to the GET_ALL does not bring
\* it back.
LEMMA OnceStep ==
  ASSUME OnlyPrimary, PrimaryLives, OneAgent, PairTypes, produced \in Nat, Quiet, Stages,
         InOrder, Rows, EarlyIn(early), [PairNext]_pairVars,
         NEW m \in Msgs, m \notin early, Once(m)
  PROVE  Once(m)'
<1>1. CASE PrimaryCollector
  <2>1. P!Collector /\ pColPc \notin {"listen", "read"}
    BY <1>1
    DEF PrimaryCollector, P!Collector, P!ColWait, P!ColPut, P!ColSync, P!ColThreshold,
        P!ColSize, P!ColTakeWait, P!ColTake, P!ColInsert, P!ColSendClear, P!ColGoto
  <2>2. ~Collect
    BY <2>1 DEF Collect, OnlyPrimary, P!AdapterSends, P!ColGoto
  <2>3. Unread' \subseteq Unread
    BY <2>2, UnreadStep
  <2>. QED
    BY <2>1, <2>3, OnceCollector
<1>2. CASE Collect
  <2>1. PICK n \in 1..PairChunk :
          /\ produced + n <= MaxMsgs /\ produced' = produced + n
          /\ P!AdapterSends([i \in 1..n |-> produced + i])
    BY <1>2 DEF Collect, OnlyPrimary
  <2>2. /\ pColPc' = "put" /\ pData' = [i \in 1..n |-> produced + i] /\ n \in Nat
        /\ UNCHANGED <<pMsgQue, pSescList, table>>
    BY <2>1, PairAssumption DEF P!AdapterSends, P!AdapterUnchanged, P!queueVars, P!ColGoto
  <2>3. Unread' = (produced + 1)..(produced + n)
    BY <2>1, <2>2, ChunkElements DEF Unread
  <2>4. m \in Unread' => table[m] = 0
    BY <2>2, <2>3 DEF Rows
  <2>. QED
    BY <2>2, <2>4 DEF Once
<1>3. CASE P!AgentPut(1) /\ UNCHANGED <<pColPc, pData, pSescList, history, table>>
  <2>1. pMsgQue \in Seq(Msgs) /\ pTrans[1] \in Seq(Msgs) /\ pTrans[1] # <<>>
    BY <1>3, OneOfEach DEF PairTypes, PTypes, PControl, PHold, P!AgentPut
  <2>2. PICK h \in Msgs : h = Head(pTrans[1])
    BY <2>1, SeqTypes
  <2>3. h # m
    <3>1. Elements(pTrans[1]) \subseteq early
      BY <1>3 DEF EarlyIn, PEarly, P!AgentPut
    <3>2. h \in Elements(pTrans[1])
      BY <2>1, <2>2, ElementsFacts
    <3>. QED
      BY <3>1, <3>2
  <2>4. pMsgQue' = Append(pMsgQue, h)
    BY <1>3, <2>2 DEF P!AgentPut, P!Put
  <2>5. Single(pMsgQue', m) /\ Elements(pMsgQue') = Elements(pMsgQue) \cup {h}
    <3>1. Elements(Append(pMsgQue, h)) = Elements(pMsgQue) \cup {h}
      BY <2>1, <2>2, ElementsFacts
    <3>2. Single(Append(pMsgQue, h), m)
      BY <2>1, <2>2, <2>3, SingleFacts DEF Once
    <3>. QED
      BY <2>4, <3>1, <3>2
  <2>. QED
    BY <1>3, <2>3, <2>5 DEF Once, Unread
<1>4. CASE P!AdapterConnects /\ UNCHANGED history
  BY <1>4 DEF P!AdapterConnects, P!AdapterUnchanged, P!ColGoto, P!queueVars, Once, Unread
<1>5. CASE UNCHANGED <<home, history, table>>
  BY <1>5 DEF home, Once, Unread
<1>. QED
  BY <1>1, <1>2, <1>3, <1>4, <1>5, PrimaryMoves

\* What is among early stays so over every step.
LEMMA EarlyKept ==
  ASSUME OnlyPrimary, PrimaryLives, OneAgent, PairTypes, Quiet, [PairNext]_pairVars,
         EarlyIn(early)
  PROVE  EarlyIn(early)'
<1>1. PICK G : G = early'
  OBVIOUS
<1>2. early \subseteq G
  BY <1>1, EarlyGrows
<1>3. EarlyIn(G)
  <2>1. PEarly(G) /\ SEarly(G)
    BY <1>2 DEF EarlyIn, PEarly, SEarly, AllIn
  <2>2. Preceded("Get All", G)
    BY <1>2 DEF EarlyIn, Preceded, AheadIn, AllIn
  <2>3. pInit[1] => OnWay(G)
    BY <1>2 DEF EarlyIn, OnWay, AllIn
  <2>. QED
    BY <2>1, <2>2, <2>3 DEF EarlyIn
<1>4. EarlyIn(G)'
  BY <1>1, <1>3, EarlyStep
<1>5. (PEarly(early) /\ SEarly(early))'
  BY <1>1, <1>4 DEF EarlyIn, PEarly, SEarly
<1>6. Preceded("Get All", early)' /\ (pInit[1] => OnWay(early))'
  BY <1>1, <1>4 DEF EarlyIn, Preceded, OnWay
<1>. QED
  BY <1>5, <1>6 DEF EarlyIn

\* At first nothing has come back, because nothing is anywhere.
LEMMA EarlyInit ==
  ASSUME OneAgent, PairInit
  PROVE  EarlyIn(early)
<1>1. /\ pAgPc[1] = "connect" /\ sAgPc[1] = "connect" /\ pInbox[1] = <<>>
      /\ pOutbox[1] = <<>> /\ sInbox[1] = <<>> /\ sOutbox[1] = <<>>
      /\ sMsgQue = <<>> /\ sTrans[1] = <<>>
  BY OneOfEach
  DEF PairInit, P!ProcessInit, S!ProcessInit, P!QueueInit, S!QueueInit, P!AgentInit,
      S!AgentInit
<1>2. Arrived = {}
  BY <1>1, ElementsFacts DEF Arrived
<1>3. AllIn(<<>>, early) /\ AheadIn(<<>>, "Get All", early) /\ ~Named(<<>>, "Get All")
  BY AheadNone
<1>. QED
  BY <1>1, <1>2, <1>3 DEF EarlyIn, PEarly, SEarly, Answering, Preceded, OnWay

\* With all adapters at the primary and one connection between the servers, no message is
\* inserted twice, except one that the primary forwarded between its connection and its
\* GET_ALL: the numbering of the adapter keeps a new message out of all that is held, and
\* the answer brings back only what was forwarded early.
THEOREM OneRow == OnlyPrimary /\ PrimaryLives /\ OneAgent /\ PairSpec => []OneRowEach
<1>. SUFFICES ASSUME OnlyPrimary, PrimaryLives, OneAgent PROVE PairSpec => []OneRowEach
  OBVIOUS
<1>. DEFINE IInv == Kept /\ InOrder /\ Rows /\ EarlyIn(early) /\ \A m \in Msgs \ early : Once(m)
<1>1. PairInit => IInv
  <2>. SUFFICES ASSUME PairInit PROVE IInv
    OBVIOUS
  <2>1. Kept
    BY PairAssumption DEF PairInit, P!ProcessInit, P!QueueInit, Kept, Stages, NothingLost
  <2>2. InOrder
    BY InOrderInit
  <2>3. Rows
    BY DEF PairInit, Rows
  <2>4. EarlyIn(early)
    BY EarlyInit
  <2>5. ASSUME NEW m \in Msgs PROVE Once(m)
    <3>1. Unread = {} /\ pMsgQue = <<>> /\ pSescList = <<>> /\ table[m] = 0
      BY ElementsFacts DEF PairInit, P!ProcessInit, P!QueueInit, Unread
    <3>. QED
      BY <3>1, ElementsFacts, SingleFacts DEF Once
  <2>. QED
    BY <2>1, <2>2, <2>3, <2>4, <2>5
<1>2. PairTypes /\ produced \in Nat /\ Quiet /\ IInv /\ [PairNext]_pairVars => IInv'
  <2>. SUFFICES ASSUME PairTypes, produced \in Nat, Quiet, IInv, [PairNext]_pairVars
                PROVE  IInv'
    OBVIOUS
  <2>1. Kept'
    BY KeptStep
  <2>2. InOrder'
    BY InOrderStep DEF Kept
  <2>3. Rows'
    BY RowsStep
  <2>4. EarlyIn(early)'
    BY EarlyKept
  <2>5. ASSUME NEW m \in Msgs, m \notin early'
        PROVE  Once(m)'
    BY <2>5, EarlyGrows, OnceStep DEF Kept
  <2>. QED
    BY <2>1, <2>2, <2>3, <2>4, <2>5
<1>3. PairSpec => []IInv
  BY <1>1, <1>2, PairTypeCorrect, SecondaryQuiet, PTL DEF PairSpec
<1>4. IInv => OneRowEach
  BY DEF Once, OneRowEach
<1>. QED
  BY <1>3, <1>4, PTL

-----------------------------------------------------------------------------
(* The connection between the servers.                                     *)

\* What the primary's agent does without a connection: it holds nothing while it waits for
\* one, writes to none, and has its flag up once it serves one.  What it has in hand it
\* has between a read and the last put, or between a snapshot and the unlock.
PLinked ==
  /\ pLink[1] # "waiting"
  /\ pAgPc[1] = "connect" => pLink[1] = "none" /\ pInbox[1] = <<>>
  /\ pLink[1] # "up" => pOutbox[1] = <<>>
  /\ pAgPc[1] \notin {"connect", "connected"} => pConnected[1]
  /\ pAgPc[1] \notin {"put", "append", "send", "unlock"} => pTrans[1] = <<>>

\* The same of the secondary's agent, whose connection may wait in the backlog: it has
\* got nothing then, and sent a request at most.
SLinked ==
  /\ sAgPc[1] = "connect" => sLink[1] = "none"
  /\ sLink[1] \in {"none", "waiting"} =>
       /\ sInbox[1] = <<>>
       /\ sAgPc[1] \in {"off", "connect", "connected", "init", "read"}
       /\ AllIn(sOutbox[1], {})
  /\ sAgPc[1] \notin {"off", "connect", "connected"} => sConnected[1]
  /\ sAgPc[1] \notin {"put", "append", "send", "unlock"} => sTrans[1] = <<>>

\* The primary has one agent, and its number is 1.
LEMMA PrimaryAgents == P!Agents = {1} /\ 1 \in P!Agents
  BY DEF P!Agents

\* Whatever is done by the primary or to it.
LEMMA PLinkedStep ==
  ASSUME PTypes, PLinked, NEW X, PDoes(X)
  PROVE  PLinked'
<1>. USE PrimaryAgents DEF PTypes, PControl, PHold, PLinked, P!Goto, P!queueVars, P!netVars,
         P!agentVars, P!colVars, P!AdapterUnchanged, P!NetUnchanged
<1>0. pSyncAgent = 1
  OBVIOUS
<1>a. \A t : P!SendMsg(1, t) =>
        pOutbox' = pOutbox \/ (pLink[1] \in {"waiting", "up"})
  BY DEF P!SendMsg, P!Alive
<1>b. CASE P!CatchException(1)
  <2>1. pInbox'[1] = <<>>
    BY <1>b, SubSeqEmpty DEF P!CatchException, P!CloseLink
  <2>. QED
    BY <1>b, <2>1 DEF P!CatchException, P!CloseLink
<1>1. CASE P!Collector
  <2>1. UNCHANGED <<pLink, pAgPc, pInbox, pConnected, pTrans>>
    BY <1>1
    DEF P!Collector, P!ColWait, P!ColPut, P!ColSync, P!ColThreshold, P!ColSize, P!ColTakeWait,
        P!ColTake, P!ColInsert, P!ColSendClear
  <2>2. pOutbox' = pOutbox \/ pLink[1] = "up"
    BY <1>0, <1>1, <1>a
    DEF P!Collector, P!ColWait, P!ColPut, P!ColSync, P!ColThreshold, P!ColSize, P!ColTakeWait,
        P!ColTake, P!ColInsert, P!ColSendClear
  <2>. QED
    BY <2>1, <2>2
<1>2. CASE P!RaiseFlags(1) \/ P!ReadEof(1) \/ P!AgentWait(1) \/ P!PostAllData(1)
           \/ P!LockQueue(1) \/ P!Snapshot(1) \/ P!UnlockQueue(1)
  BY <1>2
  DEF P!RaiseFlags, P!ReadEof, P!AgentWait, P!PostAllData, P!LockQueue, P!Snapshot,
      P!UnlockQueue
<1>3. CASE P!RequestAll(1)
  BY <1>0, <1>3, <1>a, <1>b DEF P!RequestAll
<1>4. CASE P!ReadTransaction(1)
  BY <1>4, <1>b DEF P!ReadTransaction
<1>5. CASE P!ReadThrows(1)
  BY <1>5, <1>b DEF P!ReadThrows
<1>6. CASE P!AgentPut(1)
  <2>1. Len(pTrans[1]) = 1 => Tail(pTrans[1]) = <<>>
    BY <1>6, TailEmpty DEF P!AgentPut
  <2>. QED
    BY <1>6, <2>1 DEF P!AgentPut
<1>7. CASE P!PostSnapshot(1)
  BY <1>7, <1>a, <1>b DEF P!PostSnapshot
<1>8. CASE P!PingProbe(1) \/ P!PingAnswered(1) \/ P!PingFailsClient(1)
  BY <1>8 DEF P!PingProbe, P!PingAnswered, P!PingFailsClient
<1>9. CASE P!PingFailsServer(1)
  <2>1. /\ pLink'[1] = "none" /\ pOutbox'[1] = <<>>
        /\ pAgPc[1] = "connect" => pInbox'[1] = <<>>
    BY <1>9, SubSeqEmpty DEF P!PingFailsServer, P!CloseUnderway, P!CloseLink
  <2>. QED
    BY <1>9, <2>1 DEF P!PingFailsServer
<1>10. CASE P!AdapterConnects \/ \E c \in Seq(Msgs) : c # <<>> /\ P!AdapterSends(c)
  BY <1>10 DEF P!AdapterConnects, P!AdapterSends
<1>11. CASE P!Connect(1) \/ P!Serve(1) \/ P!PeerReads(1) \/ \E t \in Wire(X) : P!PeerSends(1, t)
  BY <1>11 DEF P!Connect, P!Serve, P!PeerReads, P!PeerSends
<1>12. CASE P!Cut \/ P!Restart \/ P!NodeIdle
  BY <1>12 DEF P!Cut, P!Alive, P!Restart, P!NodeIdle, P!nodeVars
<1>. QED
  BY <1>1, <1>2, <1>3, <1>4, <1>5, <1>6, <1>7, <1>8, <1>9, <1>10, <1>11, <1>12
  DEF PDoes, PEnvironment, P!AgentThread, P!PingThread

\* Whatever is done by the secondary, which collects nothing, or to it.
LEMMA SLinkedStep ==
  ASSUME OneAgent, STypes, Quiet, SLinked, NEW X, SDoes(X)
  PROVE  SLinked'
<1>. USE OneOfEach DEF STypes, SControl, SHold, SLinked, S!Goto, S!queueVars, S!netVars,
         S!agentVars, S!colVars, S!AdapterUnchanged, S!NetUnchanged
<1>0. sSyncAgent = 1
  OBVIOUS
<1>c. AllIn(<<>>, {})
  BY AheadNone
<1>a. S!GetAll \in Wire(Msgs) /\ Elements(S!GetAll.list) = {}
  <2>1. S!GetAll.list = <<>>
    BY DEF S!GetAll
  <2>2. S!GetAll = P!GetAll
    BY DEF S!GetAll, P!GetAll
  <2>. QED
    BY <2>1, <2>2, WireTypes, ElementsFacts
<1>b. CASE S!CatchException(1)
  <2>1. sInbox'[1] = <<>>
    BY <1>b, SubSeqEmpty DEF S!CatchException, S!CloseLink
  <2>. QED
    BY <1>b, <1>c, <2>1 DEF S!CatchException, S!CloseLink
<1>1. ~S!Collector
  BY DEF Quiet, S!Collector, S!ColWait, S!ColPut, S!ColSync, S!ColThreshold, S!ColSize,
         S!ColTakeWait, S!ColTake, S!ColInsert, S!ColSendClear, S!ColGoto
<1>2. CASE S!RaiseFlags(1) \/ S!ReadEof(1) \/ S!AgentWait(1) \/ S!PostAllData(1)
           \/ S!LockQueue(1) \/ S!Snapshot(1) \/ S!UnlockQueue(1)
  BY <1>2
  DEF S!RaiseFlags, S!ReadEof, S!AgentWait, S!PostAllData, S!LockQueue, S!Snapshot,
      S!UnlockQueue
<1>3. CASE S!RequestAll(1)
  <2>1. AllIn(sOutbox[1], {}) => AllIn(Append(sOutbox[1], S!GetAll), {})
    BY <1>a, AheadAppend
  <2>. QED
    BY <1>0, <1>3, <1>b, <2>1 DEF S!RequestAll, S!SendMsg
<1>4. CASE S!ReadTransaction(1)
  BY <1>4, <1>b DEF S!ReadTransaction
<1>5. CASE S!ReadThrows(1)
  BY <1>5, <1>b DEF S!ReadThrows
<1>6. CASE S!AgentPut(1)
  <2>1. Len(sTrans[1]) = 1 => Tail(sTrans[1]) = <<>>
    BY <1>6, TailEmpty DEF S!AgentPut
  <2>. QED
    BY <1>6, <2>1 DEF S!AgentPut
<1>7. CASE S!PostSnapshot(1)
  BY <1>7, <1>b DEF S!PostSnapshot, S!SendMsg
<1>8. CASE S!PingProbe(1) \/ S!PingAnswered(1)
  BY <1>8 DEF S!PingProbe, S!PingAnswered
<1>9. ~S!PingFailsServer(1) /\ ~S!PingFailsClient(1)
  BY NoSecondAgent
<1>10. CASE S!AdapterConnects \/ \E c \in Seq(Msgs) : c # <<>> /\ S!AdapterSends(c)
  BY <1>10 DEF S!AdapterConnects, S!AdapterSends
<1>11. CASE S!Connect(1)
  BY <1>11 DEF S!Connect
<1>12. CASE S!Serve(1) \/ S!PeerReads(1) \/ \E t \in Wire(X) : S!PeerSends(1, t)
  BY <1>12 DEF S!Serve, S!PeerReads, S!PeerSends
<1>13. CASE S!Cut \/ S!NodeIdle
  BY <1>13 DEF S!Cut, S!Alive, S!NodeIdle, S!nodeVars
<1>14. CASE S!Restart
  BY <1>14, <1>c DEF S!Restart
<1>. QED
  BY <1>1, <1>2, <1>3, <1>4, <1>5, <1>6, <1>7, <1>8, <1>9, <1>10, <1>11, <1>12, <1>13, <1>14
  DEF SDoes, SEnvironment, S!AgentThread, S!PingThread

\* The two ends are served together; an answer that was sent was sent on a connection that
\* is still there.
Linked ==
  /\ PLinked /\ SLinked
  /\ pLink[1] = "up" <=> sLink[1] = "up"
  /\ posted # {} => pLink[1] = "up"
  /\ "S" \in posted => pConnected[1]

\* The threads of either server leave their connection, or close it; only an exception of
\* the primary's agent, which closes it, takes the flag down.
LEMMA LinkThreads ==
  ASSUME PairTypes, OneAgent, Quiet
  PROVE  /\ P!Collector \/ P!AgentThread(1) \/ P!PingThread(1) =>
              /\ pLink'[1] = pLink[1] \/ pLink'[1] = "none"
              /\ pConnected[1] => pConnected'[1] \/ pLink'[1] = "none"
         /\ ~S!Collector
         /\ S!AgentThread(1) \/ S!PingThread(1) =>
              sLink'[1] = sLink[1] \/ sLink'[1] = "none"
<1>0. /\ P!Agents = {1} /\ S!Agents = {1}
      /\ pLink = [a \in {1} |-> pLink[1]] /\ pConnected = [a \in {1} |-> pConnected[1]]
      /\ sLink = [a \in {1} |-> sLink[1]]
  BY PrimaryAgents, OneOfEach DEF PairTypes, PTypes, STypes, PControl, SControl
<1>a. P!CatchException(1) => pLink'[1] = "none"
  BY <1>0 DEF P!CatchException, P!CloseLink
<1>b. S!CatchException(1) => sLink'[1] = "none"
  BY <1>0 DEF S!CatchException, S!CloseLink
<1>1. ASSUME P!Collector
      PROVE  /\ pLink'[1] = pLink[1] \/ pLink'[1] = "none"
             /\ pConnected[1] => pConnected'[1] \/ pLink'[1] = "none"
  BY <1>1
  DEF P!Collector, P!ColWait, P!ColPut, P!ColSync, P!ColThreshold, P!ColSize, P!ColTakeWait,
      P!ColTake, P!ColInsert, P!ColSendClear, P!netVars, P!agentVars
<1>2. ASSUME P!AgentThread(1)
      PROVE  /\ pLink'[1] = pLink[1] \/ pLink'[1] = "none"
             /\ pConnected[1] => pConnected'[1] \/ pLink'[1] = "none"
  <2>1. CASE P!RaiseFlags(1)
    BY <1>0, <2>1 DEF P!RaiseFlags, P!netVars
  <2>2. CASE P!RequestAll(1) \/ P!ReadTransaction(1) \/ P!ReadThrows(1) \/ P!PostSnapshot(1)
    BY <1>a, <2>2 DEF P!RequestAll, P!ReadTransaction, P!ReadThrows, P!PostSnapshot
  <2>3. CASE P!ReadEof(1) \/ P!AgentWait(1) \/ P!AgentPut(1) \/ P!PostAllData(1)
             \/ P!LockQueue(1) \/ P!Snapshot(1) \/ P!UnlockQueue(1)
    BY <2>3
    DEF P!ReadEof, P!AgentWait, P!AgentPut, P!PostAllData, P!LockQueue, P!Snapshot,
        P!UnlockQueue, P!netVars
  <2>. QED
    BY <1>2, <2>1, <2>2, <2>3 DEF P!AgentThread
<1>3. ASSUME P!PingThread(1)
      PROVE  /\ pLink'[1] = pLink[1] \/ pLink'[1] = "none"
             /\ pConnected[1] => pConnected'[1] \/ pLink'[1] = "none"
  <2>1. P!CloseUnderway(1) => pLink'[1] = "none"
    BY <1>0 DEF P!CloseUnderway, P!CloseLink
  <2>. QED
    BY <1>3, <2>1
    DEF P!PingThread, P!PingProbe, P!PingAnswered, P!PingFailsServer, P!PingFailsClient,
        P!netVars
<1>4. ~S!Collector
  BY DEF Quiet, S!Collector, S!ColWait, S!ColPut, S!ColSync, S!ColThreshold, S!ColSize,
         S!ColTakeWait, S!ColTake, S!ColInsert, S!ColSendClear, S!ColGoto
<1>5. ASSUME S!AgentThread(1)
      PROVE  sLink'[1] = sLink[1] \/ sLink'[1] = "none"
  <2>2. CASE S!RequestAll(1) \/ S!ReadTransaction(1) \/ S!ReadThrows(1) \/ S!PostSnapshot(1)
    BY <1>b, <2>2 DEF S!RequestAll, S!ReadTransaction, S!ReadThrows, S!PostSnapshot
  <2>3. CASE S!RaiseFlags(1) \/ S!ReadEof(1) \/ S!AgentWait(1) \/ S!AgentPut(1)
             \/ S!PostAllData(1) \/ S!LockQueue(1) \/ S!Snapshot(1) \/ S!UnlockQueue(1)
    BY <2>3
    DEF S!RaiseFlags, S!ReadEof, S!AgentWait, S!AgentPut, S!PostAllData, S!LockQueue,
        S!Snapshot, S!UnlockQueue, S!netVars
  <2>. QED
    BY <1>5, <2>2, <2>3 DEF S!AgentThread
<1>6. ASSUME S!PingThread(1)
      PROVE  sLink'[1] = sLink[1] \/ sLink'[1] = "none"
  <2>1. S!CloseUnderway(1) => sLink'[1] = "none"
    BY <1>0 DEF S!CloseUnderway, S!CloseLink
  <2>. QED
    BY <1>6, <2>1
    DEF S!PingThread, S!PingProbe, S!PingAnswered, S!PingFailsServer, S!PingFailsClient,
        S!netVars
<1>. QED
  BY <1>1, <1>2, <1>3, <1>4, <1>5, <1>6

\* What an answer adds to posted, if the program counters show one.
PAnswers == {s \in {"S"} : Answered(pAgPc[1], pAgPc'[1])}
SAnswers == {s \in {"P"} : Answered(sAgPc[1], sAgPc'[1])}

\* A step of one server's threads as the other sees it: it closes the connection, and the
\* answers that were sent on it no longer count, or the other is left alone.
LEMMA LinkEffects ==
  ASSUME OneAgent, PairTypes, Quiet, Linked
  PROVE  /\ (P!Collector \/ P!AgentThread(1) \/ P!PingThread(1)) /\ PrimaryEffect =>
              \/ pLink'[1] = "none" /\ sLink'[1] # "up" /\ posted' = {}
              \/ /\ pLink'[1] = pLink[1] /\ (pConnected[1] => pConnected'[1] \/ pLink[1] # "up")
                 /\ S!NodeIdle
                 /\ posted' = IF pLink[1] = "up" THEN posted \cup PAnswers ELSE posted
         /\ (S!AgentThread(1) \/ S!PingThread(1)) /\ SecondaryEffect =>
              \/ sLink'[1] = "none" /\ pLink'[1] # "up" /\ posted' = {}
              \/ /\ sLink'[1] = sLink[1] \/ (sLink[1] # "up" /\ sLink'[1] # "up")
                 /\ P!NodeIdle
                 /\ posted' = IF sLink[1] = "up" THEN posted \cup SAnswers ELSE posted
<1>. USE PrimaryAgents, OneOfEach, LinkThreads DEF Linked, PLinked
<1>1. Served = (IF sLink[1] = "up" THEN {1} ELSE {})
  BY DEF Served
<1>2. CutSecondary => sLink'[1] # "up" /\ posted' = {}
  BY DEF CutSecondary, S!Cut, S!Alive, S!NodeIdle, S!nodeVars, S!netVars, PairTypes, STypes,
         SControl
<1>3. CutPrimary => pLink'[1] # "up" /\ posted' = {}
  BY DEF CutPrimary, P!Cut, P!Alive, P!NodeIdle, P!nodeVars, P!netVars, PairTypes, PTypes,
         PControl
<1>4. ASSUME P!Collector \/ P!AgentThread(1) \/ P!PingThread(1), PrimaryEffect
      PROVE  \/ pLink'[1] = "none" /\ sLink'[1] # "up" /\ posted' = {}
             \/ /\ pLink'[1] = pLink[1] /\ (pConnected[1] => pConnected'[1] \/ pLink[1] # "up")
                /\ S!NodeIdle
                /\ posted' = IF pLink[1] = "up" THEN posted \cup PAnswers ELSE posted
  <2>1. CASE pLink[1] # "none" /\ pLink'[1] = "none"
    BY <1>2, <1>4, <2>1 DEF PrimaryEffect
  <2>2. CASE ~(pLink[1] # "none" /\ pLink'[1] = "none")
    <3>1. S!NodeIdle /\ posted' = posted \cup {s \in {"S"} : pLink[1] = "up" /\ Answered(pAgPc[1], pAgPc'[1])}
      BY <1>4, <2>2 DEF PrimaryEffect
    <3>2. pLink'[1] = pLink[1] /\ (pConnected[1] => pConnected'[1] \/ pLink[1] # "up")
      BY <1>4, <2>2
    <3>. QED
      BY <3>1, <3>2 DEF PAnswers
  <2>. QED
    BY <2>1, <2>2
<1>5. ASSUME S!AgentThread(1) \/ S!PingThread(1), SecondaryEffect
      PROVE  \/ sLink'[1] = "none" /\ pLink'[1] # "up" /\ posted' = {}
             \/ /\ sLink'[1] = sLink[1] \/ (sLink[1] # "up" /\ sLink'[1] # "up")
                /\ P!NodeIdle
                /\ posted' = IF sLink[1] = "up" THEN posted \cup SAnswers ELSE posted
  <2>1. CASE sLink[1] = "up" /\ sLink'[1] = "none"
    BY <1>1, <1>3, <1>5, <2>1 DEF SecondaryEffect
  <2>2. CASE ~(sLink[1] = "up" /\ sLink'[1] = "none")
    <3>1. P!NodeIdle /\ posted' = posted \cup {s \in {"P"} : \E a \in Served : Answered(sAgPc[a], sAgPc'[a])}
      BY <1>1, <1>5, <2>2 DEF SecondaryEffect
    <3>2. sLink'[1] = sLink[1] \/ (sLink[1] # "up" /\ sLink'[1] # "up")
      BY <1>5, <2>2
    <3>. QED
      BY <1>1, <3>1, <3>2 DEF SAnswers
  <2>. QED
    BY <2>1, <2>2
<1>. QED
  BY <1>4, <1>5

\* Nothing moves that either server holds.
Still ==
  /\ UNCHANGED <<pMsgQue, pSescList, pAgPc, pTrans, pConnected, pInbox, pOutbox>>
  /\ UNCHANGED <<sMsgQue, sAgPc, sTrans, sInbox, sOutbox, flushed, posted>>
  /\ InHand' = InHand

\* What can happen while the two are connected: a thread of one of them goes on, the
\* network delivers, or nothing moves.
Carries ==
  \/ PrimaryCollector /\ S!NodeIdle /\ UNCHANGED posted
  \/ /\ P!AgentThread(1) /\ P!ColIdle /\ S!NodeIdle
     /\ UNCHANGED history /\ posted' = posted \cup PAnswers
  \/ /\ S!AgentThread(1) /\ P!NodeIdle
     /\ UNCHANGED history /\ posted' = posted \cup SAnswers
  \/ (DeliverToSecondary(1) \/ DeliverToPrimary(1)) /\ UNCHANGED history
  \/ Still

\* Every step of the pair ends, or finds, or leaves the two without a connection, makes
\* one, or happens over one.
LEMMA LinkMoves ==
  ASSUME OnlyPrimary, OneAgent, PairTypes, Quiet, Linked, [PairNext]_pairVars
  PROVE  \/ pLink'[1] # "up" /\ sLink'[1] # "up" /\ posted' = {}
         \/ PrimaryAccepts(1) /\ UNCHANGED history
         \/ /\ pLink[1] = "up" /\ pLink'[1] = "up" /\ sLink'[1] = "up"
            /\ pConnected[1] => pConnected'[1]
            /\ Carries
<1>. DEFINE Apart    == pLink'[1] # "up" /\ sLink'[1] # "up" /\ posted' = {}
            Accepts  == PrimaryAccepts(1) /\ UNCHANGED history
            Together == /\ pLink[1] = "up" /\ pLink'[1] = "up" /\ sLink'[1] = "up"
                        /\ pConnected[1] => pConnected'[1]
                        /\ Carries
<1>. SUFFICES Apart \/ Accepts \/ Together
  OBVIOUS
<1>0. /\ P!Agents = {1} /\ S!Agents = {1}
      /\ pLink[1] = "up" <=> sLink[1] = "up"
      /\ pLink[1] # "up" => posted = {}
      /\ sAgPc[1] = "connect" => sLink[1] = "none"
      /\ pAgPc[1] = "connect" => pLink[1] = "none"
  BY PrimaryAgents, OneOfEach DEF Linked, SLinked, PLinked
<1>t. /\ pLink = [a \in {1} |-> pLink[1]] /\ sLink = [a \in {1} |-> sLink[1]]
  BY <1>0 DEF PairTypes, PTypes, STypes, PControl, SControl
<1>a. P!NodeIdle => UNCHANGED <<pMsgQue, pSescList, pAgPc, pTrans, pConnected, pInbox, pOutbox, pLink, pColPc, pData>>
  BY DEF P!NodeIdle, P!nodeVars, P!queueVars, P!agentVars, P!netVars, P!colVars
<1>b. S!NodeIdle => UNCHANGED <<sMsgQue, sAgPc, sTrans, sInbox, sOutbox, sLink>>
  BY DEF S!NodeIdle, S!nodeVars, S!queueVars, S!agentVars, S!netVars
<1>c. /\ pAgPc'[1] = pAgPc[1] => PAnswers = {}
      /\ sAgPc'[1] = sAgPc[1] => SAnswers = {}
  BY DEF PAnswers, SAnswers, Answered
<1>d. ASSUME P!Collector \/ P!AgentThread(1) \/ P!PingThread(1), PrimaryEffect
      PROVE  \/ Apart
             \/ /\ pLink[1] = "up" /\ pLink'[1] = "up" /\ sLink'[1] = "up"
                /\ pConnected[1] => pConnected'[1]
                /\ S!NodeIdle /\ posted' = posted \cup PAnswers
  BY <1>0, <1>b, <1>d, LinkEffects
<1>e. ASSUME S!AgentThread(1) \/ S!PingThread(1), SecondaryEffect
      PROVE  \/ Apart
             \/ /\ pLink[1] = "up" /\ pLink'[1] = "up" /\ sLink'[1] = "up"
                /\ pConnected[1] => pConnected'[1]
                /\ P!NodeIdle /\ posted' = posted \cup SAnswers
  BY <1>0, <1>a, <1>e, LinkEffects
<1>1. CASE PrimaryCollector
  <2>1. P!Collector /\ PrimaryEffect
    BY <1>1 DEF PrimaryCollector
  <2>2. pAgPc' = pAgPc
    BY <2>1
    DEF P!Collector, P!ColWait, P!ColPut, P!ColSync, P!ColThreshold, P!ColSize, P!ColTakeWait,
        P!ColTake, P!ColInsert, P!ColSendClear, P!agentVars
  <2>. QED
    BY <1>1, <1>c, <1>d, <2>1, <2>2 DEF Carries
<1>2. CASE PrimaryAgent
  <2>1. P!AgentThread(1) /\ P!ColIdle /\ PrimaryEffect /\ UNCHANGED history
    BY <1>2 DEF PrimaryAgent, history
  <2>. QED
    BY <1>d, <2>1 DEF Carries
<1>3. CASE SecondaryCollector
  BY <1>3, LinkThreads DEF SecondaryCollector
<1>4. CASE \E a \in S!Agents : SecondaryAgent(a)
  <2>1. S!AgentThread(1) /\ SecondaryEffect /\ UNCHANGED history
    BY <1>0, <1>4 DEF SecondaryAgent, history
  <2>. QED
    BY <1>e, <2>1 DEF Carries
<1>5. CASE Collect \/ AdapterConnects
  <2>1. /\ S!NodeIdle /\ UNCHANGED <<posted, flushed>>
        /\ (\E c : P!AdapterSends(c)) \/ P!AdapterConnects
    BY <1>5 DEF Collect, AdapterConnects, OnlyPrimary
  <2>2. /\ UNCHANGED <<pMsgQue, pSescList, pAgPc, pTrans, pConnected, pInbox, pOutbox, pLink>>
        /\ pColPc # "sync" /\ pColPc' # "sync"
    BY <2>1 DEF P!AdapterSends, P!AdapterConnects, P!AdapterUnchanged, P!queueVars,
                P!agentVars, P!netVars, P!ColGoto
  <2>3. InHand' = InHand
    BY <2>2 DEF InHand
  <2>4. Still /\ UNCHANGED <<pLink, sLink, pConnected, posted>>
    BY <1>b, <2>1, <2>2, <2>3 DEF Still
  <2>. QED
    BY <1>0, <2>4 DEF Carries
<1>6. CASE Network
  <2>0. UNCHANGED history
    BY <1>6 DEF Network, history
  <2>1. CASE SecondaryConnects(1)
    <3>1. P!NodeIdle /\ sLink'[1] = "waiting" /\ sLink[1] = "none" /\ UNCHANGED posted
      BY <1>0, <1>t, <2>1 DEF SecondaryConnects, S!Connect
    <3>. QED
      BY <1>0, <1>a, <3>1
  <2>2. CASE PrimaryAccepts(1)
    BY <2>0, <2>2
  <2>3. CASE DeliverToSecondary(1) \/ DeliverToPrimary(1)
    <3>1. UNCHANGED <<pLink, sLink, pConnected, posted>> /\ (pLink[1] = "up" \/ sLink[1] = "up")
      BY <2>3 DEF DeliverToSecondary, DeliverToPrimary, S!PeerSends, P!PeerReads, S!PeerReads,
                  P!PeerSends, S!NetUnchanged, P!NetUnchanged
    <3>. QED
      BY <1>0, <2>0, <2>3, <3>1 DEF Carries
  <2>. QED
    BY <1>0, <1>6, <2>1, <2>2, <2>3 DEF Network
<1>7. CASE Faults
  <2>c. (P!Cut => pLink'[1] # "up") /\ (S!Cut => sLink'[1] # "up")
    BY <1>0, <1>t DEF P!Cut, P!Alive, S!Cut, S!Alive
  <2>0. UNCHANGED flushed
    BY <1>7 DEF Faults
  <2>1. CASE Break
    BY <2>1, <2>c DEF Break
  <2>2. CASE PingProbes \/ PingAnswers \/ PingFails
    <3>1. CASE P!PingThread(1) /\ P!ColIdle /\ PrimaryEffect
      <4>1. UNCHANGED <<pMsgQue, pAgPc, pTrans, pConnected>>
        BY <3>1, <1>0 DEF P!PingThread, P!PingProbe, P!PingAnswered, P!PingFailsServer,
             P!PingFailsClient, P!queueVars, PairTypes, PTypes, PControl
      <4>2. P!CloseUnderway(1) => pLink'[1] = "none"
        BY <1>0, <1>t DEF P!CloseUnderway, P!CloseLink
      <4>3. UNCHANGED <<pInbox, pOutbox>> \/ pLink'[1] = "none"
        BY <3>1, <4>2 DEF P!PingThread, P!PingProbe, P!PingAnswered, P!PingFailsServer,
             P!PingFailsClient, P!netVars
      <4>4. UNCHANGED pSescList /\ InHand' = InHand
        BY <3>1 DEF P!ColIdle, P!colVars, InHand
      <4>. QED
        BY <1>b, <1>c, <1>d, <2>0, <3>1, <4>1, <4>3, <4>4 DEF Carries, Still
    <3>2. CASE S!PingThread(1) /\ SecondaryEffect
      <4>1. ~S!PingFailsServer(1) /\ ~S!PingFailsClient(1)
        BY <1>0, NoSecondAgent DEF PairTypes
      <4>2. UNCHANGED <<sMsgQue, sAgPc, sTrans, sInbox, sOutbox>>
        BY <3>2, <4>1 DEF S!PingThread, S!PingProbe, S!PingAnswered, S!queueVars, S!netVars
      <4>3. P!NodeIdle => UNCHANGED pSescList /\ InHand' = InHand
        BY <1>a DEF InHand
      <4>. QED
        BY <1>a, <1>c, <1>e, <2>0, <3>2, <4>2, <4>3 DEF Carries, Still
    <3>. QED
      BY <1>0, <2>2, <3>1, <3>2 DEF PingProbes, PingAnswers, PingFails, P!PingThread, S!PingThread
  <2>3. CASE P!Restart /\ CutSecondary
    <3>1. pLink'[1] = "none" /\ posted' = {}
      BY <1>0, <2>3 DEF P!Restart, CutSecondary
    <3>2. sLink'[1] # "up"
      BY <1>0, <1>b, <2>3, <2>c DEF CutSecondary, S!Alive
    <3>. QED
      BY <3>1, <3>2
  <2>4. CASE S!Restart /\ IF Served = {} THEN P!NodeIdle /\ UNCHANGED posted ELSE CutPrimary
    <3>1. sLink'[1] = "none"
      BY <1>0, <2>4 DEF S!Restart
    <3>2. CASE sLink[1] = "up"
      <4>1. CutPrimary
        BY <1>0, <2>4, <3>2 DEF Served
      <4>. QED
        BY <1>0, <1>a, <2>c, <3>1, <4>1 DEF CutPrimary, P!Alive
    <3>3. CASE sLink[1] # "up"
      <4>1. P!NodeIdle /\ UNCHANGED posted
        BY <1>0, <2>4, <3>3 DEF Served
      <4>. QED
        BY <1>0, <1>a, <3>1, <3>3, <4>1
    <3>. QED
      BY <3>2, <3>3
  <2>. QED
    BY <1>7, <2>1, <2>2, <2>3, <2>4 DEF Faults, Crash
<1>8. CASE UNCHANGED pairVars
  <2>1. P!NodeIdle /\ S!NodeIdle /\ UNCHANGED <<posted, flushed>>
    BY <1>8 DEF pairVars, P!NodeIdle, S!NodeIdle
  <2>2. InHand' = InHand
    BY <1>a, <2>1 DEF InHand
  <2>. QED
    BY <1>0, <1>a, <1>b, <2>1, <2>2 DEF Carries, Still
<1>. QED
  BY <1>1, <1>2, <1>3, <1>4, <1>5, <1>6, <1>7, <1>8 DEF PairNext

\* The connection stays what Linked says of it.
LEMMA LinkedStep ==
  ASSUME OnlyPrimary, OneAgent, PairTypes, produced \in Nat, Quiet, Linked,
         [PairNext]_pairVars
  PROVE  Linked'
<1>1. PLinked' /\ SLinked'
  <2>1. PDoes(Msgs) /\ SDoes(Msgs)
    BY PairDoes DEF PairTypes, PTypes, STypes
  <2>. QED
    BY <2>1, PLinkedStep, SLinkedStep DEF PairTypes, Linked
<1>2. (pLink[1] = "up" <=> sLink[1] = "up")'
  BY LinkMoves, PrimaryAgents, OneOfEach
  DEF PrimaryAccepts, P!Connect, S!Serve, PairTypes, PTypes, STypes, PControl, SControl
<1>3. (posted # {} => pLink[1] = "up")'
  BY LinkMoves DEF PrimaryAccepts
<1>4. ("S" \in posted => pConnected[1])'
  <2>1. "S" \in PAnswers => pConnected[1]
    BY DEF PAnswers, Answered, Linked, PLinked
  <2>2. "S" \notin SAnswers
    BY DEF SAnswers
  <2>3. (DeliverToSecondary(1) \/ DeliverToPrimary(1)) => UNCHANGED posted
    BY DEF DeliverToSecondary, DeliverToPrimary
  <2>. QED
    BY LinkMoves, <2>1, <2>2, <2>3 DEF Carries, Still, PrimaryAccepts, Linked
<1>. QED
  BY <1>1, <1>2, <1>3, <1>4 DEF Linked

-----------------------------------------------------------------------------
(* The messages in each place of the two servers, as sets.                 *)

\* What a connection carries: nothing, what its first transaction and the others carry,
\* what the others and its last one carry.
LEMMA TransitFacts ==
  ASSUME NEW T
  PROVE  /\ InTransit(<<>>) = {}
         /\ \A s \in Seq(T) : s # <<>> =>
              InTransit(s) = Elements(Head(s).list) \cup InTransit(Tail(s))
         /\ \A s \in Seq(T), t \in T :
              InTransit(Append(s, t)) = InTransit(s) \cup Elements(t.list)
         /\ \A s \in Seq(T) : \A G : AllIn(s, G) <=> InTransit(s) \subseteq G
<1>1. \A s, G : AllIn(s, G) <=> InTransit(s) \subseteq G
  BY DEF AllIn, InTransit
<1>2. InTransit(<<>>) = {}
  BY <1>1, AheadNone
<1>3. ASSUME NEW s \in Seq(T), s # <<>>
      PROVE  InTransit(s) = Elements(Head(s).list) \cup InTransit(Tail(s))
  <2>1. /\ 1 \in DOMAIN s /\ Head(s) = s[1]
        /\ \A i \in DOMAIN Tail(s) : i + 1 \in DOMAIN s /\ Tail(s)[i] = s[i + 1]
    BY <1>3, Positions
  <2>2. /\ AllIn(s, InTransit(s))
        /\ AllIn(s, InTransit(s)) =>
             AllIn(Tail(s), InTransit(s)) /\ Elements(Head(s).list) \subseteq InTransit(s)
    BY <1>1, <1>3, AheadTail
  <2>3. \A i \in DOMAIN s : i = 1 \/ (i - 1 \in DOMAIN Tail(s) /\ s[i] = Tail(s)[i - 1])
    <3>1. /\ Tail(s) \in Seq(T) /\ Len(Tail(s)) = Len(s) - 1 /\ Len(s) \in Nat
          /\ DOMAIN s = 1..Len(s) /\ DOMAIN Tail(s) = 1..Len(Tail(s))
      BY <1>3, HeadTailProperties, LenProperties
    <3>2. \A i \in 1..Len(s) : i = 1 \/ (i - 1 \in 1..(Len(s) - 1) /\ (i - 1) + 1 = i)
      BY <3>1
    <3>. QED
      BY <2>1, <3>1, <3>2
  <2>4. ASSUME NEW j \in DOMAIN s
        PROVE  Elements(s[j].list) \subseteq Elements(Head(s).list) \cup InTransit(Tail(s))
    <3>1. \A i \in DOMAIN Tail(s) : Elements(Tail(s)[i].list) \subseteq InTransit(Tail(s))
      BY DEF InTransit
    <3>2. CASE j = 1
      BY <2>1, <3>2
    <3>3. CASE j - 1 \in DOMAIN Tail(s) /\ s[j] = Tail(s)[j - 1]
      BY <3>1, <3>3
    <3>. QED
      BY <2>3, <3>2, <3>3
  <2>5. AllIn(s, Elements(Head(s).list) \cup InTransit(Tail(s)))
    BY <2>4 DEF AllIn
  <2>. QED
    BY <1>1, <2>2, <2>5
<1>4. ASSUME NEW s \in Seq(T), NEW t \in T
      PROVE  InTransit(Append(s, t)) = InTransit(s) \cup Elements(t.list)
  <2>. DEFINE u == Append(s, t)
  <2>1. \A i \in DOMAIN u : u[i] = t \/ (i \in DOMAIN s /\ u[i] = s[i])
    BY Positions
  <2>2. /\ \A i \in DOMAIN s : i \in DOMAIN u /\ u[i] = s[i]
        /\ \E i \in DOMAIN u : u[i] = t
    <3>1. /\ u \in Seq(T) /\ Len(u) = Len(s) + 1 /\ Len(s) \in Nat
          /\ DOMAIN s = 1..Len(s) /\ DOMAIN u = 1..Len(u)
          /\ \A i \in 1..Len(s) : u[i] = s[i]
          /\ u[Len(s) + 1] = t
      BY AppendProperties, LenProperties
    <3>2. Len(s) + 1 \in 1..(Len(s) + 1) /\ \A i \in 1..Len(s) : i \in 1..(Len(s) + 1)
      BY <3>1
    <3>. QED
      BY <3>1, <3>2
  <2>3. AllIn(u, InTransit(s) \cup Elements(t.list))
    BY <2>1 DEF AllIn, InTransit
  <2>4. \A i \in DOMAIN s : Elements(s[i].list) \subseteq InTransit(u)
    BY <2>2 DEF InTransit
  <2>5. Elements(t.list) \subseteq InTransit(u)
    BY <2>2 DEF InTransit
  <2>6. InTransit(s) \subseteq InTransit(u)
    BY <2>4 DEF InTransit
  <2>. QED
    BY <1>1, <2>3, <2>5, <2>6
<1>. QED
  BY <1>1, <1>2, <1>3, <1>4

\* The primary's queue and batch, what its agent has in hand, what has arrived there and
\* what it has written.
PQueue == Elements(pMsgQue)
PHand  == Elements(pTrans[1])
PIn    == InTransit(pInbox[1])
POut   == InTransit(pOutbox[1])

\* The same of the secondary.
SQueue == Elements(sMsgQue)
SHand  == Elements(sTrans[1])
SIn    == InTransit(sInbox[1])
SOut   == InTransit(sOutbox[1])

\* What an agent's thread does to these sets while its connection stays: it takes a
\* transaction, puts a message, makes a snapshot, sends it, drops it after the unlock, or
\* only goes on.
Moves(pc, next, Q, Q1, X, X1, I, I1, O, O1) ==
  \/ /\ pc = "read" /\ next \in {"read", "post", "put"}
     /\ X = {} /\ I = X1 \cup I1 /\ Q1 = Q /\ O1 = O
  \/ /\ pc = "append" /\ next \in {"read", "put"}
     /\ \E m \in Msgs : X = {m} \cup X1 /\ Q1 = Q \cup {m}
     /\ I1 = I /\ O1 = O
  \/ /\ pc = "snapshot" /\ next = "send"
     /\ X = {} /\ X1 = Q /\ Q1 = Q /\ I1 = I /\ O1 = O
  \/ /\ pc = "send" /\ next = "unlock"
     /\ O1 = O \cup X /\ X1 = X /\ Q1 = Q /\ I1 = I
  \/ /\ pc = "unlock" /\ next = "read"
     /\ X1 = {} /\ Q1 = Q /\ I1 = I /\ O1 = O
  \/ /\ X1 = X /\ Q1 = Q /\ I1 = I /\ O1 = O
     /\ next \notin {"send", "unlock"}
     /\ next \in {"put", "append"} => pc \in {"put", "append"}
     /\ pc = "post" /\ next = "read" => Q = {}

\* The agent of the primary moves messages so, as no CLEAR comes.
LEMMA PAgentMoves ==
  ASSUME PTypes, PLinked, Quiet, P!AgentThread(1), pLink[1] = "up", pLink'[1] = "up"
  PROVE  Moves(pAgPc[1], pAgPc'[1], PQueue, PQueue', PHand, PHand', PIn, PIn', POut, POut')
<1>. USE DEF Moves, PQueue, PHand, PIn, POut
<1>0. /\ P!Agents = {1} /\ pSyncAgent = 1
      /\ pTrans[1] \in Seq(Msgs) /\ pMsgQue \in Seq(Msgs)
      /\ pInbox[1] \in Seq(Wire(Msgs)) /\ pOutbox[1] \in Seq(Wire(Msgs))
      /\ pTrans = [a \in {1} |-> pTrans[1]] /\ pInbox = [a \in {1} |-> pInbox[1]]
      /\ pOutbox = [a \in {1} |-> pOutbox[1]] /\ pAgPc = [a \in {1} |-> pAgPc[1]]
  BY PrimaryAgents DEF PTypes, PControl, PHold
<1>a. ~P!CatchException(1)
  BY <1>0 DEF P!CatchException, P!CloseLink, PTypes, PControl
<1>b. Elements(<<>>) = {} /\ InTransit(<<>>) = {}
  BY ElementsFacts, TransitFacts
<1>c. /\ \A t \in Wire(Msgs) : InTransit(Append(pOutbox[1], t)) = POut \cup Elements(t.list)
      /\ pInbox[1] # <<>> => PIn = Elements(Head(pInbox[1]).list) \cup InTransit(Tail(pInbox[1]))
      /\ pInbox[1] # <<>> => Head(pInbox[1]) \in Clearless
  <2>1. pInbox[1] \in Seq(Clearless)
    BY <1>0 DEF Quiet
  <2>. QED
    BY <1>0, <2>1, TransitFacts, SeqTypes
<1>1. CASE P!ReadTransaction(1)
  <2>1. /\ pAgPc[1] = "read" /\ pInbox[1] # <<>> /\ pInbox'[1] = Tail(pInbox[1])
        /\ pMsgQue' = pMsgQue /\ pOutbox' = pOutbox
        /\ pAgPc'[1] \in {"read", "post", "put"}
        /\ \/ Head(pInbox[1]).name = "Get All" /\ pTrans' = pTrans
           \/ pTrans'[1] = Head(pInbox[1]).list
    BY <1>0, <1>1, <1>a, <1>c DEF P!ReadTransaction, P!Goto, Clearless
  <2>2. Head(pInbox[1]) \in Wire(Msgs)
    BY <1>c, <2>1 DEF Clearless
  <2>3. pTrans[1] = <<>>
    BY <2>1 DEF PLinked
  <2>4. Elements(pTrans'[1]) = Elements(Head(pInbox[1]).list)
    BY <1>b, <2>1, <2>2, <2>3, EmptyRequests
  <2>. QED
    BY <1>b, <1>c, <2>1, <2>3, <2>4
<1>2. CASE P!AgentPut(1)
  <2>1. /\ pAgPc[1] = "append" /\ pAgPc'[1] \in {"read", "put"}
        /\ pMsgQue' = Append(pMsgQue, Head(pTrans[1])) /\ pTrans'[1] = Tail(pTrans[1])
        /\ UNCHANGED <<pInbox, pOutbox>>
    BY <1>0, <1>2 DEF P!AgentPut, P!Put, P!Goto, P!netVars
  <2>2. pTrans[1] # <<>>
    BY <1>0, <2>1 DEF PTypes, PControl
  <2>3. Head(pTrans[1]) \in Msgs
    BY <1>0, <2>2, SeqTypes
  <2>4. /\ Elements(pTrans[1]) = {Head(pTrans[1])} \cup Elements(Tail(pTrans[1]))
        /\ Elements(pMsgQue') = Elements(pMsgQue) \cup {Head(pTrans[1])}
    BY <1>0, <2>1, <2>2, <2>3, ElementsFacts
  <2>. QED
    BY <2>1, <2>3, <2>4
<1>3. CASE P!Snapshot(1)
  <2>1. pTrans[1] = <<>>
    BY <1>3 DEF P!Snapshot, PLinked
  <2>. QED
    BY <1>0, <1>3, <1>b, <2>1 DEF P!Snapshot, P!Goto, P!queueVars, P!netVars
<1>4. CASE P!PostSnapshot(1)
  <2>1. pConnected[1]
    BY <1>4 DEF P!PostSnapshot, PLinked
  <2>2. /\ pAgPc[1] = "send" /\ pAgPc'[1] = "unlock"
        /\ UNCHANGED <<pMsgQue, pTrans, pInbox>>
        /\ pOutbox'[1] = Append(pOutbox[1], P!Data(pTrans[1]))
    BY <1>0, <1>4, <1>a, <2>1 DEF P!PostSnapshot, P!SendMsg, P!Goto, P!queueVars
  <2>3. P!Data(pTrans[1]) \in Wire(Msgs) /\ P!Data(pTrans[1]).list = pTrans[1]
    BY <1>0, WireTypes DEF P!Data
  <2>. QED
    BY <1>c, <2>2, <2>3
<1>5. CASE P!UnlockQueue(1)
  BY <1>0, <1>5, <1>b DEF P!UnlockQueue, P!Goto, P!netVars
<1>6. CASE P!RequestAll(1)
  <2>1. /\ pAgPc[1] = "init" /\ pAgPc'[1] = "read"
        /\ UNCHANGED <<pMsgQue, pTrans, pInbox>>
        /\ pOutbox' = pOutbox \/ pOutbox'[1] = Append(pOutbox[1], P!GetAll)
    BY <1>0, <1>6, <1>a DEF P!RequestAll, P!SendMsg, P!Goto, P!queueVars
  <2>2. P!GetAll \in Wire(Msgs) /\ P!GetAll.list = <<>>
    BY WireTypes DEF P!GetAll
  <2>3. POut' = POut
    BY <1>b, <1>c, <2>1, <2>2
  <2>. QED
    BY <2>1, <2>3
<1>7. CASE P!PostAllData(1)
  BY <1>0, <1>7, <1>b DEF P!PostAllData, P!Goto, P!queueVars, P!netVars
<1>8. CASE P!RaiseFlags(1) \/ P!ReadEof(1) \/ P!AgentWait(1) \/ P!LockQueue(1)
  BY <1>0, <1>8
  DEF P!RaiseFlags, P!ReadEof, P!AgentWait, P!LockQueue, P!Goto, P!queueVars, P!netVars
<1>9. ~P!ReadThrows(1)
  BY <1>a DEF P!ReadThrows
<1>. QED
  BY <1>1, <1>2, <1>3, <1>4, <1>5, <1>6, <1>7, <1>8, <1>9 DEF P!AgentThread

\* The secondary's agent obeys a CLEAR.
Clears ==
  /\ Named(sInbox[1], "Clear")
  /\ sAgPc[1] = "read" /\ sAgPc'[1] = "read"
  /\ SHand = {} /\ SHand' = {} /\ SQueue' = {} /\ SIn' = SIn /\ SOut' = SOut

\* Otherwise it moves messages as the primary's does.
LEMMA SAgentMoves ==
  ASSUME OneAgent, STypes, SLinked, S!AgentThread(1), sLink[1] = "up", sLink'[1] = "up"
  PROVE  Clears \/
         Moves(sAgPc[1], sAgPc'[1], SQueue, SQueue', SHand, SHand', SIn, SIn', SOut, SOut')
<1>. USE DEF Moves, SQueue, SHand, SIn, SOut
<1>0. /\ S!Agents = {1} /\ sSyncAgent = 1
      /\ sTrans[1] \in Seq(Msgs) /\ sMsgQue \in Seq(Msgs)
      /\ sInbox[1] \in Seq(Wire(Msgs)) /\ sOutbox[1] \in Seq(Wire(Msgs))
      /\ sTrans = [a \in {1} |-> sTrans[1]] /\ sInbox = [a \in {1} |-> sInbox[1]]
      /\ sOutbox = [a \in {1} |-> sOutbox[1]] /\ sAgPc = [a \in {1} |-> sAgPc[1]]
  BY OneOfEach DEF STypes, SControl, SHold
<1>a. ~S!CatchException(1)
  BY <1>0 DEF S!CatchException, S!CloseLink, STypes, SControl
<1>b. Elements(<<>>) = {} /\ InTransit(<<>>) = {}
  BY ElementsFacts, TransitFacts
<1>c. /\ \A t \in Wire(Msgs) : InTransit(Append(sOutbox[1], t)) = SOut \cup Elements(t.list)
      /\ sInbox[1] # <<>> => SIn = Elements(Head(sInbox[1]).list) \cup InTransit(Tail(sInbox[1]))
      /\ sInbox[1] # <<>> => Head(sInbox[1]) \in Wire(Msgs)
  BY <1>0, TransitFacts, SeqTypes
<1>1. CASE S!ReadTransaction(1)
  <2>0. sAgPc[1] = "read" /\ sInbox[1] # <<>>
    BY <1>1 DEF S!ReadTransaction
  <2>1. sTrans[1] = <<>>
    BY <2>0 DEF SLinked
  <2>2. CASE Head(sInbox[1]).name = "Clear"
    <3>1. 1 \in DOMAIN sInbox[1] /\ Head(sInbox[1]) = sInbox[1][1]
      BY <1>0, <2>0, Positions
    <3>2. Named(sInbox[1], "Clear") /\ Elements(Head(sInbox[1]).list) = {}
      BY <1>c, <2>0, <2>2, <3>1, EmptyRequests DEF Named
    <3>3. /\ sMsgQue' = <<>> /\ sInbox'[1] = Tail(sInbox[1])
          /\ UNCHANGED <<sAgPc, sTrans, sOutbox>>
      BY <1>0, <1>1, <2>2 DEF S!ReadTransaction, S!Clear
    <3>. QED
      BY <1>b, <1>c, <2>0, <2>1, <3>2, <3>3 DEF Clears
  <2>3. CASE Head(sInbox[1]).name # "Clear"
    <3>1. /\ sInbox'[1] = Tail(sInbox[1])
          /\ sMsgQue' = sMsgQue /\ sOutbox' = sOutbox
          /\ sAgPc'[1] \in {"read", "post", "put"}
          /\ \/ Head(sInbox[1]).name = "Get All" /\ sTrans' = sTrans
             \/ sTrans'[1] = Head(sInbox[1]).list
      BY <1>0, <1>1, <1>a, <2>3 DEF S!ReadTransaction, S!Goto
    <3>2. Elements(sTrans'[1]) = Elements(Head(sInbox[1]).list)
      BY <1>b, <1>c, <2>0, <2>1, <3>1, EmptyRequests
    <3>. QED
      BY <1>b, <1>c, <2>0, <2>1, <3>1, <3>2
  <2>. QED
    BY <2>2, <2>3
<1>2. CASE S!AgentPut(1)
  <2>1. /\ sAgPc[1] = "append" /\ sAgPc'[1] \in {"read", "put"}
        /\ sMsgQue' = Append(sMsgQue, Head(sTrans[1])) /\ sTrans'[1] = Tail(sTrans[1])
        /\ UNCHANGED <<sInbox, sOutbox>>
    BY <1>0, <1>2 DEF S!AgentPut, S!Put, S!Goto, S!netVars
  <2>2. sTrans[1] # <<>>
    BY <1>0, <2>1 DEF STypes, SControl
  <2>3. Head(sTrans[1]) \in Msgs
    BY <1>0, <2>2, SeqTypes
  <2>4. /\ Elements(sTrans[1]) = {Head(sTrans[1])} \cup Elements(Tail(sTrans[1]))
        /\ Elements(sMsgQue') = Elements(sMsgQue) \cup {Head(sTrans[1])}
    BY <1>0, <2>1, <2>2, <2>3, ElementsFacts
  <2>. QED
    BY <2>1, <2>3, <2>4
<1>3. CASE S!Snapshot(1)
  <2>1. sTrans[1] = <<>>
    BY <1>3 DEF S!Snapshot, SLinked
  <2>. QED
    BY <1>0, <1>3, <1>b, <2>1 DEF S!Snapshot, S!Goto, S!queueVars, S!netVars
<1>4. CASE S!PostSnapshot(1)
  <2>1. sConnected[1]
    BY <1>4 DEF S!PostSnapshot, SLinked
  <2>2. /\ sAgPc[1] = "send" /\ sAgPc'[1] = "unlock"
        /\ UNCHANGED <<sMsgQue, sTrans, sInbox>>
        /\ sOutbox'[1] = Append(sOutbox[1], S!Data(sTrans[1]))
    BY <1>0, <1>4, <1>a, <2>1 DEF S!PostSnapshot, S!SendMsg, S!Goto, S!queueVars
  <2>3. S!Data(sTrans[1]) \in Wire(Msgs) /\ S!Data(sTrans[1]).list = sTrans[1]
    BY <1>0, WireTypes DEF S!Data
  <2>. QED
    BY <1>c, <2>2, <2>3
<1>5. CASE S!UnlockQueue(1)
  BY <1>0, <1>5, <1>b DEF S!UnlockQueue, S!Goto, S!netVars
<1>6. CASE S!RequestAll(1)
  <2>1. /\ sAgPc[1] = "init" /\ sAgPc'[1] = "read"
        /\ UNCHANGED <<sMsgQue, sTrans, sInbox>>
        /\ sOutbox' = sOutbox \/ sOutbox'[1] = Append(sOutbox[1], S!GetAll)
    BY <1>0, <1>6, <1>a DEF S!RequestAll, S!SendMsg, S!Goto, S!queueVars
  <2>2. S!GetAll \in Wire(Msgs) /\ S!GetAll.list = <<>>
    BY WireTypes DEF S!GetAll
  <2>3. SOut' = SOut
    BY <1>b, <1>c, <2>1, <2>2
  <2>. QED
    BY <2>1, <2>3
<1>7. CASE S!PostAllData(1)
  BY <1>0, <1>7, <1>b DEF S!PostAllData, S!Goto, S!queueVars, S!netVars
<1>8. CASE S!RaiseFlags(1) \/ S!ReadEof(1) \/ S!AgentWait(1) \/ S!LockQueue(1)
  BY <1>0, <1>8
  DEF S!RaiseFlags, S!ReadEof, S!AgentWait, S!LockQueue, S!Goto, S!queueVars, S!netVars
<1>9. ~S!ReadThrows(1)
  BY <1>a DEF S!ReadThrows
<1>. QED
  BY <1>1, <1>2, <1>3, <1>4, <1>5, <1>6, <1>7, <1>8, <1>9 DEF S!AgentThread

-----------------------------------------------------------------------------
(* The primary's collector, a restart of the primary allowed.              *)

\* Each step keeps what the counter of the collector says of its data and its batch.
LEMMA StagesStep ==
  ASSUME OnlyPrimary, PairTypes, Quiet, Stages, [PairNext]_pairVars
  PROVE  Stages'
<1>. USE DEF Stages
<1>0. pMsgQue \in Seq(Msgs) /\ pData \in Seq(Msgs)
  BY DEF PairTypes, PTypes, PControl, PHold
<1>1. CASE "P" \in Crashes /\ P!Restart
  BY <1>1 DEF P!Restart
<1>2. ASSUME P!Collector
      PROVE  Stages'
  <2>. USE DEF P!ColGoto, P!queueVars
  <2>1. CASE P!ColWait \/ P!ColThreshold \/ P!ColSize \/ P!ColTakeWait
    BY <2>1 DEF P!ColWait, P!ColThreshold, P!ColSize, P!ColTakeWait
  <2>2. CASE P!ColPut
    <3>1. Head(pData) \in Msgs
      BY <1>0, <2>2, SeqTypes DEF P!ColPut, PairTypes, PTypes, PControl
    <3>2. Head(pData) \in Elements(Append(pMsgQue, Head(pData)))
      BY <1>0, <3>1, ElementsFacts
    <3>. QED
      BY <2>2, <3>2 DEF P!ColPut, P!Put
  <2>3. CASE P!ColSync
    <3>1. Len(pData) = 1 => Tail(pData) = <<>>
      BY <1>0, <2>3, TailEmpty DEF P!ColSync, PairTypes, PTypes, PControl
    <3>. QED
      BY <2>3, <3>1 DEF P!ColSync, P!Disconnect
  <2>4. CASE P!ColTake \/ P!ColInsert \/ P!ColSendClear
    BY <2>4 DEF P!ColTake, P!ColInsert, P!ColSendClear, P!Disconnect
  <2>. QED
    BY <1>2, <2>1, <2>2, <2>3, <2>4 DEF P!Collector
<1>3. ASSUME NEW c, P!AdapterSends(c)
      PROVE  Stages'
  BY <1>3 DEF P!AdapterSends, P!AdapterUnchanged, P!ColGoto
<1>4. CASE P!AdapterConnects
  BY <1>4 DEF P!AdapterConnects, P!AdapterUnchanged, P!ColGoto
<1>5. CASE P!AgentPut(1) /\ UNCHANGED <<pColPc, pData, pSescList>>
  <2>1. Head(pTrans[1]) \in Msgs
    BY <1>5, PrimaryAgents, SeqTypes DEF P!AgentPut, PairTypes, PTypes, PControl, PHold
  <2>2. Elements(pMsgQue') = Elements(pMsgQue) \cup {Head(pTrans[1])}
    BY <1>0, <1>5, <2>1, ElementsFacts DEF P!AgentPut, P!Put
  <2>. QED
    BY <1>5, <2>2
<1>6. CASE UNCHANGED home
  BY <1>6 DEF home
<1>. QED
  BY <1>1, <1>2, <1>3, <1>4, <1>5, <1>6, MovesUnlessRestart DEF PrimaryStays, PrimaryCollector

\* The collector of a connected primary, whose agent stands still, writes only what is due;
\* it queues the message in its hands, and that is forwarded when it leaves them.
LEMMA CollectorMoves ==
  ASSUME PairTypes, Linked, Stages, PrimaryCollector, pLink[1] = "up", pLink'[1] = "up"
  PROVE  /\ UNCHANGED <<PHand, PIn, pAgPc>>
         /\ POut \subseteq POut' /\ POut' \subseteq POut \cup Due
         /\ PQueue' \subseteq PQueue \cup InHand'
         /\ pConnected[1] => InHand \subseteq InHand' \cup POut'
<1>. USE DEF PHand, PIn, POut, PQueue, InHand, P!ColGoto, P!queueVars, P!agentVars, P!netVars
<1>0. /\ P!Agents = {1} /\ pSyncAgent = 1 /\ P!Collector
      /\ pMsgQue \in Seq(Msgs) /\ pData \in Seq(Msgs) /\ pOutbox[1] \in Seq(Wire(Msgs))
      /\ pOutbox = [a \in {1} |-> pOutbox[1]]
      /\ pColPc \in {"append", "sync"} => pData # <<>>
  BY PrimaryAgents DEF PairTypes, PTypes, PControl, PHold, PrimaryCollector
<1>a. \A t \in Wire(Msgs) :
        InTransit(Append(pOutbox[1], t)) = InTransit(pOutbox[1]) \cup Elements(t.list)
  BY <1>0, TransitFacts
<1>1. CASE P!ColWait \/ P!ColThreshold \/ P!ColSize \/ P!ColTakeWait \/ P!ColInsert
  BY <1>1 DEF P!ColWait, P!ColThreshold, P!ColSize, P!ColTakeWait, P!ColInsert
<1>2. CASE P!ColPut
  <2>1. Elements(pMsgQue') = Elements(pMsgQue) \cup {Head(pData)}
    BY <1>0, <1>2, ElementsFacts, SeqTypes DEF P!ColPut, P!Put
  <2>. QED
    BY <1>2, <2>1 DEF P!ColPut
<1>3. CASE P!ColTake
  <2>1. Elements(pMsgQue) = {Head(pMsgQue)} \cup Elements(pMsgQue')
    BY <1>0, <1>3, ElementsFacts DEF P!ColTake, P!CanTake, P!Take
  <2>. QED
    BY <1>3, <2>1 DEF P!ColTake
<1>4. CASE P!ColSync
  <2>1. PICK t : t = P!Data(<<Head(pData)>>)
    OBVIOUS
  <2>2. t \in Wire(Msgs) /\ t.list = <<Head(pData)>>
    <3>1. <<Head(pData)>> \in Seq(Msgs)
      BY <1>0, <1>4, SeqTypes DEF P!ColSync
    <3>2. P!Data(<<Head(pData)>>) \in Wire(Msgs)
      BY <3>1, WireTypes
    <3>. QED
      BY <2>1, <3>2 DEF P!Data
  <2>3. InTransit(Append(pOutbox[1], t)) = InTransit(pOutbox[1]) \cup {Head(pData)}
    <3>1. InTransit(Append(pOutbox[1], t)) = InTransit(pOutbox[1]) \cup Elements(t.list)
      BY <1>a, <2>2
    <3>2. Elements(<<Head(pData)>>) = {Head(pData)}
      BY DEF Elements
    <3>. QED
      BY <2>2, <3>1, <3>2
  <2>4. \/ pOutbox' = pOutbox /\ ~pConnected[1]
        \/ pOutbox'[1] = Append(pOutbox[1], t)
    <3>1. ~P!SendThrows(1)
      BY DEF P!SendThrows, P!Alive
    <3>. QED
      BY <1>0, <1>4, <2>1, <3>1 DEF P!ColSync, P!SendMsg
  <2>5. Head(pData) \in Due
    BY <1>4 DEF P!ColSync, Stages, Due
  <2>6. pMsgQue' = pMsgQue /\ UNCHANGED <<pTrans, pInbox, pAgPc>> /\ pColPc' # "sync"
    BY <1>4 DEF P!ColSync, P!Disconnect
  <2>. QED
    BY <1>4, <2>3, <2>4, <2>5, <2>6 DEF P!ColSync
<1>5. CASE P!ColSendClear
  <2>1. P!ClearAll \in Wire(Msgs) /\ P!ClearAll.name = "Clear"
    BY WireTypes DEF P!ClearAll
  <2>2. Elements(P!ClearAll.list) = {}
    BY <2>1, EmptyRequests
  <2>3. InTransit(Append(pOutbox[1], P!ClearAll)) = InTransit(pOutbox[1])
    BY <1>a, <2>1, <2>2
  <2>4. pOutbox' = pOutbox \/ pOutbox'[1] = Append(pOutbox[1], P!ClearAll)
    BY <1>0, <1>5 DEF P!ColSendClear, P!SendMsg
  <2>. QED
    BY <1>5, <2>3, <2>4 DEF P!ColSendClear, P!Disconnect
<1>. QED
  BY <1>0, <1>1, <1>2, <1>3, <1>4, <1>5 DEF P!Collector

-----------------------------------------------------------------------------
(* A restarted primary gets back what the standby holds.                   *)

\* Over a connection, the primary writes only what is due, so that is all the secondary
\* queues; its answer is its queue, and what it has not sent back by then came from the
\* primary since.
RecoveryParts ==
  /\ pAgPc[1] \in {"send", "unlock"} => PHand \subseteq Due
  /\ POut \subseteq Due /\ SIn \subseteq Due
  /\ sAgPc[1] \in {"put", "append"} => SHand \subseteq Due
  /\ sAgPc[1] \in {"send", "unlock"} => SHand = SQueue
  /\ "P" \in posted => SQueue \subseteq Due \cup PHand \cup PIn \cup SOut

RecoveryInv == pLink[1] = "up" => RecoveryParts

\* A delivery takes the first transaction from one end to the other.
LEMMA DeliveryMoves ==
  ASSUME OneAgent, PairTypes
  PROVE  /\ DeliverToSecondary(1) =>
              /\ \E E : POut = E \cup POut' /\ SIn' = SIn \cup E
              /\ UNCHANGED <<pMsgQue, pSescList, pAgPc, pTrans, pInbox, InHand>>
              /\ UNCHANGED <<sMsgQue, sAgPc, sTrans, sOutbox, posted>>
         /\ DeliverToPrimary(1) =>
              /\ \E E : SOut = E \cup SOut' /\ PIn' = PIn \cup E
              /\ UNCHANGED <<pMsgQue, pSescList, pAgPc, pTrans, pOutbox, InHand>>
              /\ UNCHANGED <<sMsgQue, sAgPc, sTrans, sInbox, posted>>
<1>. USE DEF PHand, PIn, POut, SHand, SIn, SOut
<1>0. /\ 1 \in P!Agents /\ 1 \in S!Agents
      /\ pInbox[1] \in Seq(Wire(Msgs)) /\ pOutbox[1] \in Seq(Wire(Msgs))
      /\ sInbox[1] \in Seq(Wire(Msgs)) /\ sOutbox[1] \in Seq(Wire(Msgs))
      /\ DOMAIN pInbox = P!Agents /\ DOMAIN pOutbox = P!Agents
      /\ DOMAIN sInbox = S!Agents /\ DOMAIN sOutbox = S!Agents
  BY PrimaryAgents, OneOfEach DEF PairTypes, PTypes, STypes, PHold, SHold
<1>1. ASSUME NEW s \in Seq(Wire(Msgs)), NEW d \in Seq(Wire(Msgs)), s # <<>>
      PROVE  /\ InTransit(s) = Elements(Head(s).list) \cup InTransit(Tail(s))
             /\ InTransit(Append(d, Head(s))) = InTransit(d) \cup Elements(Head(s).list)
  <2>1. Head(s) \in Wire(Msgs)
    BY <1>1, SeqTypes
  <2>. QED
    BY <1>1, <2>1, TransitFacts
<1>2. ASSUME DeliverToSecondary(1)
      PROVE  /\ \E E : POut = E \cup POut' /\ SIn' = SIn \cup E
             /\ UNCHANGED <<pMsgQue, pSescList, pAgPc, pTrans, pInbox, InHand>>
             /\ UNCHANGED <<sMsgQue, sAgPc, sTrans, sOutbox, posted>>
  <2>1. /\ pOutbox[1] # <<>> /\ pOutbox'[1] = Tail(pOutbox[1])
        /\ sInbox'[1] = Append(sInbox[1], Head(pOutbox[1]))
    BY <1>0, <1>2 DEF DeliverToSecondary, P!PeerReads, S!PeerSends
  <2>2. /\ UNCHANGED <<pMsgQue, pSescList, pAgPc, pTrans, pInbox, pColPc, pData>>
        /\ UNCHANGED <<sMsgQue, sAgPc, sTrans, sOutbox, posted>>
    BY <1>2 DEF DeliverToSecondary, P!PeerReads, S!PeerSends, P!NetUnchanged, S!NetUnchanged,
                P!queueVars, P!colVars, S!queueVars
  <2>3. /\ POut = Elements(Head(pOutbox[1]).list) \cup POut'
        /\ SIn' = SIn \cup Elements(Head(pOutbox[1]).list)
    BY <1>0, <1>1, <2>1
  <2>. QED
    BY <2>2, <2>3 DEF InHand
<1>3. ASSUME DeliverToPrimary(1)
      PROVE  /\ \E E : SOut = E \cup SOut' /\ PIn' = PIn \cup E
             /\ UNCHANGED <<pMsgQue, pSescList, pAgPc, pTrans, pOutbox, InHand>>
             /\ UNCHANGED <<sMsgQue, sAgPc, sTrans, sInbox, posted>>
  <2>1. /\ sOutbox[1] # <<>> /\ sOutbox'[1] = Tail(sOutbox[1])
        /\ pInbox'[1] = Append(pInbox[1], Head(sOutbox[1]))
    BY <1>0, <1>3 DEF DeliverToPrimary, S!PeerReads, P!PeerSends
  <2>2. /\ UNCHANGED <<pMsgQue, pSescList, pAgPc, pTrans, pOutbox, pColPc, pData>>
        /\ UNCHANGED <<sMsgQue, sAgPc, sTrans, sInbox, posted>>
    BY <1>3 DEF DeliverToPrimary, S!PeerReads, P!PeerSends, P!NetUnchanged, S!NetUnchanged,
                P!queueVars, P!colVars, S!queueVars
  <2>3. /\ SOut = Elements(Head(sOutbox[1]).list) \cup SOut'
        /\ PIn' = PIn \cup Elements(Head(sOutbox[1]).list)
    BY <1>0, <1>1, <2>1
  <2>. QED
    BY <2>2, <2>3 DEF InHand
<1>. QED
  BY <1>2, <1>3

\* What is due stays due while the connection stays.
LEMMA DueStays ==
  ASSUME OnlyPrimary, PairTypes, produced \in Nat, Quiet, Stages, [PairNext]_pairVars,
         pLink'[1] = "up"
  PROVE  Due \subseteq Due' /\ flushed \subseteq flushed' /\ PQueue' \subseteq Due'
<1>1. PrimaryStays
  BY PrimaryAgents DEF PrimaryStays, P!Restart
<1>2. PICK Y : Y = Due'
  OBVIOUS
<1>. QED
  BY <1>1, <1>2, DueUnlessRestart DEF Due, PQueue

\* The parts over one step of the connected pair.
LEMMA RecoveryCarries ==
  ASSUME OnlyPrimary, OneAgent, PairTypes, produced \in Nat, Quiet, Linked, Stages,
         RecoveryParts, [PairNext]_pairVars, Carries, pLink[1] = "up", pLink'[1] = "up",
         sLink[1] = "up", sLink'[1] = "up"
  PROVE  RecoveryParts'
<1>. USE DEF RecoveryParts
<1>0. Due \subseteq Due' /\ flushed \subseteq flushed' /\ PQueue' \subseteq Due'
  BY DueStays
<1>a. P!NodeIdle => UNCHANGED <<pAgPc, PHand, PIn, POut>>
  BY DEF P!NodeIdle, P!nodeVars, P!agentVars, P!netVars, PHand, PIn, POut
<1>b. S!NodeIdle => UNCHANGED <<sAgPc, SQueue, SHand, SIn, SOut>>
  BY DEF S!NodeIdle, S!nodeVars, S!agentVars, S!netVars, S!queueVars, SHand, SIn, SOut, SQueue
<1>c. PQueue \subseteq Due
  BY DEF PQueue, Due
<1>1. CASE PrimaryCollector /\ S!NodeIdle /\ UNCHANGED posted
  <2>1. UNCHANGED <<PHand, PIn, pAgPc>> /\ POut' \subseteq POut \cup Due
    BY <1>1, CollectorMoves
  <2>. QED
    BY <1>0, <1>1, <1>b, <2>1
<1>2. CASE P!AgentThread(1) /\ S!NodeIdle /\ posted' = posted \cup PAnswers
  <2>1. Moves(pAgPc[1], pAgPc'[1], PQueue, PQueue', PHand, PHand', PIn, PIn', POut, POut')
    BY <1>2, PAgentMoves DEF PairTypes, Linked
  <2>2. "P" \in posted' => "P" \in posted
    BY <1>2 DEF PAnswers
  <2>3. /\ pAgPc'[1] \in {"send", "unlock"} => PHand' \subseteq Due'
        /\ POut' \subseteq Due'
        /\ Due \cup PHand \cup PIn \subseteq Due' \cup PHand' \cup PIn'
    BY <1>0, <1>c, <2>1 DEF Moves
  <2>. QED
    BY <1>0, <1>2, <1>b, <2>2, <2>3
<1>3. CASE S!AgentThread(1) /\ P!NodeIdle /\ posted' = posted \cup SAnswers
  <2>1. \/ Clears
        \/ Moves(sAgPc[1], sAgPc'[1], SQueue, SQueue', SHand, SHand', SIn, SIn', SOut, SOut')
    BY <1>3, SAgentMoves DEF PairTypes, Linked
  <2>2. "P" \in posted' => \/ "P" \in posted
                           \/ sAgPc[1] = "post" /\ sAgPc'[1] = "read"
                           \/ sAgPc[1] = "send" /\ sAgPc'[1] = "unlock"
    BY <1>3 DEF SAnswers, Answered
  <2>3. CASE Clears
    BY <1>0, <1>3, <1>a, <2>2, <2>3 DEF Clears
  <2>4. CASE Moves(sAgPc[1], sAgPc'[1], SQueue, SQueue', SHand, SHand', SIn, SIn', SOut, SOut')
    <3>1. /\ SIn' \subseteq Due
          /\ sAgPc'[1] \in {"put", "append"} => SHand' \subseteq Due
          /\ sAgPc'[1] \in {"send", "unlock"} => SHand' = SQueue'
      BY <2>4 DEF Moves
    <3>2. "P" \in posted' => SQueue' \subseteq Due \cup PHand \cup PIn \cup SOut'
      BY <2>2, <2>4 DEF Moves
    <3>. QED
      BY <1>0, <1>3, <1>a, <3>1, <3>2
  <2>. QED
    BY <2>1, <2>3, <2>4
<1>4. CASE DeliverToSecondary(1)
  <2>1. /\ UNCHANGED <<pAgPc, PHand, PIn, sAgPc, SQueue, SHand, SOut, posted>>
        /\ \E E : POut = E \cup POut' /\ SIn' = SIn \cup E
    BY <1>4, DeliveryMoves DEF PHand, PIn, SQueue, SHand, SOut
  <2>. QED
    BY <1>0, <2>1
<1>5. CASE DeliverToPrimary(1)
  <2>1. /\ UNCHANGED <<pAgPc, PHand, POut, sAgPc, SQueue, SHand, SIn, posted>>
        /\ \E E : SOut = E \cup SOut' /\ PIn' = PIn \cup E
    BY <1>5, DeliveryMoves DEF PHand, POut, SQueue, SHand, SIn
  <2>. QED
    BY <1>0, <2>1
<1>6. CASE Still
  <2>1. UNCHANGED <<pAgPc, PHand, PIn, POut, sAgPc, SQueue, SHand, SIn, SOut, posted>>
    BY <1>6 DEF Still, PHand, PIn, POut, SQueue, SHand, SIn, SOut
  <2>. QED
    BY <1>0, <2>1
<1>. QED
  BY <1>1, <1>2, <1>3, <1>4, <1>5, <1>6 DEF Carries

\* A connection that was just accepted carries requests at most.
LEMMA FreshLink ==
  ASSUME OneAgent, PairTypes, Linked, PrimaryAccepts(1)
  PROVE  /\ pAgPc'[1] = "connected" /\ sAgPc'[1] \in {"off", "connected", "init", "read"}
         /\ PIn' = {} /\ POut' = {} /\ SIn' = {} /\ SOut' = {} /\ posted' = {}
         /\ PHand' = {} /\ SHand' = {}
<1>0. 1 \in P!Agents /\ 1 \in S!Agents
  BY PrimaryAgents, OneOfEach
<1>1. /\ pAgPc[1] = "connect" /\ pAgPc'[1] = "connected" /\ sLink[1] = "waiting"
      /\ UNCHANGED <<pInbox, pOutbox, pTrans, sAgPc, sInbox, sOutbox, sTrans>> /\ posted' = {}
  BY <1>0 DEF PrimaryAccepts, P!Connect, S!Serve, P!Goto, P!NetUnchanged, S!NetUnchanged,
              PairTypes, PTypes, PControl
<1>2. /\ pInbox[1] = <<>> /\ pOutbox[1] = <<>> /\ pTrans[1] = <<>>
      /\ sInbox[1] = <<>> /\ AllIn(sOutbox[1], {}) /\ sTrans[1] = <<>>
      /\ sAgPc[1] \in {"off", "connected", "init", "read"}
  BY <1>0, <1>1 DEF Linked, PLinked, SLinked, PairTypes, STypes, SControl
<1>3. InTransit(<<>>) = {} /\ Elements(<<>>) = {}
  BY TransitFacts, ElementsFacts
<1>4. SOut = {}
  <2>1. sOutbox[1] \in Seq(Wire(Msgs))
    BY <1>0 DEF PairTypes, STypes, SHold
  <2>2. InTransit(sOutbox[1]) \subseteq {}
    BY <1>2, <2>1, TransitFacts
  <2>. QED
    BY <2>2 DEF SOut
<1>. QED
  BY <1>1, <1>2, <1>3, <1>4 DEF PIn, POut, SIn, SOut, PHand, SHand

\* Every step keeps the parts, a new connection begins with them.
LEMMA RecoveryStep ==
  ASSUME OnlyPrimary, OneAgent, PairTypes, produced \in Nat, Quiet, Linked, Stages,
         RecoveryInv, [PairNext]_pairVars
  PROVE  RecoveryInv'
<1>1. CASE pLink'[1] # "up"
  BY <1>1 DEF RecoveryInv
<1>2. CASE PrimaryAccepts(1)
  BY <1>2, FreshLink DEF RecoveryInv, RecoveryParts
<1>3. CASE pLink[1] = "up" /\ pLink'[1] = "up" /\ sLink'[1] = "up" /\ Carries
  BY <1>3, RecoveryCarries DEF RecoveryInv, Linked
<1>. QED
  BY <1>1, <1>2, <1>3, LinkMoves

\* The connection is not there at first.
LEMMA LinkedInit ==
  ASSUME OneAgent, PairInit
  PROVE  Linked /\ Stages /\ pLink[1] # "up"
<1>1. AllIn(<<>>, {})
  BY AheadNone
<1>. QED
  BY <1>1, PrimaryAgents, OneOfEach
  DEF PairInit, P!ProcessInit, S!ProcessInit, P!QueueInit, S!QueueInit, P!AgentInit,
      S!AgentInit, Linked, PLinked, SLinked, Stages

\* With all adapters at the primary and one connection at a time between the servers,
\* whichever of them dies and whatever breaks: once the secondary has answered a GET_ALL
\* of the primary, a restarted one say, each message that it holds and no flush has taken
\* is at the primary or under way to it.
THEOREM RecoveryIsComplete == OnlyPrimary /\ OneAgent /\ PairSpec => []RecoveryComplete
<1>. SUFFICES ASSUME OnlyPrimary, OneAgent PROVE PairSpec => []RecoveryComplete
  OBVIOUS
<1>. DEFINE IInv == Linked /\ Stages /\ RecoveryInv
<1>1. PairInit => IInv
  BY LinkedInit DEF RecoveryInv
<1>2. PairTypes /\ produced \in Nat /\ Quiet /\ IInv /\ [PairNext]_pairVars => IInv'
  BY LinkedStep, StagesStep, RecoveryStep
<1>3. PairSpec => []IInv
  BY <1>1, <1>2, PairTypeCorrect, SecondaryQuiet, PTL DEF PairSpec
<1>4. IInv => RecoveryComplete
  <2>. SUFFICES ASSUME IInv, "P" \in posted, LinkUp
                PROVE  Elements(sMsgQue) \ flushed \subseteq AtPrimary
    BY DEF RecoveryComplete
  <2>1. SQueue \subseteq Due \cup PHand \cup PIn \cup SOut
    BY DEF LinkUp, RecoveryInv, RecoveryParts
  <2>2. Served = {1}
    BY OneOfEach DEF LinkUp, Served, Linked
  <2>3. AtPrimary = Elements(pMsgQue) \cup Elements(pSescList) \cup PHand \cup PIn \cup SOut
    BY <2>2 DEF AtPrimary, PHand, PIn, SOut
  <2>. QED
    BY <2>1, <2>3 DEF SQueue, Due
<1>. QED
  BY <1>3, <1>4, PTL

-----------------------------------------------------------------------------
(* What waits at the primary is at the standby.                            *)

\* What went through an insert, or has left the primary for the secondary.
Far == flushed \cup SQueue \cup SHand \cup SIn \cup POut

\* What comes back to the primary is far already; from the snapshot on, what the primary
\* has queued and forwarded is far, or in the snapshot that is about to be sent.
StandbyParts ==
  /\ PIn \subseteq Far /\ SOut \subseteq Far
  /\ pAgPc[1] \in {"put", "append"} => PHand \subseteq Far
  /\ sAgPc[1] \in {"send", "unlock"} => SHand = SQueue
  /\ pAgPc[1] = "send" => PQueue \ InHand \subseteq Far \cup PHand
  /\ "S" \in posted => PQueue \ InHand \subseteq Far

StandbyInv == pLink[1] = "up" => StandbyParts

\* What the secondary's agent drops by a CLEAR went through an insert.
LEMMA ClearDropsFlushed ==
  ASSUME Preceded("Clear", flushed), Clears
  PROVE  SQueue \cup SHand \subseteq flushed
  BY DEF Preceded, Clears, Arrived, SQueue, SHand

\* The parts over one step of the connected pair.
LEMMA StandbyCarries ==
  ASSUME OnlyPrimary, OneAgent, PairTypes, produced \in Nat, Quiet, Linked, Stages,
         Preceded("Clear", flushed), StandbyParts, [PairNext]_pairVars, Carries,
         pLink[1] = "up", pLink'[1] = "up", sLink[1] = "up", sLink'[1] = "up",
         pConnected[1] => pConnected'[1]
  PROVE  StandbyParts'
<1>. USE DEF StandbyParts
<1>0. flushed \subseteq flushed'
  BY DueStays
<1>a. P!NodeIdle => UNCHANGED <<pAgPc, PQueue, PHand, PIn, POut, InHand>>
  BY DEF P!NodeIdle, P!nodeVars, P!queueVars, P!agentVars, P!netVars, P!colVars, PQueue, PHand,
         PIn, POut, InHand
<1>b. S!NodeIdle => UNCHANGED <<sAgPc, SQueue, SHand, SIn, SOut>>
  BY DEF S!NodeIdle, S!nodeVars, S!agentVars, S!netVars, S!queueVars, SHand, SIn, SOut, SQueue
<1>c. /\ "S" \in posted => pConnected[1]
      /\ pAgPc[1] = "send" => pConnected[1]
  BY DEF Linked, PLinked
<1>1. CASE PrimaryCollector /\ S!NodeIdle /\ UNCHANGED posted
  <2>1. /\ UNCHANGED <<PHand, PIn, pAgPc>> /\ POut \subseteq POut'
        /\ PQueue' \subseteq PQueue \cup InHand'
        /\ pConnected[1] => InHand \subseteq InHand' \cup POut'
    BY <1>1, CollectorMoves
  <2>2. Far \subseteq Far'
    BY <1>0, <1>1, <1>b, <2>1 DEF Far
  <2>3. POut' \subseteq Far'
    BY DEF Far
  <2>. QED
    BY <1>1, <1>b, <1>c, <2>1, <2>2, <2>3
<1>2. CASE P!AgentThread(1) /\ P!ColIdle /\ S!NodeIdle /\ posted' = posted \cup PAnswers
  <2>1. Moves(pAgPc[1], pAgPc'[1], PQueue, PQueue', PHand, PHand', PIn, PIn', POut, POut')
    BY <1>2, PAgentMoves DEF PairTypes, Linked
  <2>2. "S" \in posted' => \/ "S" \in posted
                           \/ pAgPc[1] = "post" /\ pAgPc'[1] = "read"
                           \/ pAgPc[1] = "send" /\ pAgPc'[1] = "unlock"
    BY <1>2 DEF PAnswers, Answered
  <2>3. InHand' = InHand
    BY <1>2 DEF P!ColIdle, P!colVars, InHand
  <2>4. Far \subseteq Far' /\ POut' \subseteq Far'
    BY <1>0, <1>2, <1>b, <2>1 DEF Far, Moves
  <2>5. /\ PIn' \subseteq PIn
        /\ pAgPc'[1] \in {"put", "append"} => PHand' \subseteq Far
        /\ pAgPc'[1] = "send" => PQueue' = PHand'
    BY <2>1 DEF Moves
  <2>6. "S" \in posted' => PQueue' \ InHand \subseteq Far'
    BY <2>1, <2>2, <2>4 DEF Moves
  <2>. QED
    BY <1>2, <1>b, <2>3, <2>4, <2>5, <2>6
<1>3. CASE S!AgentThread(1) /\ P!NodeIdle /\ posted' = posted \cup SAnswers
  <2>1. \/ Clears
        \/ Moves(sAgPc[1], sAgPc'[1], SQueue, SQueue', SHand, SHand', SIn, SIn', SOut, SOut')
    BY <1>3, SAgentMoves DEF PairTypes, Linked
  <2>2. "S" \in posted' => "S" \in posted
    BY <1>3 DEF SAnswers
  <2>3. CASE Clears
    <3>1. SQueue \cup SHand \subseteq flushed
      BY <2>3, ClearDropsFlushed
    <3>2. Far \subseteq Far'
      BY <1>0, <1>3, <1>a, <2>3, <3>1 DEF Far, Clears
    <3>. QED
      BY <1>3, <1>a, <2>2, <2>3, <3>2 DEF Clears
  <2>4. CASE Moves(sAgPc[1], sAgPc'[1], SQueue, SQueue', SHand, SHand', SIn, SIn', SOut, SOut')
    <3>1. SQueue \cup SHand \cup SIn \subseteq SQueue' \cup SHand' \cup SIn'
      BY <2>4 DEF Moves
    <3>2. Far \subseteq Far'
      BY <1>0, <1>3, <1>a, <3>1 DEF Far
    <3>3. /\ sAgPc'[1] \in {"send", "unlock"} => SHand' = SQueue'
          /\ SOut' \subseteq SOut \cup SQueue
      BY <2>4 DEF Moves
    <3>4. SQueue \subseteq Far
      BY DEF Far
    <3>. QED
      BY <1>3, <1>a, <2>2, <3>2, <3>3, <3>4
  <2>. QED
    BY <2>1, <2>3, <2>4
<1>4. CASE DeliverToSecondary(1) /\ UNCHANGED history
  <2>1. /\ UNCHANGED <<pAgPc, PQueue, PHand, PIn, InHand, sAgPc, SQueue, SHand, SOut, posted>>
        /\ \E E : POut = E \cup POut' /\ SIn' = SIn \cup E
    BY <1>4, DeliveryMoves DEF PQueue, PHand, PIn, SQueue, SHand, SOut
  <2>2. Far \subseteq Far'
    BY <1>0, <2>1 DEF Far
  <2>. QED
    BY <2>1, <2>2
<1>5. CASE DeliverToPrimary(1) /\ UNCHANGED history
  <2>1. /\ UNCHANGED <<pAgPc, PQueue, PHand, POut, InHand, sAgPc, SQueue, SHand, SIn, posted>>
        /\ \E E : SOut = E \cup SOut' /\ PIn' = PIn \cup E
    BY <1>5, DeliveryMoves DEF PQueue, PHand, POut, SQueue, SHand, SIn
  <2>2. Far \subseteq Far'
    BY <1>0, <2>1 DEF Far
  <2>. QED
    BY <2>1, <2>2
<1>6. CASE Still
  <2>1. UNCHANGED <<pAgPc, PQueue, PHand, PIn, POut, InHand, sAgPc, SQueue, SHand, SIn, SOut, posted>>
    BY <1>6 DEF Still, PQueue, PHand, PIn, POut, SQueue, SHand, SIn, SOut
  <2>2. Far' = Far
    BY <1>6, <2>1 DEF Far, Still
  <2>. QED
    BY <2>1, <2>2
<1>. QED
  BY <1>1, <1>2, <1>3, <1>4, <1>5, <1>6 DEF Carries

\* Every step keeps the parts, a new connection begins with them.
LEMMA StandbyStep ==
  ASSUME OnlyPrimary, OneAgent, PairTypes, produced \in Nat, Quiet, Linked, ClearInv,
         StandbyInv, [PairNext]_pairVars
  PROVE  StandbyInv'
<1>1. CASE pLink'[1] # "up"
  BY <1>1 DEF StandbyInv
<1>2. CASE PrimaryAccepts(1)
  BY <1>2, FreshLink DEF StandbyInv, StandbyParts
<1>3. CASE /\ pLink[1] = "up" /\ pLink'[1] = "up" /\ sLink'[1] = "up"
           /\ pConnected[1] => pConnected'[1]
           /\ Carries
  BY <1>3, StandbyCarries DEF StandbyInv, Linked, ClearInv, Kept
<1>. QED
  BY <1>1, <1>2, <1>3, LinkMoves

\* With all adapters at the primary, which is not restarted, and one connection at a time
\* between the servers, whatever breaks and however often the standby dies: once the
\* primary has answered a GET_ALL, every message that waits in its queue is at the
\* secondary or under way to it, but for the one that its collector is about to forward.
THEOREM StandbyIsComplete ==
  OnlyPrimary /\ PrimaryLives /\ OneAgent /\ PairSpec => []StandbyComplete
<1>. SUFFICES ASSUME OnlyPrimary, PrimaryLives, OneAgent PROVE PairSpec => []StandbyComplete
  OBVIOUS
<1>. DEFINE IInv == Linked /\ StandbyInv
<1>1. PairInit => IInv
  BY LinkedInit DEF StandbyInv
<1>2. PairTypes /\ produced \in Nat /\ Quiet /\ ClearInv /\ IInv /\ [PairNext]_pairVars => IInv'
  BY LinkedStep, StandbyStep
<1>3. PairSpec => []IInv
  BY <1>1, <1>2, ClearIsCovered, PairTypeCorrect, SecondaryQuiet, PTL DEF PairSpec
<1>4. IInv => StandbyComplete
  <2>. SUFFICES ASSUME IInv, "S" \in posted, LinkUp
                PROVE  (Elements(pMsgQue) \ flushed) \ InHand \subseteq AtSecondary
    BY DEF StandbyComplete
  <2>1. PQueue \ InHand \subseteq Far
    BY DEF LinkUp, StandbyInv, StandbyParts
  <2>2. Served = {1}
    BY OneOfEach DEF LinkUp, Served, Linked
  <2>3. /\ UNION {Elements(sTrans[a]) : a \in Served} = SHand
        /\ UNION {InTransit(sInbox[a]) : a \in Served} = SIn
    BY <2>2 DEF SHand, SIn
  <2>4. AtSecondary = SQueue \cup SHand \cup SIn \cup POut
    BY <2>3 DEF AtSecondary, SQueue, POut
  <2>. QED
    BY <2>1, <2>4 DEF PQueue, Far
<1>. QED
  BY <1>3, <1>4, PTL

-----------------------------------------------------------------------------
(* Postings that cross.                                                    *)

\* With all adapters at the primary and one connection between the servers, whatever
\* breaks and however often the standby dies: two postings cross only over messages that
\* the primary forwarded before its GET_ALL, because its agent asks once, and nothing else
\* makes the secondary post.
THEOREM CrossingIsEarly ==
  OnlyPrimary /\ PrimaryLives /\ OneAgent /\ PairSpec => []CrossingNeedsEarly
<1>. SUFFICES ASSUME OnlyPrimary, PrimaryLives, OneAgent PROVE PairSpec => []CrossingNeedsEarly
  OBVIOUS
<1>. DEFINE IInv == EarlyIn(early)
<1>1. PairInit => IInv
  BY EarlyInit
<1>2. PairTypes /\ Quiet /\ IInv /\ [PairNext]_pairVars => IInv'
  BY EarlyKept
<1>3. PairSpec => []IInv
  BY <1>1, <1>2, PairTypeCorrect, SecondaryQuiet, PTL DEF PairSpec
<1>4. IInv => CrossingNeedsEarly
  <2>. SUFFICES ASSUME IInv, Crossing(1)
                PROVE  Elements(sTrans[1]) \subseteq early
    BY OneOfEach DEF CrossingNeedsEarly
  <2>1. SEarly(early)
    BY Zenon DEF EarlyIn
  <2>2. sAgPc[1] = "send"
    BY DEF Crossing
  <2>. QED
    BY <2>1, <2>2 DEF SEarly, Answering, Arrived
<1>. QED
  BY <1>3, <1>4, PTL

\* What keeps either end of two crossing postings where it is.
PFixed ==
  UNCHANGED <<pLink, pAgPc, pConnected, pTrans, pInbox>> /\ Len(pOutbox'[1]) >= Len(pOutbox[1])
SFixed ==
  UNCHANGED <<sLink, sAgPc, sConnected, sTrans, sInbox>> /\ Len(sOutbox'[1]) >= Len(sOutbox[1])

\* A channel that is full does not become less so.
LEMMA FixedCrossing ==
  ASSUME OneAgent, PairTypes, PairTypes', Crossing(1), PFixed, SFixed
  PROVE  Crossing(1)'
<1>1. /\ Len(pOutbox[1]) \in Nat /\ Len(pOutbox'[1]) \in Nat
      /\ Len(sOutbox[1]) \in Nat /\ Len(sOutbox'[1]) \in Nat /\ PairChanCap \in Nat
  BY OneOfEach, PairAssumption DEF PairTypes, PTypes, STypes, PHold, SHold
<1>2. Stuck(pTrans[1], pOutbox[1], sInbox[1]) => Stuck(pTrans[1], pOutbox'[1], sInbox[1])
  BY <1>1 DEF Stuck, PFixed
<1>3. Stuck(sTrans[1], sOutbox[1], pInbox[1]) => Stuck(sTrans[1], sOutbox'[1], pInbox[1])
  BY <1>1 DEF Stuck, SFixed
<1>. QED
  BY <1>2, <1>3 DEF Crossing, PFixed, SFixed, Served

\* The collectors leave the agents' threads alone, and add to a channel at most.
LEMMA CollectorsFixed ==
  ASSUME OneAgent, PairTypes
  PROVE  /\ P!Collector /\ pLink[1] = "up" => PFixed
         /\ S!Collector => SFixed
<1>. USE OneOfEach DEF PairTypes, PTypes, STypes, PControl, SControl, PHold, SHold
<1>0. pSyncAgent = 1 /\ sSyncAgent = 1
  BY DEF P!Agents
<1>1. /\ \A t : Len(Append(pOutbox[1], t)) >= Len(pOutbox[1])
      /\ \A t : Len(Append(sOutbox[1], t)) >= Len(sOutbox[1])
      /\ Len(pOutbox[1]) >= Len(pOutbox[1]) /\ Len(sOutbox[1]) >= Len(sOutbox[1])
  <2>1. \A n \in Nat : n >= n /\ n + 1 >= n
    OBVIOUS
  <2>. QED
    BY <2>1
<1>2. \A t : P!SendMsg(1, t) => Len(pOutbox'[1]) >= Len(pOutbox[1])
  BY <1>1 DEF P!SendMsg
<1>3. \A t : S!SendMsg(1, t) => Len(sOutbox'[1]) >= Len(sOutbox[1])
  BY <1>1 DEF S!SendMsg
<1>4. ASSUME P!Collector
      PROVE  PFixed
  BY <1>0, <1>1, <1>2, <1>4
  DEF PFixed, P!Collector, P!ColWait, P!ColPut, P!ColSync, P!ColThreshold, P!ColSize,
      P!ColTakeWait, P!ColTake, P!ColInsert, P!ColSendClear, P!netVars, P!agentVars
<1>5. ASSUME S!Collector
      PROVE  SFixed
  BY <1>0, <1>1, <1>3, <1>5
  DEF SFixed, S!Collector, S!ColWait, S!ColPut, S!ColSync, S!ColThreshold, S!ColSize,
      S!ColTakeWait, S!ColTake, S!ColInsert, S!ColSendClear, S!netVars, S!agentVars
<1>. QED
  BY <1>4, <1>5

\* Neither agent can finish its write: what is long waits for a thread that reads, what is
\* not long for room.
LEMMA CrossingBlocks ==
  ASSUME OneAgent, PairTypes, Crossing(1)
  PROVE  ~PrimaryAgent /\ \A a \in S!Agents : ~SecondaryAgent(a)
<1>. USE OneOfEach DEF PairTypes, PTypes, STypes, PControl, SControl, PHold, SHold
<1>0. /\ Served = {1} /\ pAgPc[1] = "send" /\ sAgPc[1] = "send"
      /\ pLink[1] = "up" /\ sLink[1] = "up" /\ pConnected[1] /\ sConnected[1]
      /\ Stuck(pTrans[1], pOutbox[1], sInbox[1]) /\ Stuck(sTrans[1], sOutbox[1], pInbox[1])
      /\ ~SecondaryReads /\ ~PrimaryReads
  BY DEF Crossing, Served, SecondaryReads, PrimaryReads
<1>1. /\ pOutbox[1] \in Seq(Wire(Msgs)) /\ P!Data(pTrans[1]) \in Wire(Msgs)
      /\ sOutbox[1] \in Seq(Wire(Msgs)) /\ S!Data(sTrans[1]) \in Wire(Msgs)
      /\ P!Data(pTrans[1]).list = pTrans[1] /\ S!Data(sTrans[1]).list = sTrans[1]
      /\ PairChanCap \in Nat
  BY WireTypes, PairAssumption DEF P!Data, S!Data
<1>2. ASSUME NEW s \in Seq(Wire(Msgs)), NEW t \in Wire(Msgs)
      PROVE  Len(Append(s, t)) > Len(s) /\ Append(s, t)[Len(Append(s, t))] = t
  OBVIOUS
<1>3. ASSUME PrimaryAgent
      PROVE  FALSE
  <2>1. P!PostSnapshot(1)
    BY <1>0, <1>3
    DEF PrimaryAgent, P!AgentThread, P!RaiseFlags, P!RequestAll, P!ReadTransaction, P!ReadEof,
        P!ReadThrows, P!AgentWait, P!AgentPut, P!PostAllData, P!LockQueue, P!Snapshot,
        P!UnlockQueue
  <2>2. P!SendMsg(1, P!Data(pTrans[1]))
    BY <1>0, <2>1 DEF P!PostSnapshot, P!SendThrows, P!Alive
  <2>3. Len(pOutbox[1]) < PairChanCap /\ pOutbox'[1] = Append(pOutbox[1], P!Data(pTrans[1]))
    BY <1>0, <2>2 DEF P!SendMsg
  <2>4. Long(pTrans[1])
    BY <1>0, <1>1, <2>3 DEF Stuck
  <2>5. WritesAll(pOutbox[1], pOutbox'[1], SecondaryReads)
    BY <1>3 DEF PrimaryAgent
  <2>6. /\ Len(pOutbox'[1]) > Len(pOutbox[1])
        /\ pOutbox'[1][Len(pOutbox'[1])] = P!Data(pTrans[1])
    BY <1>1, <1>2, <2>3
  <2>7. Long(pOutbox'[1][Len(pOutbox'[1])].list)
    BY <1>1, <2>4, <2>6
  <2>. QED
    BY <1>0, <2>5, <2>6, <2>7 DEF WritesAll
<1>4. ASSUME SecondaryAgent(1)
      PROVE  FALSE
  <2>1. S!PostSnapshot(1)
    BY <1>0, <1>4
    DEF SecondaryAgent, S!AgentThread, S!RaiseFlags, S!RequestAll, S!ReadTransaction, S!ReadEof,
        S!ReadThrows, S!AgentWait, S!AgentPut, S!PostAllData, S!LockQueue, S!Snapshot,
        S!UnlockQueue
  <2>2. S!SendMsg(1, S!Data(sTrans[1]))
    BY <1>0, <2>1 DEF S!PostSnapshot, S!SendThrows, S!Alive
  <2>3. Len(sOutbox[1]) < PairChanCap /\ sOutbox'[1] = Append(sOutbox[1], S!Data(sTrans[1]))
    BY <1>0, <2>2 DEF S!SendMsg
  <2>4. Long(sTrans[1])
    BY <1>0, <1>1, <2>3 DEF Stuck
  <2>5. WritesAll(sOutbox[1], sOutbox'[1], 1 \in Served /\ PrimaryReads)
    BY <1>4 DEF SecondaryAgent
  <2>6. /\ Len(sOutbox'[1]) > Len(sOutbox[1])
        /\ sOutbox'[1][Len(sOutbox'[1])] = S!Data(sTrans[1])
    BY <1>1, <1>2, <2>3
  <2>7. Long(sOutbox'[1][Len(sOutbox'[1])].list)
    BY <1>1, <2>4, <2>6
  <2>. QED
    BY <1>0, <2>5, <2>6, <2>7 DEF WritesAll
<1>. QED
  BY <1>3, <1>4

\* The network delivers to neither: a full connection has no room, and of a long write
\* that has not returned it delivers nothing whole.
LEMMA CrossingDeliveries ==
  ASSUME OneAgent, PairTypes, Crossing(1), Network
  PROVE  Crossing(1)'
<1>. USE OneOfEach DEF PairTypes, PTypes, STypes, PControl, SControl, PHold, SHold
<1>0. /\ PairChanCap \in Nat /\ pAgPc[1] = "send" /\ sAgPc[1] = "send"
      /\ \A s \in Seq(Wire(Msgs)), t \in Wire(Msgs) : Len(Append(s, t)) = Len(s) + 1
      /\ Len(pInbox[1]) \in Nat /\ Len(sInbox[1]) \in Nat
  BY PairAssumption DEF Crossing
<1>1. PICK a \in S!Agents :
        \/ SecondaryConnects(a) \/ PrimaryAccepts(a)
        \/ DeliverToSecondary(a) \/ DeliverToPrimary(a)
  BY DEF Network
<1>2. a = 1 /\ ~SecondaryConnects(a) /\ ~PrimaryAccepts(a)
  BY <1>0 DEF SecondaryConnects, PrimaryAccepts, S!Connect, P!Connect
<1>3. CASE DeliverToSecondary(1)
  <2>1. /\ Len(sInbox[1]) < PairChanCap
        /\ UNCHANGED <<pLink, pAgPc, pConnected, pTrans, pInbox>>
        /\ UNCHANGED <<sLink, sAgPc, sConnected, sTrans, sOutbox>>
    BY <1>3
    DEF DeliverToSecondary, P!PeerReads, S!PeerSends, P!NetUnchanged, S!NetUnchanged
  <2>2. Long(pTrans[1])
    BY <1>0, <2>1 DEF Crossing, Stuck
  <2>. QED
    BY <2>1, <2>2 DEF Crossing, Served, Stuck
<1>4. CASE DeliverToPrimary(1)
  <2>1. /\ Len(pInbox[1]) < PairChanCap
        /\ UNCHANGED <<pLink, pAgPc, pConnected, pTrans, pOutbox>>
        /\ UNCHANGED <<sLink, sAgPc, sConnected, sTrans, sInbox>>
    BY <1>4
    DEF DeliverToPrimary, S!PeerReads, P!PeerSends, P!NetUnchanged, S!NetUnchanged
  <2>2. Long(sTrans[1])
    BY <1>0, <2>1 DEF Crossing, Stuck
  <2>. QED
    BY <2>1, <2>2 DEF Crossing, Served, Stuck
<1>. QED
  BY <1>1, <1>2, <1>3, <1>4

\* Every step but a fault leaves two crossing postings as they are.
LEMMA CrossingStep ==
  ASSUME OneAgent, PairTypes, PairTypes', faults \in Nat, [PairNext]_pairVars, Crossing(1)
  PROVE  Crossing(1)' \/ faults' # faults
<1>. USE OneOfEach
<1>0. Served = {1} /\ pLink[1] = "up" /\ sLink[1] = "up" /\ faults + 1 # faults
  BY DEF Crossing, Served
<1>a. P!NodeIdle => PFixed
  BY DEF P!NodeIdle, P!nodeVars, P!agentVars, P!netVars, PFixed, PairTypes, PTypes, PHold
<1>b. S!NodeIdle => SFixed
  BY DEF S!NodeIdle, S!nodeVars, S!agentVars, S!netVars, SFixed, PairTypes, STypes, SHold
<1>c. pLink' = pLink /\ PrimaryEffect => SFixed
  BY <1>0, <1>b DEF PrimaryEffect
<1>d. sLink' = sLink /\ SecondaryEffect => PFixed
  BY <1>0, <1>a DEF SecondaryEffect
<1>1. CASE PrimaryCollector
  <2>1. PFixed
    BY <1>0, <1>1, CollectorsFixed DEF PrimaryCollector
  <2>. QED
    BY <1>1, <1>c, <2>1, FixedCrossing DEF PrimaryCollector, PFixed
<1>2. CASE SecondaryCollector
  <2>1. SFixed
    BY <1>2, CollectorsFixed DEF SecondaryCollector
  <2>. QED
    BY <1>2, <1>d, <2>1, FixedCrossing DEF SecondaryCollector, SFixed
<1>3. CASE PrimaryAgent \/ \E a \in S!Agents : SecondaryAgent(a)
  BY <1>3, CrossingBlocks
<1>4. CASE Collect \/ AdapterConnects
  <2>a. \/ P!NodeIdle
        \/ P!AdapterConnects
        \/ \E n \in 1..PairChunk : P!AdapterSends([i \in 1..n |-> produced + i])
    BY <1>4 DEF Collect, AdapterConnects
  <2>b. \/ S!NodeIdle
        \/ S!AdapterConnects
        \/ \E n \in 1..PairChunk : S!AdapterSends([i \in 1..n |-> produced + i])
    BY <1>4 DEF Collect, AdapterConnects
  <2>c. Len(pOutbox[1]) >= Len(pOutbox[1]) /\ Len(sOutbox[1]) >= Len(sOutbox[1])
    BY DEF PairTypes, PTypes, STypes, PHold, SHold
  <2>d. \A chunk : P!AdapterConnects \/ P!AdapterSends(chunk) => PFixed
    BY <2>c DEF P!AdapterSends, P!AdapterConnects, P!AdapterUnchanged, P!agentVars, P!netVars, PFixed
  <2>e. \A chunk : S!AdapterConnects \/ S!AdapterSends(chunk) => SFixed
    BY <2>c DEF S!AdapterSends, S!AdapterConnects, S!AdapterUnchanged, S!agentVars, S!netVars, SFixed
  <2>1. PFixed /\ SFixed
    BY <1>a, <1>b, <2>a, <2>b, <2>d, <2>e
  <2>. QED
    BY <2>1, FixedCrossing
<1>5. CASE Network
  BY <1>5, CrossingDeliveries
<1>6. CASE PingProbes \/ PingAnswers
  <2>1. P!PingProbe(1) \/ P!PingAnswered(1) => PFixed
    BY DEF P!PingProbe, P!PingAnswered, P!netVars, PFixed, PairTypes, PTypes, PHold
  <2>2. \A a : S!PingProbe(a) \/ S!PingAnswered(a) => SFixed
    BY DEF S!PingProbe, S!PingAnswered, S!netVars, SFixed, PairTypes, STypes, SHold
  <2>3. PFixed /\ SFixed
    BY <1>6, <1>c, <1>d, <2>1, <2>2 DEF PingProbes, PingAnswers, PFixed, SFixed
  <2>. QED
    BY <2>3, FixedCrossing
<1>7. CASE Faults
  BY <1>0, <1>6, <1>7 DEF Faults
<1>8. CASE UNCHANGED pairVars
  BY <1>8, <1>a, <1>b, FixedCrossing DEF pairVars, P!NodeIdle, S!NodeIdle
<1>. QED
  BY <1>1, <1>2, <1>3, <1>4, <1>5, <1>7, <1>8 DEF PairNext

\* Over one connection at a time, whoever collects and whoever crashes: two postings that
\* cross block each other until a connection or a ping fails, or a server dies.
THEOREM CrossedForGood == OneAgent /\ PairSpec => CrossedTillFault
<1>. SUFFICES ASSUME OneAgent PROVE PairSpec => CrossedTillFault
  OBVIOUS
<1>1. PairInit => faults \in Nat
  BY DEF PairInit
<1>2. faults \in Nat /\ [PairNext]_pairVars => (faults \in Nat)'
  BY DEF PairNext, pairVars, PrimaryCollector, SecondaryCollector, PrimaryAgent, SecondaryAgent,
         Collect, AdapterConnects, Network, Faults
<1>3. /\ PairTypes /\ PairTypes' /\ faults \in Nat /\ [PairNext]_pairVars
      => [\A a \in S!Agents : Crossing(a) => Crossing(a)' \/ faults' # faults]_pairVars
  BY CrossingStep, OneOfEach
<1>. QED
  BY <1>1, <1>2, <1>3, PairTypeCorrect, PTL DEF PairSpec, CrossedTillFault
=============================================================================
