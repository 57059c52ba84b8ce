--------------------------- MODULE CollectionPair ---------------------------
(***************************************************************************)
(* The primary and the secondary collection server, two instances of       *)
(* CollectionServer, with the connections between their agents and the     *)
(* table both insert into.  Messages are numbered in the order in which    *)
(* the adapters produce them; each is sent once, to one of the collectors. *)
(*                                                                         *)
(* The primary's agent accepts one connection; the others wait in the      *)
(* backlog of its server socket, which it closes with the connection.      *)
(***************************************************************************)
EXTENDS Naturals, Sequences, FiniteSets

CONSTANTS
  MaxMsgs,      \* bound: messages produced by the adapters
  Collectors,   \* the servers the adapters send to: a subset of {"P", "S"}
  Crashes,      \* the servers that may die and be restarted
  MaxFaults,    \* bound: crashes, broken connections and failed pings in all
  PairAgents,   \* bound: agents the secondary ever starts
  PairChanCap,  \* transactions a socket buffer holds
  PairFits,     \* messages of a transaction that the socket buffers hold
  PairBatch,    \* BatchSize
  PairChunk,    \* bound: messages a collector gets from one read()
  PairBad       \* the messages that are not well-formed XML

ASSUME PairAssumption ==
  /\ MaxMsgs \in Nat /\ MaxFaults \in Nat /\ PairFits \in Nat
  /\ PairAgents \in Nat \ {0} /\ PairChanCap \in Nat \ {0}
  /\ PairBatch \in Nat \ {0} /\ PairChunk \in Nat \ {0}
  /\ PairBad \subseteq 1..MaxMsgs

VARIABLES
  pMsgQue, pIsLock, pSyncAgent, pAgPc, pTrans, pInit, pConnected,
  pProbing, pLink, pInbox, pOutbox, pWiped, pColPc, pData, pSescList,
  sMsgQue, sIsLock, sSyncAgent, sAgPc, sTrans, sInit, sConnected,
  sProbing, sLink, sInbox, sOutbox, sWiped, sColPc, sData, sSescList,
  table,
  produced,     \* how many messages the adapters have sent
  faults,       \* how many faults have happened
  posted,       \* history: the servers whose GET_ALL the other has answered on this connection
  flushed,      \* history: the messages that went through a batch insert
  early,        \* history: those the primary forwarded before it sent its GET_ALL
  dropped       \* history: those that were read but not queued when reciveMsg threw

Msgs == 1..MaxMsgs

P == INSTANCE CollectionServer WITH
  Role <- "Primary", MaxAgents <- 1, Msg <- Msgs, Bad <- PairBad, NoTime <- PairBad,
  ChanCap <- PairChanCap, BatchSize <- PairBatch, MaxQueue <- 4 * MaxMsgs, MaxChunk <- 4 * MaxMsgs,
  MaxRows <- 2,
  msgQue <- pMsgQue, isLock <- pIsLock, syncAgent <- pSyncAgent,
  agPc <- pAgPc, trans <- pTrans, init <- pInit,
  connected <- pConnected, probing <- pProbing, link <- pLink,
  inbox <- pInbox, outbox <- pOutbox, wiped <- pWiped,
  colPc <- pColPc, data <- pData, sescList <- pSescList

S == INSTANCE CollectionServer WITH
  Role <- "Secondary", MaxAgents <- PairAgents, Msg <- Msgs, Bad <- PairBad, NoTime <- PairBad,
  ChanCap <- PairChanCap, BatchSize <- PairBatch, MaxQueue <- 4 * MaxMsgs, MaxChunk <- 4 * MaxMsgs,
  MaxRows <- 2,
  msgQue <- sMsgQue, isLock <- sIsLock, syncAgent <- sSyncAgent,
  agPc <- sAgPc, trans <- sTrans, init <- sInit,
  connected <- sConnected, probing <- sProbing, link <- sLink,
  inbox <- sInbox, outbox <- sOutbox, wiped <- sWiped,
  colPc <- sColPc, data <- sData, sescList <- sSescList

pairVars == <<P!nodeVars, S!nodeVars, table, produced, faults, posted, flushed, early, dropped>>

PairInit ==
  /\ P!ProcessInit /\ S!ProcessInit
  /\ table = [m \in Msgs |-> 0]
  /\ produced = 0 /\ faults = 0
  /\ posted = {} /\ flushed = {} /\ early = {} /\ dropped = {}

Elements(s) == {s[i] : i \in DOMAIN s}

-----------------------------------------------------------------------------
(* A step of one server, and what the other sees of it: nothing, unless it *)
(* closes the connection between them.                                     *)

\* The secondary's agents that the primary serves: one at most.
Served == {a \in S!Agents : sLink[a] = "up"}

CutSecondary ==
  /\ \/ S!Cut
     \/ (\A a \in S!Agents : ~S!Alive(a)) /\ S!NodeIdle
  /\ posted' = {}

\* Mutant: the primary would notice at once that the secondary closed.
M_CutPrimaryAtOnce ==
  /\ pLink' = [pLink EXCEPT ![1] = "none"]
  /\ UNCHANGED <<pMsgQue, pIsLock, pSyncAgent, pAgPc, pTrans, pInit, pConnected, pProbing,
                 pInbox, pOutbox, pWiped, pColPc, pData, pSescList>>
  /\ posted' = {}

CutPrimary ==
  /\ \/ P!Cut
     \/ ~P!Alive(1) /\ P!NodeIdle
  /\ posted' = {}

\* The agent with these program counters, before and after, answered a GET_ALL.
Answered(pc, next) == <<pc, next>> \in {<<"post", "read">>, <<"send", "unlock">>}

PrimaryEffect ==
  IF pLink[1] # "none" /\ pLink'[1] = "none"
  THEN CutSecondary
  ELSE /\ S!NodeIdle
       /\ posted' = posted \cup {s \in {"S"} : pLink[1] = "up" /\ Answered(pAgPc[1], pAgPc'[1])}

SecondaryEffect ==
  IF \E a \in Served : sLink'[a] = "none"
  THEN CutPrimary
  ELSE /\ P!NodeIdle
       /\ posted' = posted \cup {s \in {"P"} : \E a \in Served : Answered(sAgPc[a], sAgPc'[a])}

\* What a collector with this program counter, before and after, and this data drops:
\* everything behind the message whose forwarding threw.
Dropped(pc, next, unread) ==
  IF pc = "sync" /\ next = "listen" THEN Elements(Tail(unread)) ELSE {}

\* A write that is longer than the socket buffers returns only if the thread at the
\* other end is in read(), with all that came before dispatched: it takes the bytes
\* into its data as they come.  A thread that is in the middle of a posting does not.
Long(messages) == Len(messages) > PairFits
WritesAll(channel, next, reading) ==
  Len(next) > Len(channel) /\ Long(next[Len(next)].list) => channel = <<>> /\ reading

\* Mutant: a posting would have a thread of its own.
M_PrimaryReads == pInbox[1] = <<>>
PrimaryReads   == pAgPc[1] = "read" /\ pInbox[1] = <<>>
SecondaryReads == \E a \in Served : sAgPc[a] = "read" /\ sInbox[a] = <<>>

PrimaryCollector ==
  /\ P!Collector /\ PrimaryEffect
  /\ flushed' = IF pColPc = "insert" THEN flushed \cup Elements(pSescList) ELSE flushed
  /\ early' = IF pColPc = "sync" /\ pConnected[1] /\ pInit[1]
              THEN early \cup {Head(pData)} ELSE early
  /\ dropped' = dropped \cup Dropped(pColPc, pColPc', pData)
  /\ UNCHANGED <<produced, faults>>

SecondaryCollector ==
  /\ S!Collector /\ SecondaryEffect
  /\ flushed' = IF sColPc = "insert" THEN flushed \cup Elements(sSescList) ELSE flushed
  /\ dropped' = dropped \cup Dropped(sColPc, sColPc', sData)
  /\ UNCHANGED <<produced, faults, early>>

PrimaryAgent ==
  /\ P!AgentThread(1) /\ P!ColIdle /\ PrimaryEffect
  /\ WritesAll(pOutbox[1], pOutbox'[1], SecondaryReads)
  /\ UNCHANGED <<produced, faults, flushed, early, dropped>>

SecondaryAgent(a) ==
  /\ S!AgentThread(a) /\ S!ColIdle /\ SecondaryEffect
  /\ WritesAll(sOutbox[a], sOutbox'[a], a \in Served /\ PrimaryReads)
  /\ UNCHANGED <<produced, faults, flushed, early, dropped>>

-----------------------------------------------------------------------------
(* The adapters: new messages, to a collector that reads.                  *)

Collect ==
  /\ \E n \in 1..PairChunk :
       LET chunk == [i \in 1..n |-> produced + i]
       IN /\ produced + n <= MaxMsgs /\ produced' = produced + n
          /\ \/ "P" \in Collectors /\ P!AdapterSends(chunk) /\ S!NodeIdle
             \/ "S" \in Collectors /\ S!AdapterSends(chunk) /\ P!NodeIdle
  /\ UNCHANGED <<faults, posted, flushed, early, dropped>>

AdapterConnects ==
  /\ \/ "P" \in Collectors /\ P!AdapterConnects /\ S!NodeIdle
     \/ "S" \in Collectors /\ S!AdapterConnects /\ P!NodeIdle
  /\ UNCHANGED <<produced, faults, posted, flushed, early, dropped>>

-----------------------------------------------------------------------------
(* The network between the agents.                                         *)

SecondaryConnects(a) == S!Connect(a) /\ P!NodeIdle /\ UNCHANGED posted
PrimaryAccepts(a) == P!Connect(1) /\ S!Serve(a) /\ posted' = {}

DeliverToSecondary(a) ==
  P!PeerReads(1) /\ S!PeerSends(a, Head(pOutbox[1])) /\ UNCHANGED posted
DeliverToPrimary(a) ==
  S!PeerReads(a) /\ P!PeerSends(1, Head(sOutbox[a])) /\ UNCHANGED posted

Network ==
  /\ \E a \in S!Agents :
       \/ SecondaryConnects(a) \/ PrimaryAccepts(a)
       \/ DeliverToSecondary(a) \/ DeliverToPrimary(a)
  /\ UNCHANGED <<produced, faults, flushed, early, dropped>>

-----------------------------------------------------------------------------
(* Faults.                                                                 *)

Break == P!Cut /\ S!Cut /\ posted' = {}

PingProbes ==
  \/ P!PingProbe(1) /\ P!ColIdle /\ PrimaryEffect
  \/ \E a \in S!Agents : S!PingProbe(a) /\ S!ColIdle /\ SecondaryEffect

PingAnswers ==
  \/ P!PingAnswered(1) /\ P!ColIdle /\ PrimaryEffect
  \/ \E a \in S!Agents : S!PingAnswered(a) /\ S!ColIdle /\ SecondaryEffect

PingFails ==
  \/ P!PingFailsServer(1) /\ P!ColIdle /\ PrimaryEffect
  \/ \E a \in S!Agents : S!PingFailsClient(a) /\ S!ColIdle /\ SecondaryEffect

Crash ==
  \/ "P" \in Crashes /\ P!Restart /\ CutSecondary
  \/ /\ "S" \in Crashes /\ S!Restart
     /\ IF Served = {} THEN P!NodeIdle /\ UNCHANGED posted ELSE CutPrimary

Faults ==
  /\ \/ /\ faults < MaxFaults
        /\ \/ Break /\ faults' = faults + 1
           \/ PingProbes /\ UNCHANGED faults
           \/ PingFails /\ faults' = faults + 1
           \/ Crash /\ faults' = faults + 1
     \/ PingAnswers /\ UNCHANGED faults
  /\ UNCHANGED <<produced, flushed, early, dropped>>

PairNext ==
  \/ PrimaryCollector \/ SecondaryCollector \/ PrimaryAgent
  \/ \E a \in S!Agents : SecondaryAgent(a)
  \/ Collect \/ AdapterConnects \/ Network \/ Faults

PairSpec == PairInit /\ [][PairNext]_pairVars

\* Every thread that can take a step does, and bytes that can be delivered are:
\* TCP retransmits, and the threads are the JVM's.  The adapters, the pings and the
\* faults are under no obligation.
Fairness ==
  /\ WF_pairVars(PrimaryCollector) /\ WF_pairVars(PrimaryAgent)
  /\ WF_pairVars(SecondaryCollector)
  /\ \A a \in S!Agents : WF_pairVars(SecondaryAgent(a))
  /\ WF_pairVars(Network)

FairPairSpec == PairSpec /\ Fairness

-----------------------------------------------------------------------------
(* Properties.  They are claimed for adapters that all send to the primary *)
(* (Collectors = {"P"}): when both servers collect, the CLEAR of each      *)
(* wipes from the other what it has not inserted.                          *)

InTransit(channel) == UNION {Elements(channel[i].list) : i \in DOMAIN channel}

AtPrimary ==
  Elements(pMsgQue) \cup Elements(pSescList) \cup Elements(pTrans[1])
    \cup InTransit(pInbox[1]) \cup (UNION {InTransit(sOutbox[a]) : a \in Served})

AtSecondary ==
  Elements(sMsgQue) \cup (UNION {Elements(sTrans[a]) : a \in Served})
    \cup (UNION {InTransit(sInbox[a]) : a \in Served}) \cup InTransit(pOutbox[1])

\* Queued, but not forwarded yet by the primary's collector.
InHand == IF pColPc = "sync" THEN {Head(pData)} ELSE {}

LinkUp == pLink[1] = "up" /\ Served # {}

\* Each server, with the other and the network around it, does only what module
\* CollectionServer says a server in its environment may do: that environment leaves
\* nothing out.
PrimaryIsANode   == P!OpenSpec
\* The same of the secondary.
SecondaryIsANode == S!OpenSpec

\* Once the primary has answered the secondary's GET_ALL, every message that waits
\* in the primary's queue is at the secondary or under way to it: between the
\* snapshot, the messages forwarded around it and the CLEARs there is no gap.
StandbyComplete ==
  "S" \in posted /\ LinkUp => (Elements(pMsgQue) \ flushed) \ InHand \subseteq AtSecondary

\* Once the secondary has answered the GET_ALL of a primary, one that was restarted
\* say, every message it holds and no flush has taken is at the primary or under way.
RecoveryComplete ==
  "P" \in posted /\ LinkUp => Elements(sMsgQue) \ flushed \subseteq AtPrimary

\* A CLEAR removes from the secondary only what the primary has flushed.
ClearAfterFlush ==
  [][\A m \in Elements(sMsgQue) :
       sWiped' /\ sMsgQue' = <<>> => m \in flushed]_pairVars

\* No message is inserted twice, but for those that the primary forwarded before it
\* sent its GET_ALL: the secondary's answer brings them back.
OneRowEach == \A m \in Msgs \ early : table[m] <= 1

\* Nothing that the connection or the standby does, throwing writes, transactions that
\* cannot be parsed, postings and CLEARs among it, costs the primary a message: what it
\* read is waiting, went through an insert, or was dropped by an exception.
NothingLost ==
  \A m \in 1..produced :
    m \in Elements(pData) \cup Elements(pMsgQue) \cup Elements(pSescList) \cup flushed \cup dropped

\* Data of the adapter is dropped only behind a fault, or because an earlier message
\* that is not XML, forwarded or posted, made the standby close the connection.  What is
\* malformed costs well-formed messages, but only such as come after it.
DropNeedsCause ==
  \A m \in dropped : faults > 0 \/ \E b \in PairBad : b < m

\* Two postings that cross: both flags are up, and each thread writes what does not go
\* into the socket buffers, being too long or coming behind what fills them, while the
\* other one does not read.
Stuck(messages, channel, arrived) ==
  Long(messages) \/ (Len(channel) >= PairChanCap /\ Len(arrived) >= PairChanCap)
Crossing(a) ==
  /\ a \in Served /\ pLink[1] = "up"
  /\ pAgPc[1] = "send" /\ pConnected[1] /\ Stuck(pTrans[1], pOutbox[1], sInbox[a])
  /\ sAgPc[a] = "send" /\ sConnected[a] /\ Stuck(sTrans[a], sOutbox[a], pInbox[1])
Crossed == \E a \in S!Agents : Crossing(a)

\* Two postings that cross block each other for good: only a fault, of the connection,
\* a server or a ping, ends it.
CrossedTillFault ==
  [][\A a \in S!Agents : Crossing(a) => Crossing(a)' \/ faults' # faults]_pairVars

\* They cross only over messages that the primary's collector forwarded before its
\* agent had sent the GET_ALL: a secondary that was given nothing too early has
\* nothing to post when the primary posts.
CrossingNeedsEarly ==
  \A a \in S!Agents : Crossing(a) => Elements(sTrans[a]) \subseteq early

\* A posting ends, a flush ends: nobody waits for the flag, for the queue or for the
\* peer's socket for ever, unless two postings cross.
PostingEnds ==
  /\ pAgPc[1] = "lock" ~> pAgPc[1] = "read" \/ Crossed
  /\ \A a \in S!Agents : sAgPc[a] = "lock" ~> sAgPc[a] = "read" \/ Crossed
FlushEnds == pColPc = "size" ~> pColPc = "read" \/ Crossed

\* Both requests are answered, unless the answers cross.
BothAnswered == <>(posted = {"P", "S"} \/ Crossed)

=============================================================================
