-------------------------- MODULE CollectionServer --------------------------
(***************************************************************************)
(* One process of DataCollectionServer (ServerExecutor.main): the          *)
(* collector thread (CollectionServer, a BaseServer that serves one        *)
(* adapter connection at a time, with CollectionReciveHandler), the        *)
(* synchronisation agent of module SyncAgent, and the queue they share.    *)
(*                                                                         *)
(* The collector queues every message, forwards it to the peer, and once   *)
(* BatchSize messages are queued moves the whole queue into one batch      *)
(* insert and tells the peer to clear its queue.  Adapter, peer, network   *)
(* and database are the environment: they do whatever the protocol allows. *)
(***************************************************************************)
EXTENDS SyncAgent

CONSTANTS
  NoTime,      \* the messages convertToSescData finds no timestamp in
  BatchSize,   \* 300 in the code
  MaxQueue,    \* bound: messages held by the process at which its inputs pause
  MaxChunk,    \* bound: messages the collector gets from one read()
  MaxRows      \* bound: copies of a row the model counts before it loses count

ASSUME ServerAssumption ==
  /\ Role \in {"Primary", "Secondary"}
  /\ Bad \subseteq NoTime /\ NoTime \subseteq Msg
  /\ MaxAgents \in Nat \ {0} /\ ChanCap \in Nat \ {0}
  /\ BatchSize \in Nat \ {0} /\ MaxQueue \in Nat /\ MaxChunk \in Nat /\ MaxRows \in Nat

VARIABLES
  colPc,       \* where the collector's run() is
  data,        \* messages of the current read() not handled yet, oldest first
  sescList,    \* the batch that insertDataToDb is filling
  table        \* SESC_DATA: how many rows each message has (counted to MaxRows)

colVars  == <<colPc, data, sescList>>
nodeVars == <<queueVars, agentVars, netVars, wiped, colVars>>
vars     == <<nodeVars, table>>

ColPcs == {"listen", "read", "eof", "put", "append", "sync", "threshold",
           "size", "takewait", "take", "insert", "clear"}

NodeTypeOK ==
  /\ QueueTypeOK /\ AgentTypeOK
  /\ colPc \in ColPcs
  /\ data \in Seq(Msg)
  /\ sescList \in Seq(Msg)

TypeOK == NodeTypeOK /\ table \in [Msg -> Nat]

ProcessInit ==
  /\ QueueInit /\ AgentInit
  /\ colPc = "listen" /\ data = <<>> /\ sescList = <<>>

NodeInit == ProcessInit /\ table = [m \in Msg |-> 0]

-----------------------------------------------------------------------------
(* The collector's thread.                                                 *)

ColGoto(from, to) == colPc = from /\ colPc' = to

\* putMsg: the wait for the flag, ...
ColWait ==
  /\ ColGoto("put", "append")
  /\ LockIsFree
  /\ UNCHANGED <<queueVars, agentVars, netVars, wiped, data, sescList, table>>

\* ... and the put.
ColPut ==
  /\ ColGoto("append", "sync")
  /\ Put(Head(data))
  /\ UNCHANGED <<isLock, agentVars, netVars, wiped, data, sescList, table>>

\* An exception that leaves reciveMsg: run() closes the adapter's connection and
\* listens again; the rest of data is lost.
Disconnect == colPc' = "listen" /\ data' = <<>>

\* syncMsgRequest: the message that was queued goes to the peer, unless there is
\* no connection.
ColSync ==
  /\ colPc = "sync"
  /\ \/ /\ SendMsg(syncAgent, Data(<<Head(data)>>))
        /\ data' = Tail(data)
        /\ colPc' = IF Len(data) = 1 THEN "threshold" ELSE "put"
     \/ SendThrows(syncAgent) /\ Disconnect /\ UNCHANGED outbox
  /\ UNCHANGED <<queueVars, agentVars, link, inbox, wiped, sescList, table>>

\* The test for a full batch.
ColThreshold ==
  /\ colPc = "threshold"
  /\ \/ Len(msgQue) < BatchSize /\ colPc' = "read" /\ UNCHANGED <<sescList, wiped>>
     \/ /\ Len(msgQue) >= BatchSize /\ colPc' = "size"
        /\ sescList' = <<>> /\ wiped' = FALSE
  /\ UNCHANGED <<queueVars, agentVars, netVars, data, table>>

\* Mutant: the test is for a length of at least 0.
M_ColSizeAlways ==
  /\ ColGoto("size", "takewait")
  /\ UNCHANGED <<queueVars, agentVars, netVars, wiped, data, sescList, table>>

\* insertDataToDb: while the queue is not empty ...
ColSize ==
  /\ ColGoto("size", IF msgQue # <<>> THEN "takewait" ELSE "insert")
  /\ UNCHANGED <<queueVars, agentVars, netVars, wiped, data, sescList, table>>

\* ... takeMsg: wait for the flag, ...
ColTakeWait ==
  /\ ColGoto("takewait", "take")
  /\ LockIsFree
  /\ UNCHANGED <<queueVars, agentVars, netVars, wiped, data, sescList, table>>

\* Mutant: an if in the place of the while.
M_ColTakeOne ==
  /\ ColGoto("take", "insert")
  /\ CanTake /\ Take
  /\ sescList' = Append(sescList, Head(msgQue))
  /\ UNCHANGED <<isLock, agentVars, netVars, wiped, data, table>>

\* ... and take, which blocks if the queue has become empty.
ColTake ==
  /\ ColGoto("take", "size")
  /\ CanTake /\ Take
  /\ sescList' = Append(sescList, Head(msgQue))
  /\ UNCHANGED <<isLock, agentVars, netVars, wiped, data, table>>

\* The rows of the batch that the database may end up with.  A message without a
\* timestamp throws while the batch is built, before anything is executed; the
\* database may fail, for all of the batch or for some of it.
InsertOutcomes ==
  IF \E i \in DOMAIN sescList : sescList[i] \in NoTime
  THEN {{}} ELSE SUBSET DOMAIN sescList

AddRows(rows) ==
  table' = [m \in Msg |->
    LET n == table[m] + Cardinality({i \in rows : sescList[i] = m})
    IN IF n < MaxRows THEN n ELSE MaxRows]

\* Mutant: a batch that failed, for some rows or for all, is tried again as a whole.
M_ColInsertRetries ==
  /\ \E rows \in InsertOutcomes :
       /\ AddRows(rows)
       /\ ColGoto("insert", IF rows = DOMAIN sescList THEN "clear" ELSE "insert")
       /\ sescList' = IF rows = DOMAIN sescList THEN <<>> ELSE sescList
  /\ UNCHANGED <<queueVars, agentVars, netVars, wiped, data>>

\* batchInsert: a failure is caught and logged there; the batch is forgotten
\* either way.
ColInsert ==
  /\ ColGoto("insert", "clear")
  /\ \E rows \in InsertOutcomes : AddRows(rows)
  /\ sescList' = <<>>
  /\ UNCHANGED <<queueVars, agentVars, netVars, wiped, data>>

\* sendClearRequest, whether or not the insert worked.
ColSendClear ==
  /\ colPc = "clear"
  /\ \/ SendMsg(syncAgent, ClearAll) /\ colPc' = "read" /\ UNCHANGED data
     \/ SendThrows(syncAgent) /\ Disconnect /\ UNCHANGED outbox
  /\ UNCHANGED <<queueVars, agentVars, link, inbox, wiped, sescList, table>>

Collector ==
  \/ ColWait \/ ColPut \/ ColSync \/ ColThreshold \/ ColSize
  \/ ColTakeWait \/ ColTake \/ ColInsert \/ ColSendClear

-----------------------------------------------------------------------------
(* The collector's socket: what the adapter and its connection do.         *)

AdapterUnchanged ==
  UNCHANGED <<queueVars, agentVars, netVars, wiped, sescList, table>>

\* The messages held by the process: what the bound MaxQueue counts.
Held == Len(msgQue) + Len(data) + Len(sescList)

AdapterConnects == ColGoto("listen", "read") /\ UNCHANGED data /\ AdapterUnchanged

\* read() returns the end of one message or more.
AdapterSends(chunk) ==
  /\ Held + Len(chunk) <= MaxQueue
  /\ ColGoto("read", "put") /\ data' = chunk
  /\ AdapterUnchanged

\* The adapter closed: read() returns -1 for ever, and nobody listens any more.
AdapterCloses == ColGoto("read", "eof") /\ UNCHANGED data /\ AdapterUnchanged

\* The connection broke: read() throws.
AdapterBreaks == ColGoto("read", "listen") /\ UNCHANGED data /\ AdapterUnchanged

Chunks == UNION {[1..n -> Msg] : n \in 1..MaxChunk}

Adapter ==
  \/ AdapterConnects \/ AdapterCloses \/ AdapterBreaks
  \/ \E chunk \in Chunks : AdapterSends(chunk)

-----------------------------------------------------------------------------
(* The agents' connections: what the peer and the network do.              *)

NetUnchanged == UNCHANGED <<queueVars, syncAgent, trans, init, connected, probing,
                            wiped, colVars, table>>

\* The primary's accept() returns; the secondary's new Socket() does as soon as the
\* primary has a server socket, which it keeps open while it serves a connection.
Connect(a) ==
  /\ agPc[a] = "connect"
  /\ Goto(a, "connected")
  /\ link' = [link EXCEPT ![a] = IF Role = "Primary" THEN "up" ELSE "waiting"]
  /\ UNCHANGED <<inbox, outbox>> /\ NetUnchanged

\* The primary at the other end accepts the connection: one at a time.
Serve(a) ==
  /\ link[a] = "waiting" /\ \A b \in Agents : link[b] # "up"
  /\ link' = [link EXCEPT ![a] = "up"]
  /\ UNCHANGED <<agPc, inbox, outbox>> /\ NetUnchanged

\* A transaction arrives from the peer.
PeerSends(a, t) ==
  /\ link[a] = "up" /\ Len(inbox[a]) < ChanCap
  /\ Held + Len(trans[a]) + Len(t.list) <= MaxQueue
  /\ inbox' = [inbox EXCEPT ![a] = Append(@, t)]
  /\ UNCHANGED <<agPc, link, outbox>> /\ NetUnchanged

PeerReads(a) ==
  /\ link[a] = "up" /\ outbox[a] # <<>>
  /\ outbox' = [outbox EXCEPT ![a] = Tail(@)]
  /\ UNCHANGED <<agPc, link, inbox>> /\ NetUnchanged

\* The peer closes, with its server socket if it is the primary, or dies, or the
\* network breaks.
Cut ==
  /\ \E a \in Agents : Alive(a)
  /\ link' = [a \in Agents |-> IF Alive(a) THEN "cut" ELSE link[a]]
  /\ outbox' = [a \in Agents |-> IF Alive(a) THEN <<>> ELSE outbox[a]]
  /\ UNCHANGED <<agPc, inbox>> /\ NetUnchanged

\* Mutant: no DATA transaction is empty.
M_PeerTransactionsFull == {GetAll, ClearAll} \cup {Data(c) : c \in Chunks}

\* The list of a DATA transaction is empty if a CLEAR empties the queue between the
\* test and the iteration of postAllData.
PeerTransactions == {GetAll, ClearAll} \cup {Data(c) : c \in Chunks \cup {<<>>}}

Network ==
  \E a \in Agents :
    \/ Connect(a) \/ Serve(a) \/ PeerReads(a) \/ Cut
    \/ \E t \in PeerTransactions : PeerSends(a, t)

-----------------------------------------------------------------------------
\* The process dies and is started again: only the table is left.
Restart ==
  /\ \/ colPc # "listen" \/ \E a \in Agents : agPc[a] \notin {"off", "connect"}
  /\ msgQue' = <<>> /\ isLock' = FALSE
  /\ syncAgent' = 1
  /\ agPc' = [a \in Agents |-> IF a = 1 THEN "connect" ELSE "off"]
  /\ trans' = [a \in Agents |-> <<>>]
  /\ init' = [a \in Agents |-> TRUE]
  /\ connected' = [a \in Agents |-> FALSE]
  /\ probing' = [a \in Agents |-> FALSE]
  /\ link' = [a \in Agents |-> "none"]
  /\ inbox' = [a \in Agents |-> <<>>]
  /\ outbox' = [a \in Agents |-> <<>>]
  /\ wiped' = FALSE
  /\ colPc' = "listen" /\ data' = <<>> /\ sescList' = <<>>
  /\ UNCHANGED table

\* What the composition of module CollectionPair says of a process, or of its
\* collector, that does nothing.
NodeIdle == UNCHANGED nodeVars
ColIdle  == UNCHANGED <<colVars, table>>

AgentStep == \E a \in Agents : (AgentThread(a) \/ PingThread(a)) /\ ColIdle

\* The steps of the process itself, which other modules compose.
NodeNext == Collector \/ AgentStep

Next == NodeNext \/ Adapter \/ Network \/ Restart

Spec == NodeInit /\ [][Next]_vars

\* The same of the process alone: the table may change by the hand of another.
OpenSpec == ProcessInit /\ [][Next]_nodeVars

-----------------------------------------------------------------------------
(* Properties.                                                             *)

Taking   == colPc \in {"takewait", "take"}
Flushing == colPc = "size" \/ colPc = "insert" \/ Taking

\* While an agent posts the queue, the queue stays what was posted, but for one
\* put or one take of the collector: the one whose look at the flag came before
\* lock().  Two would mean that the flag protects nothing.  It is claimed as long
\* as one agent was started: unLock() of another would free the queue too early.
Drifted(snapshot) ==
  \/ msgQue = snapshot
  \/ \E m \in Msg : msgQue = Append(snapshot, m)
  \/ msgQue = Tail(snapshot)

PostedIsQueued ==
  syncAgent = 1 /\ agPc[1] \in {"send", "unlock"} => Drifted(trans[1])

\* The collector waits in take() on an empty queue only if a CLEAR of the peer
\* emptied it behind its back: nobody else takes between size() and take().
BlockedOnlyByClear == Taking /\ msgQue = <<>> => wiped

\* A flush inserts a full batch, unless a CLEAR arrived while it ran: whatever the
\* agents add or post meanwhile, no message that was counted gets away.
FlushIsFull == colPc = "insert" /\ ~wiped => Len(sescList) >= BatchSize

\* A flag that is up while no agent posts was left by a send that threw: it goes
\* up only under a posting, and a posting that ends in any other way takes it down.
LockStep ==
  /\ isLock' /\ ~isLock => \E a \in Agents : Posting(a)'
  /\ \A a \in Agents : Posting(a) /\ ~Posting(a)' => ~isLock' \/ agPc'[a] = "connect"

LockHasOwner == [][LockStep]_vars

=============================================================================
