------------------------------ MODULE SyncAgent -----------------------------
(***************************************************************************)
(* The synchronisation agent of a collection server: InternalSyncAgent,    *)
(* SyncAgentServer / SyncAgentClient over BaseServer / BaseClient, and     *)
(* SyncAgentReciveHander.  The primary listens on PRIMARY_PORT and runs    *)
(* one agent for its whole life.  The secondary connects to it, and starts *)
(* ANOTHER agent every time its ping of the primary fails; the thread of   *)
(* the agent before goes on running and reconnects as well.                *)
(*                                                                         *)
(* Agents are numbered in the order they are started; syncAgent is the     *)
(* static field of InternalSyncAgent, the last one started.  Each agent    *)
(* has a thread (agPc), and a connection to the peer: what has arrived and *)
(* is not dispatched yet, be it in the kernel or in startReciveData's data *)
(* (inbox), what it has written and the peer has not got (outbox), and its *)
(* state (link).                                                           *)
(***************************************************************************)
EXTENDS MsgQueue

CONSTANTS
  Role,        \* "Primary" or "Secondary"
  Bad,         \* the messages that are not well-formed XML
  MaxAgents,   \* bound: how many agents are ever started
  ChanCap      \* transactions the socket buffers hold before a write blocks

VARIABLES
  syncAgent,   \* InternalSyncAgent.syncAgent
  agPc,        \* where each agent's run() is
  trans,       \* messages of the transaction in hand: to be put, or to be posted
  init,        \* BaseServer.init / BaseClient.init
  connected,   \* _isConnected (and startPing, always assigned with it)
  probing,     \* the ping thread is inside isReachable
  link,        \* "none": streams closed; "waiting" in the primary's backlog, "up":
               \* served by the peer; "cut": dead, but not noticed yet
  inbox,
  outbox,
  wiped        \* history: a CLEAR was obeyed since the last flush began

agentVars == <<syncAgent, agPc, trans, init, connected, probing>>
netVars   == <<link, inbox, outbox>>

Agents == 1..MaxAgents

\* The three transactions of SyncAgentReciveHander.
GetAll    == [name |-> "Get All", list |-> <<>>]
ClearAll  == [name |-> "Clear", list |-> <<>>]
Data(ms)  == [name |-> "Data", list |-> ms]
Transactions == [name : {"Get All", "Clear", "Data"}, list : Seq(Msg)]

AgentPcs == {"off", "connect", "connected", "init", "read", "eof", "put", "append",
             "post", "lock", "snapshot", "send", "unlock"}

\* Between MsgQueue.lock() and MsgQueue.unLock() in postAllData.
Posting(a) == agPc[a] \in {"snapshot", "send", "unlock"}

AgentTypeOK ==
  /\ syncAgent \in Agents
  /\ agPc \in [Agents -> AgentPcs]
  /\ trans \in [Agents -> Seq(Msg)]
  /\ init \in [Agents -> BOOLEAN]
  /\ connected \in [Agents -> BOOLEAN]
  /\ probing \in [Agents -> BOOLEAN]
  /\ link \in [Agents -> {"none", "waiting", "up", "cut"}]
  /\ inbox \in [Agents -> Seq(Transactions)]
  /\ outbox \in [Agents -> Seq(Transactions)]
  /\ wiped \in BOOLEAN

AgentInit ==
  /\ syncAgent = 1
  /\ agPc = [a \in Agents |-> IF a = 1 THEN "connect" ELSE "off"]
  /\ trans = [a \in Agents |-> <<>>]
  /\ init = [a \in Agents |-> TRUE]
  /\ connected = [a \in Agents |-> FALSE]
  /\ probing = [a \in Agents |-> FALSE]
  /\ link = [a \in Agents |-> "none"]
  /\ inbox = [a \in Agents |-> <<>>]
  /\ outbox = [a \in Agents |-> <<>>]
  /\ wiped = FALSE

-----------------------------------------------------------------------------
(* Sending and closing.                                                    *)

\* The connection takes bytes: the kernel completed it, even if the primary, which
\* serves one connection at a time, has not accepted it.
Alive(a) == link[a] \in {"waiting", "up"}

\* Mutant: a full socket buffer loses the transaction instead of blocking the writer.
M_SendMsgDrops(a, t) ==
  \/ ~connected[a] /\ UNCHANGED outbox
  \/ connected[a] /\ outbox' = [outbox EXCEPT ![a] = IF Len(@) < ChanCap THEN Append(@, t) ELSE @]

\* sendMsg of agent a returns: it does nothing while _isConnected is false,
\* hands t to the connection, or to the kernel's buffer of a dead connection.  A
\* transaction that is longer than the socket buffers fits as well if the peer reads
\* it along.  The peer of a server alone may always do that; module CollectionPair,
\* which knows the thread at the other end, says when it does (WritesAll).
SendMsg(a, t) ==
  \/ ~connected[a] /\ UNCHANGED outbox
  \/ /\ connected[a] /\ Alive(a) /\ Len(outbox[a]) < ChanCap
     /\ outbox' = [outbox EXCEPT ![a] = Append(@, t)]
  \/ connected[a] /\ link[a] = "cut" /\ UNCHANGED outbox

\* Mutant: the write is tried even if _isConnected is down.
M_SendThrowsUnconnected(a) == ~Alive(a)

\* sendMsg of agent a throws: an IOException from a dead connection, or from
\* streams that the ping thread closed (a NullPointerException once it has
\* set them to null).
SendThrows(a) == connected[a] /\ ~Alive(a)

\* close(), of which the agent's thread keeps the n transactions that it had
\* read already into its local data: they are still dispatched.  What was not
\* delivered yet is gone.
CloseLink(a, n) ==
  /\ link' = [link EXCEPT ![a] = "none"]
  /\ inbox' = [inbox EXCEPT ![a] = SubSeq(@, 1, n)]
  /\ outbox' = [outbox EXCEPT ![a] = <<>>]

\* close() by the ping thread, at any point of the agent's thread.
CloseUnderway(a) ==
  \E n \in 0..Len(inbox[a]) :
    /\ agPc[a] \in {"off", "connect", "connected", "init"} => n = 0
    /\ CloseLink(a, n)

\* The catch clause of run(): flags down, connection closed, back to connecting.
\* isLock is left as it is.
CatchException(a) ==
  /\ agPc' = [agPc EXCEPT ![a] = "connect"]
  /\ trans' = [trans EXCEPT ![a] = <<>>]
  /\ connected' = [connected EXCEPT ![a] = FALSE]
  /\ CloseLink(a, 0)

Goto(a, pc) == agPc' = [agPc EXCEPT ![a] = pc]

-----------------------------------------------------------------------------
(* The thread of agent a.                                                  *)

\* Mutant: the flags go up after the handler's init only.
M_RaiseFlagsLate(a) ==
  /\ agPc[a] = "connected"
  /\ connected' = [connected EXCEPT ![a] = ~init[a]]
  /\ Goto(a, IF init[a] THEN "init" ELSE "read")
  /\ UNCHANGED <<queueVars, syncAgent, trans, init, probing, netVars, wiped>>

\* run(): the connection is there, raise startPing and _isConnected.
RaiseFlags(a) ==
  /\ agPc[a] = "connected"
  /\ connected' = [connected EXCEPT ![a] = TRUE]
  /\ Goto(a, IF init[a] THEN "init" ELSE "read")
  /\ UNCHANGED <<queueVars, syncAgent, trans, init, probing, netVars, wiped>>

\* Mutant: init is reset before the request is made.
M_RequestAllLate(a) ==
  /\ agPc[a] = "init"
  /\ \/ init[a] /\ init' = [init EXCEPT ![a] = FALSE] /\ UNCHANGED <<agPc, outbox>>
     \/ ~init[a] /\ SendMsg(syncAgent, GetAll) /\ Goto(a, "read") /\ UNCHANGED init
  /\ UNCHANGED <<queueVars, syncAgent, trans, connected, probing, link, inbox, wiped>>

\* SyncAgentReciveHander.init: ask the peer for its queue, through the CURRENT
\* agent.  It catches an IOException, so a failed request counts as made; only a
\* NullPointerException leaves init set.
RequestAll(a) ==
  /\ agPc[a] = "init"
  /\ \/ /\ \/ SendMsg(syncAgent, GetAll)
           \/ SendThrows(syncAgent) /\ UNCHANGED outbox
        /\ init' = [init EXCEPT ![a] = FALSE]
        /\ Goto(a, "read")
        /\ UNCHANGED <<trans, connected, link, inbox>>
     \/ /\ connected[syncAgent] /\ link[syncAgent] = "none"
        /\ CatchException(a)
        /\ UNCHANGED init
  /\ UNCHANGED <<queueVars, syncAgent, probing, wiped>>

\* startReciveData / reciveMsg / parseMsg: take the next transaction and dispatch
\* it.  A transaction that holds a message that is not XML cannot be parsed.
ReadTransaction(a) ==
  /\ agPc[a] = "read" /\ inbox[a] # <<>>
  /\ LET t == Head(inbox[a])
         Consume == inbox' = [inbox EXCEPT ![a] = Tail(@)]
     IN \/ /\ t.name = "Get All"
           /\ Consume /\ Goto(a, "post")
           /\ UNCHANGED <<msgQue, trans, connected, link, outbox, wiped>>
        \/ /\ t.name = "Clear"
           /\ Consume /\ Clear /\ wiped' = TRUE
           /\ UNCHANGED <<agPc, trans, connected, link, outbox>>
        \/ /\ t.name = "Data" /\ \A i \in DOMAIN t.list : t.list[i] \notin Bad
           /\ Consume
           /\ trans' = [trans EXCEPT ![a] = t.list]
           /\ Goto(a, IF t.list = <<>> THEN "read" ELSE "put")
           /\ UNCHANGED <<msgQue, connected, link, outbox, wiped>>
        \/ /\ t.name = "Data" /\ \E i \in DOMAIN t.list : t.list[i] \in Bad
           /\ CatchException(a)
           /\ UNCHANGED <<msgQue, wiped>>
  /\ UNCHANGED <<isLock, syncAgent, init, probing>>

\* The peer closed and everything it sent is read: read() returns -1 for ever,
\* and the loop around it never leaves.
ReadEof(a) ==
  /\ agPc[a] = "read" /\ link[a] = "cut" /\ inbox[a] = <<>>
  /\ Goto(a, "eof")
  /\ UNCHANGED <<queueVars, syncAgent, trans, init, connected, probing, netVars, wiped>>

\* read() throws: a reset connection (what the kernel still held is lost), or
\* streams closed by the ping thread, the only way out of the loop on -1.
ReadThrows(a) ==
  /\ \/ agPc[a] = "read" /\ link[a] = "cut"
     \/ agPc[a] = "read" /\ link[a] = "none" /\ inbox[a] = <<>>
     \/ agPc[a] = "eof" /\ link[a] = "none"
  /\ CatchException(a)
  /\ UNCHANGED <<queueVars, syncAgent, init, probing, wiped>>

\* The DATA transaction: putMsg for each message, first the wait ...
AgentWait(a) ==
  /\ agPc[a] = "put" /\ LockIsFree
  /\ Goto(a, "append")
  /\ UNCHANGED <<queueVars, syncAgent, trans, init, connected, probing, netVars, wiped>>

\* ... then the put.
AgentPut(a) ==
  /\ agPc[a] = "append"
  /\ Put(Head(trans[a]))
  /\ trans' = [trans EXCEPT ![a] = Tail(@)]
  /\ Goto(a, IF Len(trans[a]) = 1 THEN "read" ELSE "put")
  /\ UNCHANGED <<isLock, syncAgent, init, connected, probing, netVars, wiped>>

\* The GET_ALL transaction, postAllData: nothing is posted from an empty queue.
PostAllData(a) ==
  /\ agPc[a] = "post"
  /\ Goto(a, IF msgQue = <<>> THEN "read" ELSE "lock")
  /\ UNCHANGED <<queueVars, syncAgent, trans, init, connected, probing, netVars, wiped>>

LockQueue(a) ==
  /\ agPc[a] = "lock"
  /\ Lock
  /\ Goto(a, "snapshot")
  /\ UNCHANGED <<msgQue, syncAgent, trans, init, connected, probing, netVars, wiped>>

\* Mutants: the iteration drains the queue; it leaves out the head.
M_SnapshotDrains(a) ==
  /\ agPc[a] = "snapshot"
  /\ trans' = [trans EXCEPT ![a] = msgQue] /\ Clear
  /\ Goto(a, "send")
  /\ UNCHANGED <<isLock, syncAgent, init, connected, probing, netVars, wiped>>
M_SnapshotSkips(a) ==
  /\ agPc[a] = "snapshot"
  /\ trans' = [trans EXCEPT ![a] = SubSeq(msgQue, 2, Len(msgQue))]
  /\ Goto(a, "send")
  /\ UNCHANGED <<queueVars, syncAgent, init, connected, probing, netVars, wiped>>

\* The iteration over the queue.
Snapshot(a) ==
  /\ agPc[a] = "snapshot"
  /\ trans' = [trans EXCEPT ![a] = msgQue]
  /\ Goto(a, "send")
  /\ UNCHANGED <<queueVars, syncAgent, init, connected, probing, netVars, wiped>>

\* Mutant: the IOException of the send is swallowed, and unLock skipped.
M_PostSnapshotSwallows(a) ==
  /\ agPc[a] = "send"
  /\ \/ SendMsg(a, Data(trans[a])) /\ Goto(a, "unlock") /\ UNCHANGED trans
     \/ SendThrows(a) /\ Goto(a, "read") /\ trans' = [trans EXCEPT ![a] = <<>>] /\ UNCHANGED outbox
  /\ UNCHANGED <<queueVars, syncAgent, init, connected, probing, link, inbox, wiped>>

\* The send: if it throws, unLock is skipped (there is no finally).
PostSnapshot(a) ==
  /\ agPc[a] = "send"
  /\ \/ /\ SendMsg(a, Data(trans[a]))
        /\ Goto(a, "unlock")
        /\ UNCHANGED <<trans, connected, link, inbox>>
     \/ SendThrows(a) /\ CatchException(a)
  /\ UNCHANGED <<queueVars, syncAgent, init, probing, wiped>>

UnlockQueue(a) ==
  /\ agPc[a] = "unlock"
  /\ UnLock
  /\ trans' = [trans EXCEPT ![a] = <<>>]
  /\ Goto(a, "read")
  /\ UNCHANGED <<msgQue, syncAgent, init, connected, probing, netVars, wiped>>

AgentThread(a) ==
  \/ RaiseFlags(a) \/ RequestAll(a) \/ ReadTransaction(a) \/ ReadEof(a) \/ ReadThrows(a)
  \/ AgentWait(a) \/ AgentPut(a)
  \/ PostAllData(a) \/ LockQueue(a) \/ Snapshot(a) \/ PostSnapshot(a) \/ UnlockQueue(a)

-----------------------------------------------------------------------------
(* The ping thread of agent a: checkConnection.  It looks at startPing, then  *)
(* blocks in isReachable, and acts on the answer whatever happened meanwhile. *)

\* Only the current agent has a ping thread left: SyncAgentClient's ends when the
\* ping fails, SyncAgentServer's never ends and there is one agent only.
PingProbe(a) ==
  /\ a = syncAgent /\ connected[a] /\ ~probing[a]
  /\ probing' = [probing EXCEPT ![a] = TRUE]
  /\ UNCHANGED <<queueVars, syncAgent, agPc, trans, init, connected, netVars, wiped>>

PingAnswered(a) ==
  /\ probing[a]
  /\ probing' = [probing EXCEPT ![a] = FALSE]
  /\ UNCHANGED <<queueVars, syncAgent, agPc, trans, init, connected, netVars, wiped>>

\* Mutant: it starts another agent, as SyncAgentClient does.
M_PingFailsServerStarts(a) ==
  /\ Role = "Primary" /\ probing[a]
  /\ probing' = [probing EXCEPT ![a] = FALSE]
  /\ CloseUnderway(a)
  /\ syncAgent' = syncAgent + 1
  /\ agPc' = [b \in Agents |-> IF b = syncAgent + 1 THEN "connect" ELSE agPc[b]]
  /\ UNCHANGED <<queueVars, trans, init, connected, wiped>>

\* SyncAgentServer: close() whatever connection there is now.
PingFailsServer(a) ==
  /\ Role = "Primary" /\ probing[a]
  /\ probing' = [probing EXCEPT ![a] = FALSE]
  /\ CloseUnderway(a)
  /\ UNCHANGED <<queueVars, syncAgent, agPc, trans, init, connected, wiped>>

\* SyncAgentClient: close(), then InternalSyncAgent.start(), a new agent.
PingFailsClient(a) ==
  /\ Role = "Secondary" /\ probing[a] /\ syncAgent < MaxAgents
  /\ probing' = [probing EXCEPT ![a] = FALSE]
  /\ CloseUnderway(a)
  /\ syncAgent' = syncAgent + 1
  /\ Goto(syncAgent + 1, "connect")
  /\ UNCHANGED <<queueVars, trans, init, connected, wiped>>

PingThread(a) == PingProbe(a) \/ PingAnswered(a) \/ PingFailsServer(a) \/ PingFailsClient(a)

=============================================================================
