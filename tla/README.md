# A verification development of SchoolProjectCode

The repository holds a small data-collection chain: *Adapters* receive messages
(`<SESC>` XML documents, each ended by `</EOF>`) from equipment over TCP and forward
them to one of two *collection servers*, a primary and a secondary. A collection
server queues what it receives, copies every message to the queue of the other server,
moves the queue into MySQL in batches of 300, and then tells the other server to clear
its copy. Beside the chain there are an *EAP server*, its single-process predecessor, and
a *Docker manager*, a servlet that replaces containers. The modules here model the
Adapter, the collection server, the pair, the rows it inserts, the EAP server and the
Docker manager. TLC checks them on small instances, and TLAPS proves theorems about one
collection server, the pair, the Adapter, the EAP server, the Docker manager and the fate
of a batch of rows for every value of the constants.

File names below are relative to `src/DataCollectionServer/src/com/pony` (DCS),
`src/Adapter/src/com/pony/adapter` (Adapter), `src/EapServer/src` (EAP) and
`src/DockerManager/src` (Docker).

## Inventory

| Part | State | Operations | Talks to |
|---|---|---|---|
| Message queue (DCS `queue/MsgQueue`) | an unbounded FIFO, an advisory flag `isLock` | putMsg, takeMsg, lock, unLock, clear, iterate, size | shared by all the threads of the process |
| Synchronisation agent (DCS `agent/*`, `handler/SyncAgentReciveHander`, `server/BaseServer`, `client/BaseClient`) | the current agent, each agent's connection, the flags `_isConnected`, `startPing`, `init` | connect or accept, send GET_ALL / CLEAR / DATA, dispatch them, close, reconnect; ping, and start another agent | queue; the peer's agent over TCP |
| Collector (DCS `server/CollectionServer`, `handler/CollectionReciveHandler`, `dao/SescDataDao`) | its connection, the data read and not handled, the batch | accept, receive, queue, forward, flush, insert, send CLEAR | Adapter over TCP; queue; agent; MySQL |
| Adapter (Adapter `server/*`, `client/*`, `queue`, `handler`) | a connection for each port, a queue, the client's connection and host index, the message in hand | accept, receive, queue; connect to the next host, ping, take, write | equipment; collection servers |
| Row conversion (DCS `handler/CollectionReciveHandler`, `dao/SescDataDao`, `vo/SescData`) | the rows of one flush | convert a message, bind the rows, execute them | called by the flush; MySQL |
| EAP server (EAP) | the threads' data, a queue, the uploading thread's connection, server index, message in hand and output buffer | accept, receive, queue; connect to the other server, take, wait for a byte, write into the buffer | equipment; two servers; not used by the rest |
| EAP NIO server (EAP `NIOServer`) | none | echo | not used by the rest |
| Docker manager (Docker) | none of its own: what each request has found and created | list, stop, remove, create and start a container over HTTP | Docker's remote API |
| Configuration (`src/ConfigLoader`, `config/*`) | none | read one XML file at start | |
| MySQL experiments (`src/MysqlTest`) | none | | not used by the rest |

Eclipse's `.metadata` and `.recommenders` are generated and left aside. The only `.js` files
of the repository are five of those: declarations of the browser's and of JavaScript's
library for content assist, with empty bodies, which the program, all of it Java, never
loads.

Where it is hard: the queue is shared by the collector, the agents and (through CLEAR)
the peer, and its flag is tested in one step and relied on in the next; the two servers
copy each other's queue over a connection that either of two threads of either process
may close; a ping answers after whatever has happened meanwhile; the secondary starts new
agents without stopping old ones; a process may die with messages in its queue; reads
that return -1 are retried for ever; one message that is not XML throws at the peer and
takes the connection down. The EAP server's uploading thread writes a message again after
an exception, through a buffer of which an unknown part has gone out; the Docker
manager's requests meet over the same containers, and each of their five calls may fail or
have its answer lost. `PROJECT.json` lists each of these at its line.

What makes each part correct:

* queue: a posting of the whole queue is exact although nothing stops the others
  (`PostedIsQueued`); the flag has an owner (`LockHasOwner`);
* collector: a flush is a full batch and does not hang (`FlushIsFull`,
  `BlockedOnlyByClear`, `FlushEnds`);
* pair: the standby copy has no gap (`StandbyComplete`), a CLEAR drops only what was
  flushed (`ClearAfterFlush`), a restarted primary gets back all that the secondary still
  holds (`RecoveryComplete`), nothing is inserted twice (`OneRowEach`), nothing that the
  connection or the standby does costs the primary a message (`NothingLost`), what is
  dropped by an exception has a cause that came before it (`DropNeedsCause`), nobody waits
  for ever (`PostingEnds`, `FlushEnds`, `BothAnswered`) unless two postings cross, which
  takes messages forwarded early (`CrossingNeedsEarly`) and then lasts till something fails
  (`CrossedTillFault`);
* rows: a row has the values of its own message (`RowsRight`), one message without a time
  keeps its whole batch out (`BatchFate`), hours stay apart (`HoursKeptApart`);
* Adapter: at most once, in order for each port (`ForwardsAtMostOnce`), every message
  accounted for (`Accounted`, `LossNeedsFault`), the queue drains (`Drains`);
* EAP server: the same promise in spite of the retry (`UploadsAtMostOnce`, `Accounted`);
* Docker manager: requests that meet, or fail half way, do not cost containers
  (`NeverFewer`), nor add any (`CountKept`), nor leave one behind that was not started
  (`OrphanNeedsTrouble`). That what was asked for is done (`Rebooted`) is false of the code.

## Modules

    MsgQueue  <-  SyncAgent  <-  CollectionServer  <-  CollectionServerProofs
                                   ^        ^
                                   |        +-- MCPrimary, MCSecondary
                                   +-- CollectionPair (two instances)  <-  MCPair
                                                 ^
                                                 +-- CollectionPairProofs
    SescRecord  <-  MCSescRecord, SescRecordProofs   (what one flush inserts)
    EofFraming  <-  MCEofFraming, EofFramingProofs   (how each connection is read)

    Forwarder (abstract)  <--refines--  Adapter    <-  MCAdapter,   AdapterProofs
                          <--refines--  EapServer  <-  MCEapServer, EapServerProofs
    OrderedMessages (lemmas)  <-  AdapterProofs, EapServerProofs

    DockerReboot  <-  MCDockerReboot, DockerRebootProofs

`<-` is EXTENDS, read from right to left, except that CollectionPair INSTANCEs.

**MsgQueue** has the atomic steps of DCS `MsgQueue`: the look at the flag
(`LockIsFree`) and the put or take are distinct.

**SyncAgent** has one action for each step of an agent's thread between two accesses to
shared state, named by the program counter `agPc[a]`:

| `agPc` | code | action |
|---|---|---|
| connect | listenerPort / connectToServer | `Connect` (of the network) |
| connected, init | run(): the flags, handler.init() | `RaiseFlags`, `RequestAll` |
| read, eof | startReciveData, reciveMsg, parseMsg | `ReadTransaction`, `ReadEof`, `ReadThrows` |
| put, append | parseMsg on DATA: putMsg | `AgentWait`, `AgentPut` |
| post, lock, snapshot, send, unlock | postAllData | `PostAllData` ... `UnlockQueue` |

An exception is the operator `CatchException`, which is what the catch clause of run()
does; it leaves the flag alone, as the code does. `SendMsg` / `SendThrows` are the two
outcomes of sendMsg. The ping thread of an agent is `PingProbe` (inside isReachable),
`PingAnswered`, `PingFailsServer`, `PingFailsClient`; between the probe and the failure
anything may happen. `init` and the `syncAgent` static field are state: init() sends
through the *current* agent.

**CollectionServer** adds the collector (`colPc`: listen, read, put, append, sync,
threshold, size, takewait, take, insert, clear), the environment (Adapter, peer, network,
database) and `Restart`, which keeps only the table. A server whose constant `Role` is
"Primary" or "Secondary" is one process of DCS.

**CollectionPair** joins two instances: what one writes the other reads, a close by one
cuts the other's connection, both insert into one table. A read() of the adapter's
connection returns up to `PairChunk` messages, and those in `PairBad` are not XML: the
peer's parser throws on them. `PairFits` is how many messages of one transaction the socket
buffers hold: a longer one is written only while the peer's thread is in read() (`WritesAll`),
which it is not while it posts. The history variables `posted`, `flushed`, `early` and
`dropped` are read by properties only; `dropped` is what reciveMsg had read and not queued
when it was left by an exception.

**SescRecord** is what `ColInsert` of CollectionServer abstracts: `convertToSescData` as an
operator, with what it leaves filled when it throws, and the flush as `Convert`,
`BindRows` and `ExecuteBatch`.

**EofFraming** is the receive loop that all connections share, one read() and one round
of reciveMsg's loop at a time. It is why the other modules may take a message, or a
transaction, as the unit that arrives.

**Adapter** has the port threads, the client, and the hosts as far as the client can
see them; **Forwarder** is what it promises: of each port's messages, in their order, each
is delivered to one host at most, once.

**EapServer** has the request threads and UploadMsgThread, and promises the same
(`UploadsAtMostOnce`). The uploading thread's steps, by `upPc`:

| `upPc` | code (EAP `UploadMsgThread`) | action |
|---|---|---|
| connect | connectToServer, the other index each time | `ConnectToServer` |
| size | the loop while the queue is not empty, take() unless `lastSendSucc` is false | `NextMsg` |
| answer | input.read() | `ReadAnswer`, `UpThrows` |
| write | out.write() with room in the buffer, or without | `WriteMsg` |
| flush | BufferedOutputStream's own write to the socket, message by message | `FlushBuffer`, `UpThrows` |

**DockerReboot** has one action for each of the five calls of doGet and, as `CallThrows`,
`ServerError` and `ContainerExits`, what may go wrong: a call throws before or after the
Docker host has done what it asked (a lost answer), it is answered with a 500 that the
servlet ignores, or a container exits by itself. What a call does at the host is modelled
from the status codes that RemoteApi's comments quote. toDcokerContainer
(`JsonConvert.java:12`) never adds what it parses to the list that it returns: the
constant `AddsToList` is FALSE in the code, and the run reboot_never shows the consequence.
With TRUE the rest of the servlet, which is written for a conversion that works, can be
examined.

Definitions named `M_...` are mutants: the definition after them with a plausible bug.
No specification uses them. With a mutant in the place of its definition the property
named in `PROJECT.json` fails, which shows that the property depends on the code.

### What is abstracted

* A message is a model value or a number. That it is not well-formed XML (`Bad`) or has
  no timestamp (`NoTime`) is kept, its contents are not.
* `</EOF>` framing is left to EofFraming: elsewhere a read ends at the end of a message,
  and a partial message only delays. EofFraming has ASCII bytes.
* The iteration over the queue in postAllData is one step. LinkedBlockingQueue's
  iterator is weakly consistent; under the flag at most one put and one take can overlap
  it (`PostedIsQueued`), and each is then seen or not, as if before or after `Snapshot`.
* putMsg reads `isLock` without synchronisation (takeMsg reads it inside one). The model
  reads the current value at that point of the thread: each iteration sleeps and each put
  takes the queue's lock, so that the virtual machine reads the field again. The Java
  memory model alone would allow an older value.
* close() is one step, although it closes the socket and the streams one after the
  other: to the other thread each intermediate state throws like the last one.
* A write either goes to the connection, blocks on a full buffer, is lost in the kernel
  of a dead connection, or throws. In CollectionPair one that is longer than the socket
  buffers waits for a peer that reads; the environment of CollectionServer may always have
  one, so that there the length does not matter. The agent and the collector write to one
  BufferedOutputStream, whose write is synchronized: their transactions do not mix.
* Sleeps are not modelled: a step may be delayed anyway.
* Ping and the thread of a secondary's agent whose `MaxAgents` is used up: the ping
  cannot fail any more. `MaxAgents` bounds how many agents are ever started.

## Runs

| Run | Module, cfg | Shows |
|---|---|---|
| primary | MCPrimary | One primary in every environment, two messages (one of them malformed), batches of 2, up to 3 messages held. Type correctness; `PostedIsQueued`, `BlockedOnlyByClear`, `FlushIsFull`, `LockHasOwner`. |
| secondary | MCSecondary | One secondary with two agents at once: the flush and the flag. |
| pair_nodes | MCPair, MCPairNodes | Both servers collecting, either crashing, a second agent: each server implements `OpenSpec` of module CollectionServer, so the environment there is wide enough. |
| standby | MCPair, MCStandby | The primary collects three messages in batches of 2; one fault, which may be a crash of either: `StandbyComplete`, `RecoveryComplete`. |
| pair_live | MCPair, MCPairLive | No fault, fair threads and network, socket buffers for one message: `CrossingNeedsEarly`, `CrossedTillFault`, and but for crossing postings `PostingEnds`, `FlushEnds`, `BothAnswered`. |
| poison | MCPair, MCPoison | Four messages, up to three in one read, the second of which is no XML; one fault, which may be a crash of the secondary: `NothingLost`, `DropNeedsCause`, `OneRowEach`, `ClearAfterFlush`. |
| adapter | MCAdapter | Two ports with two messages each, two hosts, two faults: the five safety properties, no deadlock, and under fairness `Drains`. |
| eap | MCEapServer | Two connections with two messages each, two servers, two faults, a buffer of two messages: types, `Accounted`, `UploadsAtMostOnce`. |
| docker | MCDockerReboot | Two requests over two deployed containers, for the same address, different ones or none, two troubles, a conversion that returns the list: types, `NeverFewer`, `OrphanNeedsTrouble`, `CountKept`. |
| reboot_never | MCDockerReboot, MCRebootNever | The conversion as it stands, no trouble, fair requests: `Rebooted` is violated. A request for the address of a running container is answered, and nothing is stopped. |
| framing | MCEofFraming | Two messages of up to three characters, over an alphabet of the (three) characters of the end mark and one more, in every division into reads: `ReceivedAsSent`, `NothingHeldBack`, and no deadlock. |
| record | MCSescRecord | Flushes of up to two messages with up to two items each, numbers inside and outside of the array, hours 0, 1, 12 and 13: types, `RowsRight`, `BatchFate`, `HoursKeptApart`. |

**Bounds.** BatchSize is 300 in the code and 1 or 2 here: the flush behaves differently
for "less than", "exactly" and "more than" a batch, and for an empty and a non-empty
rest, all of which occur with 2 and up to 3 messages. One transaction in each socket
buffer (`ChanCap`) is enough for writers to block. In pair_live a transaction of two
messages no longer fits (`PairFits = 1`), so that postings do cross; the other runs of the pair
have room for every transaction, which leaves more behaviours to their safety properties: a
write that waits is one that has not happened. `MaxMsgs = 3` lets a message be
flushed, one be in the snapshot and one be forwarded behind it; in poison a fourth lets
one before the malformed one and two behind it be read together, so that the first of
them throws and the second is dropped. The EAP server's buffer holds two messages and its
socket one, so that a write can find the buffer full and throw when one of two has gone.
With two requests and two containers each kind of meeting in the Docker manager occurs: one
container, two containers, a container of the other request; two troubles let both
requests fail. SescData has ten items in the code and two here, and one number on either side.
The names with `Max` and `Cap`, `PairChunk` and `PairAgents` are the only bounds.

**Deadlock** is checked in adapter and framing. The other runs say CHECK_DEADLOCK FALSE,
because the system may stop in them: a collector that is deaf or a flag that is up for
ever, all messages sent; an EAP server with an empty queue, or with one message that waits
for another behind it; every reboot done; a flush that has ended. primary can stop in the
same ways as the pair.

**Fairness.** `FairPairSpec`: weak fairness of the collector's and the agents' threads
(the JVM runs a runnable thread) and of the network's steps together (TCP retransmits,
accept() returns). None for adapters, pings or faults. `FairSpec` of the Adapter: weak
fairness of the ports' puts, of the hosts' reads, and of the client except while it
writes into a backlog that nobody reads, where it may block for good; no restart and no
equipment is obliged to anything. `FairSpec` of DockerReboot, for `reboot_never`: weak fairness of each
request (the servlet container's thread runs, the Docker host answers, if only with an error).
EapServer has none.

### What the runs do not claim, because the code does not do it

Each of these can be seen by running the named property with the constants given.

* *Both servers collecting* (`Collectors = {"P", "S"}`): the CLEAR of one removes from
  the other what that one has not inserted: `ClearAfterFlush` fails, and messages are
  lost without any fault.
* *Two agents in the secondary* (`PairAgents = 2`): the old agent's thread obeys a CLEAR
  that it had read before, after the new one has queued a later message, or the primary's
  answer to its GET_ALL: `ClearAfterFlush` fails, and so does `StandbyComplete`, already for
  two messages. `PostedIsQueued` is likewise stated for one agent.
* *A crash of the primary* between the insert and the CLEAR: the secondary gives the flushed
  messages back and they are inserted again. And a restarted primary may flush before its
  agent has sent the GET_ALL: its CLEAR then comes first and removes the messages of the old
  process, of which the secondary had the only copy. `OneRowEach` and `ClearAfterFlush` are
  checked with a crash of the secondary only.
* *A crash of both*, one after the other: what the secondary gives back to the restarted
  primary while that is inserting goes to the restarted secondary with the answer to its
  GET_ALL, and is then removed there by the CLEAR of that insert. `StandbyComplete` is checked
  with one fault, and proved for a primary that never crashes; `RecoveryComplete` is proved
  for crashes of both.
* *Early messages*: the primary's collector may forward a message between
  `_isConnected = true` and the GET_ALL of init(). The secondary's answer brings it back
  and it is inserted twice: hence `early` in `OneRowEach`.
* *Reconnection*: `init` is never set again, so that after a reconnection a GET_ALL
  comes from a restarted process or a new agent only. `StandbyComplete` and
  `RecoveryComplete` speak of a connection on which the request was answered.
* *Crossing postings*: an agent reads nothing while it posts. If both post at once, and neither
  transaction fits, or the connection is full both ways, both wait for the other, with their
  flags up, and soon the collectors behind the flags. The code has no timeout for it: only
  the failure of a ping, of the connection or of a server ends it. With one agent that takes
  early messages, since otherwise the secondary has nothing to post when the primary posts.
  `PostingEnds`, `FlushEnds` and `BothAnswered` except it, each by `Crossed`.
* *Endless flushes*: the flush ends when the queue is empty, and the peer may go on filling it.
  The runs have finitely many messages and do not see this.
* *Malformed messages*: what was read behind a message whose forwarding threw is
  dropped, for good. `DropNeedsCause` says no more than that something before it was to blame.
* *Reboots*: as the code stands none happens (`reboot_never`). The run docker examines the
  servlet behind a conversion that works, and its theorems hold for both. If the list were returned,
  two requests for one address would start two containers in its place, and one with an
  empty address, which is the address of a container that does not run, would replace what
  another has created and not started yet: hence the conditions in `CountKept`. A container
  without a bridge network makes the parser throw, which is one of the troubles.
* *Uploads*: the statement that starts UploadMsgThread is commented out
  (`Server.java:29`): `Uploads` is FALSE in the code, and every message then stays in the
  queue. With TRUE, as in the run eap and for either value in the theorems, the rest of the
  thread is examined, against servers that answer each message with a byte: the thread waits
  for one (`UploadMsgThread.java:47`), and the servers of this repository never send it. So
  nothing is claimed about what gets through, only about what may never happen. The last
  messages would stay in the output buffer, which nobody flushes.
* *Noon*: the pattern `hh` makes the hour 12 the hour 0: `HoursKeptApart` excepts this pair.
* *Failed inserts*: the CLEAR is sent whether or not the insert worked; `flushed` means
  "went through an insert".

## Proofs

`CollectionServerProofs` proves, for every `Msg`, `Role`, `MaxAgents`, `ChanCap`,
`BatchSize` and every other bound that satisfies `ServerAssumption`:

* `TypeCorrect`, and from it `TypeSafe`: `Spec => []TypeOK`. The invariant is
  `TypeInv == TypeOK /\ InHand`; `InHand` is needed because a thread that is about to
  put takes the head of what it holds, and because a failed ping starts agent
  `syncAgent + 1`, which must be off.
* `FlushCorrect`, and from it `BlockCorrect`:
  `Spec => [](FlushIsFull /\ BlockedOnlyByClear)`, from `FlushInv`: as
  long as no CLEAR arrived, the batch and the queue together hold at least `BatchSize`
  messages while a flush runs. The collector moves messages from one to the other
  (`FlushCollector`); agents only append or clear (`FlushAgent`).
* `PostCorrect`: `Spec => []PostedIsQueued`, from `PostInv`: while the only agent posts,
  the flag is up, and a collector that is still past its look at the flag has not moved
  the queue yet. That last conjunct makes it inductive: the second look finds the flag up.
* `LockOwned`: `Spec => LockHasOwner`, step by step from the type invariant.
* `OpenTypeCorrect`, `OpenFlushCorrect`, `OpenPostCorrect`, `OpenLockOwned`: the same of
  `OpenSpec`, whose table may change by another hand. No invariant looks at the table, so
  that the same lemmas prove them. As both servers of the pair implement `OpenSpec`, this
  is what makes them facts about either of the two.

`CollectionPairProofs` proves, for every value of the constants of the pair that satisfies
`PairAssumption`, whoever collects and whoever crashes:

* `PairTypeCorrect`: `PairSpec => [](PairTypes /\ produced \in Nat)`. The types of each server
  are split into its control (`PControl`, `SControl`) and `PHold(X)`, `SHold(X)`: all the
  messages it has, in its queue, hands and connections, are in the set X. With `Msgs` for X
  this is a type invariant; with smaller sets it is the frame of the proofs below, since
  every step of a server keeps it and only two inputs, the adapter and the peer, need more.
* `PrimaryRefines` and `SecondaryRefines`: `PairSpec => PrimaryIsANode`, `PairSpec =>
  SecondaryIsANode`. `PDoes` and `SDoes` list what may happen to one server in a step of the
  pair; `PairDoes` shows that each step of the pair is one of them for either server at once,
  and `PDoesNext`, `SDoesNext` that each of them is a step of CollectionServer.

Its second part proves what the standby may cost, under hypotheses about the constants
that are those of the runs standby and poison: `OnlyPrimary` (`Collectors = {"P"}`) and, where
named, `PrimaryLives` (`"P" \notin Crashes`) and `OneAgent` (`PairAgents = 1`). Without each
of them the property fails, in the ways listed under the runs above; only for
`RecoveryComplete` with two agents is no counterexample known.

* `SecondaryQuiet`: a secondary that collects nothing has no CLEAR to send, so that none is
  on the way to the primary.
* `NothingIsLost` (`PrimaryLives`): `Kept` adds to `NothingLost` what the collector's counter
  says of its data and its batch (`Stages`): what it forwards is in the queue, and each of
  them is empty outside of its loop.
* `DropHasCause` (`PrimaryLives`): as long as no fault happened and no malformed message is
  older than all that is unread, both servers are connected or connecting for the first time
  and throw nothing (`PCalm`, `SCalm`). The step needs `InOrder`: what is unread is in
  ascending order, and newer than all that either server holds.
* `ClearTakesFlushed` (`PrimaryLives`, `OneAgent`): `Backed`, the two servers hold only what
  was flushed or is due at the primary, and when a CLEAR is written only what was flushed; and
  `Preceded("Clear", flushed)`, what has arrived or is on the way ahead of a CLEAR was flushed.
* `OneRow` (`PrimaryLives`, `OneAgent`): what may come back to the primary by the answer to
  its GET_ALL was at the standby before the request was, and is `early` (`EarlyIn`, which is
  `Preceded` for the GET_ALL). A message that is not early is therefore unread, in the queue,
  in the batch, or flushed, in one of these places only, and once (`Once`).
* `RecoveryIsComplete` (`OneAgent`; either may crash): `RecoveryInv`, while the connection is
  up the primary has written nothing but what is due at it, so that all the secondary holds
  beyond its snapshot is; and the snapshot itself is in its hand, under way, or arrived.
  `Linked` says what either end of the connection knows of the other. `LinkMoves` sorts the
  steps of the pair into those that end a connection, those that make one, with nothing in
  hand or under way, and those that happen over one; for the last, `Moves` is what a thread of
  an agent may do to the sets of messages in its hands, queue and connection.
* `StandbyIsComplete` (`PrimaryLives`, `OneAgent`): `StandbyInv`, what comes back to the
  primary is `Far` already, that is, inserted, or at the standby, or on the way to it; and so
  is, from the snapshot on, all in its queue but the message being forwarded. `Far` loses
  messages by a CLEAR only, which by the invariant of `ClearTakesFlushed` (`ClearInv`) takes
  none that was not inserted.

* `CrossingIsEarly` (`OnlyPrimary`, `PrimaryLives`, `OneAgent`): `EarlyIn` again. A secondary that
  answers holds only what was before the GET_ALL, and that is early.
* `CrossedForGood` (`OneAgent`; whoever collects and crashes): step by step from the types.
  The collectors only add to a channel (`CollectorsFixed`), neither agent's write returns
  (`CrossingBlocks`), and the network delivers to neither, since a full connection has no
  room and of a long write nothing whole has gone out (`CrossingDeliveries`).

`AdapterProofs` proves, for every set of ports and every number of hosts and messages that
satisfies `AdapterAssumption`:

* `TypeSafe`, from `TypeOK /\ InHand` (a client about to write has a message, and only it).
* `TakeNeverBlocks`: `Spec => []NeverBlocksInTake`, from `TakeInv`: only the client takes, so
  that a queue which was found not empty stays so over the ping.
* `LossCaused`: `Spec => []LossNeedsFault`, from `CalmInv`: without a fault the client and
  the host agree on whether they are connected, and a connect that fails touches no message.
* `Forwards`: `Spec => ForwardsAtMostOnce`, that is, every initial state and step of the
  Adapter is one of Forwarder, or a stutter. The invariant is `OrderInv`, three facts about
  the stages that a message passes (data of the port, queue, hand, wire, delivered):
  `InOrder`, what is in a later stage is older; `Apart`, no message is in two of them; `Came`,
  none is in one before it was received. Each is needed for the next: a `Deliver` is in order
  because nothing older is still under way.
* `AllAccounted`: `Spec => []Accounted`, from `Kept` (a message that was received is in some
  stage, or lost) with `Apart`.

`EapServerProofs` proves `TypeSafe`, `Uploaded` (`Spec => UploadsAtMostOnce`) and
`AllAccounted` along the same lines, with the output buffer as one more stage and the
message in hand one only while `lastSendSucc` is false. What makes the retry safe is that
the message in hand is not in the buffer yet when the write throws; the buffer, some
of whose messages may be on the wire, is given up as a whole. `OrderedMessages` has the
lemmas both share: what Append, Head and Tail do to the set and to the order of a sequence.

`DockerRebootProofs` proves, for every number of requests and containers that satisfies
`DockerAssumption`, and for a conversion of either kind:

* `TypeSafe`, from `TypeOK /\ Holding`: a request that is to call start holds a container
  which it created, and no two hold the same.
* `NoOrphans`: `Spec => []OrphanNeedsTrouble`.
* `NoneMissing`: `Spec => []NeverFewer`. The invariant is `Balance`, which counts the
  requests that owe a container (`Owes`) more finely than the property does: one that is to
  remove what another has created, and not started, owes none, because the other one does
  until it is removed. `BalanceKept` reduces each action to one of the six
  ways in which it can change the three numbers of the sum.
* `CountStays`: `Spec => []CountKept`. The invariant is `Addresses`, only a running
  container has an address, and as long as nothing failed and the requests are for different
  containers (`Alone`) `Undisturbed`: each request finds its container as it left it, and the
  running ones together with those being replaced are as many as were deployed.

`EofFramingProofs` proves, for every alphabet, every end mark whose characters differ, and
messages of any number and length, in every division into reads:

* `MessagesAsSent`: `Spec => []ReceivedAsSent`, and `NothingStays`: `Spec => []NothingHeldBack`.
  The invariant, `FramingInv`, is about the stream, which is the local string and what is
  still to be read: there are positions (`Follow`) at which the messages not handed on end, each
  standing in the stream right behind the one before it, with its end mark. A read does not
  change the stream; a send adds one position, a cut takes the first one away. That the cut
  takes it is `NextMessage`, from `FirstEof`: as the characters of `</EOF>` differ, two
  of them cannot overlap, so that the first in a message followed by one is the one that follows,
  even where the message ends with a part of it.

`SescRecordProofs` proves, for messages of any contents and batches of any length:

* `BatchRejected`: `Spec => []BatchFate`. The invariant is `BatchInv`: each row is the
  conversion of the message at its position, and a batch that is bound is complete and has a
  time in each row.
* `TypeSafe`, `RowsAreRight` (`Spec => []RowsRight`) and `HoursApart` (`Spec =>
  []HoursKeptApart`). `ItemsStored` says what the fold of `StoreItems` computes for every list:
  each number has the value of the last item with it before the first that throws. It is proved
  by induction over the rounds of the loop. The induction theorems of the library have an
  operator as a parameter; `SetInduction` has a set, and follows from the well-foundedness
  of the numbers. The same induction shows that the recursive function in the fold exists
  (`FoldExists`), without which nothing could be said of its value.

Each preservation proof has one step for each action. The assumptions are those named
`...Assumption` in the modules; TLC evaluates them in the runs.

Every invariant and every action property of the runs is stated by a theorem. Model-checked
only: all liveness, which under fairness is out of the prover's reach (`PostingEnds`,
`FlushEnds`, `BothAnswered`, `Drains`; and `Rebooted`, which is refuted).

## Not modelled, and the plan

* `NIOServer` is an echo experiment; `MysqlTest` and Docker's `Test` are scratch programs;
  `SescDataDao.insert` has no caller, and `getConnection` one, `ServerExecutor.main`, which
  opens the first connection and leaves the flushes to open their own.
* The configuration readers are pure input, and their values are constants here. A single
  configured host is excluded by `AdapterAssumption`: with one the client's index leaves the
  array and it never connects again.
* A read that ends inside a multi-byte character; what the Java memory model alone would
  allow; how many connections MySQL accepts before a flush that opens another fails (what a
  failed flush does is modelled).
* JSPs and Eclipse metadata. The five `.js` files among the latter, under
  `.metadata/.plugins/org.eclipse.wst.jsdt.core/libraries`, are third-party declarations
  without behaviour: no definition could be translated from them.

Left for later: theorems under weaker hypotheses. `NothingIsLost` and `DropHasCause` assume
a primary that never crashes, although most of their argument is about one life of it; the
ones that assume `OneAgent` say nothing of a secondary that connects again, where
`RecoveryComplete` at least may still hold.
