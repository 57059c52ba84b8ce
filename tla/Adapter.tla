------------------------------ MODULE Adapter ------------------------------
(***************************************************************************)
(* The Adapter process (com.pony.adapter): one BaseServer thread for each  *)
(* listen port puts the messages of one equipment into the process-wide    *)
(* queue; one BaseClient thread takes them out and writes them to one of   *)
(* two collection servers, going to the other whenever something throws.   *)
(* Its MsgQueue is a copy of the collection server's whose flag nobody     *)
(* raises, so that putMsg and takeMsg never wait for it.                   *)
(*                                                                         *)
(* The hosts are collection servers as module CollectionServer has them:   *)
(* one connection at a time, the next one waits in the backlog, and a      *)
(* connection that was closed in order leaves the host deaf.               *)
(***************************************************************************)
EXTENDS Naturals, Sequences, FiniteSets, SequencesExt

CONSTANTS
  Ports,       \* listenPorts
  NumHosts,    \* how many hosts the configuration names
  MaxMsgs,     \* bound: messages an equipment sends
  MaxChunk,    \* bound: messages a port gets from one read()
  WireCap,     \* messages the socket buffers hold before a write blocks
  MaxFaults    \* bound: failed pings, broken connections and crashed hosts

\* With a single host the index would move to 1 and stay there: hostIps[1] throws
\* before the index moves again, and the client would never connect any more.
ASSUME AdapterAssumption ==
  NumHosts \in Nat \ {0, 1} /\ MaxMsgs \in Nat /\ MaxChunk \in Nat
  /\ WireCap \in Nat \ {0} /\ MaxFaults \in Nat

Hosts == 0..(NumHosts - 1)

VARIABLES
  msgQue,       \* MsgQueue.msgQue, head first; a message is <<port, number>>
  portPc,       \* where each port's run() is
  portData,     \* the messages of the current read(), not queued yet
  accepted,     \* how many messages have come in on each port
  cliPc,        \* where the client's run() is
  currHostIDx,  \* the host to try next
  host,         \* the host of the current connection
  hand,         \* the message taken and not written yet, <<>> if none
  link,         \* "none", "up", "backlog": never read by the host, "dead"
  wire,         \* what was written to each host and it has not read yet
  hostState,    \* "down", "listening", "serving", "closing", "deaf"
  delivered,    \* what each host has read
  lost,         \* history: the messages that will never be read
  faults

portVars   == <<portPc, portData, accepted>>
clientVars == <<cliPc, currHostIDx, host, hand>>
hostVars   == <<wire, hostState, delivered>>
vars == <<msgQue, portVars, clientVars, link, hostVars, lost, faults>>

Message == Ports \X (1..MaxMsgs)

TypeOK ==
  /\ msgQue \in Seq(Message)
  /\ portPc \in [Ports -> {"bind", "listen", "read", "put", "eof", "dead"}]
  /\ portData \in [Ports -> Seq(Message)]
  /\ accepted \in [Ports -> 0..MaxMsgs]
  /\ cliPc \in {"connect", "ping", "size", "pingmsg", "take", "send"}
  /\ currHostIDx \in {0, 1}
  /\ host \in Hosts
  /\ hand \in Message \cup {<<>>}
  /\ link \in {"none", "up", "backlog", "dead"}
  /\ wire \in [Hosts -> Seq(Message)]
  /\ hostState \in [Hosts -> {"down", "listening", "serving", "closing", "deaf"}]
  /\ delivered \in [Hosts -> Seq(Message)]
  /\ lost \subseteq Message
  /\ faults \in 0..MaxFaults

Init ==
  /\ msgQue = <<>>
  /\ portPc = [p \in Ports |-> "bind"]
  /\ portData = [p \in Ports |-> <<>>]
  /\ accepted = [p \in Ports |-> 0]
  /\ cliPc = "connect" /\ currHostIDx = 0 /\ host = 0 /\ hand = <<>>
  /\ link = "none"
  /\ wire = [h \in Hosts |-> <<>>]
  /\ hostState \in [Hosts -> {"down", "listening"}]
  /\ delivered = [h \in Hosts |-> <<>>]
  /\ lost = {} /\ faults = 0

-----------------------------------------------------------------------------
(* The port threads and the equipment that connects to them.               *)

PortUnchanged == UNCHANGED <<clientVars, link, hostVars, lost, faults>>

PortGoto(p, from, to) == portPc[p] = from /\ portPc' = [portPc EXCEPT ![p] = to]

\* listenerPort: bind and accept.
EquipmentConnects(p) ==
  /\ PortGoto(p, "bind", "read") \/ PortGoto(p, "listen", "read")
  /\ UNCHANGED <<msgQue, portData, accepted>> /\ PortUnchanged

\* The port is taken when it is bound for the first time: close() meets a null
\* serverSocket, and the NullPointerException ends the thread.  Later on the socket
\* before is closed once more, and the bind is tried again.
BindFails(p) ==
  /\ PortGoto(p, "bind", "dead")
  /\ UNCHANGED <<msgQue, portData, accepted>> /\ PortUnchanged

\* read() returns the end of n messages.
EquipmentSends(p, n) ==
  /\ accepted[p] + n <= MaxMsgs
  /\ PortGoto(p, "read", "put")
  /\ portData' = [portData EXCEPT ![p] = [i \in 1..n |-> <<p, accepted[p] + i>>]]
  /\ accepted' = [accepted EXCEPT ![p] = @ + n]
  /\ UNCHANGED msgQue /\ PortUnchanged

\* ServerReciveHandler.reciveMsg: putMsg, one message after the other.
PortPut(p) ==
  /\ PortGoto(p, "put", IF Len(portData[p]) = 1 THEN "read" ELSE "put")
  /\ msgQue' = Append(msgQue, Head(portData[p]))
  /\ portData' = [portData EXCEPT ![p] = Tail(@)]
  /\ UNCHANGED accepted /\ PortUnchanged

\* The equipment closes: read() returns -1 for ever.  Its connection breaks: read()
\* throws, and the port listens again.
EquipmentCloses(p) ==
  PortGoto(p, "read", "eof") /\ UNCHANGED <<msgQue, portData, accepted>> /\ PortUnchanged
EquipmentBreaks(p) ==
  PortGoto(p, "read", "listen") /\ UNCHANGED <<msgQue, portData, accepted>> /\ PortUnchanged

Port(p) ==
  \/ EquipmentConnects(p) \/ BindFails(p) \/ EquipmentCloses(p) \/ EquipmentBreaks(p)
  \/ \E n \in 1..MaxChunk : EquipmentSends(p, n)

-----------------------------------------------------------------------------
(* The client thread.                                                      *)

ClientGoto(from, to) == cliPc = from /\ cliPc' = to

\* Mutants: the index runs past the second host; it never moves.
M_NextHostOnly  == currHostIDx' = currHostIDx + 1
M_NextHostStuck == UNCHANGED currHostIDx

\* connectToServer: the index moves on before the attempt, from 0 to 1 and from
\* anything else to 0.
NextHost == currHostIDx' = IF currHostIDx = 0 THEN 1 ELSE 0

ConnectSucceeds ==
  /\ ClientGoto("connect", "ping")
  /\ currHostIDx \in Hosts /\ hostState[currHostIDx] # "down"
  /\ NextHost /\ host' = currHostIDx
  /\ \/ /\ hostState[currHostIDx] = "listening" /\ link' = "up"
        /\ hostState' = [hostState EXCEPT ![currHostIDx] = "serving"]
     \/ hostState[currHostIDx] # "listening" /\ link' = "backlog" /\ UNCHANGED hostState
  /\ UNCHANGED <<msgQue, portVars, hand, wire, delivered, lost, faults>>

\* Mutant: the exception of the failed connect is swallowed.
M_ConnectFailsSwallowed ==
  /\ ClientGoto("connect", "ping")
  /\ currHostIDx \in Hosts /\ hostState[currHostIDx] = "down"
  /\ NextHost /\ host' = currHostIDx /\ link' = "dead"
  /\ UNCHANGED <<msgQue, portVars, hand, hostVars, lost, faults>>

ConnectFails ==
  /\ ClientGoto("connect", "connect")
  /\ currHostIDx \in Hosts /\ hostState[currHostIDx] = "down"
  /\ NextHost
  /\ UNCHANGED <<msgQue, portVars, host, hand, link, hostVars, lost, faults>>

\* The catch clause of run(): the connection is closed, and the message in hand,
\* which only the local tempMsg still has, is never written again.  A host that was
\* reading the connection will read what is on the wire, and then its end.
Throw ==
  /\ cliPc' = "connect"
  /\ link' = "none"
  /\ hostState' = IF link = "up" THEN [hostState EXCEPT ![host] = "closing"] ELSE hostState
  /\ hand' = <<>>
  /\ lost' = lost \cup ({hand} \ {<<>>})
  /\ UNCHANGED <<msgQue, portVars, currHostIDx, host, wire, delivered>>

ClientUnchanged == UNCHANGED <<portVars, currHostIDx, host, hostVars, faults>>

\* isReachable, before the test of the queue and before each message.
PingAnswered ==
  /\ \/ ClientGoto("ping", "size")
     \/ ClientGoto("pingmsg", "take")
  /\ UNCHANGED <<msgQue, hand, link, lost>> /\ ClientUnchanged

\* It fails when the host is down, or as a fault of the network.
PingFails ==
  /\ cliPc \in {"ping", "pingmsg"}
  /\ \/ hostState[host] = "down" /\ UNCHANGED faults
     \/ faults < MaxFaults /\ faults' = faults + 1
  /\ Throw

\* Mutant: the test is for a length of at least 0.
M_QueueTestAlways ==
  /\ ClientGoto("size", "pingmsg")
  /\ UNCHANGED <<msgQue, hand, link, lost>> /\ ClientUnchanged

QueueTest ==
  /\ ClientGoto("size", IF msgQue # <<>> THEN "pingmsg" ELSE "ping")
  /\ UNCHANGED <<msgQue, hand, link, lost>> /\ ClientUnchanged

\* Mutant: peek instead of take.
M_TakeMsgPeeks ==
  /\ ClientGoto("take", "send")
  /\ msgQue # <<>>
  /\ hand' = Head(msgQue)
  /\ UNCHANGED <<msgQue, link, lost>> /\ ClientUnchanged

\* takeMsg blocks while the queue is empty.
TakeMsg ==
  /\ ClientGoto("take", "send")
  /\ msgQue # <<>>
  /\ hand' = Head(msgQue) /\ msgQue' = Tail(msgQue)
  /\ UNCHANGED <<link, lost>> /\ ClientUnchanged

\* Mutant: a write that finds the buffers full drops the message.
M_SendToServerDrops ==
  /\ ClientGoto("send", "size")
  /\ hand' = <<>>
  /\ \/ /\ link = "up" /\ UNCHANGED lost
        /\ wire' = [wire EXCEPT ![host] = IF Len(@) < WireCap THEN Append(@, hand) ELSE @]
     \/ link # "up" /\ lost' = lost \cup {hand} /\ UNCHANGED wire
  /\ UNCHANGED <<msgQue, portVars, currHostIDx, host, link, hostState, delivered, faults>>

\* sendToServer: the kernel takes the bytes of a connection that is up as long as its
\* buffers have room, but also those of one that nobody will ever read.
SendToServer ==
  /\ ClientGoto("send", "size")
  /\ hand' = <<>>
  /\ \/ /\ link = "up" /\ Len(wire[host]) < WireCap /\ UNCHANGED lost
        /\ wire' = [wire EXCEPT ![host] = Append(@, hand)]
     \/ link # "up" /\ lost' = lost \cup {hand} /\ UNCHANGED wire
  /\ UNCHANGED <<msgQue, portVars, currHostIDx, host, link, hostState, delivered, faults>>

SendThrows ==
  /\ cliPc = "send" /\ link = "dead"
  /\ Throw /\ UNCHANGED faults

Client ==
  \/ ConnectSucceeds \/ ConnectFails \/ PingAnswered \/ PingFails \/ QueueTest
  \/ TakeMsg \/ SendToServer \/ SendThrows

-----------------------------------------------------------------------------
(* The hosts.                                                              *)

HostUnchanged == UNCHANGED <<msgQue, portVars, clientVars>>

HostReads(h) ==
  /\ hostState[h] \in {"serving", "closing"} /\ wire[h] # <<>>
  /\ delivered' = [delivered EXCEPT ![h] = Append(@, Head(wire[h]))]
  /\ wire' = [wire EXCEPT ![h] = Tail(@)]
  /\ UNCHANGED <<hostState, link, lost, faults>> /\ HostUnchanged

\* The host has read the end of the connection: BaseServer loops on -1.
HostSeesEnd(h) ==
  /\ hostState[h] = "closing" /\ wire[h] = <<>>
  /\ hostState' = [hostState EXCEPT ![h] = "deaf"]
  /\ UNCHANGED <<wire, delivered, link, lost, faults>> /\ HostUnchanged

HostStarts(h) ==
  /\ hostState[h] = "down"
  /\ hostState' = [hostState EXCEPT ![h] = "listening"]
  /\ UNCHANGED <<wire, delivered, link, lost, faults>> /\ HostUnchanged

\* What is on the wire to h is gone; and the client's connection, if it is to h.
Drop(h, state) ==
  /\ faults < MaxFaults /\ faults' = faults + 1
  /\ hostState' = [hostState EXCEPT ![h] = state]
  /\ lost' = lost \cup ToSet(wire[h])
  /\ wire' = [wire EXCEPT ![h] = <<>>]
  /\ link' = IF link # "none" /\ host = h THEN "dead" ELSE link
  /\ UNCHANGED delivered /\ HostUnchanged

HostDies(h) == hostState[h] # "down" /\ Drop(h, "down")

\* The connection is reset: the host's read() throws, and it listens again.
ConnectionResets(h) == hostState[h] \in {"serving", "closing"} /\ Drop(h, "listening")

Host(h) == HostReads(h) \/ HostSeesEnd(h)

Environment == \E h \in Hosts : HostStarts(h) \/ HostDies(h) \/ ConnectionResets(h)

Next ==
  \/ \E p \in Ports : Port(p) \/ PortPut(p)
  \/ Client
  \/ \E h \in Hosts : Host(h)
  \/ Environment

Spec == Init /\ [][Next]_vars

\* A write to a backlog goes through until its buffers are full, and then blocks for
\* good; one to a dead connection returns or throws.
MayBlock == cliPc = "send" /\ link = "backlog"

\* The threads of the Adapter and of the hosts run; an equipment, a restart and a
\* fault need not happen.
Fairness ==
  /\ \A p \in Ports : WF_vars(PortPut(p))
  /\ WF_vars(~MayBlock /\ Client)
  /\ \A h \in Hosts : WF_vars(Host(h))

FairSpec == Spec /\ Fairness

-----------------------------------------------------------------------------
(* Properties.                                                             *)

Promise == INSTANCE Forwarder
ForwardsAtMostOnce == Promise!Spec

\* The client, the only consumer, never blocks in takeMsg: the queue it found not
\* empty is still so after the ping.
NeverBlocksInTake == cliPc = "take" => msgQue # <<>>

\* Every message that was queued is in the queue, in hand, on the wire to exactly
\* one host, read, or given up.
Whereabouts(m) ==
  Cardinality({h \in Hosts : m \in ToSet(wire[h])}) + Cardinality({h \in Hosts : m \in ToSet(delivered[h])})
    + (IF m \in lost THEN 1 ELSE 0) + (IF m = hand THEN 1 ELSE 0)
    + (IF m \in ToSet(msgQue) THEN 1 ELSE 0)
    + (IF \E p \in Ports : m \in ToSet(portData[p]) THEN 1 ELSE 0)

Accounted == \A p \in Ports : \A n \in 1..accepted[p] : Whereabouts(<<p, n>>) = 1

\* A message is lost only after something failed: a failed connect loses nothing.
LossNeedsFault == lost # {} => faults > 0

\* As long as some host stays up, the queue is emptied again and again: the client
\* goes back and forth between the hosts until one takes the connection.  Not so once
\* a host is deaf: its backlog accepts the client, and the client stays there.
Drains ==
  /\ <>[](\E h \in Hosts : hostState[h] # "down")
  /\ [](\A h \in Hosts : hostState[h] \notin {"closing", "deaf"})
  => []<>(msgQue = <<>>)

=============================================================================
