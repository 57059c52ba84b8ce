----------------------------- MODULE EapServer ------------------------------
(***************************************************************************)
(* EapServer, the single-process predecessor of the Adapter: a thread for  *)
(* each equipment that connects (Server.RequestThread) queues its messages *)
(* in ServerQueue; UploadMsgThread takes them out and writes them to one   *)
(* of two servers.  Unlike the Adapter's client it keeps the message whose *)
(* write threw and writes it again on the next connection, it waits for a  *)
(* byte of the server before each message, and it writes into a            *)
(* BufferedOutputStream that it never flushes.                             *)
(*                                                                         *)
(* The statement that starts the upload thread is commented out            *)
(* (Server.java:29), so that in the code as it stands the queue only grows *)
(* (Uploads = FALSE).                                                      *)
(***************************************************************************)
EXTENDS Naturals, Sequences, FiniteSets, SequencesExt

CONSTANTS
  Clients,     \* the connections that equipment makes
  Uploads,     \* whether UploadMsgThread runs
  BufCap,      \* messages the BufferedOutputStream holds (8192 bytes)
  WireCap,     \* messages the socket buffers hold before a write blocks
  MaxMsgs,     \* bound: messages of each connection
  MaxChunk,    \* bound: messages RequestThread gets from one read()
  MaxFaults    \* bound: connections that end and servers that go down

ASSUME EapAssumption ==
  /\ Uploads \in BOOLEAN /\ BufCap \in Nat \ {0} /\ WireCap \in Nat \ {0}
  /\ MaxMsgs \in Nat /\ MaxChunk \in Nat /\ MaxFaults \in Nat

Servers == {0, 1}    \* the indices of srvIPs
Message == Clients \X (1..MaxMsgs)

VARIABLES
  reqPc,          \* where each RequestThread is
  reqData,        \* the messages in its data, not queued yet
  accepted,       \* how many messages have come in on each connection
  sendToSrvQue,
  upPc,           \* where UploadMsgThread is; "connect" while isConnected is false
  currSrvIdx,
  msg,            \* the message taken last
  lastSendSucc,   \* FALSE from the take on, until the write returns
  buffer,         \* what out holds
  link,           \* "none", "up", "eof": the server closed, "dead"
  wire,           \* written to each server and not read yet
  srvUp,          \* the server takes connections
  delivered,      \* what each server has read
  lost,           \* history: what no server will ever read
  faults

reqVars == <<reqPc, reqData, accepted>>
upVars  == <<upPc, currSrvIdx, msg, lastSendSucc, buffer>>
srvVars == <<wire, srvUp, delivered>>
vars == <<reqVars, sendToSrvQue, upVars, link, srvVars, lost, faults>>

TypeOK ==
  /\ reqPc \in [Clients -> {"accept", "read", "enqueue", "spin", "ended"}]
  /\ reqData \in [Clients -> Seq(Message)]
  /\ accepted \in [Clients -> 0..MaxMsgs]
  /\ sendToSrvQue \in Seq(Message)
  /\ upPc \in {"connect", "size", "answer", "write", "flush"}
  /\ currSrvIdx \in Servers
  /\ msg \in Message \cup {<<>>}
  /\ lastSendSucc \in BOOLEAN
  /\ buffer \in Seq(Message) /\ Len(buffer) <= BufCap
  /\ link \in {"none", "up", "eof", "dead"}
  /\ wire \in [Servers -> Seq(Message)]
  /\ srvUp \in [Servers -> BOOLEAN]
  /\ delivered \in [Servers -> Seq(Message)]
  /\ lost \subseteq Message
  /\ faults \in 0..MaxFaults

Init ==
  /\ reqPc = [c \in Clients |-> "accept"]
  /\ reqData = [c \in Clients |-> <<>>]
  /\ accepted = [c \in Clients |-> 0]
  /\ sendToSrvQue = <<>>
  /\ upPc = "connect" /\ currSrvIdx = 1
  /\ msg = <<>> /\ lastSendSucc = TRUE /\ buffer = <<>>
  /\ link = "none"
  /\ wire = [s \in Servers |-> <<>>]
  /\ srvUp \in [Servers -> BOOLEAN]
  /\ delivered = [s \in Servers |-> <<>>]
  /\ lost = {} /\ faults = 0

-----------------------------------------------------------------------------
(* listenRequest and the request threads.                                  *)

ReqUnchanged == UNCHANGED <<upVars, link, srvVars, lost, faults>>
ReqGoto(c, from, to) == reqPc[c] = from /\ reqPc' = [reqPc EXCEPT ![c] = to]

\* accept(), and a RequestThread for the connection: any number at a time.
ClientConnects(c) ==
  ReqGoto(c, "accept", "read") /\ UNCHANGED <<reqData, accepted, sendToSrvQue>> /\ ReqUnchanged

\* read() returns the end of n messages.
ClientSends(c, n) ==
  /\ accepted[c] + n <= MaxMsgs
  /\ ReqGoto(c, "read", "enqueue")
  /\ reqData' = [reqData EXCEPT ![c] = [i \in 1..n |-> <<c, accepted[c] + i>>]]
  /\ accepted' = [accepted EXCEPT ![c] = @ + n]
  /\ UNCHANGED sendToSrvQue /\ ReqUnchanged

\* One round of the loop in EnServerQueue.
EnServerQueue(c) ==
  /\ ReqGoto(c, "enqueue", IF Len(reqData[c]) = 1 THEN "read" ELSE "enqueue")
  /\ sendToSrvQue' = Append(sendToSrvQue, Head(reqData[c]))
  /\ reqData' = [reqData EXCEPT ![c] = Tail(@)]
  /\ UNCHANGED accepted /\ ReqUnchanged

\* The equipment closes, and the loop reads -1 for ever; or read() throws, and the
\* thread ends.
ClientLeaves(c) ==
  /\ ReqGoto(c, "read", "spin") \/ ReqGoto(c, "read", "ended")
  /\ UNCHANGED <<reqData, accepted, sendToSrvQue>> /\ ReqUnchanged

Request(c) ==
  \/ ClientConnects(c) \/ ClientLeaves(c)
  \/ \E n \in 1..MaxChunk : ClientSends(c, n)

-----------------------------------------------------------------------------
(* UploadMsgThread.run.                                                    *)

UpUnchanged == UNCHANGED <<reqVars, srvUp, delivered, faults>>
UpGoto(from, to) == Uploads /\ upPc = from /\ upPc' = to

\* Mutant: the index runs on.
M_ConnectToServerNext ==
  /\ currSrvIdx' = currSrvIdx + 1
  /\ UpGoto("connect", "connect")
  /\ UNCHANGED <<sendToSrvQue, msg, lastSendSucc, buffer, link, wire, lost>> /\ UpUnchanged

\* connectToServer: the other server, in turn.
ConnectToServer ==
  /\ currSrvIdx' = IF currSrvIdx = 0 THEN 1 ELSE 0
  /\ \/ srvUp[currSrvIdx'] /\ UpGoto("connect", "size") /\ link' = "up"
     \/ ~srvUp[currSrvIdx'] /\ UpGoto("connect", "connect") /\ UNCHANGED link
  /\ UNCHANGED <<sendToSrvQue, msg, lastSendSucc, buffer, wire, lost>> /\ UpUnchanged

\* While the queue is not empty: take a message, unless the last one is still to be
\* sent.  That one waits for a message behind it.  take() never blocks: the thread is
\* the only consumer.
NextMsg ==
  /\ UpGoto("size", "answer")
  /\ sendToSrvQue # <<>>
  /\ \/ /\ lastSendSucc /\ lastSendSucc' = FALSE
        /\ msg' = Head(sendToSrvQue) /\ sendToSrvQue' = Tail(sendToSrvQue)
     \/ ~lastSendSucc /\ UNCHANGED <<lastSendSucc, msg, sendToSrvQue>>
  /\ UNCHANGED <<currSrvIdx, buffer, link, wire, lost>> /\ UpUnchanged

\* input.read(): a byte of the server, sent before its connection ended perhaps, or -1,
\* which is printed.  No server of this repository ever sends one; the model lets those
\* of srvIPs answer at any time, or not at all.
ReadAnswer ==
  /\ UpGoto("answer", "write")
  /\ UNCHANGED <<sendToSrvQue, currSrvIdx, msg, lastSendSucc, buffer, link, wire, lost>> /\ UpUnchanged

\* out.write(): into the buffer if there is room, ...
WriteMsg ==
  /\ \/ /\ Len(buffer) < BufCap /\ UpGoto("write", "size")
        /\ buffer' = Append(buffer, msg) /\ lastSendSucc' = TRUE
     \/ Len(buffer) = BufCap /\ UpGoto("write", "flush") /\ UNCHANGED <<buffer, lastSendSucc>>
  /\ UNCHANGED <<sendToSrvQue, currSrvIdx, msg, link, wire, lost>> /\ UpUnchanged

\* ... which is written to the socket first if there is none.  The kernel also takes
\* the bytes of a connection nobody reads any more.
FlushBuffer ==
  /\ Uploads /\ upPc = "flush"
  /\ \/ /\ buffer # <<>> /\ buffer' = Tail(buffer)
        /\ \/ /\ link = "up" /\ Len(wire[currSrvIdx]) < WireCap
              /\ wire' = [wire EXCEPT ![currSrvIdx] = Append(@, Head(buffer))] /\ UNCHANGED lost
           \/ link # "up" /\ lost' = lost \cup {Head(buffer)} /\ UNCHANGED wire
        /\ UNCHANGED <<upPc, lastSendSucc>>
     \/ /\ buffer = <<>> /\ buffer' = <<msg>>
        /\ lastSendSucc' = TRUE /\ upPc' = "size"
        /\ UNCHANGED <<wire, lost>>
  /\ UNCHANGED <<sendToSrvQue, currSrvIdx, msg, link>> /\ UpUnchanged

\* Mutant: the message in hand is forgotten with the connection.
M_UpThrowsForgets ==
  /\ \/ link = "dead" /\ (UpGoto("answer", "connect") \/ UpGoto("flush", "connect"))
     \/ link = "eof" /\ UpGoto("flush", "connect")
  /\ lost' = lost \cup ToSet(buffer)
  /\ buffer' = <<>> /\ link' = "none" /\ lastSendSucc' = TRUE
  /\ UNCHANGED <<sendToSrvQue, currSrvIdx, msg, wire>> /\ UpUnchanged

\* Mutant: it goes back to the queue.
M_UpThrowsRequeues ==
  /\ \/ link = "dead" /\ (UpGoto("answer", "connect") \/ UpGoto("flush", "connect"))
     \/ link = "eof" /\ UpGoto("flush", "connect")
  /\ lost' = lost \cup ToSet(buffer)
  /\ buffer' = <<>> /\ link' = "none"
  /\ sendToSrvQue' = Append(sendToSrvQue, msg) /\ lastSendSucc' = TRUE
  /\ UNCHANGED <<currSrvIdx, msg, wire>> /\ UpUnchanged

\* An IOException of the read or of the flush: the socket is closed, and out is given
\* up with what it holds; msg and lastSendSucc stay as they are.
UpThrows ==
  /\ \/ link = "dead" /\ (UpGoto("answer", "connect") \/ UpGoto("flush", "connect"))
     \/ link = "eof" /\ UpGoto("flush", "connect")
  /\ lost' = lost \cup ToSet(buffer)
  /\ buffer' = <<>> /\ link' = "none"
  /\ UNCHANGED <<sendToSrvQue, currSrvIdx, msg, lastSendSucc, wire>> /\ UpUnchanged

Upload == ConnectToServer \/ NextMsg \/ ReadAnswer \/ WriteMsg \/ FlushBuffer \/ UpThrows

-----------------------------------------------------------------------------
(* The servers.                                                            *)

ServerReads(s) ==
  /\ wire[s] # <<>>
  /\ delivered' = [delivered EXCEPT ![s] = Append(@, Head(wire[s]))]
  /\ wire' = [wire EXCEPT ![s] = Tail(@)]
  /\ UNCHANGED <<reqVars, sendToSrvQue, upVars, link, srvUp, lost, faults>>

\* The connection ends, in order or not; the server may go down with it, or may have
\* been down.  What it has not read is gone.
ServerEnds(s) ==
  /\ faults < MaxFaults /\ faults' = faults + 1
  /\ \E up \in BOOLEAN : srvUp' = [srvUp EXCEPT ![s] = up]
  /\ link' \in IF link = "up" /\ currSrvIdx = s THEN {"eof", "dead"} ELSE {link}
  /\ lost' = lost \cup ToSet(wire[s])
  /\ wire' = [wire EXCEPT ![s] = <<>>]
  /\ UNCHANGED <<reqVars, sendToSrvQue, upVars, delivered>>

Next ==
  \/ \E c \in Clients : Request(c) \/ EnServerQueue(c)
  \/ Upload
  \/ \E s \in Servers : ServerReads(s) \/ ServerEnds(s)

Spec == Init /\ [][Next]_vars

-----------------------------------------------------------------------------
(* Properties.                                                             *)

\* The promise of the Adapter, kept with a retry: a message that is written again was
\* not written before, whatever part of the buffer had gone out when the write threw.
Promise == INSTANCE Forwarder WITH Ports <- Clients, Hosts <- Servers
UploadsAtMostOnce == Promise!Spec

InHand(m) == m = msg /\ ~lastSendSucc

\* Every message that came in is in exactly one place; the message in hand is never
\* lost, whatever connection it was to be written to.
Whereabouts(m) ==
  Cardinality({s \in Servers : m \in ToSet(wire[s])}) + Cardinality({s \in Servers : m \in ToSet(delivered[s])})
    + (IF m \in lost THEN 1 ELSE 0) + (IF m \in ToSet(buffer) THEN 1 ELSE 0)
    + (IF InHand(m) THEN 1 ELSE 0) + (IF m \in ToSet(sendToSrvQue) THEN 1 ELSE 0)
    + (IF m \in ToSet(reqData[m[1]]) THEN 1 ELSE 0)

Accounted == \A c \in Clients : \A n \in 1..accepted[c] : Whereabouts(<<c, n>>) = 1

=============================================================================
