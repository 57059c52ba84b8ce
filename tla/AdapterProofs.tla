---------------------------- MODULE AdapterProofs ----------------------------
(***************************************************************************)
(* Theorems about the Adapter, for any ports, hosts and bounds: its types, *)
(* that its client never blocks in takeMsg, that a message is lost only    *)
(* behind a fault, that each message is in exactly one place, and that the *)
(* Adapter implements module Forwarder.                                    *)
(***************************************************************************)
EXTENDS Adapter, OrderedMessages

-----------------------------------------------------------------------------
(* The invariants.                                                         *)

\* What the program counters say: a client that is about to write has a message in
\* hand, and no other has; a port has data exactly while it queues them.
InHand ==
  /\ cliPc = "send" <=> hand # <<>>
  /\ \A p \in Ports : portPc[p] = "put" <=> portData[p] # <<>>

TypeInv == TypeOK /\ InHand

\* The queue, once found not empty, stays so until the client takes from it.
TakeInv == cliPc \in {"pingmsg", "take"} => msgQue # <<>>

\* Without a fault a host is serving exactly when the client is connected to it, and
\* then it is up.
Calm ==
  /\ cliPc = "connect" => link = "none"
  /\ cliPc # "connect" => link = "up" /\ hostState[host] = "serving"
  /\ \A h \in Hosts :
       /\ hostState[h] \in {"down", "listening", "serving"}
       /\ hostState[h] = "serving" => cliPc # "connect" /\ h = host

CalmInv == faults = 0 => lost = {} /\ Calm

\* The places a message can be in, from the equipment to the hosts.
Held       == {hand} \ {<<>>}
Reached(h) == ToSet(wire[h]) \cup ToSet(delivered[h])
Gone       == lost \cup UNION {Reached(h) : h \in Hosts}

\* Each place holds its messages in the order of their port, and later ones than the
\* places behind it.
InOrder ==
  /\ \A p \in Ports : Increasing(portData[p])
  /\ Increasing(msgQue)
  /\ \A h \in Hosts : Increasing(wire[h]) /\ AllBefore(ToSet(delivered[h]), ToSet(wire[h]))
  /\ \A p \in Ports : AllBefore(ToSet(msgQue) \cup Held \cup Gone, ToSet(portData[p]))
  /\ AllBefore(Held \cup Gone, ToSet(msgQue))
  /\ AllBefore(Gone, Held)

\* No message is at two hosts, or both at a host and lost.
Apart ==
  /\ \A g, h \in Hosts : g # h => Reached(g) \cap Reached(h) = {}
  /\ \A h \in Hosts : Reached(h) \cap lost = {}

\* A message that is somewhere has come in, on its own port.
Came ==
  /\ \A p \in Ports : \A m \in ToSet(portData[p]) : m[1] = p /\ m[2] <= accepted[p]
  /\ \A m \in ToSet(msgQue) \cup Held \cup Gone : m[2] <= accepted[m[1]]

\* A message that has come in is somewhere.
Kept ==
  \A p \in Ports : \A n \in 1..accepted[p] :
    <<p, n>> \in ToSet(portData[p]) \cup ToSet(msgQue) \cup Held \cup Gone

OrderInv == InOrder /\ Apart /\ Came

-----------------------------------------------------------------------------
(* The type invariant.                                                     *)

\* Nobody takes a message for an empty hand.
LEMMA MessageNotEmpty == <<>> \notin Message
  BY PairNotEmpty DEF Message

\* What a port read: n messages, numbered from k + 1 on.
LEMMA ChunkRead ==
  ASSUME NEW p \in Ports, NEW k \in Nat, NEW n \in Nat \ {0}, k + n <= MaxMsgs,
         NEW c, c = [i \in 1..n |-> <<p, k + i>>]
  PROVE  /\ c \in Seq(Message) /\ c # <<>> /\ Increasing(c)
         /\ ToSet(c) = {<<p, i>> : i \in (k + 1)..(k + n)}
<1>1. MaxMsgs \in Nat
  BY AdapterAssumption
<1>2. \A i \in 1..n : k + i \in 1..MaxMsgs
  BY <1>1
<1>3. c \in [1..n -> Message]
  BY <1>2 DEF Message
<1>4. c \in Seq(Message)
  BY <1>3, SeqDef
<1>5. DOMAIN c = 1..n
  OBVIOUS
<1>6. c # <<>>
  <2>1. 1 \in 1..n
    OBVIOUS
  <2>2. DOMAIN <<>> = {}
    BY EmptySeq
  <2>. QED
    BY <1>5, <2>1, <2>2, Zenon
<1>7. Increasing(c)
  BY <1>5 DEF Increasing, Before
<1>8. ToSet(c) = {<<p, i>> : i \in (k + 1)..(k + n)}
  <2>1. \A i \in (k + 1)..(k + n) : i - k \in 1..n /\ k + (i - k) = i
    OBVIOUS
  <2>2. \A i \in 1..n : k + i \in (k + 1)..(k + n)
    OBVIOUS
  <2>. QED
    BY <1>5, <2>1, <2>2 DEF ToSet
<1>. QED
  BY <1>4, <1>6, <1>7, <1>8

\* It holds at the start.
LEMMA TypeInit == Init => TypeInv
<1>1. <<>> \in Seq(Message)
  BY EmptySeq
<1>2. 0 \in Hosts /\ 0 \in 0..MaxMsgs /\ 0 \in 0..MaxFaults
  BY AdapterAssumption DEF Hosts
<1>. QED
  BY <1>1, <1>2 DEF Init, TypeInv, TypeOK, InHand

\* The steps of the ports and their equipment preserve it.
LEMMA PortType ==
  ASSUME TypeInv, NEW p \in Ports, Port(p) \/ PortPut(p)
  PROVE  TypeInv'
<1>. USE DEF TypeInv, TypeOK, InHand, PortUnchanged, clientVars, hostVars, PortGoto
<1>1. CASE EquipmentConnects(p)
  BY <1>1 DEF EquipmentConnects
<1>2. CASE BindFails(p)
  BY <1>2 DEF BindFails
<1>3. CASE EquipmentCloses(p)
  BY <1>3 DEF EquipmentCloses
<1>4. CASE EquipmentBreaks(p)
  BY <1>4 DEF EquipmentBreaks
<1>5. ASSUME NEW n \in 1..MaxChunk, EquipmentSends(p, n)
      PROVE  TypeInv'
  <2>. DEFINE c == [i \in 1..n |-> <<p, accepted[p] + i>>]
  <2>1. n \in Nat \ {0} /\ MaxMsgs \in Nat
    BY AdapterAssumption
  <2>2. accepted[p] \in Nat /\ accepted[p] + n <= MaxMsgs
    BY <1>5, <2>1 DEF EquipmentSends
  <2>3. c \in Seq(Message) /\ c # <<>>
    BY <2>1, <2>2, ChunkRead
  <2>4. portData' = [portData EXCEPT ![p] = c]
    BY <1>5 DEF EquipmentSends
  <2>. HIDE DEF c
  <2>5. accepted[p] + n \in 0..MaxMsgs
    BY <2>1, <2>2
  <2>6. accepted' \in [Ports -> 0..MaxMsgs] /\ portData' \in [Ports -> Seq(Message)]
    BY <1>5, <2>3, <2>4, <2>5 DEF EquipmentSends
  <2>7. \A q \in Ports : portPc'[q] = "put" <=> portData'[q] # <<>>
    BY <1>5, <2>3, <2>4 DEF EquipmentSends
  <2>. QED
    BY <1>5, <2>6, <2>7 DEF EquipmentSends
<1>6. CASE PortPut(p)
  <2>1. portData[p] \in Seq(Message) /\ portData[p] # <<>>
    BY <1>6 DEF PortPut
  <2>2. /\ Head(portData[p]) \in Message /\ Tail(portData[p]) \in Seq(Message)
        /\ Len(portData[p]) = 1 <=> Tail(portData[p]) = <<>>
    BY <2>1, ToSetTail
  <2>3. Append(msgQue, Head(portData[p])) \in Seq(Message)
    BY <2>2, ToSetAppend
  <2>. QED
    BY <1>6, <2>2, <2>3 DEF PortPut
<1>. QED
  BY <1>1, <1>2, <1>3, <1>4, <1>5, <1>6 DEF Port

\* The steps of the client preserve it.
LEMMA ClientType ==
  ASSUME TypeInv, Client
  PROVE  TypeInv'
<1>. USE DEF TypeInv, TypeOK, InHand, portVars, hostVars, ClientGoto, ClientUnchanged
<1>1. CASE ConnectSucceeds
  BY <1>1 DEF ConnectSucceeds, NextHost
<1>2. CASE ConnectFails
  BY <1>2 DEF ConnectFails, NextHost
<1>3. CASE PingAnswered
  BY <1>3 DEF PingAnswered
<1>4. CASE PingFails
  <2>1. faults' \in 0..MaxFaults
    BY <1>4, AdapterAssumption DEF PingFails
  <2>. QED
    BY <1>4, <2>1 DEF PingFails, Throw
<1>5. CASE QueueTest
  BY <1>5 DEF QueueTest
<1>6. CASE TakeMsg
  <2>1. /\ Head(msgQue) \in Message /\ Tail(msgQue) \in Seq(Message)
    BY <1>6, ToSetTail DEF TakeMsg
  <2>2. Head(msgQue) # <<>>
    BY <2>1, MessageNotEmpty
  <2>. QED
    BY <1>6, <2>1, <2>2 DEF TakeMsg
<1>7. CASE SendToServer
  <2>1. hand \in Message
    BY <1>7 DEF SendToServer
  <2>2. Append(wire[host], hand) \in Seq(Message)
    BY <2>1, ToSetAppend
  <2>. QED
    BY <1>7, <2>1, <2>2 DEF SendToServer
<1>8. CASE SendThrows
  BY <1>8 DEF SendThrows, Throw
<1>. QED
  BY <1>1, <1>2, <1>3, <1>4, <1>5, <1>6, <1>7, <1>8 DEF Client

\* The steps of the hosts and of their surroundings preserve it.
LEMMA HostType ==
  ASSUME TypeInv, NEW h \in Hosts,
         Host(h) \/ HostStarts(h) \/ HostDies(h) \/ ConnectionResets(h)
  PROVE  TypeInv'
<1>. USE DEF TypeInv, TypeOK, InHand, HostUnchanged, portVars, clientVars
<1>1. CASE HostReads(h)
  <2>1. /\ Head(wire[h]) \in Message /\ Tail(wire[h]) \in Seq(Message)
    BY <1>1, ToSetTail DEF HostReads
  <2>2. Append(delivered[h], Head(wire[h])) \in Seq(Message)
    BY <2>1, ToSetAppend
  <2>. QED
    BY <1>1, <2>1, <2>2 DEF HostReads
<1>2. CASE HostSeesEnd(h)
  BY <1>2 DEF HostSeesEnd
<1>3. CASE HostStarts(h)
  BY <1>3 DEF HostStarts
<1>4. ASSUME NEW s \in {"down", "listening"}, Drop(h, s)
      PROVE  TypeInv'
  <2>1. ToSet(wire[h]) \subseteq Message
    BY ToSetType
  <2>2. <<>> \in Seq(Message)
    BY EmptySeq
  <2>3. faults' \in 0..MaxFaults
    BY <1>4, AdapterAssumption DEF Drop
  <2>. QED
    BY <1>4, <2>1, <2>2, <2>3 DEF Drop
<1>. QED
  BY <1>1, <1>2, <1>3, <1>4 DEF Host, HostDies, ConnectionResets

\* Every step preserves it, and so does no step.
LEMMA TypeNext == TypeInv /\ [Next]_vars => TypeInv'
<1>. SUFFICES ASSUME TypeInv, [Next]_vars
              PROVE  TypeInv'
  OBVIOUS
<1>1. CASE UNCHANGED vars
  BY <1>1 DEF TypeInv, TypeOK, InHand, vars, portVars, clientVars, hostVars
<1>. QED
  BY <1>1, PortType, ClientType, HostType DEF Next, Environment

\* Hence it is an invariant.
LEMMA TypeCorrect == Spec => []TypeInv
  BY TypeInit, TypeNext, PTL DEF Spec

\* Every state of the Adapter and of its hosts is well-typed: the index into hostIps
\* stays in range, and what is queued, written and read are messages.
THEOREM TypeSafe == Spec => []TypeOK
  BY TypeCorrect, PTL DEF TypeInv

-----------------------------------------------------------------------------
(* The client does not block in takeMsg.                                   *)

\* Only the client takes from the queue, and when it does it leaves the loop.
LEMMA TakeNext == TypeInv /\ TakeInv /\ [Next]_vars => TakeInv'
<1>. SUFFICES ASSUME TypeInv, TakeInv, [Next]_vars
              PROVE  TakeInv'
  OBVIOUS
<1>. USE DEF TakeInv
<1>1. CASE UNCHANGED vars
  BY <1>1 DEF vars, clientVars
<1>2. ASSUME NEW p \in Ports, Port(p)
      PROVE  TakeInv'
  BY <1>2 DEF Port, EquipmentConnects, BindFails, EquipmentCloses, EquipmentBreaks, EquipmentSends,
     PortUnchanged, clientVars
<1>3. ASSUME NEW p \in Ports, PortPut(p)
      PROVE  TakeInv'
  <2>1. Head(portData[p]) \in Message /\ msgQue \in Seq(Message)
    BY <1>3, ToSetTail DEF PortPut, PortGoto, TypeInv, TypeOK, InHand
  <2>2. msgQue' # <<>>
    BY <1>3, <2>1, ToSetAppend DEF PortPut
  <2>. QED
    BY <2>2
<1>4. CASE Client
  BY <1>4 DEF Client, ConnectSucceeds, ConnectFails, PingAnswered, PingFails, Throw, QueueTest,
     TakeMsg, SendToServer, SendThrows, ClientGoto, ClientUnchanged
<1>5. ASSUME NEW h \in Hosts,
             Host(h) \/ HostStarts(h) \/ HostDies(h) \/ ConnectionResets(h)
      PROVE  TakeInv'
  BY <1>5 DEF Host, HostReads, HostSeesEnd, HostStarts, HostDies, ConnectionResets, Drop,
     HostUnchanged, clientVars
<1>. QED
  BY <1>1, <1>2, <1>3, <1>4, <1>5 DEF Next, Environment

\* The client, the only consumer, finds a message whenever it gets to takeMsg, however
\* long the ping between its look at the queue and the call has taken.
THEOREM TakeNeverBlocks == Spec => []NeverBlocksInTake
<1>1. Init => TakeInv
  BY DEF Init, TakeInv
<1>2. TakeInv => NeverBlocksInTake
  BY DEF TakeInv, NeverBlocksInTake
<1>. QED
  BY <1>1, <1>2, TakeNext, TypeCorrect, PTL DEF Spec

-----------------------------------------------------------------------------
(* A message is lost only behind a fault.                                  *)

\* As long as nothing failed, the client and the host it is connected to agree on the
\* connection, so that no ping and no write of it can fail.
LEMMA CalmNext == TypeInv /\ CalmInv /\ [Next]_vars => CalmInv'
<1>. SUFFICES ASSUME TypeInv, CalmInv, [Next]_vars, faults' = 0
              PROVE  lost' = {} /\ Calm'
  BY DEF CalmInv
<1>0. faults \in Nat /\ MaxFaults \in Nat /\ host \in Hosts
  BY AdapterAssumption DEF TypeInv, TypeOK
<1>1. faults = 0
  BY <1>0 DEF Next, Port, EquipmentConnects, BindFails, EquipmentCloses, EquipmentBreaks,
     EquipmentSends, PortPut, PortUnchanged, Client, ConnectSucceeds, ConnectFails,
     PingAnswered, PingFails, QueueTest, TakeMsg, SendToServer, SendThrows, ClientUnchanged,
     Host, HostReads, HostSeesEnd, Environment, HostStarts, HostDies, ConnectionResets, Drop, vars
<1>2. lost = {} /\ Calm
  BY <1>1 DEF CalmInv
<1>. USE DEF Calm
<1>3. CASE UNCHANGED vars
  BY <1>2, <1>3 DEF vars, clientVars, hostVars
<1>4. ASSUME NEW p \in Ports, Port(p) \/ PortPut(p)
      PROVE  lost' = {} /\ Calm'
  BY <1>2, <1>4 DEF Port, PortPut, EquipmentConnects, BindFails, EquipmentCloses,
     EquipmentBreaks, EquipmentSends, PortUnchanged, clientVars, hostVars
<1>5. CASE Client
  <2>. USE <1>2 DEF ClientGoto, ClientUnchanged, hostVars, TypeInv, TypeOK
  <2>1. CASE ConnectSucceeds
    BY <2>1 DEF ConnectSucceeds
  <2>2. CASE ConnectFails
    BY <2>2 DEF ConnectFails
  <2>3. CASE PingAnswered
    BY <2>3 DEF PingAnswered
  <2>4. CASE PingFails
    BY <1>0, <1>1, <2>4 DEF PingFails
  <2>5. CASE QueueTest
    BY <2>5 DEF QueueTest
  <2>6. CASE TakeMsg
    BY <2>6 DEF TakeMsg
  <2>7. CASE SendToServer
    BY <2>7 DEF SendToServer
  <2>8. CASE SendThrows
    BY <2>8 DEF SendThrows
  <2>. QED
    BY <1>5, <2>1, <2>2, <2>3, <2>4, <2>5, <2>6, <2>7, <2>8 DEF Client
<1>6. ASSUME NEW h \in Hosts,
             Host(h) \/ HostStarts(h) \/ HostDies(h) \/ ConnectionResets(h)
      PROVE  lost' = {} /\ Calm'
  <2>. USE <1>2 DEF HostUnchanged, clientVars, TypeInv, TypeOK
  <2>1. CASE HostReads(h)
    BY <2>1 DEF HostReads
  <2>2. CASE HostSeesEnd(h)
    BY <2>2 DEF HostSeesEnd
  <2>3. CASE HostStarts(h)
    BY <2>3 DEF HostStarts
  <2>4. CASE HostDies(h) \/ ConnectionResets(h)
    BY <1>0, <1>1, <2>4 DEF HostDies, ConnectionResets, Drop
  <2>. QED
    BY <1>6, <2>1, <2>2, <2>3, <2>4 DEF Host
<1>. QED
  BY <1>3, <1>4, <1>5, <1>6 DEF Next, Environment

\* The client may go back and forth between the hosts as often as it likes: what costs
\* a message is a failed ping, a broken connection or a host that died.
THEOREM LossCaused == Spec => []LossNeedsFault
<1>1. Init => CalmInv
  BY DEF Init, CalmInv, Calm
<1>2. TypeInv /\ CalmInv => LossNeedsFault
  BY AdapterAssumption DEF TypeInv, TypeOK, CalmInv, LossNeedsFault
<1>. QED
  BY <1>1, <1>2, CalmNext, TypeCorrect, PTL DEF Spec

-----------------------------------------------------------------------------
(* The order of the messages.                                              *)

\* What is in the places is a message, and no message is before itself.
LEMMA PlaceTypes ==
  ASSUME TypeInv
  PROVE  /\ \A p \in Ports : ToSet(portData[p]) \subseteq Message
         /\ ToSet(msgQue) \cup Held \cup Gone \subseteq Message
         /\ \A h \in Hosts : Reached(h) \subseteq Message
         /\ \A m \in Message : m[1] \in Ports /\ m[2] \in Nat /\ ~Before(m, m)
<1>1. /\ \A p \in Ports : ToSet(portData[p]) \subseteq Message
      /\ ToSet(msgQue) \subseteq Message
      /\ \A h \in Hosts : ToSet(wire[h]) \subseteq Message /\ ToSet(delivered[h]) \subseteq Message
  BY ToSetType DEF TypeInv, TypeOK
<1>2. Held \subseteq Message /\ lost \subseteq Message
  BY DEF Held, TypeInv, TypeOK
<1>3. \A h \in Hosts : Reached(h) \subseteq Message
  BY <1>1 DEF Reached
<1>4. Gone \subseteq Message
  BY <1>2, <1>3 DEF Gone
<1>5. ASSUME NEW m \in Message
      PROVE  m[1] \in Ports /\ m[2] \in Nat /\ ~Before(m, m)
  BY AdapterAssumption DEF Message, Before
<1>. QED
  BY <1>1, <1>2, <1>3, <1>4, <1>5

\* Init puts no message anywhere.
LEMMA OrderInit == Init => OrderInv /\ Kept
<1>. SUFFICES ASSUME Init PROVE OrderInv /\ Kept
  OBVIOUS
<1>1. /\ \A p \in Ports : ToSet(portData[p]) = {} /\ Increasing(portData[p])
      /\ ToSet(msgQue) = {} /\ Increasing(msgQue) /\ Held = {}
      /\ \A h \in Hosts : /\ ToSet(wire[h]) = {} /\ ToSet(delivered[h]) = {}
                          /\ Increasing(wire[h])
  BY ToSetEmpty DEF Init, Held
<1>2. \A h \in Hosts : Reached(h) = {}
  BY <1>1 DEF Reached
<1>3. Gone = {}
  BY <1>2 DEF Gone, Init
<1>4. InOrder /\ Apart /\ Came
  BY <1>1, <1>2, <1>3 DEF InOrder, AllBefore, Apart, Came
<1>5. Kept
  BY DEF Kept, Init
<1>. QED
  BY <1>4, <1>5 DEF OrderInv

\* A step that moves no message keeps all of it.
LEMMA OrderUnmoved ==
  ASSUME OrderInv, Kept, UNCHANGED <<msgQue, portData, accepted, hand, wire, delivered, lost>>
  PROVE  OrderInv' /\ Kept'
<1>1. Held' = Held /\ \A h \in Hosts : Reached(h)' = Reached(h)
  BY DEF Held, Reached
<1>2. Gone' = Gone
  BY <1>1 DEF Gone
<1>3. InOrder'
  BY <1>1, <1>2 DEF OrderInv, InOrder
<1>4. Apart'
  BY <1>1 DEF OrderInv, Apart
<1>5. Came' /\ Kept'
  BY <1>1, <1>2 DEF OrderInv, Came, Kept
<1>. QED
  BY <1>3, <1>4, <1>5 DEF OrderInv

\* What a port reads is later than anything it has read; what it queues stays in order.
LEMMA OrderPort ==
  ASSUME TypeInv, OrderInv, Kept, NEW p \in Ports, Port(p) \/ PortPut(p)
  PROVE  OrderInv' /\ Kept'
<1>. USE DEF OrderInv, InOrder, Apart, Came, Kept, AllBefore, Before
<1>1. Held' = Held /\ Gone' = Gone /\ (\A h \in Hosts : Reached(h)' = Reached(h))
  BY DEF Held, Gone, Reached, Port, PortPut, EquipmentConnects, BindFails, EquipmentCloses,
     EquipmentBreaks, EquipmentSends, PortUnchanged, clientVars, hostVars
<1>2. wire' = wire /\ delivered' = delivered /\ lost' = lost
  BY DEF Port, PortPut, EquipmentConnects, BindFails, EquipmentCloses,
     EquipmentBreaks, EquipmentSends, PortUnchanged, clientVars, hostVars
<1>3. CASE EquipmentConnects(p) \/ BindFails(p) \/ EquipmentCloses(p) \/ EquipmentBreaks(p)
  <2>1. msgQue' = msgQue /\ portData' = portData /\ accepted' = accepted
    BY <1>3 DEF EquipmentConnects, BindFails, EquipmentCloses, EquipmentBreaks
  <2>. QED
    BY <1>1, <1>2, <2>1
<1>4. ASSUME NEW n \in 1..MaxChunk, EquipmentSends(p, n)
      PROVE  OrderInv' /\ Kept'
  <2>. DEFINE c == [i \in 1..n |-> <<p, accepted[p] + i>>]
              k == accepted[p]
  <2>1. n \in Nat \ {0} /\ accepted \in [Ports -> Nat] /\ k + n <= MaxMsgs /\ MaxMsgs \in Nat
    BY <1>4, AdapterAssumption DEF EquipmentSends, TypeInv, TypeOK
  <2>2. Increasing(c) /\ ToSet(c) = {<<p, i>> : i \in (k + 1)..(k + n)}
    BY <2>1, ChunkRead
  <2>3. /\ portData' = [portData EXCEPT ![p] = c] /\ accepted' = [accepted EXCEPT ![p] = k + n]
        /\ msgQue' = msgQue /\ portData \in [Ports -> Seq(Message)]
        /\ ToSet(portData[p]) = {}
    BY <1>4, ToSetEmpty DEF EquipmentSends, PortGoto, TypeInv, TypeOK, InHand
  <2>. HIDE DEF c, k
  <2>4. InOrder'
    <3>1. \A m \in ToSet(msgQue) \cup Held \cup Gone : m[1] = p => m[2] <= k
      BY DEF k
    <3>2. AllBefore(ToSet(msgQue) \cup Held \cup Gone, ToSet(c))
      BY <2>1, <2>2, <3>1, PlaceTypes DEF k
    <3>. QED
      BY <1>1, <1>2, <2>2, <2>3, <3>2
  <2>5. Apart'
    BY <1>1, <1>2
  <2>6. Came'
    <3>1. \A q \in Ports : accepted'[q] \in Nat /\ accepted[q] \in Nat /\ accepted[q] <= accepted'[q]
      BY <2>1, <2>3 DEF k
    <3>2. \A m \in ToSet(c) : m[1] = p /\ m[2] <= accepted'[p]
      BY <2>1, <2>2, <2>3 DEF k
    <3>3. \A m \in ToSet(msgQue) \cup Held \cup Gone : m[2] <= accepted'[m[1]]
      BY <3>1, PlaceTypes
    <3>4. \A q \in Ports : \A m \in ToSet(portData'[q]) : m[1] = q /\ m[2] <= accepted'[q]
      BY <2>3, <3>1, <3>2, PlaceTypes
    <3>. QED
      BY <1>1, <2>3, <3>3, <3>4
  <2>7. Kept'
    <3>. SUFFICES ASSUME NEW q \in Ports, NEW i \in 1..accepted'[q]
                  PROVE  <<q, i>> \in ToSet(portData'[q]) \cup ToSet(msgQue') \cup Held' \cup Gone'
      OBVIOUS
    <3>1. CASE i \in 1..accepted[q]
      BY <1>1, <2>3, <3>1
    <3>2. CASE i \notin 1..accepted[q]
      <4>1. q = p /\ i \in (k + 1)..(k + n)
        BY <2>1, <2>3, <3>2 DEF k
      <4>2. <<q, i>> \in ToSet(c)
        BY <2>2, <4>1
      <4>. QED
        BY <2>3, <4>1, <4>2
    <3>. QED
      BY <3>1, <3>2
  <2>. QED
    BY <2>4, <2>5, <2>6, <2>7
<1>5. CASE PortPut(p)
  <2>. DEFINE m == Head(portData[p])
              r == Tail(portData[p])
  <2>1. portData \in [Ports -> Seq(Message)] /\ portData[p] # <<>> /\ msgQue \in Seq(Message)
    BY <1>5 DEF PortPut, PortGoto, TypeInv, TypeOK, InHand
  <2>2. /\ m \in Message /\ ToSet(portData[p]) = {m} \cup ToSet(r)
        /\ Increasing(r) /\ AllBefore({m}, ToSet(r))
    BY <2>1, ToSetTail
  <2>3. AllBefore(ToSet(msgQue), {m}) /\ m[1] = p
    BY <2>2
  <2>4. Increasing(msgQue') /\ ToSet(msgQue') = ToSet(msgQue) \cup {m}
    BY <1>5, <2>1, <2>2, <2>3, ToSetAppend DEF PortPut
  <2>5. portData' = [portData EXCEPT ![p] = r] /\ accepted' = accepted
    BY <1>5 DEF PortPut
  <2>. HIDE DEF m, r
  <2>6. InOrder'
    <3>1. \A q \in Ports : Increasing(portData'[q])
      BY <2>1, <2>2, <2>5
    <3>2. AllBefore(Held \cup Gone, ToSet(msgQue'))
      BY <2>2, <2>4
    <3>3. \A q \in Ports : AllBefore(ToSet(msgQue') \cup Held \cup Gone, ToSet(portData'[q]))
      BY <2>1, <2>2, <2>3, <2>4, <2>5
    <3>. QED
      BY <1>1, <1>2, <2>4, <3>1, <3>2, <3>3
  <2>7. Apart'
    BY <1>1, <1>2
  <2>8. Came'
    BY <1>1, <2>1, <2>2, <2>3, <2>4, <2>5
  <2>9. Kept'
    BY <1>1, <2>1, <2>2, <2>4, <2>5
  <2>. QED
    BY <2>6, <2>7, <2>8, <2>9
<1>. QED
  BY <1>3, <1>4, <1>5 DEF Port

\* A throw and a write move the message in hand, if any, to the ones that are gone.
LEMMA OrderHandOver ==
  ASSUME TypeInv, OrderInv, Kept, NEW h \in Hosts, Held' = {},
         UNCHANGED <<msgQue, portData, accepted, delivered>>,
         \/ lost' = lost \cup Held /\ wire' = wire
         \/ /\ hand \in Message /\ UNCHANGED lost
            /\ wire' = [wire EXCEPT ![h] = Append(@, hand)]
  PROVE  OrderInv' /\ Kept'
<1>. USE DEF OrderInv, InOrder, Apart, Came, Kept, AllBefore, Before
<1>1. wire \in [Hosts -> Seq(Message)]
  BY DEF TypeInv, TypeOK
<1>2. CASE lost' = lost \cup Held /\ wire' = wire
  <2>1. /\ \A g \in Hosts : Reached(g)' = Reached(g)
        /\ Gone' = Gone \cup Held
    BY <1>2 DEF Reached, Gone
  <2>2. \A g \in Hosts : Reached(g) \cap Held = {}
    BY PlaceTypes DEF Gone
  <2>. QED
    BY <1>2, <2>1, <2>2
<1>3. CASE /\ hand \in Message /\ UNCHANGED lost
           /\ wire' = [wire EXCEPT ![h] = Append(@, hand)]
  <2>1. Held = {hand}
    BY <1>3, MessageNotEmpty DEF Held
  <2>2. \A g \in Hosts : Reached(g) \subseteq Gone /\ ToSet(wire[g]) \subseteq Reached(g)
                         /\ ToSet(delivered[g]) \subseteq Reached(g)
    BY DEF Gone, Reached
  <2>3. AllBefore(ToSet(wire[h]), {hand}) /\ AllBefore(ToSet(delivered[h]), {hand})
    BY <2>1, <2>2
  <2>4. Increasing(wire'[h]) /\ ToSet(wire'[h]) = ToSet(wire[h]) \cup {hand}
    BY <1>1, <1>3, <2>3, ToSetAppend
  <2>5. \A g \in Hosts : g # h => wire'[g] = wire[g]
    BY <1>1, <1>3
  <2>6. /\ Reached(h)' = Reached(h) \cup {hand}
        /\ \A g \in Hosts : g # h => Reached(g)' = Reached(g)
    BY <2>4, <2>5 DEF Reached
  <2>7. Gone' = Gone \cup Held
    BY <1>3, <2>1, <2>6 DEF Gone
  <2>8. hand \notin Gone /\ lost \subseteq Gone
    BY <1>3, <2>1, PlaceTypes DEF Gone
  <2>9. InOrder'
    BY <2>3, <2>4, <2>5, <2>7
  <2>10. Apart'
    BY <1>3, <2>2, <2>6, <2>8
  <2>. QED
    BY <2>7, <2>9, <2>10
<1>. QED
  BY <1>2, <1>3

\* The client takes from the queue in order, and hands over what it holds.
LEMMA OrderClient ==
  ASSUME TypeInv, OrderInv, Kept, Client
  PROVE  OrderInv' /\ Kept'
<1>. USE DEF ClientGoto, ClientUnchanged, hostVars, portVars
<1>1. CASE ConnectSucceeds \/ ConnectFails \/ PingAnswered \/ QueueTest
  <2>1. UNCHANGED <<msgQue, portData, accepted, hand, wire, delivered, lost>>
    BY <1>1 DEF ConnectSucceeds, ConnectFails, PingAnswered, QueueTest
  <2>. QED
    BY <2>1, OrderUnmoved
<1>2. CASE PingFails \/ SendThrows
  <2>1. /\ lost' = lost \cup Held /\ hand' = <<>>
        /\ UNCHANGED <<msgQue, portData, accepted, wire, delivered>>
    BY <1>2 DEF PingFails, SendThrows, Throw, Held
  <2>2. Held' = {} /\ host \in Hosts
    BY <2>1 DEF Held, TypeInv, TypeOK
  <2>. QED
    BY <2>1, <2>2, OrderHandOver
<1>3. CASE SendToServer
  <2>1. /\ hand \in Message /\ host \in Hosts /\ Held = {hand} /\ hand' = <<>>
        /\ UNCHANGED <<msgQue, portData, accepted, delivered>>
    BY <1>3, MessageNotEmpty DEF SendToServer, TypeInv, TypeOK, InHand, Held
  <2>2. Held' = {}
    BY <2>1 DEF Held
  <2>3. \/ lost' = lost \cup Held /\ wire' = wire
        \/ UNCHANGED lost /\ wire' = [wire EXCEPT ![host] = Append(@, hand)]
    BY <1>3, <2>1 DEF SendToServer
  <2>. QED
    BY <2>1, <2>2, <2>3, OrderHandOver
<1>4. CASE TakeMsg
  <2>. USE DEF OrderInv, InOrder, Apart, Came, Kept, AllBefore, Before
  <2>1. Held = {} /\ msgQue \in Seq(Message) /\ msgQue # <<>>
    BY <1>4 DEF TakeMsg, TypeInv, TypeOK, InHand, Held
  <2>2. /\ hand' \in Message /\ ToSet(msgQue) = {hand'} \cup ToSet(msgQue')
        /\ Increasing(msgQue') /\ AllBefore({hand'}, ToSet(msgQue'))
    BY <1>4, <2>1, ToSetTail DEF TakeMsg
  <2>3. Held' = {hand'}
    BY <2>2, MessageNotEmpty DEF Held
  <2>4. UNCHANGED <<portData, accepted, wire, delivered, lost>>
    BY <1>4 DEF TakeMsg
  <2>5. Gone' = Gone /\ \A h \in Hosts : Reached(h)' = Reached(h)
    BY <2>4 DEF Gone, Reached
  <2>6. InOrder'
    <3>1. /\ \A p \in Ports : Increasing(portData'[p])
          /\ \A h \in Hosts : /\ Increasing(wire'[h])
                             /\ AllBefore(ToSet(delivered'[h]), ToSet(wire'[h]))
      BY <2>4
    <3>2. \A p \in Ports : AllBefore(ToSet(msgQue') \cup Held' \cup Gone', ToSet(portData'[p]))
      BY <2>1, <2>2, <2>3, <2>4, <2>5
    <3>3. AllBefore(Held' \cup Gone', ToSet(msgQue')) /\ AllBefore(Gone', Held')
      BY <2>1, <2>2, <2>3, <2>4, <2>5
    <3>. QED
      BY <2>2, <3>1, <3>2, <3>3
  <2>7. Apart'
    BY <2>4, <2>5
  <2>8. Came' /\ Kept'
    BY <2>1, <2>2, <2>3, <2>4, <2>5
  <2>. QED
    BY <2>6, <2>7, <2>8
<1>. QED
  BY <1>1, <1>2, <1>3, <1>4 DEF Client

\* A host reads in order, and what is dropped was on the wire to it.
LEMMA OrderHost ==
  ASSUME TypeInv, OrderInv, Kept, NEW h \in Hosts,
         Host(h) \/ HostStarts(h) \/ HostDies(h) \/ ConnectionResets(h)
  PROVE  OrderInv' /\ Kept'
<1>. USE DEF OrderInv, InOrder, Apart, Came, Kept, AllBefore, Before, HostUnchanged,
             portVars, clientVars
<1>1. wire \in [Hosts -> Seq(Message)] /\ delivered \in [Hosts -> Seq(Message)]
  BY DEF TypeInv, TypeOK
<1>2. CASE HostSeesEnd(h) \/ HostStarts(h)
  <2>1. UNCHANGED <<msgQue, portData, accepted, hand, wire, delivered, lost>>
    BY <1>2 DEF HostSeesEnd, HostStarts
  <2>. QED
    BY <2>1, OrderUnmoved
<1>3. CASE HostReads(h)
  <2>. DEFINE m == Head(wire[h])
              r == Tail(wire[h])
  <2>1. /\ m \in Message /\ ToSet(wire[h]) = {m} \cup ToSet(r)
        /\ Increasing(r) /\ AllBefore({m}, ToSet(r))
    BY <1>1, <1>3, ToSetTail DEF HostReads
  <2>2. ToSet(Append(delivered[h], m)) = ToSet(delivered[h]) \cup {m}
    BY <1>1, <2>1, ToSetAppend
  <2>3. wire' = [wire EXCEPT ![h] = r] /\ delivered' = [delivered EXCEPT ![h] = Append(@, m)]
    BY <1>3 DEF HostReads
  <2>4. UNCHANGED <<msgQue, portData, accepted, hand, lost>>
    BY <1>3 DEF HostReads
  <2>. HIDE DEF m, r
  <2>5. \A g \in Hosts : Reached(g)' = Reached(g)
    BY <1>1, <2>1, <2>2, <2>3 DEF Reached
  <2>6. Held' = Held /\ Gone' = Gone
    BY <2>4, <2>5 DEF Held, Gone
  <2>7. \A g \in Hosts : Increasing(wire'[g]) /\ AllBefore(ToSet(delivered'[g]), ToSet(wire'[g]))
    BY <1>1, <2>1, <2>2, <2>3
  <2>. QED
    BY <2>4, <2>5, <2>6, <2>7
<1>4. ASSUME NEW s \in {"down", "listening"}, Drop(h, s)
      PROVE  OrderInv' /\ Kept'
  <2>1. /\ lost' = lost \cup ToSet(wire[h]) /\ wire' = [wire EXCEPT ![h] = <<>>]
        /\ UNCHANGED <<msgQue, portData, accepted, hand, delivered>>
    BY <1>4 DEF Drop
  <2>2. ToSet(<<>>) = {} /\ Increasing(<<>>)
    BY ToSetEmpty
  <2>3. /\ Reached(h)' = ToSet(delivered[h])
        /\ \A g \in Hosts : g # h => Reached(g)' = Reached(g)
    BY <1>1, <2>1, <2>2 DEF Reached
  <2>4. Held' = Held /\ Gone' = Gone
    <3>1. \A g \in Hosts : Reached(g)' \subseteq Reached(g)
      BY <2>3 DEF Reached
    <3>2. Reached(h) = Reached(h)' \cup ToSet(wire[h])
      BY <2>3 DEF Reached
    <3>. QED
      BY <2>1, <2>3, <3>1, <3>2 DEF Held, Gone
  <2>5. \A g \in Hosts : Increasing(wire'[g]) /\ AllBefore(ToSet(delivered'[g]), ToSet(wire'[g]))
    BY <1>1, <2>1, <2>2
  <2>6. ToSet(delivered[h]) \cap ToSet(wire[h]) = {}
    BY PlaceTypes DEF Reached
  <2>7. Apart'
    BY <2>1, <2>3, <2>6 DEF Reached
  <2>. QED
    BY <2>1, <2>4, <2>5, <2>7
<1>. QED
  BY <1>2, <1>3, <1>4 DEF Host, HostDies, ConnectionResets

\* Every step keeps the places in order and complete.
LEMMA OrderNext == TypeInv /\ OrderInv /\ Kept /\ [Next]_vars => OrderInv' /\ Kept'
<1>. SUFFICES ASSUME TypeInv, OrderInv, Kept, [Next]_vars
              PROVE  OrderInv' /\ Kept'
  OBVIOUS
<1>1. CASE UNCHANGED vars
  <2>1. UNCHANGED <<msgQue, portData, accepted, hand, wire, delivered, lost>>
    BY <1>1 DEF vars, portVars, clientVars, hostVars
  <2>. QED
    BY <2>1, OrderUnmoved
<1>. QED
  BY <1>1, OrderPort, OrderClient, OrderHost DEF Next, Environment

\* Hence they always are.
LEMMA OrderCorrect == Spec => [](TypeInv /\ OrderInv /\ Kept)
  BY TypeInit, TypeNext, OrderInit, OrderNext, PTL DEF Spec

-----------------------------------------------------------------------------
(* The Adapter implements module Forwarder.                                *)

\* A read of a host delivers a message that came in, that no host has, and that is
\* later than all the host has of its port.
LEMMA DeliverStep ==
  ASSUME TypeInv, OrderInv, NEW h \in Hosts, HostReads(h)
  PROVE  \E p \in Ports : \E n \in 1..accepted[p] : Promise!Deliver(h, p, n)
<1>. DEFINE m == Head(wire[h])
<1>1. wire[h] \in Seq(Message) /\ wire[h] # <<>>
  BY DEF HostReads, TypeInv, TypeOK
<1>2. m \in Message /\ m \in ToSet(wire[h])
  BY <1>1, ToSetTail
<1>. HIDE DEF m
<1>3. PICK p \in Ports, n \in 1..MaxMsgs : m = <<p, n>>
  BY <1>2 DEF Message
<1>4. m[1] = p /\ m[2] = n /\ n \in Nat \ {0}
  BY <1>3, AdapterAssumption
<1>5. m \in Reached(h) /\ m \in Gone
  BY <1>2 DEF Reached, Gone
<1>6. n <= accepted[p] /\ accepted[p] \in Nat
  BY <1>4, <1>5, AdapterAssumption DEF OrderInv, Came, TypeInv, TypeOK
<1>7. \A d \in ToSet(delivered[h]) : Before(d, m)
  BY <1>2 DEF OrderInv, InOrder, AllBefore
<1>8. m \notin ToSet(delivered[h])
  BY <1>2, <1>7, PlaceTypes
<1>9. \A g \in Hosts : g # h => m \notin ToSet(delivered[g])
  BY <1>5 DEF OrderInv, Apart, Reached
<1>10. <<p, n>> \notin Promise!Delivered
  BY <1>3, <1>8, <1>9 DEF Promise!Delivered, Promise!ToSet, ToSet
<1>11. \A d \in ToSet(delivered[h]) : d[1] = p => d[2] < n
  BY <1>4, <1>7 DEF Before
<1>12. /\ delivered' = [delivered EXCEPT ![h] = Append(@, <<p, n>>)]
       /\ accepted' = accepted
  BY <1>3 DEF HostReads, HostUnchanged, portVars, m
<1>13. Promise!Deliver(h, p, n)
  BY <1>6, <1>10, <1>11, <1>12 DEF Promise!Deliver, Promise!ToSet, ToSet
<1>. QED
  BY <1>4, <1>6, <1>13

\* Every step of the Adapter and its hosts is a step of Forwarder or none: a port
\* accepts, a host reads, and nothing else shows.
LEMMA ForwardStep ==
  ASSUME TypeInv, OrderInv, [Next]_vars
  PROVE  [Promise!Next]_<<accepted, delivered>>
<1>1. CASE UNCHANGED vars
  BY <1>1 DEF vars, portVars, hostVars
<1>2. ASSUME NEW p \in Ports, Port(p) \/ PortPut(p)
      PROVE  [Promise!Next]_<<accepted, delivered>>
  <2>1. CASE \E n \in 1..MaxChunk : EquipmentSends(p, n)
    <3>1. PICK n \in 1..MaxChunk : EquipmentSends(p, n)
      BY <2>1
    <3>2. /\ accepted' = [accepted EXCEPT ![p] = accepted[p] + n]
          /\ accepted \in [Ports -> Nat] /\ n \in Nat \ {0} /\ delivered' = delivered
      BY <3>1, AdapterAssumption DEF EquipmentSends, PortUnchanged, hostVars, TypeInv, TypeOK
    <3>3. Promise!Accept(p)
      BY <3>2 DEF Promise!Accept
    <3>. QED
      BY <3>3 DEF Promise!Next
  <2>2. CASE ~ \E n \in 1..MaxChunk : EquipmentSends(p, n)
    BY <1>2, <2>2 DEF Port, PortPut, EquipmentConnects, BindFails, EquipmentCloses,
       EquipmentBreaks, PortUnchanged, hostVars
  <2>. QED
    BY <2>1, <2>2
<1>3. CASE Client
  BY <1>3 DEF Client, ConnectSucceeds, ConnectFails, PingAnswered, PingFails, QueueTest,
     TakeMsg, SendToServer, SendThrows, Throw, ClientUnchanged, portVars, hostVars
<1>4. ASSUME NEW h \in Hosts,
             Host(h) \/ HostStarts(h) \/ HostDies(h) \/ ConnectionResets(h)
      PROVE  [Promise!Next]_<<accepted, delivered>>
  <2>1. CASE HostReads(h)
    BY <2>1, DeliverStep DEF Promise!Next
  <2>2. CASE ~HostReads(h)
    BY <1>4, <2>2 DEF Host, HostSeesEnd, HostStarts, HostDies, ConnectionResets, Drop,
       HostUnchanged, portVars
  <2>. QED
    BY <2>1, <2>2
<1>. QED
  BY <1>1, <1>2, <1>3, <1>4 DEF Next, Environment

\* Whatever breaks, and however often the client changes its host: a message reaches at
\* most one host, once, and a host gets the messages of a port in their order.
THEOREM Forwards == Spec => ForwardsAtMostOnce
<1>1. Init => Promise!Init
  BY DEF Init, Promise!Init
<1>2. TypeInv /\ OrderInv /\ [Next]_vars => [Promise!Next]_<<accepted, delivered>>
  BY ForwardStep
<1>. QED
  BY <1>1, <1>2, OrderCorrect, PTL DEF Spec, ForwardsAtMostOnce, Promise!Spec

-----------------------------------------------------------------------------
(* Every message is in exactly one place.                                  *)

\* The order keeps the places apart: a later one cannot hold what an earlier one does.
LEMMA PlacesApart ==
  ASSUME TypeInv, OrderInv, NEW m \in Message
  PROVE  /\ m \in Gone => m \notin Held /\ m \notin ToSet(msgQue)
         /\ m \in Held => m \notin ToSet(msgQue)
         /\ m \in ToSet(msgQue) \cup Held \cup Gone => \A p \in Ports : m \notin ToSet(portData[p])
         /\ \A h \in Hosts : m \in ToSet(delivered[h]) => m \notin ToSet(wire[h])
         /\ \A g, h \in Hosts : m \in Reached(g) /\ m \in Reached(h) => g = h
         /\ \A h \in Hosts : m \in Reached(h) => m \notin lost
  BY PlaceTypes DEF OrderInv, InOrder, Apart, AllBefore

\* What sets of one host and of none add to a sum.
LEMMA HostCount ==
  ASSUME NEW S \in SUBSET Hosts
  PROVE  /\ S = {} => Cardinality(S) = 0
         /\ \A h : S = {h} => Cardinality(S) = 1
  BY FS_EmptySet, FS_Singleton

\* Whatever fails, no message is copied, none disappears unseen: one that came in is
\* with its port, queued, in hand, on the wire to one host, read by one, or given up.
THEOREM AllAccounted == Spec => []Accounted
<1>1. TypeInv /\ OrderInv /\ Kept => Accounted
  <2>. SUFFICES ASSUME TypeInv, OrderInv, Kept, NEW p \in Ports, NEW n \in 1..accepted[p]
                PROVE  Whereabouts(<<p, n>>) = 1
    BY DEF Accounted
  <2>. DEFINE m == <<p, n>>
              W == {h \in Hosts : m \in ToSet(wire[h])}
              D == {h \in Hosts : m \in ToSet(delivered[h])}
              port == \E q \in Ports : m \in ToSet(portData[q])
              queued == m \in ToSet(msgQue)
              given == m \in lost
              inhand == m = hand
              reached == \E h \in Hosts : m \in Reached(h)
  <2>1. accepted[p] \in 0..MaxMsgs /\ MaxMsgs \in Nat
    BY AdapterAssumption DEF TypeInv, TypeOK
  <2>2. n \in 1..MaxMsgs
    BY <2>1
  <2>3. m \in Message /\ m # <<>>
    BY <2>2, MessageNotEmpty DEF Message
  <2>4. inhand <=> m \in Held
    BY <2>3 DEF Held
  <2>5. m \in Gone <=> given \/ reached
    BY DEF Gone
  <2>6. m \in ToSet(portData[p]) \/ queued \/ m \in Held \/ m \in Gone
    BY DEF Kept
  <2>7. port \/ queued \/ inhand \/ given \/ reached
    BY <2>4, <2>5, <2>6
  <2>8. /\ port => ~queued /\ ~inhand /\ ~given /\ ~reached
        /\ queued => ~inhand /\ ~given /\ ~reached
        /\ inhand => ~given /\ ~reached
        /\ given => ~reached
    <3>1. m \in Gone => m \notin Held /\ m \notin ToSet(msgQue)
      BY <2>3, PlacesApart
    <3>2. m \in Held => m \notin ToSet(msgQue)
      BY <2>3, PlacesApart
    <3>3. m \in ToSet(msgQue) \cup Held \cup Gone => \A q \in Ports : m \notin ToSet(portData[q])
      BY <2>3, PlacesApart
    <3>4. \A h \in Hosts : m \in Reached(h) => m \notin lost
      BY <2>3, PlacesApart
    <3>. HIDE DEF m
    <3>. QED
      BY <2>4, <2>5, <3>1, <3>2, <3>3, <3>4
  <2>9. ~reached => W = {} /\ D = {}
    BY DEF Reached
  <2>10. reached => (\E h \in Hosts : W = {h} /\ D = {}) \/ (\E h \in Hosts : W = {} /\ D = {h})
    <3>. SUFFICES ASSUME reached
                  PROVE  (\E h \in Hosts : W = {h} /\ D = {}) \/ (\E h \in Hosts : W = {} /\ D = {h})
      OBVIOUS
    <3>1. PICK h \in Hosts : m \in Reached(h)
      OBVIOUS
    <3>2. \A g \in Hosts : m \in Reached(g) => g = h
      BY <2>3, <3>1, PlacesApart
    <3>3. \A g \in W \cup D : g = h
      BY <3>2 DEF Reached
    <3>4. h \in W \cup D
      BY <3>1 DEF Reached
    <3>5. h \in D => h \notin W
      BY <2>3, PlacesApart
    <3>. HIDE DEF W, D
    <3>6. CASE h \in D
      BY <3>3, <3>5, <3>6
    <3>7. CASE h \notin D
      BY <3>3, <3>4, <3>7
    <3>. QED
      BY <3>6, <3>7
  <2>11. Cardinality(W) + Cardinality(D) = IF reached THEN 1 ELSE 0
    <3>1. W \in SUBSET Hosts /\ D \in SUBSET Hosts
      OBVIOUS
    <3>2. /\ W = {} => Cardinality(W) = 0
          /\ \A h : W = {h} => Cardinality(W) = 1
          /\ D = {} => Cardinality(D) = 0
          /\ \A h : D = {h} => Cardinality(D) = 1
      BY <3>1, HostCount
    <3>. HIDE DEF W, D, reached
    <3>3. CASE ~reached
      <4>1. Cardinality(W) = 0 /\ Cardinality(D) = 0
        BY <2>9, <3>2, <3>3
      <4>. QED
        BY <3>3, <4>1
    <3>4. CASE reached
      <4>1. \/ Cardinality(W) = 1 /\ Cardinality(D) = 0
            \/ Cardinality(W) = 0 /\ Cardinality(D) = 1
        BY <2>10, <3>2, <3>4, Zenon
      <4>. QED
        BY <3>4, <4>1
    <3>. QED
      BY <3>3, <3>4
  <2>12. Whereabouts(m) = (Cardinality(W) + Cardinality(D)) + (IF given THEN 1 ELSE 0)
           + (IF inhand THEN 1 ELSE 0) + (IF queued THEN 1 ELSE 0) + (IF port THEN 1 ELSE 0)
    BY DEF Whereabouts
  <2>. HIDE DEF W, D, given, inhand, queued, port, reached
  <2>13. Whereabouts(m) = 1
    BY <2>7, <2>8, <2>11, <2>12
  <2>. QED
    BY <2>13
<1>. QED
  BY <1>1, OrderCorrect, PTL

=============================================================================
