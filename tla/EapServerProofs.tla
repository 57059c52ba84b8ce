--------------------------- MODULE EapServerProofs ---------------------------
(***************************************************************************)
(* Theorems about the EAP server, for any connections and bounds: its      *)
(* types, that each message is in exactly one place, and that it           *)
(* implements module Forwarder although it writes a message again.         *)
(***************************************************************************)
EXTENDS EapServer, OrderedMessages

-----------------------------------------------------------------------------
(* The invariants.                                                         *)

\* The message that was taken last is a message from the take on until the write
\* returns, and a request thread has data exactly while it queues them.
HandInv ==
  /\ ~lastSendSucc => msg \in Message
  /\ upPc \in {"answer", "write", "flush"} => ~lastSendSucc
  /\ \A c \in Clients : reqPc[c] = "enqueue" <=> reqData[c] # <<>>

TypeInv == TypeOK /\ HandInv

\* The places a message can be in, from the equipment to the servers.
Held       == IF lastSendSucc THEN {} ELSE {msg}
Reached(s) == ToSet(wire[s]) \cup ToSet(delivered[s])
Gone       == lost \cup UNION {Reached(s) : s \in Servers}

\* Each place holds its messages in the order of their connection, and later ones than
\* the places behind it.  The message in hand is behind the buffer: a retry finds
\* everything written before it gone.
InOrder ==
  /\ \A c \in Clients : Increasing(reqData[c])
  /\ Increasing(sendToSrvQue) /\ Increasing(buffer)
  /\ \A s \in Servers : Increasing(wire[s]) /\ AllBefore(ToSet(delivered[s]), ToSet(wire[s]))
  /\ \A c \in Clients :
       AllBefore(ToSet(sendToSrvQue) \cup Held \cup ToSet(buffer) \cup Gone, ToSet(reqData[c]))
  /\ AllBefore(Held \cup ToSet(buffer) \cup Gone, ToSet(sendToSrvQue))
  /\ AllBefore(ToSet(buffer) \cup Gone, Held)
  /\ AllBefore(Gone, ToSet(buffer))

\* No message is at two servers, or both at a server and lost.
Apart ==
  /\ \A r, s \in Servers : r # s => Reached(r) \cap Reached(s) = {}
  /\ \A s \in Servers : Reached(s) \cap lost = {}

\* A message that is somewhere has come in, on its own connection.
Came ==
  /\ \A c \in Clients : \A m \in ToSet(reqData[c]) : m[1] = c /\ m[2] <= accepted[c]
  /\ \A m \in ToSet(sendToSrvQue) \cup Held \cup ToSet(buffer) \cup Gone : m[2] <= accepted[m[1]]

\* A message that has come in is somewhere.
Kept ==
  \A c \in Clients : \A n \in 1..accepted[c] :
    <<c, n>> \in ToSet(reqData[c]) \cup ToSet(sendToSrvQue) \cup Held \cup ToSet(buffer) \cup Gone

OrderInv == InOrder /\ Apart /\ Came

-----------------------------------------------------------------------------
(* The type invariant.                                                     *)

\* Nobody takes a message for an empty hand.
LEMMA MessageNotEmpty == <<>> \notin Message
  BY PairNotEmpty DEF Message

\* What a request thread read: n messages, numbered from k + 1 on.
LEMMA ChunkRead ==
  ASSUME NEW p \in Clients, NEW k \in Nat, NEW n \in Nat \ {0}, k + n <= MaxMsgs,
         NEW c, c = [i \in 1..n |-> <<p, k + i>>]
  PROVE  /\ c \in Seq(Message) /\ c # <<>> /\ Increasing(c)
         /\ ToSet(c) = {<<p, i>> : i \in (k + 1)..(k + n)}
<1>1. MaxMsgs \in Nat
  BY EapAssumption
<1>2. \A i \in 1..n : k + i \in 1..MaxMsgs
  BY <1>1
<1>3. c \in [1..n -> Message]
  BY <1>2 DEF Message
<1>4. c \in Seq(Message)
  BY <1>3, SeqDef
<1>5. DOMAIN c = 1..n
  OBVIOUS
<1>6. c # <<>>
  <2>1. 1 \in 1..n
    OBVIOUS
  <2>2. DOMAIN <<>> = {}
    BY EmptySeq
  <2>. QED
    BY <1>5, <2>1, <2>2, Zenon
<1>7. Increasing(c)
  BY <1>5 DEF Increasing, Before
<1>8. ToSet(c) = {<<p, i>> : i \in (k + 1)..(k + n)}
  <2>1. \A i \in (k + 1)..(k + n) : i - k \in 1..n /\ k + (i - k) = i
    OBVIOUS
  <2>2. \A i \in 1..n : k + i \in (k + 1)..(k + n)
    OBVIOUS
  <2>. QED
    BY <1>5, <2>1, <2>2 DEF ToSet
<1>. QED
  BY <1>4, <1>6, <1>7, <1>8

\* It holds at the start.
LEMMA TypeInit == Init => TypeInv
<1>1. <<>> \in Seq(Message) /\ Len(<<>>) = 0
  BY EmptySeq
<1>2. 0 \in 0..MaxMsgs /\ 0 \in 0..MaxFaults /\ 1 \in Servers /\ 0 <= BufCap
  BY EapAssumption DEF Servers
<1>. QED
  BY <1>1, <1>2 DEF Init, TypeInv, TypeOK, HandInv

\* The steps of the request threads and of the equipment preserve it.
LEMMA RequestType ==
  ASSUME TypeInv, NEW c \in Clients, Request(c) \/ EnServerQueue(c)
  PROVE  TypeInv'
<1>. USE DEF TypeInv, TypeOK, HandInv, ReqUnchanged, upVars, srvVars, ReqGoto
<1>1. CASE ClientConnects(c)
  BY <1>1 DEF ClientConnects
<1>2. CASE ClientLeaves(c)
  BY <1>2 DEF ClientLeaves
<1>3. ASSUME NEW n \in 1..MaxChunk, ClientSends(c, n)
      PROVE  TypeInv'
  <2>. DEFINE d == [i \in 1..n |-> <<c, accepted[c] + i>>]
  <2>1. n \in Nat \ {0} /\ MaxMsgs \in Nat
    BY EapAssumption
  <2>2. accepted[c] \in Nat /\ accepted[c] + n <= MaxMsgs
    BY <1>3, <2>1 DEF ClientSends
  <2>3. d \in Seq(Message) /\ d # <<>>
    BY <2>1, <2>2, ChunkRead
  <2>4. reqData' = [reqData EXCEPT ![c] = d]
    BY <1>3 DEF ClientSends
  <2>. HIDE DEF d
  <2>5. accepted[c] + n \in 0..MaxMsgs
    BY <2>1, <2>2
  <2>6. accepted' \in [Clients -> 0..MaxMsgs] /\ reqData' \in [Clients -> Seq(Message)]
    BY <1>3, <2>3, <2>4, <2>5 DEF ClientSends
  <2>7. \A b \in Clients : reqPc'[b] = "enqueue" <=> reqData'[b] # <<>>
    BY <1>3, <2>3, <2>4 DEF ClientSends
  <2>. QED
    BY <1>3, <2>6, <2>7 DEF ClientSends
<1>4. CASE EnServerQueue(c)
  <2>1. reqData[c] \in Seq(Message) /\ reqData[c] # <<>>
    BY <1>4 DEF EnServerQueue
  <2>2. /\ Head(reqData[c]) \in Message /\ Tail(reqData[c]) \in Seq(Message)
        /\ Len(reqData[c]) = 1 <=> Tail(reqData[c]) = <<>>
    BY <2>1, ToSetTail
  <2>3. Append(sendToSrvQue, Head(reqData[c])) \in Seq(Message)
    BY <2>2, ToSetAppend
  <2>. QED
    BY <1>4, <2>2, <2>3 DEF EnServerQueue
<1>. QED
  BY <1>1, <1>2, <1>3, <1>4 DEF Request

\* The buffer, a Tail, an Append, or the message in hand alone.
LEMMA BufferType ==
  ASSUME TypeInv
  PROVE  /\ Len(buffer) < BufCap /\ msg \in Message =>
              Append(buffer, msg) \in Seq(Message) /\ Len(Append(buffer, msg)) <= BufCap
         /\ buffer # <<>> =>
              /\ Head(buffer) \in Message
              /\ Tail(buffer) \in Seq(Message) /\ Len(Tail(buffer)) <= BufCap
         /\ msg \in Message => <<msg>> \in Seq(Message) /\ Len(<<msg>>) <= BufCap
<1>1. buffer \in Seq(Message) /\ Len(buffer) \in Nat /\ Len(buffer) <= BufCap /\ BufCap \in Nat \ {0}
  BY EapAssumption, LenProperties DEF TypeInv, TypeOK
<1>2. ASSUME Len(buffer) < BufCap, msg \in Message
      PROVE  Append(buffer, msg) \in Seq(Message) /\ Len(Append(buffer, msg)) <= BufCap
  BY <1>1, <1>2, AppendProperties
<1>3. ASSUME buffer # <<>>
      PROVE  /\ Head(buffer) \in Message
             /\ Tail(buffer) \in Seq(Message) /\ Len(Tail(buffer)) <= BufCap
  BY <1>1, <1>3, HeadTailProperties
<1>4. ASSUME msg \in Message
      PROVE  <<msg>> \in Seq(Message) /\ Len(<<msg>>) <= BufCap
  BY <1>1, <1>4
<1>. QED
  BY <1>2, <1>3, <1>4

\* The steps of the upload thread preserve it.
LEMMA UploadType ==
  ASSUME TypeInv, Upload
  PROVE  TypeInv'
<1>. USE DEF TypeInv, TypeOK, HandInv, UpUnchanged, UpGoto, reqVars
<1>1. CASE ConnectToServer
  BY <1>1 DEF ConnectToServer, Servers
<1>2. CASE NextMsg
  <2>1. Head(sendToSrvQue) \in Message /\ Tail(sendToSrvQue) \in Seq(Message)
    BY <1>2, ToSetTail DEF NextMsg
  <2>2. lastSendSucc' = FALSE
    BY <1>2, Zenon DEF NextMsg
  <2>3. ~lastSendSucc' /\ lastSendSucc' \in BOOLEAN
    BY <2>2
  <2>4. msg' \in Message /\ sendToSrvQue' \in Seq(Message)
    BY <1>2, <2>1 DEF NextMsg
  <2>5. UNCHANGED <<reqPc, reqData, accepted, currSrvIdx, buffer, link, wire, srvUp, delivered,
                    lost, faults>> /\ upPc' = "answer"
    BY <1>2 DEF NextMsg
  <2>. QED
    BY <2>3, <2>4, <2>5
<1>3. CASE ReadAnswer
  BY <1>3 DEF ReadAnswer
<1>4. CASE WriteMsg
  <2>1. buffer' \in Seq(Message) /\ Len(buffer') <= BufCap
    BY <1>4, BufferType DEF WriteMsg
  <2>2. UNCHANGED <<reqPc, reqData, accepted, sendToSrvQue, currSrvIdx, msg, link, wire, srvUp,
                    delivered, lost, faults>>
    BY <1>4 DEF WriteMsg
  <2>3. \/ upPc' = "size" /\ lastSendSucc' = TRUE
        \/ upPc' = "flush" /\ lastSendSucc' = lastSendSucc
    BY <1>4 DEF WriteMsg
  <2>4. CASE upPc' = "size" /\ lastSendSucc' = TRUE
    BY <2>1, <2>2, <2>4
  <2>5. CASE upPc' = "flush" /\ lastSendSucc' = lastSendSucc
    <3>1. ~lastSendSucc
      BY <1>4 DEF WriteMsg
    <3>2. ~lastSendSucc' /\ lastSendSucc' \in BOOLEAN
      BY <2>5, <3>1
    <3>. QED
      BY <2>1, <2>2, <2>5, <3>1, <3>2
  <2>. QED
    BY <2>3, <2>4, <2>5
<1>5. CASE FlushBuffer
  <2>1. buffer' \in Seq(Message) /\ Len(buffer') <= BufCap
    BY <1>5, BufferType DEF FlushBuffer
  <2>2. wire' \in [Servers -> Seq(Message)] /\ lost' \subseteq Message
    <3>1. CASE buffer # <<>>
      <4>1. Head(buffer) \in Message
        BY <3>1, BufferType
      <4>2. Append(wire[currSrvIdx], Head(buffer)) \in Seq(Message)
        BY <4>1, ToSetAppend
      <4>. QED
        BY <1>5, <3>1, <4>1, <4>2 DEF FlushBuffer
    <3>2. CASE buffer = <<>>
      BY <1>5, <3>2 DEF FlushBuffer
    <3>. QED
      BY <3>1, <3>2
  <2>3. UNCHANGED <<reqPc, reqData, accepted, sendToSrvQue, currSrvIdx, msg, link, srvUp,
                    delivered, faults>>
    BY <1>5 DEF FlushBuffer
  <2>4. \/ upPc' = "size" /\ lastSendSucc' = TRUE
        \/ upPc' = upPc /\ lastSendSucc' = lastSendSucc
    BY <1>5 DEF FlushBuffer
  <2>5. CASE upPc' = "size" /\ lastSendSucc' = TRUE
    BY <2>1, <2>2, <2>3, <2>5
  <2>6. CASE upPc' = upPc /\ lastSendSucc' = lastSendSucc
    BY <2>1, <2>2, <2>3, <2>6
  <2>. QED
    BY <2>4, <2>5, <2>6
<1>6. CASE UpThrows
  <2>1. ToSet(buffer) \subseteq Message
    BY ToSetType
  <2>2. <<>> \in Seq(Message) /\ Len(<<>>) <= BufCap
    BY EmptySeq, EapAssumption
  <2>. QED
    BY <1>6, <2>1, <2>2 DEF UpThrows
<1>. QED
  BY <1>1, <1>2, <1>3, <1>4, <1>5, <1>6 DEF Upload

\* The steps of the servers preserve it.
LEMMA ServerType ==
  ASSUME TypeInv, NEW s \in Servers, ServerReads(s) \/ ServerEnds(s)
  PROVE  TypeInv'
<1>. USE DEF TypeInv, TypeOK, HandInv, reqVars, upVars
<1>1. CASE ServerReads(s)
  <2>1. Head(wire[s]) \in Message /\ Tail(wire[s]) \in Seq(Message)
    BY <1>1, ToSetTail DEF ServerReads
  <2>2. Append(delivered[s], Head(wire[s])) \in Seq(Message)
    BY <2>1, ToSetAppend
  <2>. QED
    BY <1>1, <2>1, <2>2 DEF ServerReads
<1>2. CASE ServerEnds(s)
  <2>1. ToSet(wire[s]) \subseteq Message /\ <<>> \in Seq(Message)
    BY ToSetType, EmptySeq
  <2>2. faults' \in 0..MaxFaults
    BY <1>2, EapAssumption DEF ServerEnds
  <2>. QED
    BY <1>2, <2>1, <2>2 DEF ServerEnds
<1>. QED
  BY <1>1, <1>2

\* Every step preserves it, and so does no step.
LEMMA TypeNext == TypeInv /\ [Next]_vars => TypeInv'
<1>. SUFFICES ASSUME TypeInv, [Next]_vars
              PROVE  TypeInv'
  OBVIOUS
<1>1. CASE UNCHANGED vars
  BY <1>1 DEF TypeInv, TypeOK, HandInv, vars, reqVars, upVars, srvVars
<1>. QED
  BY <1>1, RequestType, UploadType, ServerType DEF Next

\* Hence it is an invariant.
LEMMA TypeCorrect == Spec => []TypeInv
  BY TypeInit, TypeNext, PTL DEF Spec

\* Every state of the EAP server is well-typed: the index into srvIPs stays in range and
\* the buffer never holds more than it has room for.
THEOREM TypeSafe == Spec => []TypeOK
  BY TypeCorrect, PTL DEF TypeInv

-----------------------------------------------------------------------------
(* The order of the messages.                                              *)

\* What is in the places is a message, and no message is before itself.
LEMMA PlaceTypes ==
  ASSUME TypeInv
  PROVE  /\ \A c \in Clients : ToSet(reqData[c]) \subseteq Message
         /\ ToSet(sendToSrvQue) \cup Held \cup ToSet(buffer) \cup Gone \subseteq Message
         /\ \A s \in Servers : Reached(s) \subseteq Message
         /\ \A m \in Message : m[1] \in Clients /\ m[2] \in Nat /\ ~Before(m, m)
<1>1. /\ \A c \in Clients : ToSet(reqData[c]) \subseteq Message
      /\ ToSet(sendToSrvQue) \subseteq Message /\ ToSet(buffer) \subseteq Message
      /\ \A s \in Servers : ToSet(wire[s]) \subseteq Message /\ ToSet(delivered[s]) \subseteq Message
  BY ToSetType DEF TypeInv, TypeOK
<1>2. Held \subseteq Message /\ lost \subseteq Message
  BY DEF Held, TypeInv, TypeOK, HandInv
<1>3. \A s \in Servers : Reached(s) \subseteq Message
  BY <1>1 DEF Reached
<1>4. Gone \subseteq Message
  BY <1>2, <1>3 DEF Gone
<1>5. ASSUME NEW m \in Message
      PROVE  m[1] \in Clients /\ m[2] \in Nat /\ ~Before(m, m)
  BY EapAssumption DEF Message, Before
<1>. QED
  BY <1>1, <1>2, <1>3, <1>4, <1>5

\* Init puts no message anywhere.
LEMMA OrderInit == Init => OrderInv /\ Kept
<1>. SUFFICES ASSUME Init PROVE OrderInv /\ Kept
  OBVIOUS
<1>1. /\ \A c \in Clients : ToSet(reqData[c]) = {} /\ Increasing(reqData[c])
      /\ ToSet(sendToSrvQue) = {} /\ Increasing(sendToSrvQue)
      /\ ToSet(buffer) = {} /\ Increasing(buffer)
      /\ \A s \in Servers : /\ ToSet(wire[s]) = {} /\ ToSet(delivered[s]) = {}
                            /\ Increasing(wire[s])
  BY ToSetEmpty DEF Init
<1>2. \A s \in Servers : Reached(s) = {}
  BY <1>1 DEF Reached
<1>3. Gone = {} /\ Held = {}
  BY <1>2 DEF Gone, Held, Init
<1>4. InOrder /\ Apart /\ Came
  BY <1>1, <1>2, <1>3 DEF InOrder, AllBefore, Apart, Came
<1>5. Kept
  BY DEF Kept, Init
<1>. QED
  BY <1>4, <1>5 DEF OrderInv

\* A step that moves no message keeps all of it.
LEMMA OrderUnmoved ==
  ASSUME OrderInv, Kept, Held' = Held,
         UNCHANGED <<sendToSrvQue, reqData, accepted, buffer, wire, delivered, lost>>
  PROVE  OrderInv' /\ Kept'
<1>1. \A s \in Servers : Reached(s)' = Reached(s)
  BY DEF Reached
<1>2. Gone' = Gone
  BY <1>1 DEF Gone
<1>3. InOrder'
  BY <1>1, <1>2 DEF OrderInv, InOrder
<1>4. Apart'
  BY <1>1 DEF OrderInv, Apart
<1>5. Came' /\ Kept'
  BY <1>1, <1>2 DEF OrderInv, Came, Kept
<1>. QED
  BY <1>3, <1>4, <1>5 DEF OrderInv

\* What a request thread reads is later than anything it has read; what it queues stays
\* in order.
LEMMA OrderRequest ==
  ASSUME TypeInv, OrderInv, Kept, NEW c \in Clients, Request(c) \/ EnServerQueue(c)
  PROVE  OrderInv' /\ Kept'
<1>. DEFINE Behind == Held \cup ToSet(buffer) \cup Gone
<1>. USE DEF OrderInv, InOrder, Apart, Came, Kept, AllBefore, Before
<1>1. UNCHANGED <<msg, lastSendSucc, buffer, wire, delivered, lost>>
  BY DEF Request, ClientConnects, ClientLeaves, ClientSends, EnServerQueue, ReqUnchanged,
     upVars, srvVars
<1>2. Held' = Held /\ Gone' = Gone /\ (\A s \in Servers : Reached(s)' = Reached(s))
  BY <1>1 DEF Held, Gone, Reached
<1>3. CASE ClientConnects(c) \/ ClientLeaves(c)
  <2>1. UNCHANGED <<sendToSrvQue, reqData, accepted>>
    BY <1>3 DEF ClientConnects, ClientLeaves
  <2>. QED
    BY <1>1, <1>2, <2>1, OrderUnmoved
<1>4. ASSUME NEW n \in 1..MaxChunk, ClientSends(c, n)
      PROVE  OrderInv' /\ Kept'
  <2>. DEFINE d == [i \in 1..n |-> <<c, accepted[c] + i>>]
              k == accepted[c]
  <2>1. n \in Nat \ {0} /\ accepted \in [Clients -> Nat] /\ k + n <= MaxMsgs /\ MaxMsgs \in Nat
    BY <1>4, EapAssumption DEF ClientSends, TypeInv, TypeOK
  <2>2. Increasing(d) /\ ToSet(d) = {<<c, i>> : i \in (k + 1)..(k + n)}
    BY <2>1, ChunkRead
  <2>3. /\ reqData' = [reqData EXCEPT ![c] = d] /\ accepted' = [accepted EXCEPT ![c] = k + n]
        /\ sendToSrvQue' = sendToSrvQue /\ reqData \in [Clients -> Seq(Message)]
        /\ ToSet(reqData[c]) = {}
    BY <1>4, ToSetEmpty DEF ClientSends, ReqGoto, TypeInv, TypeOK, HandInv
  <2>. HIDE DEF d, k
  <2>4. InOrder'
    <3>1. \A m \in ToSet(sendToSrvQue) \cup Behind : m[1] = c => m[2] <= k
      BY DEF k
    <3>2. AllBefore(ToSet(sendToSrvQue) \cup Behind, ToSet(d))
      BY <2>1, <2>2, <3>1, PlaceTypes DEF k
    <3>. QED
      BY <1>1, <1>2, <2>2, <2>3, <3>2
  <2>5. Apart'
    BY <1>1, <1>2
  <2>6. Came'
    <3>1. \A b \in Clients : accepted'[b] \in Nat /\ accepted[b] \in Nat /\ accepted[b] <= accepted'[b]
      BY <2>1, <2>3 DEF k
    <3>2. \A m \in ToSet(d) : m[1] = c /\ m[2] <= accepted'[c]
      BY <2>1, <2>2, <2>3 DEF k
    <3>3. \A m \in ToSet(sendToSrvQue) \cup Behind : m[2] <= accepted'[m[1]]
      BY <3>1, PlaceTypes
    <3>4. \A b \in Clients : \A m \in ToSet(reqData'[b]) : m[1] = b /\ m[2] <= accepted'[b]
      BY <2>3, <3>1, <3>2, PlaceTypes
    <3>. QED
      BY <1>1, <1>2, <2>3, <3>3, <3>4
  <2>7. Kept'
    <3>. SUFFICES ASSUME NEW b \in Clients, NEW i \in 1..accepted'[b]
                  PROVE  <<b, i>> \in ToSet(reqData'[b]) \cup ToSet(sendToSrvQue') \cup Held'
                                        \cup ToSet(buffer') \cup Gone'
      OBVIOUS
    <3>1. CASE i \in 1..accepted[b]
      BY <1>1, <1>2, <2>3, <3>1
    <3>2. CASE i \notin 1..accepted[b]
      <4>1. b = c /\ i \in (k + 1)..(k + n)
        BY <2>1, <2>3, <3>2 DEF k
      <4>2. <<b, i>> \in ToSet(d)
        BY <2>2, <4>1
      <4>. QED
        BY <2>3, <4>1, <4>2
    <3>. QED
      BY <3>1, <3>2
  <2>. QED
    BY <2>4, <2>5, <2>6, <2>7
<1>5. CASE EnServerQueue(c)
  <2>. DEFINE m == Head(reqData[c])
              r == Tail(reqData[c])
  <2>1. reqData \in [Clients -> Seq(Message)] /\ reqData[c] # <<>> /\ sendToSrvQue \in Seq(Message)
    BY <1>5 DEF EnServerQueue, ReqGoto, TypeInv, TypeOK, HandInv
  <2>2. /\ m \in Message /\ ToSet(reqData[c]) = {m} \cup ToSet(r)
        /\ Increasing(r) /\ AllBefore({m}, ToSet(r))
    BY <2>1, ToSetTail
  <2>3. AllBefore(ToSet(sendToSrvQue), {m}) /\ m[1] = c
    BY <2>2
  <2>4. Increasing(sendToSrvQue') /\ ToSet(sendToSrvQue') = ToSet(sendToSrvQue) \cup {m}
    BY <1>5, <2>1, <2>2, <2>3, ToSetAppend DEF EnServerQueue
  <2>5. reqData' = [reqData EXCEPT ![c] = r] /\ accepted' = accepted
    BY <1>5 DEF EnServerQueue
  <2>. HIDE DEF m, r
  <2>6. InOrder'
    <3>1. \A b \in Clients : Increasing(reqData'[b])
      BY <2>1, <2>2, <2>5
    <3>2. AllBefore(Behind, ToSet(sendToSrvQue'))
      BY <2>2, <2>4
    <3>3. \A b \in Clients : AllBefore(ToSet(sendToSrvQue') \cup Behind, ToSet(reqData'[b]))
      BY <2>1, <2>2, <2>3, <2>4, <2>5
    <3>. QED
      BY <1>1, <1>2, <2>4, <3>1, <3>2, <3>3
  <2>7. Apart'
    BY <1>1, <1>2
  <2>8. Came'
    BY <1>1, <1>2, <2>1, <2>2, <2>3, <2>4, <2>5
  <2>9. Kept'
    BY <1>1, <1>2, <2>1, <2>2, <2>4, <2>5
  <2>. QED
    BY <2>6, <2>7, <2>8, <2>9
<1>. QED
  BY <1>3, <1>4, <1>5 DEF Request

\* A flush and a throw move a part of the buffer, from its front, to what is gone.
LEMMA OrderFlush ==
  ASSUME TypeInv, OrderInv, Kept, NEW s \in Servers, NEW moved, Held' = Held,
         UNCHANGED <<sendToSrvQue, reqData, accepted, delivered>>,
         ToSet(buffer) = moved \cup ToSet(buffer'),
         Increasing(buffer'), AllBefore(moved, ToSet(buffer')),
         \/ lost' = lost \cup moved /\ UNCHANGED wire
         \/ \E m \in Message : /\ moved = {m} /\ UNCHANGED lost
                               /\ wire' = [wire EXCEPT ![s] = Append(@, m)]
  PROVE  OrderInv' /\ Kept'
<1>. USE DEF OrderInv, InOrder, Apart, Came, Kept, AllBefore, Before
<1>1. wire \in [Servers -> Seq(Message)]
  BY DEF TypeInv, TypeOK
<1>2. \A r \in Servers : Reached(r) \subseteq Gone /\ ToSet(wire[r]) \subseteq Reached(r)
                         /\ ToSet(delivered[r]) \subseteq Reached(r)
  BY DEF Gone, Reached
<1>3. AllBefore(Gone, moved) /\ moved \subseteq ToSet(buffer) /\ lost \subseteq Gone
  BY DEF Gone
<1>4. moved \cap Gone = {}
  BY <1>3, PlaceTypes
<1>5. CASE lost' = lost \cup moved /\ UNCHANGED wire
  <2>1. /\ \A r \in Servers : Reached(r)' = Reached(r)
        /\ Gone' = Gone \cup moved
    BY <1>5 DEF Reached, Gone
  <2>2. InOrder'
    BY <1>3, <1>5, <2>1
  <2>3. Apart'
    BY <1>2, <1>4, <1>5, <2>1
  <2>4. Came' /\ Kept'
    BY <1>3, <1>5, <2>1
  <2>. QED
    BY <2>2, <2>3, <2>4
<1>6. ASSUME NEW m \in Message, moved = {m}, UNCHANGED lost,
             wire' = [wire EXCEPT ![s] = Append(@, m)]
      PROVE  OrderInv' /\ Kept'
  <2>1. AllBefore(ToSet(wire[s]), {m}) /\ AllBefore(ToSet(delivered[s]), {m})
    BY <1>2, <1>3, <1>6
  <2>2. Increasing(wire'[s]) /\ ToSet(wire'[s]) = ToSet(wire[s]) \cup {m}
    BY <1>1, <1>6, <2>1, ToSetAppend
  <2>3. \A r \in Servers : r # s => wire'[r] = wire[r]
    BY <1>1, <1>6
  <2>4. /\ Reached(s)' = Reached(s) \cup {m}
        /\ \A r \in Servers : r # s => Reached(r)' = Reached(r)
    BY <2>2, <2>3 DEF Reached
  <2>5. Gone' = Gone \cup moved
    BY <1>6, <2>4 DEF Gone
  <2>6. InOrder'
    <3>1. \A r \in Servers : Increasing(wire'[r]) /\ AllBefore(ToSet(delivered'[r]), ToSet(wire'[r]))
      BY <2>1, <2>2, <2>3
    <3>. QED
      BY <1>3, <2>5, <3>1
  <2>7. Apart'
    BY <1>2, <1>3, <1>4, <1>6, <2>4
  <2>8. Came' /\ Kept'
    BY <1>3, <2>5
  <2>. QED
    BY <2>6, <2>7, <2>8
<1>. QED
  BY <1>5, <1>6

\* A write moves the message in hand behind what the buffer holds.
LEMMA OrderBuffered ==
  ASSUME TypeInv, OrderInv, Kept, Held' = {},
         UNCHANGED <<sendToSrvQue, reqData, accepted, wire, delivered, lost>>,
         Increasing(buffer'), ToSet(buffer') = ToSet(buffer) \cup Held
  PROVE  OrderInv' /\ Kept'
<1>. USE DEF OrderInv, InOrder, Apart, Came, Kept, AllBefore, Before
<1>1. Gone' = Gone /\ \A s \in Servers : Reached(s)' = Reached(s)
  BY DEF Gone, Reached
<1>2. InOrder'
  BY <1>1
<1>3. Apart'
  BY <1>1
<1>4. Came' /\ Kept'
  BY <1>1
<1>. QED
  BY <1>2, <1>3, <1>4

\* The upload thread takes a message only when the last one is written, and writes it
\* behind everything it has written before.
LEMMA OrderUpload ==
  ASSUME TypeInv, OrderInv, Kept, Upload
  PROVE  OrderInv' /\ Kept'
<1>. USE DEF UpGoto, UpUnchanged, reqVars
<1>0. /\ currSrvIdx \in Servers /\ buffer \in Seq(Message) /\ sendToSrvQue \in Seq(Message)
      /\ lastSendSucc \in BOOLEAN
  BY DEF TypeInv, TypeOK
<1>1. CASE ConnectToServer \/ ReadAnswer
  <2>1. UNCHANGED <<sendToSrvQue, reqData, accepted, msg, lastSendSucc, buffer, wire, delivered, lost>>
    BY <1>1 DEF ConnectToServer, ReadAnswer
  <2>2. Held' = Held
    BY <2>1 DEF Held
  <2>. QED
    BY <2>1, <2>2, OrderUnmoved
<1>2. CASE NextMsg
  <2>1. UNCHANGED <<reqData, accepted, buffer, wire, delivered, lost>> /\ sendToSrvQue # <<>>
    BY <1>2 DEF NextMsg
  <2>2. CASE ~lastSendSucc
    <3>1. UNCHANGED <<sendToSrvQue, msg, lastSendSucc>>
      BY <1>2, <2>2, Zenon DEF NextMsg
    <3>2. Held' = Held
      BY <3>1 DEF Held
    <3>. QED
      BY <2>1, <3>1, <3>2, OrderUnmoved
  <2>3. CASE lastSendSucc
    <3>. USE DEF OrderInv, InOrder, Apart, Came, Kept, AllBefore, Before
    <3>1. lastSendSucc' = FALSE /\ msg' = Head(sendToSrvQue) /\ sendToSrvQue' = Tail(sendToSrvQue)
      BY <1>2, <2>3, Zenon DEF NextMsg
    <3>2. Held = {} /\ Held' = {msg'}
      BY <2>3, <3>1 DEF Held
    <3>3. /\ msg' \in Message /\ ToSet(sendToSrvQue) = {msg'} \cup ToSet(sendToSrvQue')
          /\ Increasing(sendToSrvQue') /\ AllBefore({msg'}, ToSet(sendToSrvQue'))
      BY <1>0, <2>1, <3>1, ToSetTail
    <3>4. Gone' = Gone /\ \A s \in Servers : Reached(s)' = Reached(s)
      BY <2>1 DEF Gone, Reached
    <3>5. InOrder'
      <4>1. \A c \in Clients : AllBefore(ToSet(sendToSrvQue') \cup Held' \cup ToSet(buffer') \cup Gone',
                                         ToSet(reqData'[c]))
        BY <2>1, <3>2, <3>3, <3>4
      <4>2. AllBefore(Held' \cup ToSet(buffer') \cup Gone', ToSet(sendToSrvQue'))
        BY <2>1, <3>2, <3>3, <3>4
      <4>3. AllBefore(ToSet(buffer') \cup Gone', Held') /\ AllBefore(Gone', ToSet(buffer'))
        BY <2>1, <3>2, <3>3, <3>4
      <4>. QED
        BY <2>1, <3>3, <4>1, <4>2, <4>3
    <3>6. Apart'
      BY <2>1, <3>4
    <3>7. Came' /\ Kept'
      BY <2>1, <3>2, <3>3, <3>4
    <3>. QED
      BY <3>5, <3>6, <3>7
  <2>. QED
    BY <1>0, <2>2, <2>3
<1>3. CASE WriteMsg
  <2>1. ~lastSendSucc /\ msg \in Message /\ Held = {msg}
    BY <1>3 DEF WriteMsg, TypeInv, HandInv, Held
  <2>2. UNCHANGED <<sendToSrvQue, reqData, accepted, msg, wire, delivered, lost>>
    BY <1>3 DEF WriteMsg
  <2>3. CASE upPc' = "flush"
    <3>1. UNCHANGED <<buffer, lastSendSucc>>
      BY <1>3, <2>3 DEF WriteMsg
    <3>2. Held' = Held
      BY <2>2, <3>1 DEF Held
    <3>. QED
      BY <2>2, <3>1, <3>2, OrderUnmoved
  <2>4. CASE upPc' # "flush"
    <3>1. buffer' = Append(buffer, msg) /\ lastSendSucc' = TRUE
      BY <1>3, <2>4 DEF WriteMsg
    <3>2. Held' = {}
      BY <3>1 DEF Held
    <3>3. AllBefore(ToSet(buffer), {msg}) /\ Increasing(buffer)
      BY <2>1 DEF OrderInv, InOrder, AllBefore
    <3>4. Increasing(buffer') /\ ToSet(buffer') = ToSet(buffer) \cup Held
      BY <1>0, <2>1, <3>1, <3>3, ToSetAppend
    <3>. QED
      BY <2>2, <3>2, <3>4, OrderBuffered
  <2>. QED
    BY <2>3, <2>4
<1>4. CASE FlushBuffer
  <2>1. ~lastSendSucc /\ msg \in Message /\ Held = {msg}
    BY <1>4 DEF FlushBuffer, TypeInv, HandInv, Held
  <2>2. UNCHANGED <<sendToSrvQue, reqData, accepted, msg, delivered>>
    BY <1>4 DEF FlushBuffer
  <2>3. CASE buffer # <<>>
    <3>. DEFINE m == Head(buffer)
    <3>1. buffer' = Tail(buffer) /\ lastSendSucc' = lastSendSucc
      BY <1>4, <2>3 DEF FlushBuffer
    <3>2. Held' = Held
      BY <2>2, <3>1 DEF Held
    <3>3. /\ m \in Message /\ ToSet(buffer) = {m} \cup ToSet(buffer')
          /\ Increasing(buffer') /\ AllBefore({m}, ToSet(buffer'))
      BY <1>0, <2>3, <3>1, ToSetTail DEF OrderInv, InOrder
    <3>4. \/ lost' = lost \cup {m} /\ UNCHANGED wire
          \/ UNCHANGED lost /\ wire' = [wire EXCEPT ![currSrvIdx] = Append(@, m)]
      BY <1>4, <2>3 DEF FlushBuffer
    <3>. HIDE DEF m
    <3>. QED
      BY <1>0, <2>2, <3>2, <3>3, <3>4, OrderFlush
  <2>4. CASE buffer = <<>>
    <3>1. buffer' = <<msg>> /\ lastSendSucc' = TRUE /\ UNCHANGED <<wire, lost>>
      BY <1>4, <2>4 DEF FlushBuffer
    <3>2. Held' = {} /\ ToSet(buffer) = {}
      BY <2>4, <3>1, ToSetEmpty DEF Held
    <3>3. Increasing(<<msg>>) /\ ToSet(<<msg>>) = {msg}
      BY DEF Increasing, ToSet
    <3>. QED
      BY <2>1, <2>2, <3>1, <3>2, <3>3, OrderBuffered
  <2>. QED
    BY <2>3, <2>4
<1>5. CASE UpThrows
  <2>1. /\ lost' = lost \cup ToSet(buffer) /\ buffer' = <<>>
        /\ UNCHANGED <<sendToSrvQue, reqData, accepted, msg, lastSendSucc, wire, delivered>>
    BY <1>5 DEF UpThrows
  <2>2. Held' = Held
    BY <2>1 DEF Held
  <2>3. ToSet(buffer') = {} /\ Increasing(buffer') /\ AllBefore(ToSet(buffer), ToSet(buffer'))
    BY <2>1, ToSetEmpty DEF AllBefore
  <2>. QED
    BY <1>0, <2>1, <2>2, <2>3, OrderFlush
<1>. QED
  BY <1>1, <1>2, <1>3, <1>4, <1>5 DEF Upload

\* A server reads in order, and what is dropped was on the wire to it.
LEMMA OrderServer ==
  ASSUME TypeInv, OrderInv, Kept, NEW s \in Servers, ServerReads(s) \/ ServerEnds(s)
  PROVE  OrderInv' /\ Kept'
<1>. USE DEF OrderInv, InOrder, Apart, Came, Kept, AllBefore, Before, reqVars, upVars
<1>1. wire \in [Servers -> Seq(Message)] /\ delivered \in [Servers -> Seq(Message)]
  BY DEF TypeInv, TypeOK
<1>2. UNCHANGED <<sendToSrvQue, reqData, accepted, msg, lastSendSucc, buffer>>
  BY DEF ServerReads, ServerEnds
<1>3. Held' = Held
  BY <1>2 DEF Held
<1>4. CASE ServerReads(s)
  <2>. DEFINE m == Head(wire[s])
              r == Tail(wire[s])
  <2>1. /\ m \in Message /\ ToSet(wire[s]) = {m} \cup ToSet(r)
        /\ Increasing(r) /\ AllBefore({m}, ToSet(r))
    BY <1>1, <1>4, ToSetTail DEF ServerReads
  <2>2. ToSet(Append(delivered[s], m)) = ToSet(delivered[s]) \cup {m}
    BY <1>1, <2>1, ToSetAppend
  <2>3. /\ wire' = [wire EXCEPT ![s] = r] /\ delivered' = [delivered EXCEPT ![s] = Append(@, m)]
        /\ lost' = lost
    BY <1>4 DEF ServerReads
  <2>. HIDE DEF m, r
  <2>4. \A t \in Servers : Reached(t)' = Reached(t)
    BY <1>1, <2>1, <2>2, <2>3 DEF Reached
  <2>5. Gone' = Gone
    BY <2>3, <2>4 DEF Gone
  <2>6. \A t \in Servers : Increasing(wire'[t]) /\ AllBefore(ToSet(delivered'[t]), ToSet(wire'[t]))
    BY <1>1, <2>1, <2>2, <2>3
  <2>. QED
    BY <1>2, <1>3, <2>3, <2>4, <2>5, <2>6
<1>5. CASE ServerEnds(s)
  <2>1. /\ lost' = lost \cup ToSet(wire[s]) /\ wire' = [wire EXCEPT ![s] = <<>>]
        /\ delivered' = delivered
    BY <1>5 DEF ServerEnds
  <2>2. ToSet(<<>>) = {} /\ Increasing(<<>>)
    BY ToSetEmpty
  <2>3. /\ Reached(s)' = ToSet(delivered[s])
        /\ \A t \in Servers : t # s => Reached(t)' = Reached(t)
    BY <1>1, <2>1, <2>2 DEF Reached
  <2>4. Gone' = Gone
    <3>1. \A t \in Servers : Reached(t)' \subseteq Reached(t)
      BY <2>3 DEF Reached
    <3>2. Reached(s) = Reached(s)' \cup ToSet(wire[s])
      BY <2>3 DEF Reached
    <3>. QED
      BY <2>1, <2>3, <3>1, <3>2 DEF Gone
  <2>5. \A t \in Servers : Increasing(wire'[t]) /\ AllBefore(ToSet(delivered'[t]), ToSet(wire'[t]))
    BY <1>1, <2>1, <2>2
  <2>6. ToSet(delivered[s]) \cap ToSet(wire[s]) = {}
    BY PlaceTypes DEF Reached
  <2>7. Apart'
    BY <2>1, <2>3, <2>6 DEF Reached
  <2>. QED
    BY <1>2, <1>3, <2>1, <2>4, <2>5, <2>7
<1>. QED
  BY <1>4, <1>5

\* Every step keeps the places in order and complete.
LEMMA OrderNext == TypeInv /\ OrderInv /\ Kept /\ [Next]_vars => OrderInv' /\ Kept'
<1>. SUFFICES ASSUME TypeInv, OrderInv, Kept, [Next]_vars
              PROVE  OrderInv' /\ Kept'
  OBVIOUS
<1>1. CASE UNCHANGED vars
  <2>1. UNCHANGED <<sendToSrvQue, reqData, accepted, msg, lastSendSucc, buffer, wire, delivered, lost>>
    BY <1>1 DEF vars, reqVars, upVars, srvVars
  <2>2. Held' = Held
    BY <2>1 DEF Held
  <2>. QED
    BY <2>1, <2>2, OrderUnmoved
<1>. QED
  BY <1>1, OrderRequest, OrderUpload, OrderServer DEF Next

\* Hence they always are.
LEMMA OrderCorrect == Spec => [](TypeInv /\ OrderInv /\ Kept)
  BY TypeInit, TypeNext, OrderInit, OrderNext, PTL DEF Spec

-----------------------------------------------------------------------------
(* The EAP server implements module Forwarder.                             *)

\* A read of a server delivers a message that came in, that no server has, and that is
\* later than all the server has of its connection.
LEMMA DeliverStep ==
  ASSUME TypeInv, OrderInv, NEW s \in Servers, ServerReads(s)
  PROVE  \E c \in Clients : \E n \in 1..accepted[c] : Promise!Deliver(s, c, n)
<1>. DEFINE m == Head(wire[s])
<1>1. wire[s] \in Seq(Message) /\ wire[s] # <<>>
  BY DEF ServerReads, TypeInv, TypeOK
<1>2. m \in Message /\ m \in ToSet(wire[s])
  BY <1>1, ToSetTail
<1>. HIDE DEF m
<1>3. PICK c \in Clients, n \in 1..MaxMsgs : m = <<c, n>>
  BY <1>2 DEF Message
<1>4. m[1] = c /\ m[2] = n /\ n \in Nat \ {0}
  BY <1>3, EapAssumption
<1>5. m \in Reached(s) /\ m \in Gone
  BY <1>2 DEF Reached, Gone
<1>6. n <= accepted[c] /\ accepted[c] \in Nat
  BY <1>4, <1>5, EapAssumption DEF OrderInv, Came, TypeInv, TypeOK
<1>7. \A d \in ToSet(delivered[s]) : Before(d, m)
  BY <1>2 DEF OrderInv, InOrder, AllBefore
<1>8. m \notin ToSet(delivered[s])
  BY <1>2, <1>7, PlaceTypes
<1>9. \A t \in Servers : t # s => m \notin ToSet(delivered[t])
  BY <1>5 DEF OrderInv, Apart, Reached
<1>10. <<c, n>> \notin Promise!Delivered
  BY <1>3, <1>8, <1>9 DEF Promise!Delivered, Promise!ToSet, ToSet
<1>11. \A d \in ToSet(delivered[s]) : d[1] = c => d[2] < n
  BY <1>4, <1>7 DEF Before
<1>12. /\ delivered' = [delivered EXCEPT ![s] = Append(@, <<c, n>>)]
       /\ accepted' = accepted
  BY <1>3 DEF ServerReads, reqVars, m
<1>13. Promise!Deliver(s, c, n)
  BY <1>6, <1>10, <1>11, <1>12 DEF Promise!Deliver, Promise!ToSet, ToSet
<1>. QED
  BY <1>4, <1>6, <1>13

\* Every step is a step of Forwarder or none: messages come in, a server reads, and the
\* upload thread with its connections and its retries does not show.
LEMMA ForwardStep ==
  ASSUME TypeInv, OrderInv, [Next]_vars
  PROVE  [Promise!Next]_<<accepted, delivered>>
<1>1. CASE UNCHANGED vars
  BY <1>1 DEF vars, reqVars, srvVars
<1>2. ASSUME NEW c \in Clients, NEW n \in 1..MaxChunk, ClientSends(c, n)
      PROVE  [Promise!Next]_<<accepted, delivered>>
  <2>1. /\ accepted' = [accepted EXCEPT ![c] = accepted[c] + n]
        /\ accepted \in [Clients -> Nat] /\ n \in Nat \ {0} /\ delivered' = delivered
    BY <1>2, EapAssumption DEF ClientSends, ReqUnchanged, srvVars, TypeInv, TypeOK
  <2>2. Promise!Accept(c)
    BY <2>1 DEF Promise!Accept
  <2>. QED
    BY <2>2 DEF Promise!Next
<1>3. ASSUME NEW c \in Clients, ClientConnects(c) \/ ClientLeaves(c) \/ EnServerQueue(c)
      PROVE  [Promise!Next]_<<accepted, delivered>>
  BY <1>3 DEF ClientConnects, ClientLeaves, EnServerQueue, ReqUnchanged, srvVars
<1>4. CASE Upload
  BY <1>4 DEF Upload, ConnectToServer, NextMsg, ReadAnswer, WriteMsg, FlushBuffer, UpThrows,
     UpUnchanged, reqVars
<1>5. ASSUME NEW s \in Servers, ServerReads(s) \/ ServerEnds(s)
      PROVE  [Promise!Next]_<<accepted, delivered>>
  <2>1. CASE ServerReads(s)
    BY <2>1, DeliverStep DEF Promise!Next
  <2>2. CASE ServerEnds(s)
    BY <2>2 DEF ServerEnds, reqVars
  <2>. QED
    BY <1>5, <2>1, <2>2
<1>. QED
  BY <1>1, <1>2, <1>3, <1>4, <1>5 DEF Next, Request

\* A message that is written again was not written before: whatever part of the buffer
\* had gone out when the write threw, no server gets a message twice or out of order.
THEOREM Uploaded == Spec => UploadsAtMostOnce
<1>1. Init => Promise!Init
  BY DEF Init, Promise!Init
<1>2. TypeInv /\ OrderInv /\ [Next]_vars => [Promise!Next]_<<accepted, delivered>>
  BY ForwardStep
<1>. QED
  BY <1>1, <1>2, OrderCorrect, PTL DEF Spec, UploadsAtMostOnce, Promise!Spec

-----------------------------------------------------------------------------
(* Every message is in exactly one place.                                  *)

\* The order keeps the places apart: a later one cannot hold what an earlier one does.
LEMMA PlacesApart ==
  ASSUME TypeInv, OrderInv, NEW m \in Message
  PROVE  /\ m \in Gone => m \notin ToSet(buffer)
         /\ m \in ToSet(buffer) \cup Gone => m \notin Held
         /\ m \in Held \cup ToSet(buffer) \cup Gone => m \notin ToSet(sendToSrvQue)
         /\ m \in ToSet(sendToSrvQue) \cup Held \cup ToSet(buffer) \cup Gone =>
              \A c \in Clients : m \notin ToSet(reqData[c])
         /\ \A s \in Servers : m \in ToSet(delivered[s]) => m \notin ToSet(wire[s])
         /\ \A r, s \in Servers : m \in Reached(r) /\ m \in Reached(s) => r = s
         /\ \A s \in Servers : m \in Reached(s) => m \notin lost
  BY PlaceTypes DEF OrderInv, InOrder, Apart, AllBefore

\* What sets of one server and of none add to a sum.
LEMMA ServerCount ==
  ASSUME NEW S \in SUBSET Servers
  PROVE  /\ S = {} => Cardinality(S) = 0
         /\ \A s : S = {s} => Cardinality(S) = 1
  BY FS_EmptySet, FS_Singleton

\* Whatever fails, no message is copied and none disappears unseen: one that came in is
\* with its connection, queued, in hand, in the buffer, at one server, or given up.
THEOREM AllAccounted == Spec => []Accounted
<1>1. TypeInv /\ OrderInv /\ Kept => Accounted
  <2>. SUFFICES ASSUME TypeInv, OrderInv, Kept, NEW c \in Clients, NEW n \in 1..accepted[c]
                PROVE  Whereabouts(<<c, n>>) = 1
    BY DEF Accounted
  <2>. DEFINE m == <<c, n>>
              W == {s \in Servers : m \in ToSet(wire[s])}
              D == {s \in Servers : m \in ToSet(delivered[s])}
              came == m \in ToSet(reqData[m[1]])
              queued == m \in ToSet(sendToSrvQue)
              inhand == InHand(m)
              held == m \in ToSet(buffer)
              given == m \in lost
              reached == \E s \in Servers : m \in Reached(s)
  <2>1. accepted[c] \in 0..MaxMsgs /\ MaxMsgs \in Nat
    BY EapAssumption DEF TypeInv, TypeOK
  <2>2. n \in 1..MaxMsgs
    BY <2>1
  <2>3. m \in Message /\ m[1] = c
    BY <2>2 DEF Message
  <2>4. inhand <=> m \in Held
    BY DEF Held, InHand
  <2>5. m \in Gone <=> given \/ reached
    BY DEF Gone
  <2>6. came <=> m \in ToSet(reqData[c])
    BY <2>3
  <2>7. m \in ToSet(reqData[c]) \/ queued \/ m \in Held \/ held \/ m \in Gone
    BY DEF Kept
  <2>8. came \/ queued \/ inhand \/ held \/ given \/ reached
    BY <2>4, <2>5, <2>6, <2>7
  <2>9. /\ came => ~queued /\ ~inhand /\ ~held /\ ~given /\ ~reached
        /\ queued => ~inhand /\ ~held /\ ~given /\ ~reached
        /\ inhand => ~held /\ ~given /\ ~reached
        /\ held => ~given /\ ~reached
        /\ given => ~reached
    <3>1. /\ m \in Gone => m \notin ToSet(buffer)
          /\ m \in ToSet(buffer) \cup Gone => m \notin Held
      BY <2>3, PlacesApart
    <3>2. m \in Held \cup ToSet(buffer) \cup Gone => m \notin ToSet(sendToSrvQue)
      BY <2>3, PlacesApart
    <3>3. m \in ToSet(sendToSrvQue) \cup Held \cup ToSet(buffer) \cup Gone =>
            m \notin ToSet(reqData[c])
      BY <2>3, PlacesApart
    <3>4. \A s \in Servers : m \in Reached(s) => m \notin lost
      BY <2>3, PlacesApart
    <3>. HIDE DEF m
    <3>. QED
      BY <2>4, <2>5, <2>6, <3>1, <3>2, <3>3, <3>4
  <2>10. ~reached => W = {} /\ D = {}
    BY DEF Reached
  <2>11. reached => (\E s \in Servers : W = {s} /\ D = {}) \/ (\E s \in Servers : W = {} /\ D = {s})
    <3>. SUFFICES ASSUME reached
                  PROVE  (\E s \in Servers : W = {s} /\ D = {}) \/ (\E s \in Servers : W = {} /\ D = {s})
      OBVIOUS
    <3>1. PICK s \in Servers : m \in Reached(s)
      OBVIOUS
    <3>2. \A r \in Servers : m \in Reached(r) => r = s
      BY <2>3, <3>1, PlacesApart
    <3>3. \A r \in W \cup D : r = s
      BY <3>2 DEF Reached
    <3>4. s \in W \cup D
      BY <3>1 DEF Reached
    <3>5. s \in D => s \notin W
      BY <2>3, PlacesApart
    <3>. HIDE DEF W, D
    <3>6. CASE s \in D
      BY <3>3, <3>5, <3>6
    <3>7. CASE s \notin D
      BY <3>3, <3>4, <3>7
    <3>. QED
      BY <3>6, <3>7
  <2>12. Cardinality(W) + Cardinality(D) = IF reached THEN 1 ELSE 0
    <3>1. W \in SUBSET Servers /\ D \in SUBSET Servers
      OBVIOUS
    <3>2. /\ W = {} => Cardinality(W) = 0
          /\ \A s : W = {s} => Cardinality(W) = 1
          /\ D = {} => Cardinality(D) = 0
          /\ \A s : D = {s} => Cardinality(D) = 1
      BY <3>1, ServerCount
    <3>. HIDE DEF W, D, reached
    <3>3. CASE ~reached
      <4>1. Cardinality(W) = 0 /\ Cardinality(D) = 0
        BY <2>10, <3>2, <3>3
      <4>. QED
        BY <3>3, <4>1
    <3>4. CASE reached
      <4>1. \/ Cardinality(W) = 1 /\ Cardinality(D) = 0
            \/ Cardinality(W) = 0 /\ Cardinality(D) = 1
        BY <2>11, <3>2, <3>4, Zenon
      <4>. QED
        BY <3>4, <4>1
    <3>. QED
      BY <3>3, <3>4
  <2>13. Whereabouts(m) = (Cardinality(W) + Cardinality(D)) + (IF given THEN 1 ELSE 0)
           + (IF held THEN 1 ELSE 0) + (IF inhand THEN 1 ELSE 0) + (IF queued THEN 1 ELSE 0)
           + (IF came THEN 1 ELSE 0)
    BY DEF Whereabouts
  <2>. HIDE DEF W, D, given, held, inhand, queued, came, reached
  <2>14. Whereabouts(m) = 1
    BY <2>8, <2>9, <2>12, <2>13
  <2>. QED
    BY <2>14
<1>. QED
  BY <1>1, OrderCorrect, PTL

=============================================================================
