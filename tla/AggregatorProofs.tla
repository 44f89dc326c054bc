--------------------------- MODULE AggregatorProofs ---------------------------
(***************************************************************************)
(* What holds of the aggregating gateway for any clients, whatever they    *)
(* ask for and however often the broker, the network and the clients fail: *)
(* the variables have their types, MessageIdTable is one to one, and the   *)
(* gateway implements Exchange.                                            *)
(***************************************************************************)
EXTENDS Aggregator, FiniteSetTheorems, SequenceTheorems, TLAPS

\* What is in a queue
Elements(s) == {s[i] : i \in 1..Len(s)}

\* An active aggregater has not pinged more often than it may.
RetryOK == status = "Active" => retryCnt <= MaxRetryCnt

\* A client waits for the answer of what it has made, and what is on its way is what it has made.
RequestsOK ==
    /\ \A c \in Clients : asked[c].kind \in AllKinds => <<c, asked[c].kind, asked[c].msgId>> \in made
    /\ \A m \in requests : m.kind \in AllKinds => <<m.client, m.kind, m.msgId>> \in made

\* Two elements of MessageIdTable never say of an id that it is another client's.
QueuedOK(q) ==
    /\ <<q.client, q.kind, q.clientMsgId>> \in made
    /\ q.msgId <= packetId
    /\ \A p \in table : p.msgId = q.msgId => p.client = q.client /\ p.clientMsgId = q.clientMsgId

\* What is on its way to the broker belongs to the element that has its id, if there is one.
QueueOK == \A q \in Elements(sendQue) : q.kind \in AllKinds => QueuedOK(q)

AnswerOK(a) ==
    /\ a.msgId <= packetId
    /\ \A p \in table : p.msgId = a.msgId => <<p.client, a.kind, p.clientMsgId>> \in taken

\* What the broker answers, it has taken from the client its element names.
AnswersOK == \A a \in Elements(fromBroker) : a.kind \in AllKinds => AnswerOK(a)

AggregatorInv ==
    TypeOK /\ IsFiniteSet(table) /\ RetryOK /\ TableOK /\ RequestsOK /\ QueueOK /\ AnswersOK

----------------------------------------------------------------------------
(* Queues and sets *)

LEMMA EmptyElements == Elements(<<>>) = {}
BY DEF Elements

LEMMA HeadElement ==
    ASSUME NEW S, NEW s \in Seq(S), s # <<>>
    PROVE  /\ Head(s) \in Elements(s) /\ Head(s) \in S
           /\ Tail(s) \in Seq(S) /\ Elements(Tail(s)) \subseteq Elements(s)
<1>1. Len(s) \in Nat /\ Len(s) > 0 /\ Head(s) = s[1]
  OBVIOUS
<1>2. Head(s) \in Elements(s)
  BY <1>1 DEF Elements
<1>3. /\ Head(s) \in S /\ Tail(s) \in Seq(S) /\ Len(Tail(s)) = Len(s) - 1
      /\ \A i \in 1..Len(Tail(s)) : Tail(s)[i] = s[i + 1]
  BY HeadTailProperties
<1>4. Elements(Tail(s)) \subseteq Elements(s)
  <2> SUFFICES ASSUME NEW i \in 1..Len(Tail(s)) PROVE Tail(s)[i] \in Elements(s)
    BY DEF Elements
  <2>1. i + 1 \in 1..Len(s) /\ Tail(s)[i] = s[i + 1]
    BY <1>1, <1>3
  <2> QED BY <2>1 DEF Elements
<1> QED BY <1>2, <1>3, <1>4

LEMMA AppendElement ==
    ASSUME NEW S, NEW s \in Seq(S), NEW e \in S
    PROVE  Append(s, e) \in Seq(S) /\ Elements(Append(s, e)) \subseteq Elements(s) \cup {e}
<1>1. /\ Append(s, e) \in Seq(S) /\ Len(Append(s, e)) = Len(s) + 1 /\ Len(s) \in Nat
      /\ \A i \in 1..Len(s) : Append(s, e)[i] = s[i]
      /\ Append(s, e)[Len(s) + 1] = e
  BY AppendProperties, LenProperties
<1>2. Elements(Append(s, e)) \subseteq Elements(s) \cup {e}
  <2> SUFFICES ASSUME NEW i \in 1..(Len(s) + 1) PROVE Append(s, e)[i] \in Elements(s) \cup {e}
    BY <1>1 DEF Elements
  <2>1. CASE i \in 1..Len(s)
    BY <1>1, <2>1 DEF Elements
  <2>2. CASE i = Len(s) + 1
    BY <1>1, <2>2
  <2> QED BY <1>1, <2>1, <2>2
<1> QED BY <1>1, <1>2

LEMMA SingleElement ==
    ASSUME NEW S, NEW e \in S
    PROVE  <<e>> \in Seq(S) /\ Elements(<<e>>) = {e}
BY DEF Elements

----------------------------------------------------------------------------
(* The ids *)

Answered == [kind : AllKinds \cup {"CONNECT", "PINGREQ"}, msgId : Ids]

\* What a step keeps that forgets elements of the table and of the queues, and remembers what
\* was made and taken.
LEMMA Forgets ==
    ASSUME AggregatorInv,
           table' \subseteq table, packetId' = packetId,
           Elements(sendQue') \subseteq Elements(sendQue),
           Elements(fromBroker') \subseteq Elements(fromBroker),
           made \subseteq made', taken \subseteq taken'
    PROVE  IsFiniteSet(table') /\ TableOK' /\ QueueOK' /\ AnswersOK'
<1> USE DEF AggregatorInv
<1>1. IsFiniteSet(table')
  BY FS_Subset
<1>2. TableOK'
  BY DEF TableOK
<1>3. QueueOK'
  BY DEF QueueOK, QueuedOK
<1>4. AnswersOK'
  BY DEF AnswersOK, AnswerOK
<1> QED BY <1>1, <1>2, <1>3, <1>4

LEMMA IntOrder == ASSUME NEW i \in Ids, NEW j \in Ids, i <= j PROVE i # j + 1
BY AggregatorAssumption DEF Ids

\* The id that is given to a message of a client: 0, or the one of the element for it.
LEMMA IdStep ==
    ASSUME AggregatorInv, NEW m \in requests, m.msgId \in MsgIds, m.client \in Clients,
           NEW id \in Ids, PacketIdOf(m, id)
    PROVE  /\ packetId' \in Ids /\ packetId <= packetId' /\ id <= packetId'
           /\ table' \subseteq Entry /\ IsFiniteSet(table') /\ Cardinality(table') <= MaxTableSize + 1
           /\ TableOK'
           /\ \A p \in table' : \/ p \in table
                                \/ p.msgId > packetId /\ p.client = m.client /\ p.clientMsgId = m.msgId
           /\ \A p \in table' : p.msgId = id => p.client = m.client /\ p.clientMsgId = m.msgId
<1> USE DEF AggregatorInv
<1>0. /\ table \subseteq Entry /\ packetId \in Ids /\ IsFiniteSet(table)
      /\ Cardinality(table) \in Nat /\ Cardinality(table) <= MaxTableSize + 1
      /\ MaxPacketId \in Nat /\ MaxTableSize \in Nat /\ MaxMsgId \in Nat
  BY FS_CardinalityType, AggregatorAssumption DEF TypeOK
<1>1. ASSUME UNCHANGED <<table, packetId>>, id <= packetId,
             \A p \in table : p.msgId = id => p.client = m.client /\ p.clientMsgId = m.msgId
      PROVE  /\ packetId' \in Ids /\ packetId <= packetId' /\ id <= packetId'
             /\ table' \subseteq Entry /\ IsFiniteSet(table') /\ Cardinality(table') <= MaxTableSize + 1
             /\ TableOK'
             /\ \A p \in table' : \/ p \in table
                                  \/ p.msgId > packetId /\ p.client = m.client /\ p.clientMsgId = m.msgId
             /\ \A p \in table' : p.msgId = id => p.client = m.client /\ p.clientMsgId = m.msgId
  <2>1. TableOK'
    BY <1>1 DEF TableOK
  <2>2. packetId <= packetId
    BY <1>0 DEF Ids
  <2> QED BY <1>0, <1>1, <2>1, <2>2
<1>2. CASE id = 0 /\ UNCHANGED <<table, packetId>>
  <2>1. id <= packetId
    BY <1>0, <1>2 DEF Ids
  <2>2. \A p \in table : p.msgId # id
    BY <1>0, <1>2 DEF Entry
  <2> QED BY <1>1, <1>2, <2>1, <2>2
<1>3. CASE KnownId(m.client, m.msgId, id) /\ Entries(m.client, m.msgId) # {}
  <2> DEFINE p0 == CHOOSE p \in Entries(m.client, m.msgId) : TRUE
  <2>1. p0 \in Entries(m.client, m.msgId)
    BY <1>3
  <2>2. id = p0.msgId /\ UNCHANGED <<table, packetId>>
    BY <1>3 DEF KnownId
  <2> HIDE DEF p0
  <2>3. p0 \in table /\ p0.client = m.client /\ p0.clientMsgId = m.msgId
    BY <2>1 DEF Entries
  <2>4. id <= packetId /\ \A p \in table : p.msgId = id => p = p0
    BY <2>2, <2>3 DEF TableOK
  <2> QED BY <1>1, <2>2, <2>3, <2>4
<1>4. CASE /\ ~(Cardinality(table) > MaxTableSize \/ Entries(m.client, m.msgId) # {})
           /\ AddedId(m.client, m.msgId, id)
  <2> DEFINE new == [msgId |-> id, client |-> m.client, clientMsgId |-> m.msgId]
  <2>1. /\ packetId < MaxPacketId /\ id = packetId + 1 /\ packetId' = id
        /\ table' = table \cup {new}
        /\ Entries(m.client, m.msgId) = {} /\ Cardinality(table) <= MaxTableSize
    BY <1>0, <1>4 DEF AddedId
  <2>2. new \in Entry
    BY <1>0, <2>1 DEF Entry, Ids
  <2>3. new.msgId = id /\ new.client = m.client /\ new.clientMsgId = m.msgId
    OBVIOUS
  <2>4. packetId < id /\ packetId \in Nat /\ id \in Nat
    BY <1>0, <2>1 DEF Ids
  <2>5. \A p \in table : p.msgId \in Nat /\ p.msgId <= packetId /\ p.msgId < id
    BY <1>0, <2>4 DEF TableOK, Entry, Ids
  <2>6. \A p \in table : ~(p.client = m.client /\ p.clientMsgId = m.msgId)
    BY <2>1 DEF Entries
  <2> HIDE DEF new
  <2>7. IsFiniteSet(table') /\ Cardinality(table') <= Cardinality(table) + 1
    <3>1. IsFiniteSet(table \cup {new}) /\ Cardinality(table \cup {new}) =
             IF new \in table THEN Cardinality(table) ELSE Cardinality(table) + 1
      BY <1>0, FS_AddElement
    <3> QED BY <1>0, <2>1, <3>1
  <2>8. Cardinality(table') <= MaxTableSize + 1
    <3>1. Cardinality(table') \in Nat
      BY <2>7, FS_CardinalityType
    <3> QED BY <1>0, <2>1, <2>7, <3>1
  <2>9. TableOK'
    <3>1. \A p \in table' : p.msgId <= packetId'
      BY <2>1, <2>3, <2>4, <2>5
    <3>2. ASSUME NEW p \in table', NEW q \in table',
                 p.msgId = q.msgId \/ (p.client = q.client /\ p.clientMsgId = q.clientMsgId)
          PROVE  p = q
      <4>1. CASE p \in table /\ q \in table
        BY <3>2, <4>1 DEF TableOK
      <4>2. CASE p = new /\ q = new
        BY <4>2
      <4>3. CASE p \in table /\ q = new
        BY <3>2, <4>3, <2>3, <2>5, <2>6
      <4>4. CASE p = new /\ q \in table
        BY <3>2, <4>4, <2>3, <2>5, <2>6
      <4> QED BY <2>1, <4>1, <4>2, <4>3, <4>4
    <3> QED BY <3>1, <3>2 DEF TableOK
  <2>10. /\ \A p \in table' : \/ p \in table
                              \/ p.msgId > packetId /\ p.client = m.client /\ p.clientMsgId = m.msgId
         /\ \A p \in table' : p.msgId = id => p.client = m.client /\ p.clientMsgId = m.msgId
    BY <2>1, <2>3, <2>4, <2>5
  <2> QED BY <1>0, <2>1, <2>2, <2>4, <2>7, <2>8, <2>9, <2>10
<1> QED BY <1>2, <1>3, <1>4 DEF PacketIdOf, KnownId, AddedId

----------------------------------------------------------------------------
(* The variables in the next state, in groups *)

ClientType == asked' \in [Clients -> [kind : Names, msgId : MsgIds]] /\ nextMsgId' \in [Clients -> MsgIds]
RequestType == requests' \subseteq Datagrams
AnswerType == answers' \subseteq [client : Clients, kind : Names, msgId : MsgIds]
TopicType ==
    /\ active' \subseteq Clients
    /\ waitedPub' \in [Clients -> SUBSET MsgIds] /\ waitedSub' \in [Clients -> SUBSET MsgIds]
IdType == table' \subseteq Entry /\ Cardinality(table') <= MaxTableSize + 1 /\ packetId' \in Ids
ProxyType == status' \in {"Disconnected", "Connecting", "Active"} /\ retryCnt' \in 0..(MaxRetryCnt + 1)
SendType == sendQue' \in Seq(Queued)
BrokerType == opened' \in BOOLEAN /\ broker' \in {"none", "session", "closed"}
ReadType == fromBroker' \in Seq(Answered)
FaultType == faults' \in 0..MaxFaults
NoteType == made' \subseteq Request /\ taken' \subseteq Request /\ acknowledged' \subseteq Request

LEMMA NextType ==
    /\ ClientType /\ RequestType /\ AnswerType /\ TopicType /\ IdType /\ ProxyType /\ SendType
    /\ BrokerType /\ ReadType /\ FaultType /\ NoteType
    => TypeOK'
BY DEF ClientType, RequestType, AnswerType, TopicType, IdType, ProxyType, SendType, BrokerType,
       ReadType, FaultType, NoteType, TypeOK, Answered

\* A group that is left alone
LEMMA Kept ==
    ASSUME TypeOK
    PROVE  /\ UNCHANGED clientVars => ClientType
           /\ UNCHANGED requests => RequestType
           /\ UNCHANGED answers => AnswerType
           /\ UNCHANGED <<active, waitedPub, waitedSub>> => TopicType
           /\ UNCHANGED <<table, packetId>> => IdType
           /\ UNCHANGED proxyVars => ProxyType
           /\ UNCHANGED sendQue => SendType
           /\ UNCHANGED <<opened, broker>> => BrokerType
           /\ UNCHANGED fromBroker => ReadType
           /\ UNCHANGED faults => FaultType
           /\ UNCHANGED noteVars => NoteType
<1>1. /\ UNCHANGED clientVars => ClientType
      /\ UNCHANGED requests => RequestType
      /\ UNCHANGED answers => AnswerType
      /\ UNCHANGED <<active, waitedPub, waitedSub>> => TopicType
      /\ UNCHANGED <<table, packetId>> => IdType
      /\ UNCHANGED proxyVars => ProxyType
      /\ UNCHANGED sendQue => SendType
      /\ UNCHANGED fromBroker => ReadType
      /\ UNCHANGED faults => FaultType
      /\ UNCHANGED noteVars => NoteType
  BY DEF TypeOK, ClientType, RequestType, AnswerType, TopicType, IdType, ProxyType, SendType,
         ReadType, FaultType, NoteType, clientVars, proxyVars, noteVars, Answered
<1>2. UNCHANGED <<opened, broker>> => BrokerType
  BY Zenon DEF TypeOK, BrokerType
<1> QED BY <1>1, <1>2

\* How often the environment has failed
LEMMA FaultKept == ASSUME TypeOK, Fault \/ UNCHANGED faults PROVE FaultType
BY AggregatorAssumption DEF TypeOK, Fault, FaultType

\* One step of the gateway is one of Exchange, or none.
ExchangeStep == [E!Next]_(E!vars)

Good == AggregatorInv' /\ ExchangeStep

LEMMA NotesKept == UNCHANGED noteVars => ExchangeStep
BY DEF noteVars, ExchangeStep, E!vars

\* What clients wait for and send, in the next state
LEMMA RequestsKept ==
    ASSUME AggregatorInv, made \subseteq made',
           \A c \in Clients : \/ asked'[c] = asked[c]
                              \/ asked'[c].kind \in AllKinds => <<c, asked'[c].kind, asked'[c].msgId>> \in made',
           \A m \in requests' : \/ m \in requests
                                \/ m.kind \in AllKinds => <<m.client, m.kind, m.msgId>> \in made'
    PROVE  RequestsOK'
BY DEF AggregatorInv, RequestsOK

\* A step of a client, of the network or of the connection, that puts nothing into a queue
LEMMA GoodStep ==
    ASSUME AggregatorInv, RequestsOK', RetryOK',
           table' \subseteq table, packetId' = packetId,
           Elements(sendQue') \subseteq Elements(sendQue),
           Elements(fromBroker') \subseteq Elements(fromBroker),
           made \subseteq made', taken \subseteq taken',
           TypeOK'
    PROVE  AggregatorInv'
BY Forgets DEF AggregatorInv

LEMMA RetryKept == ASSUME RetryOK, UNCHANGED proxyVars PROVE RetryOK'
BY DEF RetryOK, proxyVars

LEMMA NothingType == Nothing \in [kind : Names, msgId : MsgIds] /\ Nothing.kind \notin AllKinds
BY AggregatorAssumption DEF Nothing, Names, MsgIds, AllKinds

LEMMA InitInv == Init => AggregatorInv /\ E!Init
<1> SUFFICES ASSUME Init PROVE AggregatorInv /\ E!Init
  OBVIOUS
<1> USE AggregatorAssumption
<1>1. IsFiniteSet(table) /\ Cardinality(table) = 0
  BY FS_EmptySet DEF Init
<1>2. TypeOK
  <2>1. sendQue \in Seq(Queued) /\ fromBroker \in Seq(Answered)
    BY EmptySeq DEF Init
  <2>2. /\ asked \in [Clients -> [kind : Names, msgId : MsgIds]]
        /\ nextMsgId \in [Clients -> MsgIds]
    BY NothingType DEF Init, MsgIds
  <2>3. /\ requests \subseteq Datagrams /\ answers \subseteq [client : Clients, kind : Names, msgId : MsgIds]
        /\ active \subseteq Clients /\ table \subseteq Entry
        /\ made \subseteq Request /\ taken \subseteq Request /\ acknowledged \subseteq Request
    BY DEF Init
  <2>4. waitedPub \in [Clients -> SUBSET MsgIds] /\ waitedSub \in [Clients -> SUBSET MsgIds]
    BY DEF Init
  <2>5. /\ Cardinality(table) <= MaxTableSize + 1 /\ packetId \in Ids
        /\ retryCnt \in 0..(MaxRetryCnt + 1) /\ faults \in 0..MaxFaults
    BY <1>1 DEF Init, Ids
  <2>6. opened \in BOOLEAN
    BY Zenon DEF Init
  <2>7. broker \in {"none", "session", "closed"} /\ status \in {"Disconnected", "Connecting", "Active"}
    BY DEF Init
  <2> QED BY <2>1, <2>2, <2>3, <2>4, <2>5, <2>6, <2>7 DEF TypeOK, Answered
<1>3. RetryOK /\ TableOK
  BY DEF Init, RetryOK, TableOK
<1>4. RequestsOK
  BY NothingType DEF Init, RequestsOK
<1>5. QueueOK /\ AnswersOK
  BY EmptyElements DEF Init, QueueOK, AnswersOK
<1>6. E!Init
  BY DEF Init, E!Init
<1> QED BY <1>1, <1>2, <1>3, <1>4, <1>5, <1>6 DEF AggregatorInv

----------------------------------------------------------------------------
(* The clients and the network *)

\* A step of a client leaves what the gateway and the broker have alone.
ClientStepKeeps ==
    UNCHANGED <<handlerVars, proxyVars, sendQue, brokerVars, taken, acknowledged>>

LEMMA ClientGood ==
    ASSUME AggregatorInv, ClientStepKeeps, RequestsOK', made \subseteq made', made' \subseteq Request,
           ClientType, RequestType, AnswerType, FaultType, ExchangeStep
    PROVE  Good
<1> USE DEF AggregatorInv
<1>1. TopicType /\ IdType /\ ProxyType /\ SendType /\ BrokerType /\ ReadType
  BY Kept, Zenon DEF ClientStepKeeps, handlerVars, proxyVars, brokerVars
<1>2. NoteType
  BY DEF ClientStepKeeps, NoteType, TypeOK
<1>3. TypeOK'
  BY <1>1, <1>2, NextType
<1>4. RetryOK'
  BY RetryKept DEF ClientStepKeeps
<1>5. table' = table /\ packetId' = packetId /\ sendQue' = sendQue /\ fromBroker' = fromBroker
      /\ taken' = taken
  BY DEF ClientStepKeeps, handlerVars, brokerVars
<1>6. AggregatorInv'
  BY <1>3, <1>4, <1>5, GoodStep
<1> QED BY <1>6 DEF Good

LEMMA ClientTypes ==
    ASSUME TypeOK, NEW c \in Clients
    PROVE  /\ asked[c] \in [kind : Names, msgId : MsgIds] /\ nextMsgId[c] \in MsgIds
           /\ nextMsgId[c] < MaxMsgId => nextMsgId[c] + 1 \in MsgIds /\ nextMsgId[c] + 1 \in 1..MaxMsgId
           /\ AllKinds \subseteq Names /\ LocalKinds \subseteq Names /\ "PUBREL" \in Names
           /\ AllKinds \cap LocalKinds = {} /\ "PUBREL" \notin AllKinds /\ "REJECTED" \in Names
           /\ 0 \in MsgIds
BY AggregatorAssumption DEF TypeOK, Names, MsgIds, AllKinds, LocalKinds

\* What the client asks for
LEMMA AskForType ==
    ASSUME TypeOK, NEW c \in Clients, NEW kind \in Names, NEW msgId \in MsgIds, AskFor(c, kind, msgId)
    PROVE  /\ asked' \in [Clients -> [kind : Names, msgId : MsgIds]]
           /\ RequestType
           /\ \A d \in Clients : asked'[d] = asked[d] \/ (d = c /\ asked'[d].kind = kind /\ asked'[d].msgId = msgId)
           /\ \A m \in requests' : m \in requests \/ (m.client = c /\ m.kind = kind /\ m.msgId = msgId)
<1>1. asked' = [asked EXCEPT ![c] = [kind |-> kind, msgId |-> msgId]]
      /\ requests' = requests \cup {Datagram(c, kind, msgId, FALSE)}
  BY DEF AskFor
<1>2. Datagram(c, kind, msgId, FALSE) \in Datagrams
      /\ Datagram(c, kind, msgId, FALSE).client = c
      /\ Datagram(c, kind, msgId, FALSE).kind = kind
      /\ Datagram(c, kind, msgId, FALSE).msgId = msgId
  <2>1. Datagram(c, kind, msgId, FALSE) \in Datagrams
    BY Zenon DEF Datagram, Datagrams
  <2> QED BY <2>1 DEF Datagram
<1>3. RequestType /\ \A m \in requests' : m \in requests \/ (m.client = c /\ m.kind = kind /\ m.msgId = msgId)
  BY <1>1, <1>2 DEF RequestType, TypeOK
<1>4. asked' \in [Clients -> [kind : Names, msgId : MsgIds]]
      /\ \A d \in Clients : asked'[d] = asked[d] \/ (d = c /\ asked'[d].kind = kind /\ asked'[d].msgId = msgId)
  BY <1>1 DEF TypeOK
<1> QED BY <1>3, <1>4

LEMMA AskGood == ASSUME AggregatorInv, NEW c \in Clients, Ask(c) PROVE Good
<1> USE DEF AggregatorInv
<1>1. PICK kind \in Kinds[c] \cap AllKinds :
        AskFor(c, kind, nextMsgId[c] + 1) /\ made' = made \cup {<<c, kind, nextMsgId[c] + 1>>}
  BY DEF Ask
<1> DEFINE n == nextMsgId[c] + 1
<1>2. n \in MsgIds /\ n \in 1..MaxMsgId /\ kind \in AllKinds /\ kind \in Names
  BY ClientTypes DEF Ask
<1>3. nextMsgId' = [nextMsgId EXCEPT ![c] = n] /\ ClientStepKeeps /\ UNCHANGED <<answers, faults>>
  BY DEF Ask, ClientStepKeeps
<1>4. <<c, kind, n>> \in Request /\ made' = made \cup {<<c, kind, n>>}
  BY <1>1, <1>2 DEF Request
<1> HIDE DEF n
<1>5. AskFor(c, kind, n)
  BY <1>1 DEF n
<1>6. ClientType /\ RequestType
  BY <1>2, <1>3, <1>5, AskForType DEF ClientType, TypeOK
<1>7. RequestsOK'
  BY <1>2, <1>4, <1>5, AskForType, RequestsKept
<1>8. ExchangeStep
  <2>1. E!Make(<<c, kind, n>>)
    BY <1>3, <1>4 DEF E!Make, ClientStepKeeps
  <2> QED BY <2>1, <1>4 DEF ExchangeStep, E!Next
<1>9. AnswerType /\ FaultType /\ made' \subseteq Request
  BY <1>3, <1>4, Kept DEF TypeOK
<1> QED BY <1>3, <1>4, <1>6, <1>7, <1>8, <1>9, ClientGood

LEMMA AskGatewayGood == ASSUME AggregatorInv, NEW c \in Clients, AskGateway(c) PROVE Good
<1> USE DEF AggregatorInv
<1>1. PICK kind \in Kinds[c] \cap LocalKinds : AskFor(c, kind, 0)
  BY DEF AskGateway
<1>2. 0 \in MsgIds /\ kind \notin AllKinds /\ kind \in Names
  BY ClientTypes
<1>3. ClientStepKeeps /\ UNCHANGED <<answers, faults, noteVars, nextMsgId>>
  BY DEF AskGateway, ClientStepKeeps, noteVars
<1>4. ClientType /\ RequestType
  BY <1>1, <1>2, <1>3, AskForType DEF ClientType, TypeOK
<1>5. made' = made /\ made' \subseteq Request
  BY <1>3 DEF noteVars, TypeOK
<1>6. RequestsOK'
  BY <1>1, <1>2, <1>5, AskForType, RequestsKept
<1>7. AnswerType /\ FaultType /\ ExchangeStep
  BY <1>3, Kept, NotesKept
<1> QED BY <1>3, <1>4, <1>5, <1>6, <1>7, ClientGood

LEMMA AskAgainGood == ASSUME AggregatorInv, NEW c \in Clients, AskAgain(c) PROVE Good
<1> USE DEF AggregatorInv
<1> DEFINE d == Datagram(c, asked[c].kind, asked[c].msgId, TRUE)
<1>1. /\ requests' = {d} \cup requests /\ UNCHANGED clientVars
      /\ ClientStepKeeps /\ UNCHANGED <<answers, noteVars>>
  BY DEF AskAgain, ClientStepKeeps, noteVars
<1>2. d \in Datagrams /\ d.client = c /\ d.kind = asked[c].kind /\ d.msgId = asked[c].msgId
  <2>1. asked[c].kind \in Names /\ asked[c].msgId \in MsgIds
    BY ClientTypes
  <2>2. d \in Datagrams
    BY <2>1, Zenon DEF Datagram, Datagrams
  <2>3. d.client = c /\ d.kind = asked[c].kind /\ d.msgId = asked[c].msgId
    BY DEF Datagram
  <2> QED BY <2>2, <2>3
<1> HIDE DEF d
<1>3. RequestType
  BY <1>1, <1>2 DEF RequestType, TypeOK
<1>4. Fault \/ UNCHANGED faults
  BY DEF AskAgain
<1>5. made' = made /\ made' \subseteq Request
  BY <1>1 DEF noteVars, TypeOK
<1>6. d.kind \in AllKinds => <<d.client, d.kind, d.msgId>> \in made
  BY <1>2 DEF RequestsOK
<1>7. RequestsOK'
  BY <1>1, <1>5, <1>6, RequestsKept DEF clientVars
<1>8. ClientType /\ AnswerType /\ FaultType /\ ExchangeStep
  BY <1>1, <1>4, Kept, FaultKept, NotesKept
<1> QED BY <1>1, <1>3, <1>5, <1>7, <1>8, ClientGood

LEMMA GiveUpGood == ASSUME AggregatorInv, NEW c \in Clients, GiveUp(c) PROVE Good
<1> USE DEF AggregatorInv
<1>1. /\ asked' = [asked EXCEPT ![c] = Nothing] /\ nextMsgId' = nextMsgId /\ UNCHANGED <<requests, answers>>
      /\ ClientStepKeeps /\ UNCHANGED noteVars /\ Fault
  BY DEF GiveUp, ClientStepKeeps, noteVars, netVars
<1>2. ClientType /\ \A d \in Clients : asked'[d] = asked[d] \/ asked'[d] = Nothing
  BY <1>1, NothingType DEF ClientType, TypeOK
<1>3. made' = made /\ made' \subseteq Request
  BY <1>1 DEF noteVars, TypeOK
<1>4. RequestsOK'
  BY <1>1, <1>2, <1>3, NothingType, RequestsKept
<1>5. RequestType /\ AnswerType /\ FaultType /\ ExchangeStep
  BY <1>1, Kept, FaultKept, NotesKept
<1> QED BY <1>1, <1>2, <1>3, <1>4, <1>5, ClientGood

LEMMA RestartGood == ASSUME AggregatorInv, NEW c \in Clients, Restart(c) PROVE Good
<1> USE DEF AggregatorInv
<1>1. /\ nextMsgId' = [nextMsgId EXCEPT ![c] = 0] /\ AskFor(c, "CONNECT", 0) /\ UNCHANGED answers
      /\ ClientStepKeeps /\ UNCHANGED noteVars /\ Fault
  BY DEF Restart, ClientStepKeeps, noteVars
<1>2. 0 \in MsgIds /\ "CONNECT" \in Names /\ "CONNECT" \notin AllKinds
  BY ClientTypes DEF LocalKinds
<1>3. ClientType /\ RequestType
  BY <1>1, <1>2, AskForType DEF ClientType, TypeOK
<1>4. made' = made /\ made' \subseteq Request
  BY <1>1 DEF noteVars, TypeOK
<1>5. RequestsOK'
  BY <1>1, <1>2, <1>4, AskForType, RequestsKept
<1>6. AnswerType /\ FaultType /\ ExchangeStep
  BY <1>1, Kept, FaultKept, NotesKept
<1> QED BY <1>1, <1>3, <1>4, <1>5, <1>6, ClientGood

LEMMA ReceiveGood == ASSUME AggregatorInv, NEW m \in answers, Receive(m) PROVE Good
<1> USE DEF AggregatorInv
<1>1. m.client \in Clients /\ m.msgId \in MsgIds
  BY DEF TypeOK
<1> DEFINE d == Datagram(m.client, "PUBREL", m.msgId, FALSE)
<1>2. d \in Datagrams /\ d.kind \notin AllKinds
  <2>1. "PUBREL" \in Names /\ "PUBREL" \notin AllKinds
    BY DEF Names, AllKinds
  <2>2. d \in Datagrams
    BY <1>1, <2>1, Zenon DEF Datagram, Datagrams
  <2> QED BY <2>1, <2>2 DEF Datagram
<1>3. /\ answers' \subseteq answers
      /\ asked' = asked \/ asked' = [asked EXCEPT ![m.client] = Nothing]
      /\ requests' \subseteq requests \cup {d}
      /\ nextMsgId' = nextMsgId /\ ClientStepKeeps /\ UNCHANGED <<faults, noteVars>>
  BY DEF Receive, ClientStepKeeps, noteVars
<1> HIDE DEF d
<1>4. ClientType /\ \A c \in Clients : asked'[c] = asked[c] \/ asked'[c] = Nothing
  BY <1>3, NothingType DEF ClientType, TypeOK
<1>5. RequestType /\ AnswerType
  BY <1>2, <1>3 DEF RequestType, AnswerType, TypeOK
<1>6. made' = made /\ made' \subseteq Request
  BY <1>3 DEF noteVars, TypeOK
<1>7. RequestsOK'
  BY <1>2, <1>3, <1>4, <1>6, NothingType, RequestsKept
<1>8. FaultType /\ ExchangeStep
  BY <1>3, Kept, NotesKept
<1> QED BY <1>3, <1>4, <1>5, <1>6, <1>7, <1>8, ClientGood

LEMMA LoseGood == ASSUME AggregatorInv, Lose PROVE Good
<1> USE DEF AggregatorInv
<1>1. /\ requests' \subseteq requests /\ answers' \subseteq answers /\ UNCHANGED clientVars
      /\ ClientStepKeeps /\ UNCHANGED noteVars /\ Fault
  BY DEF Lose, ClientStepKeeps, noteVars
<1>2. RequestType /\ AnswerType
  BY <1>1 DEF RequestType, AnswerType, TypeOK
<1>3. made' = made /\ made' \subseteq Request
  BY <1>1 DEF noteVars, TypeOK
<1>4. RequestsOK'
  BY <1>1, <1>3, RequestsKept DEF clientVars
<1>5. ClientType /\ FaultType /\ ExchangeStep
  BY <1>1, Kept, FaultKept, NotesKept
<1> QED BY <1>1, <1>2, <1>3, <1>4, <1>5, ClientGood

----------------------------------------------------------------------------
(* PacketHandleTask, what comes from the clients *)

LEMMA RequestFacts ==
    ASSUME TypeOK, NEW m \in requests
    PROVE  m.client \in Clients /\ m.kind \in Names /\ m.msgId \in MsgIds
BY DEF TypeOK, Datagrams

\* An answer to a client
LEMMA AnswerToType ==
    ASSUME TypeOK, NEW m, m.client \in Clients, m.kind \in Names, m.msgId \in MsgIds, Answer(m)
    PROVE  AnswerType
BY DEF TypeOK, AnswerType, Answer

\* The message is forgotten, and nothing new is asked for.
LEMMA RequestsFewer ==
    ASSUME AggregatorInv, UNCHANGED clientVars, requests' \subseteq requests, made' = made
    PROVE  ClientType /\ RequestType /\ RequestsOK'
<1>1. ClientType
  BY Kept DEF AggregatorInv
<1>2. RequestType
  BY DEF AggregatorInv, TypeOK, RequestType
<1>3. RequestsOK'
  BY RequestsKept DEF clientVars
<1> QED BY <1>1, <1>2, <1>3

\* A message of a client is put into BrokerSendQue with the id it has been given.
LEMMA ToBrokerStep ==
    ASSUME AggregatorInv, NEW m \in requests, m.kind \in AllKinds, NEW id \in Ids, PacketIdOf(m, id),
           ToBroker(m, id) \/ UNCHANGED sendQue,
           UNCHANGED <<fromBroker, made, taken>>
    PROVE  IdType /\ SendType /\ IsFiniteSet(table') /\ TableOK' /\ QueueOK' /\ AnswersOK'
<1> USE DEF AggregatorInv
<1>1. m.client \in Clients /\ m.msgId \in MsgIds /\ <<m.client, m.kind, m.msgId>> \in made
  BY RequestFacts DEF RequestsOK
<1>2. /\ packetId' \in Ids /\ packetId <= packetId' /\ id <= packetId'
      /\ table' \subseteq Entry /\ IsFiniteSet(table') /\ Cardinality(table') <= MaxTableSize + 1
      /\ TableOK'
  BY <1>1, IdStep
<1>3. /\ \A p \in table' : \/ p \in table
                           \/ p.msgId > packetId /\ p.client = m.client /\ p.clientMsgId = m.msgId
      /\ \A p \in table' : p.msgId = id => p.client = m.client /\ p.clientMsgId = m.msgId
  BY <1>1, IdStep
<1> DEFINE new == [kind |-> m.kind, msgId |-> id, client |-> m.client, clientMsgId |-> m.msgId]
<1>4. new \in Queued
  BY <1>1 DEF Queued
<1>5. new.kind = m.kind /\ new.msgId = id /\ new.client = m.client /\ new.clientMsgId = m.msgId
  OBVIOUS
<1>6. sendQue \in Seq(Queued) /\ fromBroker \in Seq(Answered)
  BY DEF TypeOK, Answered
<1>7. sendQue' = Append(sendQue, new) \/ sendQue' = sendQue
  BY DEF ToBroker
<1> HIDE DEF new
<1>8. SendType /\ Elements(sendQue') \subseteq Elements(sendQue) \cup {new}
  <2>1. Append(sendQue, new) \in Seq(Queued) /\ Elements(Append(sendQue, new)) \subseteq Elements(sendQue) \cup {new}
    BY <1>4, <1>6, AppendElement
  <2>2. CASE sendQue' = sendQue
    BY <1>6, <2>2 DEF SendType
  <2>3. CASE sendQue' = Append(sendQue, new)
    BY <2>1, <2>3 DEF SendType
  <2> QED BY <1>7, <2>2, <2>3
<1>9. QueuedOK(new)'
  BY <1>1, <1>2, <1>3, <1>5 DEF QueuedOK
<1>10. packetId \in Int /\ packetId' \in Int /\ \A p \in table' : p.msgId \in Int
  BY <1>2, AggregatorAssumption DEF Ids, Entry, TypeOK
<1>11. \A i \in Int : i <= packetId => i <= packetId' /\ \A p \in table' : p.msgId = i => p \in table
  BY <1>2, <1>3, <1>10
<1>12. \A q \in Elements(sendQue) \cup Elements(fromBroker) : q.msgId \in Int
  <2>1. \A q \in Elements(sendQue) : q \in Queued
    BY <1>6 DEF Elements
  <2>2. \A a \in Elements(fromBroker) : a \in Answered
    BY <1>6 DEF Elements
  <2> QED BY <2>1, <2>2, AggregatorAssumption DEF Queued, Answered, Ids
<1>13. QueueOK'
  <2> SUFFICES ASSUME NEW q \in Elements(sendQue'), q.kind \in AllKinds PROVE QueuedOK(q)'
    BY DEF QueueOK
  <2>1. CASE q = new
    BY <1>9, <2>1
  <2>2. CASE q \in Elements(sendQue)
    <3>1. QueuedOK(q)
      BY <2>2 DEF QueueOK
    <3> QED BY <2>2, <3>1, <1>11, <1>12 DEF QueuedOK
  <2> QED BY <1>8, <2>1, <2>2
<1>14. AnswersOK'
  <2> SUFFICES ASSUME NEW a \in Elements(fromBroker), a.kind \in AllKinds PROVE AnswerOK(a)'
    BY DEF AnswersOK
  <2>1. AnswerOK(a)
    BY DEF AnswersOK
  <2> QED BY <2>1, <1>11, <1>12 DEF AnswerOK
<1> QED BY <1>2, <1>8, <1>13, <1>14 DEF IdType

LEMMA HandlePublishGood == ASSUME AggregatorInv, NEW m \in requests, HandlePublish(m) PROVE Good
<1> USE DEF AggregatorInv
<1>1. PICK id \in 0..MaxPacketId : PacketIdOf(m, id) /\ ToBroker(m, id)
  BY DEF HandlePublish
<1>2. /\ m.kind \in AllKinds /\ id \in Ids
      /\ waitedPub' = [waitedPub EXCEPT ![m.client] = @ \cup {m.msgId}] /\ UNCHANGED <<active, waitedSub>>
      /\ requests' \subseteq requests
      /\ UNCHANGED clientVars /\ UNCHANGED proxyVars /\ UNCHANGED <<opened, broker>>
      /\ UNCHANGED <<fromBroker, answers, faults, made, taken>> /\ UNCHANGED noteVars
  BY DEF HandlePublish, AllKinds, Ids, brokerVars, noteVars
<1>3. IdType /\ SendType /\ IsFiniteSet(table') /\ TableOK' /\ QueueOK' /\ AnswersOK'
  BY <1>1, <1>2, ToBrokerStep
<1>4. m.client \in Clients /\ m.msgId \in MsgIds
  BY RequestFacts
<1>5. TopicType
  BY <1>2, <1>4 DEF TopicType, TypeOK
<1>6. ClientType /\ RequestType /\ RequestsOK'
  BY <1>2, RequestsFewer
<1>7. AnswerType /\ ProxyType /\ BrokerType /\ ReadType /\ FaultType /\ NoteType
  BY <1>2, Kept
<1>8. RetryOK'
  BY <1>2, RetryKept
<1>9. TypeOK'
  BY <1>3, <1>5, <1>6, <1>7, NextType
<1> QED BY <1>2, <1>3, <1>6, <1>8, <1>9, NotesKept DEF Good

LEMMA HandleSubscribeGood == ASSUME AggregatorInv, NEW m \in requests, HandleSubscribe(m) PROVE Good
<1> USE DEF AggregatorInv
<1>1. PICK id \in 0..MaxPacketId :
        PacketIdOf(m, id) /\ IF id = 0 THEN UNCHANGED sendQue ELSE ToBroker(m, id)
  BY DEF HandleSubscribe
<1>2. /\ m.kind \in AllKinds /\ id \in Ids
      /\ waitedSub' = waitedSub \/ waitedSub' = [waitedSub EXCEPT ![m.client] = @ \cup {m.msgId}]
      /\ UNCHANGED <<active, waitedPub>>
      /\ requests' \subseteq requests
      /\ UNCHANGED clientVars /\ UNCHANGED proxyVars /\ UNCHANGED <<opened, broker>>
      /\ UNCHANGED <<fromBroker, answers, faults, made, taken>> /\ UNCHANGED noteVars
  BY DEF HandleSubscribe, AllKinds, Ids, brokerVars, noteVars
<1>3. IdType /\ SendType /\ IsFiniteSet(table') /\ TableOK' /\ QueueOK' /\ AnswersOK'
  BY <1>1, <1>2, ToBrokerStep
<1>4. m.client \in Clients /\ m.msgId \in MsgIds
  BY RequestFacts
<1>5. TopicType
  BY <1>2, <1>4 DEF TopicType, TypeOK
<1>6. ClientType /\ RequestType /\ RequestsOK'
  BY <1>2, RequestsFewer
<1>7. AnswerType /\ ProxyType /\ BrokerType /\ ReadType /\ FaultType /\ NoteType
  BY <1>2, Kept
<1>8. RetryOK'
  BY <1>2, RetryKept
<1>9. TypeOK'
  BY <1>3, <1>5, <1>6, <1>7, NextType
<1> QED BY <1>2, <1>3, <1>6, <1>8, <1>9, NotesKept DEF Good

\* What the gateway answers by itself, or does not answer
LEMMA LocalGood ==
    ASSUME AggregatorInv, TopicType, AnswerType, requests' \subseteq requests,
           UNCHANGED clientVars, UNCHANGED proxyVars, UNCHANGED brokerVars, UNCHANGED noteVars,
           UNCHANGED <<table, packetId>>, UNCHANGED sendQue, UNCHANGED faults
    PROVE  Good
<1> USE DEF AggregatorInv
<1>1. UNCHANGED <<made, taken>> /\ UNCHANGED <<opened, broker>> /\ UNCHANGED fromBroker
  BY DEF noteVars, brokerVars
<1>2. ClientType /\ RequestType /\ RequestsOK'
  BY <1>1, RequestsFewer
<1>3. IdType /\ ProxyType /\ SendType /\ BrokerType /\ ReadType /\ FaultType /\ NoteType
  BY <1>1, Kept
<1>4. TypeOK'
  BY <1>2, <1>3, NextType
<1>5. RetryOK'
  BY RetryKept
<1>6. AggregatorInv'
  BY <1>1, <1>2, <1>4, <1>5, GoodStep
<1> QED BY <1>6, NotesKept DEF Good

LEMMA HandleUnknownTopicGood ==
    ASSUME AggregatorInv, NEW m \in requests, HandleUnknownTopic(m) PROVE Good
<1> USE DEF AggregatorInv
<1> DEFINE a == IF m.kind = "UNSUBSCRIBE" THEN m ELSE [m EXCEPT !.kind = "REJECTED"]
<1>1. /\ Answer(a) /\ requests' \subseteq requests
      /\ UNCHANGED clientVars /\ UNCHANGED proxyVars /\ UNCHANGED brokerVars /\ UNCHANGED noteVars
      /\ UNCHANGED <<table, packetId>> /\ UNCHANGED sendQue /\ UNCHANGED faults
      /\ UNCHANGED <<active, waitedPub, waitedSub>>
  BY DEF HandleUnknownTopic, handlerVars
<1>2. a.client \in Clients /\ a.kind \in Names /\ a.msgId \in MsgIds
  <2>1. m \in Datagrams
    BY DEF TypeOK
  <2> QED BY <2>1 DEF Datagrams, Names
<1> HIDE DEF a
<1>3. AnswerType
  BY <1>1, <1>2, AnswerToType
<1>4. TopicType
  BY <1>1, Kept
<1> QED BY <1>1, <1>3, <1>4, LocalGood

LEMMA HandleLocalGood == ASSUME AggregatorInv, NEW m \in requests, HandleLocal(m) PROVE Good
<1> USE DEF AggregatorInv
<1>1. m.client \in Clients /\ m.kind \in Names /\ m.msgId \in MsgIds
  BY RequestFacts
<1>2. /\ Answer(m) /\ requests' \subseteq requests
      /\ UNCHANGED clientVars /\ UNCHANGED proxyVars /\ UNCHANGED brokerVars /\ UNCHANGED noteVars
      /\ UNCHANGED <<table, packetId>> /\ UNCHANGED sendQue /\ UNCHANGED faults
  BY DEF HandleLocal
<1>3. AnswerType
  BY <1>1, <1>2, AnswerToType
<1>4. TopicType
  <2>1. /\ active' \subseteq active \cup {m.client}
        /\ waitedPub' = waitedPub \/ waitedPub' = [waitedPub EXCEPT ![m.client] = {}]
        /\ waitedSub' = waitedSub \/ waitedSub' = [waitedSub EXCEPT ![m.client] = {}]
    <3>1. CASE m.kind = "CONNECT"
      BY <3>1 DEF HandleLocal
    <3>2. CASE m.kind = "DISCONNECT"
      BY <3>2 DEF HandleLocal
    <3>3. CASE m.kind = "PINGREQ"
      BY <3>3 DEF HandleLocal
    <3> QED BY <3>1, <3>2, <3>3 DEF HandleLocal, LocalKinds
  <2> QED BY <1>1, <2>1 DEF TopicType, TypeOK
<1> QED BY <1>2, <1>3, <1>4, LocalGood

LEMMA HandlePubrelGood == ASSUME AggregatorInv, NEW m \in requests, HandlePubrel(m) PROVE Good
<1> USE DEF AggregatorInv
<1>1. /\ requests' \subseteq requests /\ UNCHANGED answers
      /\ UNCHANGED clientVars /\ UNCHANGED proxyVars /\ UNCHANGED brokerVars /\ UNCHANGED noteVars
      /\ UNCHANGED <<table, packetId>> /\ UNCHANGED sendQue /\ UNCHANGED faults
      /\ UNCHANGED <<active, waitedPub, waitedSub>>
  BY DEF HandlePubrel, handlerVars
<1>2. TopicType /\ AnswerType
  BY <1>1, Kept
<1> QED BY <1>1, <1>2, LocalGood

----------------------------------------------------------------------------
(* PacketHandleTask, what comes from the broker *)

LEMMA ReadTail ==
    ASSUME TypeOK, fromBroker # <<>>, fromBroker' = Tail(fromBroker)
    PROVE  /\ ReadType /\ Elements(fromBroker') \subseteq Elements(fromBroker)
           /\ Head(fromBroker) \in Elements(fromBroker) /\ Head(fromBroker) \in Answered
<1>1. fromBroker \in Seq(Answered)
  BY DEF TypeOK, Answered
<1> QED BY <1>1, HeadElement DEF ReadType

\* What the handlers do with an answer for the element p
LEMMA HandleForStep ==
    ASSUME TypeOK, NEW p \in table, NEW kind \in AllKinds, HandleFor(p, kind), UNCHANGED active
    PROVE  /\ TopicType /\ AnswerType
           /\ \/ UNCHANGED acknowledged
              \/ acknowledged' = acknowledged \cup {<<p.client, kind, p.clientMsgId>>}
<1>1. p.client \in Clients /\ p.clientMsgId \in MsgIds /\ kind \in Names
  BY DEF TypeOK, Entry, Names
<1>2. /\ Acknowledged(p, kind) \/ UNCHANGED <<answers, acknowledged>>
      /\ waitedPub' = waitedPub \/ waitedPub' = [waitedPub EXCEPT ![p.client] = @ \ {p.clientMsgId}]
      /\ waitedSub' = waitedSub \/ waitedSub' = [waitedSub EXCEPT ![p.client] = @ \ {p.clientMsgId}]
  BY DEF HandleFor
<1>3. TopicType
  BY <1>1, <1>2 DEF TopicType, TypeOK
<1>4. CASE UNCHANGED <<answers, acknowledged>>
  BY <1>3, <1>4, Kept
<1>5. CASE Acknowledged(p, kind)
  <2> DEFINE a == [client |-> p.client, kind |-> kind, msgId |-> p.clientMsgId]
  <2>1. a.client \in Clients /\ a.kind \in Names /\ a.msgId \in MsgIds
    BY <1>1
  <2>2. Answer(a) /\ acknowledged' = acknowledged \cup {<<p.client, kind, p.clientMsgId>>}
    BY <1>5 DEF Acknowledged
  <2> HIDE DEF a
  <2>3. AnswerType
    BY <2>1, <2>2, AnswerToType
  <2> QED BY <1>3, <2>2, <2>3
<1> QED BY <1>2, <1>4, <1>5

LEMMA HandleAnswerGood ==
    ASSUME AggregatorInv, fromBroker # <<>>, HandleAnswer(Head(fromBroker)) PROVE Good
<1> USE DEF AggregatorInv
<1> DEFINE a == Head(fromBroker)
<1>1. /\ a.kind \in AllKinds /\ fromBroker' = Tail(fromBroker)
      /\ UNCHANGED clientVars /\ UNCHANGED active /\ UNCHANGED proxyVars /\ UNCHANGED sendQue
      /\ UNCHANGED <<opened, broker>> /\ UNCHANGED requests /\ UNCHANGED faults
      /\ packetId' = packetId /\ made' = made /\ taken' = taken
  BY DEF HandleAnswer
<1>2. /\ ReadType /\ Elements(fromBroker') \subseteq Elements(fromBroker)
      /\ a \in Elements(fromBroker)
  BY <1>1, ReadTail
<1>3. AnswerOK(a)
  BY <1>1, <1>2 DEF AnswersOK
<1>4. \/ UNCHANGED <<waitedPub, waitedSub, table, answers, acknowledged>>
      \/ \E p \in table : p.msgId = a.msgId /\ table' = table \ {p} /\ HandleFor(p, a.kind)
  BY DEF HandleAnswer
<1> HIDE DEF a
<1>5. ClientType /\ RequestType /\ RequestsOK'
  BY <1>1, RequestsFewer
<1>6. ProxyType /\ SendType /\ BrokerType /\ FaultType /\ RetryOK'
  BY <1>1, Kept, RetryKept
<1>7. CASE UNCHANGED <<waitedPub, waitedSub, table, answers, acknowledged>>
  <2>1. TopicType /\ IdType /\ AnswerType /\ NoteType
    BY <1>1, <1>7, Kept DEF noteVars
  <2>2. TypeOK'
    BY <1>2, <1>5, <1>6, <2>1, NextType
  <2>3. AggregatorInv'
    BY <1>1, <1>2, <1>5, <1>6, <1>7, <2>2, GoodStep
  <2>4. ExchangeStep
    BY <1>1, <1>7, NotesKept DEF noteVars
  <2> QED BY <2>3, <2>4 DEF Good
<1>8. ASSUME NEW p \in table, p.msgId = a.msgId, table' = table \ {p}, HandleFor(p, a.kind)
      PROVE  Good
  <2> DEFINE r == <<p.client, a.kind, p.clientMsgId>>
  <2>1. /\ TopicType /\ AnswerType
        /\ UNCHANGED acknowledged \/ acknowledged' = acknowledged \cup {r}
    BY <1>1, <1>8, HandleForStep
  <2>2. r \in taken /\ r \in Request
    BY <1>3, <1>8 DEF AnswerOK, TypeOK
  <2> HIDE DEF r
  <2>3. NoteType
    BY <1>1, <2>1, <2>2 DEF NoteType, TypeOK
  <2>4. IdType
    <3>1. IsFiniteSet(table') /\ Cardinality(table') <= Cardinality(table)
      BY <1>8, FS_Subset
    <3>2. Cardinality(table') \in Nat /\ Cardinality(table) \in Nat
      BY <3>1, FS_CardinalityType
    <3>3. Cardinality(table') <= MaxTableSize + 1
      BY <3>1, <3>2, AggregatorAssumption DEF TypeOK
    <3> QED BY <1>1, <1>8, <3>3 DEF IdType, TypeOK
  <2>5. TypeOK'
    BY <1>2, <1>5, <1>6, <2>1, <2>3, <2>4, NextType
  <2>6. AggregatorInv'
    BY <1>1, <1>2, <1>5, <1>6, <1>8, <2>5, GoodStep
  <2>7. ExchangeStep
    <3>1. CASE UNCHANGED acknowledged
      BY <1>1, <3>1, NotesKept DEF noteVars
    <3>2. CASE acknowledged' = acknowledged \cup {r}
      <4>1. E!Acknowledge(r)
        BY <1>1, <2>2, <3>2 DEF E!Acknowledge
      <4> QED BY <2>2, <4>1 DEF ExchangeStep, E!Next
    <3> QED BY <2>1, <3>1, <3>2
  <2> QED BY <2>6, <2>7 DEF Good
<1> QED BY <1>4, <1>7, <1>8

\* A step of PacketHandleTask or of the connection that touches the proxy, the queue to the
\* broker and what comes from it, and nothing else
LEMMA ConnectionGood ==
    ASSUME AggregatorInv, ProxyType, RetryOK', SendType, BrokerType, ReadType, FaultType,
           \A q \in Elements(sendQue') : q \in Elements(sendQue) \/ q.kind \notin AllKinds,
           \A a \in Elements(fromBroker') : a \in Elements(fromBroker) \/ a.kind \notin AllKinds,
           UNCHANGED clientVars, UNCHANGED handlerVars, UNCHANGED netVars, UNCHANGED noteVars
    PROVE  Good
<1> USE DEF AggregatorInv
<1>1. /\ UNCHANGED requests /\ UNCHANGED answers /\ UNCHANGED <<table, packetId>>
      /\ UNCHANGED <<active, waitedPub, waitedSub>> /\ made' = made /\ taken' = taken
  BY DEF netVars, handlerVars, noteVars
<1>2. ClientType /\ RequestType /\ RequestsOK'
  BY <1>1, RequestsFewer
<1>3. AnswerType /\ TopicType /\ IdType /\ NoteType
  BY <1>1, Kept
<1>4. TypeOK'
  BY <1>2, <1>3, NextType
<1>5. IsFiniteSet(table') /\ TableOK'
  BY <1>1 DEF TableOK
<1>6. QueueOK' /\ AnswersOK'
  BY <1>1 DEF QueueOK, AnswersOK, QueuedOK, AnswerOK
<1> QED BY <1>2, <1>4, <1>5, <1>6, NotesKept DEF Good

LEMMA HandleConnackGood ==
    ASSUME AggregatorInv, fromBroker # <<>>, HandleConnack(Head(fromBroker)) PROVE Good
<1> USE DEF AggregatorInv
<1>1. /\ fromBroker' = Tail(fromBroker) /\ status' = "Active" /\ retryCnt' = 0
      /\ UNCHANGED clientVars /\ UNCHANGED handlerVars /\ UNCHANGED sendQue
      /\ UNCHANGED <<opened, broker>> /\ UNCHANGED netVars /\ UNCHANGED faults /\ UNCHANGED noteVars
  BY DEF HandleConnack
<1>2. ReadType /\ Elements(fromBroker') \subseteq Elements(fromBroker)
  BY <1>1, ReadTail
<1>3. ProxyType /\ RetryOK'
  BY <1>1, AggregatorAssumption DEF ProxyType, RetryOK
<1>4. SendType /\ BrokerType /\ FaultType
  BY <1>1, Kept
<1> QED BY <1>1, <1>2, <1>3, <1>4, ConnectionGood

LEMMA HandlePingrespGood ==
    ASSUME AggregatorInv, fromBroker # <<>>, HandlePingresp(Head(fromBroker)) PROVE Good
<1> USE DEF AggregatorInv
<1>1. /\ fromBroker' = Tail(fromBroker) /\ status' = status /\ retryCnt' = 0
      /\ UNCHANGED clientVars /\ UNCHANGED handlerVars /\ UNCHANGED sendQue
      /\ UNCHANGED <<opened, broker>> /\ UNCHANGED netVars /\ UNCHANGED faults /\ UNCHANGED noteVars
  BY DEF HandlePingresp
<1>2. ReadType /\ Elements(fromBroker') \subseteq Elements(fromBroker)
  BY <1>1, ReadTail
<1>3. ProxyType /\ RetryOK'
  BY <1>1, AggregatorAssumption DEF ProxyType, RetryOK, TypeOK
<1>4. SendType /\ BrokerType /\ FaultType
  BY <1>1, Kept
<1> QED BY <1>1, <1>2, <1>3, <1>4, ConnectionGood

----------------------------------------------------------------------------
(* The proxy and the connection to the broker *)

LEMMA ProxyMessageStep ==
    ASSUME TypeOK, NEW kind \in {"CONNECT", "PINGREQ"}, sendQue' = ProxyMessage(kind)
    PROVE  /\ SendType
           /\ \A q \in Elements(sendQue') : q \in Elements(sendQue) \/ q.kind \notin AllKinds
<1> DEFINE new == [kind |-> kind, msgId |-> 0]
<1>1. new \in Queued /\ new.kind \notin AllKinds
  BY DEF Queued, AllKinds
<1>2. sendQue' = Append(sendQue, new) /\ sendQue \in Seq(Queued)
  BY DEF ProxyMessage, TypeOK
<1> HIDE DEF new
<1>3. sendQue' \in Seq(Queued) /\ Elements(sendQue') \subseteq Elements(sendQue) \cup {new}
  BY <1>1, <1>2, AppendElement
<1> QED BY <1>1, <1>3 DEF SendType

LEMMA ProxyGood == ASSUME AggregatorInv, ProxyStep PROVE Good
<1> USE DEF AggregatorInv
<1>1. CASE ProxyConnects
  <2>1. /\ status' = "Disconnected" /\ retryCnt' = retryCnt /\ sendQue' = ProxyMessage("CONNECT")
        /\ UNCHANGED clientVars /\ UNCHANGED handlerVars /\ UNCHANGED <<opened, broker>>
        /\ fromBroker' = fromBroker /\ UNCHANGED netVars /\ UNCHANGED faults /\ UNCHANGED noteVars
    BY <1>1 DEF ProxyConnects, brokerVars
  <2>2. SendType /\ \A q \in Elements(sendQue') : q \in Elements(sendQue) \/ q.kind \notin AllKinds
    BY <2>1, ProxyMessageStep
  <2>3. ProxyType /\ RetryOK'
    BY <2>1 DEF ProxyType, RetryOK, TypeOK
  <2>4. BrokerType /\ ReadType /\ FaultType
    BY <2>1, Kept
  <2> QED BY <2>1, <2>2, <2>3, <2>4, ConnectionGood
<1>2. CASE ProxyPings
  <2>1. /\ status = "Active" /\ retryCnt' = retryCnt + 1 /\ sendQue' = ProxyMessage("PINGREQ")
        /\ status' = IF retryCnt + 1 > MaxRetryCnt THEN "Disconnected" ELSE status
        /\ UNCHANGED clientVars /\ UNCHANGED handlerVars /\ UNCHANGED <<opened, broker>>
        /\ fromBroker' = fromBroker /\ UNCHANGED netVars /\ UNCHANGED faults /\ UNCHANGED noteVars
    BY <1>2 DEF ProxyPings, brokerVars
  <2>2. SendType /\ \A q \in Elements(sendQue') : q \in Elements(sendQue) \/ q.kind \notin AllKinds
    BY <2>1, ProxyMessageStep
  <2>3. ProxyType /\ RetryOK'
    BY <2>1, AggregatorAssumption DEF ProxyType, RetryOK, TypeOK
  <2>4. BrokerType /\ ReadType /\ FaultType
    BY <2>1, Kept
  <2> QED BY <2>1, <2>2, <2>3, <2>4, ConnectionGood
<1> QED BY <1>1, <1>2 DEF ProxyStep

LEMMA SendTail ==
    ASSUME TypeOK, sendQue # <<>>, sendQue' = Tail(sendQue)
    PROVE  /\ SendType /\ Elements(sendQue') \subseteq Elements(sendQue)
           /\ Head(sendQue) \in Elements(sendQue) /\ Head(sendQue) \in Queued
<1>1. sendQue \in Seq(Queued)
  BY DEF TypeOK
<1> QED BY <1>1, HeadElement DEF SendType

\* The messages of the proxy, as the broker answers them
LEMMA ProxyMessageType ==
    ASSUME NEW q \in Queued, q.kind \in {"CONNECT", "PINGREQ"}
    PROVE  q \in Answered /\ q.kind \notin AllKinds
<1>1. q.kind \notin AllKinds
  BY DEF AllKinds
<1>2. q \in [kind : {"CONNECT", "PINGREQ"}, msgId : {0}]
  BY <1>1 DEF Queued
<1>3. 0 \in Ids
  BY AggregatorAssumption DEF Ids
<1> QED BY <1>1, <1>2, <1>3 DEF Answered

\* Nothing has come from the broker.
LEMMA NothingRead ==
    ASSUME fromBroker' = <<>>
    PROVE  ReadType /\ \A a \in Elements(fromBroker') : a \in Elements(fromBroker) \/ a.kind \notin AllKinds
BY EmptySeq, EmptyElements DEF ReadType

\* The broker answers a message of the proxy.
LEMMA ProxyAnswered ==
    ASSUME TypeOK, NEW a \in Answered, a.kind \notin AllKinds,
           fromBroker' = <<a>> \/ fromBroker' = Append(fromBroker, a) \/ fromBroker' = fromBroker
    PROVE  ReadType /\ \A b \in Elements(fromBroker') : b \in Elements(fromBroker) \/ b.kind \notin AllKinds
<1>1. fromBroker \in Seq(Answered)
  BY DEF TypeOK, Answered
<1>2. CASE fromBroker' = <<a>>
  BY <1>2, SingleElement DEF ReadType
<1>3. CASE fromBroker' = Append(fromBroker, a)
  <2>1. fromBroker' \in Seq(Answered) /\ Elements(fromBroker') \subseteq Elements(fromBroker) \cup {a}
    BY <1>1, <1>3, AppendElement
  <2> QED BY <2>1 DEF ReadType
<1>4. CASE fromBroker' = fromBroker
  BY <1>1, <1>4 DEF ReadType
<1> QED BY <1>2, <1>3, <1>4

LEMMA SendConnectGood == ASSUME AggregatorInv, SendConnect PROVE Good
<1> USE DEF AggregatorInv
<1> DEFINE q == Head(sendQue)
<1>1. /\ sendQue # <<>> /\ q.kind = "CONNECT" /\ sendQue' = Tail(sendQue)
      /\ broker' = "session" /\ fromBroker' = <<q>> /\ status' = "Connecting" /\ retryCnt' = retryCnt
      /\ UNCHANGED clientVars /\ UNCHANGED handlerVars /\ UNCHANGED netVars /\ UNCHANGED faults
      /\ UNCHANGED noteVars
  BY DEF SendConnect
<1>2. SendType /\ Elements(sendQue') \subseteq Elements(sendQue) /\ q \in Queued
  BY <1>1, SendTail
<1> HIDE DEF q
<1>3. q \in Answered /\ q.kind \notin AllKinds
  BY <1>1, <1>2, ProxyMessageType
<1>4. ReadType /\ \A a \in Elements(fromBroker') : a \in Elements(fromBroker) \/ a.kind \notin AllKinds
  BY <1>1, <1>3, ProxyAnswered
<1>5. ProxyType /\ RetryOK'
  BY <1>1 DEF ProxyType, RetryOK, TypeOK
<1>6. BrokerType
  <2>1. opened' \in BOOLEAN
    BY Zenon DEF SendConnect
  <2> QED BY <1>1, <2>1 DEF BrokerType
<1>7. FaultType
  BY <1>1, Kept
<1> QED BY <1>1, <1>2, <1>4, <1>5, <1>6, <1>7, ConnectionGood

LEMMA SendOutsideGood == ASSUME AggregatorInv, SendFails \/ SendUnconnected PROVE Good
<1> USE DEF AggregatorInv
<1>1. /\ sendQue # <<>> /\ sendQue' = Tail(sendQue)
      /\ broker' \in {"none", "closed"} /\ fromBroker' = <<>>
      /\ UNCHANGED clientVars /\ UNCHANGED handlerVars /\ UNCHANGED proxyVars /\ UNCHANGED netVars
      /\ UNCHANGED noteVars
  BY DEF SendFails, SendUnconnected
<1>2. SendType /\ Elements(sendQue') \subseteq Elements(sendQue)
  BY <1>1, SendTail
<1>3. BrokerType
  <2>1. opened' \in BOOLEAN
    BY Zenon DEF SendFails, SendUnconnected
  <2> QED BY <1>1, <2>1 DEF BrokerType
<1>4. FaultType
  <2>1. Fault \/ UNCHANGED faults
    BY DEF SendFails, SendUnconnected
  <2> QED BY <2>1, FaultKept
<1>5. ProxyType /\ RetryOK'
  BY <1>1, Kept, RetryKept
<1>6. ReadType /\ \A a \in Elements(fromBroker') : a \in Elements(fromBroker) \/ a.kind \notin AllKinds
  BY <1>1, NothingRead
<1> QED BY <1>1, <1>2, <1>3, <1>4, <1>5, <1>6, ConnectionGood

LEMMA SendPingreqGood == ASSUME AggregatorInv, SendPingreq PROVE Good
<1> USE DEF AggregatorInv
<1> DEFINE q == Head(sendQue)
<1>1. /\ sendQue # <<>> /\ q.kind = "PINGREQ" /\ sendQue' = Tail(sendQue)
      /\ fromBroker' = Append(fromBroker, q) \/ fromBroker' = fromBroker
      /\ UNCHANGED clientVars /\ UNCHANGED handlerVars /\ UNCHANGED proxyVars
      /\ UNCHANGED <<opened, broker>> /\ UNCHANGED netVars /\ UNCHANGED faults /\ UNCHANGED noteVars
  BY DEF SendPingreq
<1>2. SendType /\ Elements(sendQue') \subseteq Elements(sendQue) /\ q \in Queued
  BY <1>1, SendTail
<1> HIDE DEF q
<1>3. q \in Answered /\ q.kind \notin AllKinds
  BY <1>1, <1>2, ProxyMessageType
<1>4. ReadType /\ \A a \in Elements(fromBroker') : a \in Elements(fromBroker) \/ a.kind \notin AllKinds
  BY <1>1, <1>3, ProxyAnswered
<1>5. ProxyType /\ RetryOK' /\ BrokerType /\ FaultType
  BY <1>1, Kept, RetryKept
<1> QED BY <1>1, <1>2, <1>4, <1>5, ConnectionGood

LEMMA ClosingGood == ASSUME AggregatorInv, ConnectionClosed \/ BrokerCloses PROVE Good
<1> USE DEF AggregatorInv
<1>1. /\ UNCHANGED clientVars /\ UNCHANGED handlerVars /\ UNCHANGED proxyVars /\ UNCHANGED sendQue
      /\ UNCHANGED netVars /\ UNCHANGED noteVars
  BY DEF ConnectionClosed, BrokerCloses
<1>2. broker \in {"none", "session", "closed"} /\ opened \in BOOLEAN
  BY DEF TypeOK
<1>3. BrokerType
  <2>1. opened' \in BOOLEAN
    BY <1>2, Zenon DEF ConnectionClosed, BrokerCloses
  <2>2. broker' \in {"none", "session", "closed"}
    BY <1>2 DEF ConnectionClosed, BrokerCloses
  <2> QED BY <2>1, <2>2 DEF BrokerType
<1>4. ReadType /\ \A a \in Elements(fromBroker') : a \in Elements(fromBroker) \/ a.kind \notin AllKinds
  <2>1. CASE fromBroker' = <<>>
    BY <2>1, NothingRead
  <2>2. CASE fromBroker' = fromBroker
    BY <2>2, Kept
  <2>3. fromBroker' = fromBroker \/ fromBroker' = <<>>
    BY DEF ConnectionClosed, BrokerCloses
  <2> QED BY <2>1, <2>2, <2>3
<1>5. FaultType
  <2>1. Fault \/ UNCHANGED faults
    BY DEF ConnectionClosed, BrokerCloses
  <2> QED BY <2>1, FaultKept
<1>6. ProxyType /\ RetryOK' /\ SendType
  BY <1>1, Kept, RetryKept
<1>7. \A q \in Elements(sendQue') : q \in Elements(sendQue)
  BY <1>1
<1> QED BY <1>1, <1>3, <1>4, <1>5, <1>6, <1>7, ConnectionGood

\* A request of a client: the broker takes it, or closes the connection.
LEMMA SendRequestGood == ASSUME AggregatorInv, SendRequest PROVE Good
<1> USE DEF AggregatorInv
<1> DEFINE q == Head(sendQue)
           r == <<q.client, q.kind, q.clientMsgId>>
           a == [kind |-> q.kind, msgId |-> q.msgId]
<1>1. /\ sendQue # <<>> /\ q.kind \in AllKinds /\ sendQue' = Tail(sendQue)
      /\ UNCHANGED clientVars /\ UNCHANGED handlerVars /\ UNCHANGED proxyVars
      /\ UNCHANGED netVars /\ UNCHANGED faults /\ opened' = opened
      /\ made' = made /\ acknowledged' = acknowledged
  BY DEF SendRequest
<1>2. \/ /\ fromBroker' = Append(fromBroker, a) /\ taken' = taken \cup {r}
         /\ broker' = broker /\ q.msgId # 0
      \/ broker' = "closed" /\ fromBroker' = fromBroker /\ taken' = taken
  BY DEF SendRequest
<1>3. SendType /\ Elements(sendQue') \subseteq Elements(sendQue) /\ q \in Elements(sendQue) /\ q \in Queued
  BY <1>1, SendTail
<1>4. QueuedOK(q)
  BY <1>1, <1>3 DEF QueueOK
<1>5. r \in made /\ r \in Request
  BY <1>4 DEF QueuedOK, TypeOK
<1>6. a \in Answered /\ a.kind = q.kind /\ a.msgId = q.msgId
  BY <1>1, <1>3 DEF Queued, Answered, AllKinds
<1>7. a.msgId <= packetId /\ \A p \in table : p.msgId = a.msgId => <<p.client, a.kind, p.clientMsgId>> = r
  BY <1>4, <1>6 DEF QueuedOK
<1> HIDE DEF q, r, a
<1>8. UNCHANGED requests /\ UNCHANGED answers /\ UNCHANGED <<active, waitedPub, waitedSub>>
      /\ UNCHANGED <<table, packetId>> /\ table' = table /\ packetId' = packetId
  BY <1>1 DEF netVars, handlerVars
<1>9. ClientType /\ RequestType /\ RequestsOK'
  BY <1>1, <1>8, RequestsFewer
<1>10. AnswerType /\ TopicType /\ IdType /\ ProxyType /\ FaultType /\ RetryOK'
  BY <1>1, <1>8, Kept, RetryKept
<1>11. fromBroker \in Seq(Answered)
  BY DEF TypeOK, Answered
<1>12. ReadType /\ Elements(fromBroker') \subseteq Elements(fromBroker) \cup {a}
  <2>1. CASE fromBroker' = fromBroker
    BY <2>1, <1>11 DEF ReadType
  <2>2. CASE fromBroker' = Append(fromBroker, a)
    BY <2>2, <1>6, <1>11, AppendElement DEF ReadType
  <2> QED BY <1>2, <2>1, <2>2
<1>13. BrokerType
  <2>1. opened' \in BOOLEAN
    BY <1>1, Zenon DEF TypeOK
  <2>2. broker' \in {"none", "session", "closed"}
    BY <1>2 DEF TypeOK
  <2> QED BY <2>1, <2>2 DEF BrokerType
<1>14. NoteType
  BY <1>1, <1>2, <1>5 DEF NoteType, TypeOK
<1>15. TypeOK'
  BY <1>3, <1>9, <1>10, <1>12, <1>13, <1>14, NextType
<1>16. IsFiniteSet(table') /\ TableOK' /\ QueueOK'
  BY <1>1, <1>3, <1>8 DEF TableOK, QueueOK, QueuedOK
<1>17. AnswersOK'
  <2> SUFFICES ASSUME NEW b \in Elements(fromBroker'), b.kind \in AllKinds PROVE AnswerOK(b)'
    BY DEF AnswersOK
  <2>1. CASE b \in Elements(fromBroker)
    <3>1. AnswerOK(b)
      BY <2>1 DEF AnswersOK
    <3> QED BY <1>2, <1>8, <3>1 DEF AnswerOK
  <2>2. CASE b = a /\ taken' = taken \cup {r}
    BY <2>2, <1>7, <1>8 DEF AnswerOK
  <2>3. CASE fromBroker' = fromBroker
    BY <2>1, <2>3
  <2> QED BY <1>2, <1>12, <2>1, <2>2, <2>3
<1>18. ExchangeStep
  <2>1. CASE taken' = taken
    BY <1>1, <2>1, NotesKept DEF noteVars
  <2>2. CASE taken' = taken \cup {r}
    <3>1. E!Take(r)
      BY <1>1, <1>5, <2>2 DEF E!Take
    <3> QED BY <1>5, <3>1 DEF ExchangeStep, E!Next
  <2> QED BY <1>2, <2>1, <2>2
<1> QED BY <1>9, <1>10, <1>15, <1>16, <1>17, <1>18 DEF Good

----------------------------------------------------------------------------
(* All steps *)

LEMMA StepGood == AggregatorInv /\ [Next]_vars => Good
<1> SUFFICES ASSUME AggregatorInv, [Next]_vars PROVE Good
  OBVIOUS
<1>1. ASSUME NEW c \in Clients, Ask(c) \/ AskGateway(c) \/ AskAgain(c) \/ GiveUp(c) \/ Restart(c)
      PROVE  Good
  BY <1>1, AskGood, AskGatewayGood, AskAgainGood, GiveUpGood, RestartGood
<1>2. ASSUME NEW m \in answers, Receive(m) PROVE Good
  BY <1>2, ReceiveGood
<1>3. CASE FromClient
  <2>1. PICK m \in requests :
          HandlePublish(m) \/ HandleUnknownTopic(m) \/ HandleSubscribe(m) \/ HandleLocal(m) \/ HandlePubrel(m)
    BY <1>3 DEF FromClient
  <2> QED BY <2>1, HandlePublishGood, HandleUnknownTopicGood, HandleSubscribeGood, HandleLocalGood,
             HandlePubrelGood
<1>4. CASE FromBroker
  BY <1>4, HandleAnswerGood, HandleConnackGood, HandlePingrespGood DEF FromBroker
<1>5. CASE SendStep
  BY <1>5, SendConnectGood, SendOutsideGood, SendRequestGood, SendPingreqGood DEF SendStep
<1>6. CASE Lose \/ ProxyStep \/ ConnectionClosed \/ BrokerCloses
  BY <1>6, LoseGood, ProxyGood, ClosingGood
<1>7. CASE UNCHANGED vars
  <2>1. /\ UNCHANGED clientVars /\ UNCHANGED handlerVars /\ UNCHANGED proxyVars /\ UNCHANGED sendQue
        /\ UNCHANGED brokerVars /\ UNCHANGED netVars /\ UNCHANGED faults /\ UNCHANGED noteVars
    BY <1>7 DEF vars
  <2>2. UNCHANGED <<opened, broker>> /\ UNCHANGED fromBroker
    BY <2>1 DEF brokerVars
  <2>3. ProxyType /\ SendType /\ BrokerType /\ ReadType /\ FaultType /\ RetryOK'
    BY <2>1, <2>2, Kept, RetryKept DEF AggregatorInv
  <2> QED BY <2>1, <2>2, <2>3, ConnectionGood
<1> QED BY <1>1, <1>2, <1>3, <1>4, <1>5, <1>6, <1>7 DEF Next

LEMMA InvAlways == Spec => []AggregatorInv
<1>1. Init => AggregatorInv
  BY InitInv
<1>2. AggregatorInv /\ [Next]_vars => AggregatorInv'
  BY StepGood DEF Good
<1> QED BY <1>1, <1>2, PTL DEF Spec

\* The variables have their types: MessageIdTable never has more than one element over its
\* maximum, and the proxy pings no more often than it may before it connects again.
THEOREM TypeCorrect == Spec => []TypeOK
<1>1. AggregatorInv => TypeOK
  BY DEF AggregatorInv
<1> QED BY <1>1, InvAlways, PTL

\* MessageIdTable is one to one: an id of a client has one packet id, a packet id belongs to one
\* id of one client.
THEOREM TableCorrect == Spec => []TableOK
<1>1. AggregatorInv => TableOK
  BY DEF AggregatorInv
<1> QED BY <1>1, InvAlways, PTL

\* The aggregating gateway implements Exchange: what a client is acknowledged, it has asked for
\* itself and the broker has taken.
THEOREM ImplementsExchange == Spec => Exchanges
<1>1. Init => E!Init
  BY InitInv
<1>2. AggregatorInv /\ [Next]_vars => [E!Next]_(E!vars)
  BY StepGood DEF Good, ExchangeStep
<1> QED BY <1>1, <1>2, InvAlways, PTL DEF Spec, Exchanges, E!Spec
==============================================================================
