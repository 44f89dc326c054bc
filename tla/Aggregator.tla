------------------------------ MODULE Aggregator ------------------------------
(***************************************************************************)
(* The aggregating gateway (AggregatingGateway=YES): its clients share the *)
(* connection of one more Client, the aggregater, to the broker.           *)
(*                                                                         *)
(* A request of a client goes to the broker under a packet id of the       *)
(* aggregater, which MessageIdTable keeps with the client and the id the   *)
(* client gave it, until the answer comes.  Proxy connects the aggregater  *)
(* and pings the broker, when PacketHandleTask has had nothing to do for a *)
(* while.  The clients are declared in a list, so none of them is erased.  *)
(***************************************************************************)
EXTENDS Integers, Sequences, FiniteSets

CONSTANTS
    Clients,
    Kinds,             \* what each of them asks for
    MaxTableSize,      \* MAX_MESSAGEID_TABLE_SIZE
    MaxRetryCnt,       \* QOSM1_PROXY_MAX_RETRY_CNT
    MaxMsgId,          \* bound: message ids a client uses
    MaxPacketId,       \* bound: packet ids the aggregater uses; they begin again after 0xfffe
    MaxQueue,          \* bound: packets of the clients in BrokerSendQue
    MaxFaults          \* bound: datagrams lost or late, requests given up, clients restarted,
                       \* failures of the broker

\* PUBLISH1 and PUBLISH2 are a PUBLISH with QoS 1 and 2.
AllKinds == {"PUBLISH1", "PUBLISH2", "SUBSCRIBE", "UNSUBSCRIBE"}

\* What the gateway answers by itself.
LocalKinds == {"CONNECT", "PINGREQ", "DISCONNECT"}

ASSUME AggregatorAssumption ==
    /\ Kinds \in [Clients -> SUBSET (AllKinds \cup LocalKinds)]
    /\ MaxTableSize \in Nat /\ MaxRetryCnt \in Nat
    /\ MaxMsgId \in Nat /\ MaxPacketId \in Nat /\ MaxQueue \in Nat /\ MaxFaults \in Nat

VARIABLES
    asked,             \* what each client waits for the answer of: [kind, msgId], or Nothing
    nextMsgId,         \* the last message id each client has used
    requests, answers, \* datagrams on their way
    active,            \* the clients that are Cstat_Active
    waitedPub, waitedSub,  \* TopicIdMaps of each client: message ids
    table,             \* MessageIdTable: [msgId, client, clientMsgId]
    packetId,          \* Client::_packetId of the aggregater's secure Client
    status,            \* Client::_status of the aggregater
    retryCnt,          \* Proxy::_retryCnt
    sendQue,           \* BrokerSendQue
    opened,            \* Network::isValid of the aggregater
    broker,            \* what its connection is to the broker: "none", "session" or "closed"
    fromBroker,        \* what the broker has sent on it
    faults,
    made, taken, acknowledged  \* requests: made by clients, taken by the broker, acknowledged

clientVars == <<asked, nextMsgId>>
handlerVars == <<active, waitedPub, waitedSub, table, packetId>>
proxyVars  == <<status, retryCnt>>
brokerVars == <<opened, broker, fromBroker>>
netVars    == <<requests, answers>>
noteVars   == <<made, taken, acknowledged>>

vars == <<clientVars, handlerVars, proxyVars, sendQue, brokerVars, netVars, faults, noteVars>>

Nothing == [kind |-> "none", msgId |-> 0]
Request == Clients \X AllKinds \X (1..MaxMsgId)

Init ==
    /\ asked = [c \in Clients |-> Nothing] /\ nextMsgId = [c \in Clients |-> 0]
    /\ requests = {} /\ answers = {}
    /\ active = Clients
    /\ waitedPub = [c \in Clients |-> {}] /\ waitedSub = [c \in Clients |-> {}]
    /\ table = {} /\ packetId = 0
    /\ status = "Disconnected" /\ retryCnt = 0
    /\ sendQue = <<>>
    /\ opened = FALSE /\ broker = "none" /\ fromBroker = <<>>
    /\ faults = 0
    /\ made = {} /\ taken = {} /\ acknowledged = {}

Fault == faults < MaxFaults /\ faults' = faults + 1

\* What was to be sent to the broker has been sent, and what has come has been handled.
Quiet == sendQue = <<>> /\ fromBroker = <<>>

----------------------------------------------------------------------------
(* The clients. *)

Datagram(c, kind, msgId, dup) == [client |-> c, kind |-> kind, msgId |-> msgId, dup |-> dup]

AskFor(c, kind, msgId) ==
    /\ asked' = [asked EXCEPT ![c] = [kind |-> kind, msgId |-> msgId]]
    /\ requests' = requests \cup {Datagram(c, kind, msgId, FALSE)}

Ask(c) ==
    /\ asked[c] = Nothing /\ nextMsgId[c] < MaxMsgId
    /\ nextMsgId' = [nextMsgId EXCEPT ![c] = @ + 1]
    /\ \E kind \in Kinds[c] \cap AllKinds :
          /\ AskFor(c, kind, nextMsgId[c] + 1)
          /\ made' = made \cup {<<c, kind, nextMsgId[c] + 1>>}
    /\ UNCHANGED <<handlerVars, proxyVars, sendQue, brokerVars, answers, faults, taken, acknowledged>>

AskGateway(c) ==
    /\ asked[c] = Nothing
    /\ \E kind \in Kinds[c] \cap LocalKinds : AskFor(c, kind, 0)
    /\ UNCHANGED <<nextMsgId, handlerVars, proxyVars, sendQue, brokerVars, answers, faults, noteVars>>

\* The timer of the answer is up.
AskAgain(c) ==
    /\ asked[c] # Nothing
    /\ IF \E m \in requests \cup answers : m.client = c THEN Fault ELSE Quiet /\ UNCHANGED faults
    /\ requests' = {Datagram(c, asked[c].kind, asked[c].msgId, TRUE)} \cup requests
    /\ UNCHANGED <<clientVars, handlerVars, proxyVars, sendQue, brokerVars, answers, noteVars>>

GiveUp(c) ==
    /\ Fault
    /\ asked[c] # Nothing
    /\ asked' = [asked EXCEPT ![c] = Nothing]
    /\ UNCHANGED <<nextMsgId, handlerVars, proxyVars, sendQue, brokerVars, netVars, noteVars>>

\* A PUBREC is answered with a PUBREL.
Receive(m) ==
    /\ answers' = answers \ {m}
    /\ asked' = IF asked[m.client].msgId = m.msgId /\ m.kind \in {asked[m.client].kind, "REJECTED"}
                THEN [asked EXCEPT ![m.client] = Nothing] ELSE asked
    /\ requests' = IF m.kind = "PUBLISH2"
                   THEN requests \cup {Datagram(m.client, "PUBREL", m.msgId, FALSE)} ELSE requests
    /\ UNCHANGED <<nextMsgId, handlerVars, proxyVars, sendQue, brokerVars, faults, noteVars>>

\* A client that is switched on again begins with message id 1.
Restart(c) ==
    /\ Fault
    /\ nextMsgId' = [nextMsgId EXCEPT ![c] = 0]
    /\ AskFor(c, "CONNECT", 0)
    /\ UNCHANGED <<handlerVars, proxyVars, sendQue, brokerVars, answers, noteVars>>

Lose ==
    /\ Fault
    /\ \/ \E m \in requests : requests' = requests \ {m} /\ UNCHANGED answers
       \/ \E m \in answers  : answers' = answers \ {m} /\ UNCHANGED requests
    /\ UNCHANGED <<clientVars, handlerVars, proxyVars, sendQue, brokerVars, noteVars>>

----------------------------------------------------------------------------
(* MessageIdTable, and what Aggregater makes of it. *)

Answer(m) == answers' = answers \cup {[client |-> m.client, kind |-> m.kind, msgId |-> m.msgId]}

Entries(c, clientMsgId) == {p \in table : p.client = c /\ p.clientMsgId = clientMsgId}

\* Mutant: the client is not compared.
KnownIdOfAny(c, clientMsgId, id) ==
    LET Of(n) == {p \in table : p.clientMsgId = n}
    IN  /\ id = IF Of(clientMsgId) = {} THEN 0 ELSE (CHOOSE p \in Of(clientMsgId) : TRUE).msgId
        /\ UNCHANGED <<table, packetId>>

\* getMsgId, for what the client sends again
KnownId(c, clientMsgId, id) ==
    /\ id = IF Entries(c, clientMsgId) = {} THEN 0
            ELSE (CHOOSE p \in Entries(c, clientMsgId) : TRUE).msgId
    /\ UNCHANGED <<table, packetId>>

\* Mutant: the same id in the table is not looked for.
AddedIdAlways(c, clientMsgId, id) ==
    IF Cardinality(table) > MaxTableSize
    THEN id = 0 /\ UNCHANGED <<table, packetId>>
    ELSE /\ packetId < MaxPacketId
         /\ id = packetId + 1
         /\ packetId' = id
         /\ table' = table \cup {[msgId |-> id, client |-> c, clientMsgId |-> clientMsgId]}

\* add; 0 when the table is full, or has this id of the client already
AddedId(c, clientMsgId, id) ==
    IF Cardinality(table) > MaxTableSize \/ Entries(c, clientMsgId) # {}
    THEN id = 0 /\ UNCHANGED <<table, packetId>>
    ELSE /\ packetId < MaxPacketId
         /\ id = packetId + 1
         /\ packetId' = id
         /\ table' = table \cup {[msgId |-> id, client |-> c, clientMsgId |-> clientMsgId]}

PacketIdOf(m, id) == IF m.dup THEN KnownId(m.client, m.msgId, id) ELSE AddedId(m.client, m.msgId, id)

\* setMsgId writes the id of a PUBLISH over the end of its topic as well; topics are not looked at here.
ToBroker(m, id) ==
    /\ Len(sendQue) < MaxQueue
    /\ sendQue' = Append(sendQue, [kind |-> m.kind, msgId |-> id, client |-> m.client, clientMsgId |-> m.msgId])

----------------------------------------------------------------------------
(* PacketHandleTask, what comes from the clients. *)

\* A PUBLISH that has no id goes to the broker with 0.
HandlePublish(m) ==
    /\ m.kind \in {"PUBLISH1", "PUBLISH2"}
    /\ waitedPub' = [waitedPub EXCEPT ![m.client] = @ \cup {m.msgId}]
    /\ \E id \in 0..MaxPacketId : PacketIdOf(m, id) /\ ToBroker(m, id)
    /\ requests' = requests \ {m}
    /\ UNCHANGED <<clientVars, active, waitedSub, proxyVars, brokerVars, answers, faults, noteVars>>

\* A PUBLISH is rejected; in the case of an UNSUBSCRIBE there is nothing to do.
HandleUnknownTopic(m) ==
    /\ m.kind \in {"PUBLISH1", "PUBLISH2", "UNSUBSCRIBE"}
    /\ Answer(IF m.kind = "UNSUBSCRIBE" THEN m ELSE [m EXCEPT !.kind = "REJECTED"])
    /\ requests' = requests \ {m}
    /\ UNCHANGED <<clientVars, handlerVars, proxyVars, sendQue, brokerVars, faults, noteVars>>

\* A SUBSCRIBE or UNSUBSCRIBE that has no id is discarded.
HandleSubscribe(m) ==
    /\ m.kind \in {"SUBSCRIBE", "UNSUBSCRIBE"}
    /\ waitedSub' = IF m.kind = "SUBSCRIBE" THEN [waitedSub EXCEPT ![m.client] = @ \cup {m.msgId}] ELSE waitedSub
    /\ \E id \in 0..MaxPacketId :
          /\ PacketIdOf(m, id)
          /\ IF id = 0 THEN UNCHANGED sendQue ELSE ToBroker(m, id)
    /\ requests' = requests \ {m}
    /\ UNCHANGED <<clientVars, active, waitedPub, proxyVars, brokerVars, answers, faults, noteVars>>

HandleLocal(m) ==
    /\ m.kind \in LocalKinds
    /\ CASE m.kind = "CONNECT" ->
              /\ active' = active \cup {m.client}
              /\ waitedPub' = [waitedPub EXCEPT ![m.client] = {}]
              /\ waitedSub' = [waitedSub EXCEPT ![m.client] = {}]
         [] m.kind = "DISCONNECT" -> active' = active \ {m.client} /\ UNCHANGED <<waitedPub, waitedSub>>
         [] m.kind = "PINGREQ" -> UNCHANGED <<active, waitedPub, waitedSub>>
    /\ Answer(m)
    /\ requests' = requests \ {m}
    /\ UNCHANGED <<clientVars, table, packetId, proxyVars, sendQue, brokerVars, faults, noteVars>>

\* handleAggregateAck does nothing with it.
HandlePubrel(m) ==
    /\ m.kind = "PUBREL"
    /\ requests' = requests \ {m}
    /\ UNCHANGED <<clientVars, handlerVars, proxyVars, sendQue, brokerVars, answers, faults, noteVars>>

----------------------------------------------------------------------------
(* PacketHandleTask, what comes from the broker. *)

Acknowledged(p, kind) ==
    /\ Answer([client |-> p.client, kind |-> kind, msgId |-> p.clientMsgId])
    /\ acknowledged' = acknowledged \cup {<<p.client, kind, p.clientMsgId>>}

\* The handler the answer of this kind goes to, for the client and the id of the entry p.
HandleFor(p, kind) ==
    CASE kind = "PUBLISH1" /\ p.clientMsgId \in waitedPub[p.client] ->
           /\ waitedPub' = [waitedPub EXCEPT ![p.client] = @ \ {p.clientMsgId}]
           /\ Acknowledged(p, kind) /\ UNCHANGED waitedSub
      [] kind = "SUBSCRIBE" /\ p.clientMsgId \in waitedSub[p.client] ->
           /\ waitedSub' = [waitedSub EXCEPT ![p.client] = @ \ {p.clientMsgId}]
           /\ Acknowledged(p, kind) /\ UNCHANGED waitedPub
      [] kind = "UNSUBSCRIBE" \/ (kind = "PUBLISH2" /\ p.client \in active) ->
           Acknowledged(p, kind) /\ UNCHANGED <<waitedPub, waitedSub>>
      [] OTHER -> UNCHANGED <<waitedPub, waitedSub, answers, acknowledged>>

\* handleAggregatePuback, handleAggregateAck, handleAggregateSuback, handleAggregateUnsuback
HandleAnswer(a) ==
    /\ a.kind \in AllKinds
    /\ fromBroker' = Tail(fromBroker)
    /\ \/ /\ \A p \in table : p.msgId # a.msgId
          /\ UNCHANGED <<waitedPub, waitedSub, table, answers, acknowledged>>
       \/ \E p \in table :
             /\ p.msgId = a.msgId
             /\ table' = table \ {p}
             /\ HandleFor(p, a.kind)
    /\ UNCHANGED <<clientVars, active, packetId, proxyVars, sendQue, opened, broker, requests,
                   faults, made, taken>>

HandleConnack(a) ==
    /\ a.kind = "CONNECT"
    /\ fromBroker' = Tail(fromBroker)
    /\ status' = "Active" /\ retryCnt' = 0
    /\ UNCHANGED <<clientVars, handlerVars, sendQue, opened, broker, netVars, faults, noteVars>>

HandlePingresp(a) ==
    /\ a.kind = "PINGREQ"
    /\ fromBroker' = Tail(fromBroker)
    /\ retryCnt' = 0
    /\ UNCHANGED <<clientVars, handlerVars, status, sendQue, opened, broker, netVars, faults, noteVars>>

----------------------------------------------------------------------------
(* Proxy::checkConnection, and what the handlers do with the messages of the proxy.       *)
(* _isWaitingResp only makes the next ping come sooner.                                   *)

ProxyMessage(kind) == Append(sendQue, [kind |-> kind, msgId |-> 0])

ProxyConnects ==
    /\ Quiet /\ status \in {"Disconnected", "Connecting"}
    /\ status' = "Disconnected"
    /\ sendQue' = ProxyMessage("CONNECT")
    /\ UNCHANGED <<clientVars, handlerVars, retryCnt, brokerVars, netVars, faults, noteVars>>

\* Mutant: nothing is done about the pings that are not answered.
ProxyPingsAlways ==
    /\ Quiet /\ status = "Active"
    /\ sendQue' = ProxyMessage("PINGREQ")
    /\ retryCnt' = retryCnt + 1
    /\ UNCHANGED <<clientVars, handlerVars, status, brokerVars, netVars, faults, noteVars>>

\* Mutant: the pings that are not answered are not counted.
ProxyPingsOn ==
    /\ Quiet /\ status = "Active"
    /\ sendQue' = ProxyMessage("PINGREQ")
    /\ UNCHANGED <<clientVars, handlerVars, status, retryCnt, brokerVars, netVars, faults, noteVars>>

ProxyPings ==
    /\ Quiet /\ status = "Active"
    /\ sendQue' = ProxyMessage("PINGREQ")
    /\ retryCnt' = retryCnt + 1
    /\ status' = IF retryCnt + 1 > MaxRetryCnt THEN "Disconnected" ELSE status
    /\ UNCHANGED <<clientVars, handlerVars, brokerVars, netVars, faults, noteVars>>

----------------------------------------------------------------------------
(* BrokerSendTask and BrokerRecvTask on the connection of the aggregater, and the broker. *)

SendConnect ==
    /\ sendQue # <<>> /\ Head(sendQue).kind = "CONNECT"
    /\ sendQue' = Tail(sendQue)
    /\ opened' = TRUE /\ broker' = "session" /\ fromBroker' = <<Head(sendQue)>>
    /\ status' = "Connecting"
    /\ UNCHANGED <<clientVars, handlerVars, retryCnt, netVars, faults, noteVars>>

\* The broker cannot be reached.
SendFails ==
    /\ Fault
    /\ sendQue # <<>> /\ (Head(sendQue).kind = "CONNECT" \/ ~opened)
    /\ sendQue' = Tail(sendQue)
    /\ opened' = FALSE /\ broker' = "none" /\ fromBroker' = <<>>
    /\ UNCHANGED <<clientVars, handlerVars, proxyVars, netVars, noteVars>>

\* On a connection of its own, which the broker closes because it does not begin with CONNECT.
SendUnconnected ==
    /\ sendQue # <<>> /\ Head(sendQue).kind # "CONNECT" /\ ~opened
    /\ sendQue' = Tail(sendQue)
    /\ opened' = TRUE /\ broker' = "closed" /\ fromBroker' = <<>>
    /\ UNCHANGED <<clientVars, handlerVars, proxyVars, netVars, faults, noteVars>>

\* The broker closes a connection on which a packet has id 0.
SendRequest ==
    /\ sendQue # <<>> /\ Head(sendQue).kind \in AllKinds /\ opened
    /\ sendQue' = Tail(sendQue)
    /\ LET q == Head(sendQue)
       IN  CASE broker = "session" /\ q.msgId # 0 ->
                  /\ fromBroker' = Append(fromBroker, [kind |-> q.kind, msgId |-> q.msgId])
                  /\ taken' = taken \cup {<<q.client, q.kind, q.clientMsgId>>}
                  /\ UNCHANGED broker
             [] OTHER -> broker' = "closed" /\ UNCHANGED <<fromBroker, taken>>
    /\ UNCHANGED <<clientVars, handlerVars, proxyVars, opened, netVars, faults, made, acknowledged>>

SendPingreq ==
    /\ sendQue # <<>> /\ Head(sendQue).kind = "PINGREQ" /\ opened
    /\ sendQue' = Tail(sendQue)
    /\ fromBroker' = IF broker = "session" THEN Append(fromBroker, Head(sendQue)) ELSE fromBroker
    /\ UNCHANGED <<clientVars, handlerVars, proxyVars, opened, broker, netVars, faults, noteVars>>

\* By BrokerRecvTask, or by BrokerSendTask when a packet cannot be written.  The Client of
\* the aggregater is not told.
ConnectionClosed ==
    /\ opened /\ broker = "closed" /\ fromBroker = <<>>
    /\ opened' = FALSE
    /\ UNCHANGED <<clientVars, handlerVars, proxyVars, sendQue, broker, fromBroker, netVars, faults, noteVars>>

BrokerCloses ==
    /\ Fault
    /\ opened /\ broker = "session"
    /\ broker' = "closed"
    /\ fromBroker' \in {fromBroker, <<>>}
    /\ UNCHANGED <<clientVars, handlerVars, proxyVars, sendQue, opened, netVars, noteVars>>

----------------------------------------------------------------------------

FromClient ==
    \E m \in requests :
        HandlePublish(m) \/ HandleUnknownTopic(m) \/ HandleSubscribe(m) \/ HandleLocal(m) \/ HandlePubrel(m)

FromBroker ==
    /\ fromBroker # <<>>
    /\ \/ HandleAnswer(Head(fromBroker))
       \/ HandleConnack(Head(fromBroker))
       \/ HandlePingresp(Head(fromBroker))

ProxyStep == ProxyConnects \/ ProxyPings

SendStep == SendConnect \/ SendFails \/ SendUnconnected \/ SendRequest \/ SendPingreq

Next ==
    \/ \E c \in Clients : Ask(c) \/ AskGateway(c) \/ AskAgain(c) \/ GiveUp(c) \/ Restart(c)
    \/ \E m \in answers : Receive(m)
    \/ Lose
    \/ FromClient \/ FromBroker
    \/ ProxyStep \/ SendStep
    \/ ConnectionClosed \/ BrokerCloses

Spec == Init /\ [][Next]_vars

\* The tasks of the gateway run, and PacketHandleTask looks after the proxy whenever its
\* queue has been empty for EVENT_QUE_TIME_OUT.
Fairness ==
    /\ WF_vars(FromClient) /\ WF_vars(FromBroker)
    /\ WF_vars(ProxyStep) /\ WF_vars(SendStep) /\ WF_vars(ConnectionClosed)

FairSpec == Spec /\ Fairness

----------------------------------------------------------------------------

Ids == 0..MaxPacketId
MsgIds == 0..MaxMsgId
Names == AllKinds \cup LocalKinds \cup {"PUBREL", "REJECTED", "none"}

Datagrams == [client : Clients, kind : Names, msgId : MsgIds, dup : BOOLEAN]
Entry == [msgId : Ids \ {0}, client : Clients, clientMsgId : MsgIds]

Queued ==
    [kind : AllKinds, msgId : Ids, client : Clients, clientMsgId : MsgIds]
        \cup [kind : {"CONNECT", "PINGREQ"}, msgId : {0}]

\* Every variable keeps its type: in particular the pings that are not answered are
\* counted to one more than QOSM1_PROXY_MAX_RETRY_CNT, and the table has one element
\* more than MAX_MESSAGEID_TABLE_SIZE.
TypeOK ==
    /\ asked \in [Clients -> [kind : Names, msgId : MsgIds]]
    /\ nextMsgId \in [Clients -> MsgIds]
    /\ requests \subseteq Datagrams
    /\ answers \subseteq [client : Clients, kind : Names, msgId : MsgIds]
    /\ active \subseteq Clients
    /\ waitedPub \in [Clients -> SUBSET MsgIds] /\ waitedSub \in [Clients -> SUBSET MsgIds]
    /\ table \subseteq Entry /\ Cardinality(table) <= MaxTableSize + 1
    /\ packetId \in Ids
    /\ status \in {"Disconnected", "Connecting", "Active"} /\ retryCnt \in 0..(MaxRetryCnt + 1)
    /\ sendQue \in Seq(Queued)
    /\ opened \in BOOLEAN /\ broker \in {"none", "session", "closed"}
    /\ fromBroker \in Seq([kind : AllKinds \cup {"CONNECT", "PINGREQ"}, msgId : Ids])
    /\ faults \in 0..MaxFaults
    /\ made \subseteq Request /\ taken \subseteq Request /\ acknowledged \subseteq Request

\* MessageIdTable keeps at most one packet id for a message id of a client, and gives a
\* packet id to one of them only: whatever is sent again, after a restart too, find and add
\* agree on the element it belongs to.
TableOK ==
    /\ \A p \in table : p.msgId <= packetId
    /\ \A p, q \in table :
          p.msgId = q.msgId \/ (p.client = q.client /\ p.clientMsgId = q.clientMsgId) => p = q

E == INSTANCE Exchange

\* handleAggregatePuback, handleAggregateAck, handleAggregateSuback and
\* handleAggregateUnsuback acknowledge to a client nothing but what this very client has
\* made and the broker has taken: see Exchange.
Exchanges == E!Spec

\* checkConnection of the proxy: once the clients ask for nothing any more, the aggregater
\* is connected, whatever has become of its connection and however many packets went to a
\* connection the broker had closed.
ProxyRecovers ==
    <>[](requests = {}) => <>[](broker = "session" /\ opened /\ status = "Active")
===============================================================================
