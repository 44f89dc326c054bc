------------------------------ MODULE Gateway ------------------------------
(***************************************************************************)
(* What the gateway of this repository does for one client that connects   *)
(* with a clean session, registers topics and publishes                    *)
(* (paho.mqtt-sn.embedded-c/MQTTSNGateway/src).  The gateway's five        *)
(* threads pass events through FIFO queues:                                *)
(*                                                                         *)
(*   ClientRecvTask and PacketHandleTask  one action per message type: the *)
(*       handler and the call of updateStatus that follows it.  The queue  *)
(*       between the two only delays, as the network does.                 *)
(*   ClientSendTask    its queue is part of the network, likewise.         *)
(*   BrokerSendTask    takes packets from brokerSendQue; its connectSended *)
(*       comes after the write to the socket, as a step of its own.        *)
(*   BrokerRecvTask    one action per answer of the broker, with the       *)
(*       handler PacketHandleTask runs for it.                             *)
(*                                                                         *)
(* The broker is external: one TCP connection per client, on which it      *)
(* answers requests in order.                                              *)
(***************************************************************************)
EXTENDS Messages, Network, Sequences

CONSTANTS
    TopicNames,        \* names a REGISTER may carry
    MaxInflight,       \* MAX_INFLIGHTMESSAGES
    MaxTopicID,        \* bound: topic ids the gateway gives out
    MaxQueue,          \* bound: packets waiting for BrokerSendTask or the broker
    BrokerRefuses      \* whether the broker may refuse a CONNECT

ASSUME GatewayAssumption ==
    /\ MaxInflight \in Nat
    /\ MaxTopicID \in Nat
    /\ MaxTopicID < IdModulus - 1      \* 0xffff is never reached
    /\ MaxQueue \in Nat
    /\ BrokerRefuses \in BOOLEAN

VARIABLES
    known,             \* the ClientList has a Client for this client's address
    status,            \* Client::_status: "Disconnected", "Connecting" or "Active"
    waitWillMsg,       \* Client::_waitWillMsgFlg
    topics,            \* Client::_topics: the id of each name, 0 for a name not there
    nextTopicId,       \* Topics::_nextTopicId: the last id given out
    waitedPub,         \* Client::_waitedPubTopicIdMap, as a set of [msgID, topicID]
    brokerSendQue,     \* packets for the broker, in order
    brokerLink,        \* requests the broker has not answered yet, in order
    link,              \* the TCP connection: "none", "open", or "closed" by the broker
    sendingConnect     \* CONNECT is written, connectSended has not been called

clientObject == <<known, status, waitWillMsg, topics, nextTopicId, waitedPub>>

brokerVars == <<brokerSendQue, brokerLink, link, sendingConnect>>

gatewayVars == <<clientObject, brokerVars>>

NoTopics == [name \in TopicNames |-> 0]

GatewayInit ==
    /\ known = FALSE
    /\ status = "Disconnected"
    /\ waitWillMsg = FALSE
    /\ topics = NoTopics
    /\ nextTopicId = 0
    /\ waitedPub = {}
    /\ brokerSendQue = <<>>
    /\ brokerLink = <<>>
    /\ link = "none"
    /\ sendingConnect = FALSE

\* A packet of MQTT for the broker; qos and id are 0 where it has none.
Request(type, qos, id) == [type |-> type, qos |-> qos, id |-> id]

ToBroker(request) ==
    /\ Len(brokerSendQue) < MaxQueue
    /\ brokerSendQue' = Append(brokerSendQue, request)

\* Client::disconnected
disconnected == status' = "Disconnected" /\ waitWillMsg' = FALSE

\* ClientRecvTask discards what comes from an address it does not know.
FromClient(m) == known /\ GatewayReceives(m)

DiscardUnknown(m) ==
    /\ ~known
    /\ m.type # "CONNECT"
    /\ GatewayReceives(m)
    /\ UNCHANGED <<toClient, gatewayVars>>

----------------------------------------------------------------------------
(* MQTTSNConnectionHandler *)

\* A clean session forgets the topics and what was waited for, not the counter.
HandleConnect(m) ==
    /\ m.type = "CONNECT"
    /\ GatewayReceives(m)
    /\ known' = TRUE
    /\ disconnected
    /\ topics' = NoTopics
    /\ waitedPub' = {}
    /\ IF m.will
       THEN GatewaySends(WillTopicReq) /\ UNCHANGED brokerSendQue
       ELSE ToBroker(Request("CONNECT", 0, 0)) /\ UNCHANGED toClient
    /\ UNCHANGED <<nextTopicId, brokerLink, link, sendingConnect>>

HandleWilltopic(m) ==
    /\ m.type = "WILLTOPIC"
    /\ FromClient(m)
    /\ waitWillMsg' = TRUE
    /\ GatewaySends(WillMsgReq)
    /\ UNCHANGED <<known, status, topics, nextTopicId, waitedPub, brokerVars>>

HandleWillmsg(m) ==
    /\ m.type = "WILLMSG"
    /\ FromClient(m)
    /\ IF waitWillMsg
       THEN ToBroker(Request("CONNECT", 0, 0)) /\ waitWillMsg' = FALSE
       ELSE UNCHANGED <<brokerSendQue, waitWillMsg>>
    /\ UNCHANGED <<known, status, topics, nextTopicId, waitedPub,
                   brokerLink, link, sendingConnect, toClient>>

\* These clients send a DISCONNECT without a duration only; updateStatus looks at it
\* when the client is Active.
HandleDisconnect(m) ==
    /\ m.type = "DISCONNECT"
    /\ FromClient(m)
    /\ ToBroker(Request("DISCONNECT", 0, 0))
    /\ GatewaySends(Disconnect(0))
    /\ IF status = "Active" THEN disconnected ELSE UNCHANGED <<status, waitWillMsg>>
    /\ UNCHANGED <<known, topics, nextTopicId, waitedPub,
                   brokerLink, link, sendingConnect>>

HandlePingreq(m) ==
    /\ m.type = "PINGREQ"
    /\ FromClient(m)
    /\ ToBroker(Request("PINGREQ", 0, 0))
    /\ UNCHANGED <<clientObject, brokerLink, link, sendingConnect, toClient>>

----------------------------------------------------------------------------
(* MQTTSNPublishHandler, whatever the status unless a guard says so. *)

\* Mutant: the name is not looked up first.
AddTopicAgain(name) ==
    /\ nextTopicId < MaxTopicID
    /\ nextTopicId' = nextTopicId + 1
    /\ topics' = [topics EXCEPT ![name] = nextTopicId']

\* Topics::add: the id the name has, or the next one.
AddTopic(name) ==
    IF topics[name] # 0
    THEN UNCHANGED <<topics, nextTopicId>>
    ELSE /\ nextTopicId < MaxTopicID
         /\ nextTopicId' = nextTopicId + 1
         /\ topics' = [topics EXCEPT ![name] = nextTopicId']

HandleRegister(m) ==
    /\ m.type = "REGISTER"
    /\ FromClient(m)
    /\ status = "Active"
    /\ AddTopic(m.name)
    /\ GatewaySends(RegAck(topics'[m.name], m.msgID, "accepted"))
    /\ UNCHANGED <<known, status, waitWillMsg, waitedPub, brokerVars>>

\* TopicIdMap::add: refused when it is full, and for the id 0; otherwise it replaces
\* what was waited for under the same message id.
SetWaited(msgID, topicID) ==
    IF Cardinality(waitedPub) > 2 * MaxInflight \/ topicID = 0
    THEN waitedPub
    ELSE {w \in waitedPub : w.msgID # msgID} \cup {[msgID |-> msgID, topicID |-> topicID]}

IsTopic(topicID) == topicID # 0 /\ \E name \in TopicNames : topics[name] = topicID

\* Mutant: QoS 1 is left out.
AcknowledgedQos2Only(m) == m.qos > 1 /\ m.msgID # 0

Acknowledged(m) == m.qos > 0 /\ m.msgID # 0

HandlePublishInvalidTopic(m) ==
    /\ m.type = "PUBLISH"
    /\ FromClient(m)
    /\ Acknowledged(m) /\ ~IsTopic(m.topicID)
    /\ GatewaySends(PubAck(m.topicID, m.msgID, "rejected"))
    /\ UNCHANGED gatewayVars

\* Mutant: an unknown topic id is saved and forwarded at any QoS.
HandlePublishAnyTopic(m) ==
    /\ m.type = "PUBLISH"
    /\ FromClient(m)
    /\ waitedPub' = IF Acknowledged(m) THEN SetWaited(m.msgID, m.topicID) ELSE waitedPub
    /\ ToBroker(Request("PUBLISH", m.qos, m.msgID))
    /\ UNCHANGED <<known, status, waitWillMsg, topics, nextTopicId,
                   brokerLink, link, sendingConnect, toClient>>

\* At QoS 0 an unknown topic id is forwarded too, with an empty topic name.
HandlePublish(m) ==
    /\ m.type = "PUBLISH"
    /\ FromClient(m)
    /\ Acknowledged(m) => IsTopic(m.topicID)
    /\ waitedPub' = IF Acknowledged(m) THEN SetWaited(m.msgID, m.topicID) ELSE waitedPub
    /\ ToBroker(Request("PUBLISH", m.qos, m.msgID))
    /\ UNCHANGED <<known, status, waitWillMsg, topics, nextTopicId,
                   brokerLink, link, sendingConnect, toClient>>

\* handleAck, for the only one of its messages a publishing client sends.
HandlePubrel(m) ==
    /\ m.type = "PUBREL"
    /\ FromClient(m)
    /\ status = "Active"
    /\ ToBroker(Request("PUBREL", 0, m.msgID))
    /\ UNCHANGED <<clientObject, brokerLink, link, sendingConnect, toClient>>

\* REGISTER and PUBREL when the client is not Active; a PUBACK that rejects is
\* only printed.
HandleIgnored(m) ==
    /\ m.type \in {"REGISTER", "PUBREL", "PUBACK"}
    /\ m.type \in {"REGISTER", "PUBREL"} => status # "Active"
    /\ FromClient(m)
    /\ UNCHANGED <<toClient, gatewayVars>>

----------------------------------------------------------------------------
(* BrokerSendTask: CONNECT closes the connection there is and opens another; *)
(* the broker closes a connection whose first packet is something else.      *)

\* Mutant: a CONNECT goes out where no connection has been opened.
SendConnectUnopened ==
    /\ ~sendingConnect
    /\ brokerSendQue # <<>> /\ Head(brokerSendQue).type = "CONNECT"
    /\ brokerSendQue' = Tail(brokerSendQue)
    /\ brokerLink' = <<Head(brokerSendQue)>>
    /\ sendingConnect' = TRUE
    /\ UNCHANGED <<link, clientObject, netVars>>

SendConnect ==
    /\ ~sendingConnect
    /\ brokerSendQue # <<>> /\ Head(brokerSendQue).type = "CONNECT"
    /\ brokerSendQue' = Tail(brokerSendQue)
    /\ brokerLink' = <<Head(brokerSendQue)>>
    /\ link' = "open"
    /\ sendingConnect' = TRUE
    /\ UNCHANGED <<clientObject, netVars>>

\* Client::connectSended, after the packet has left.
connectSended ==
    /\ sendingConnect
    /\ status' = "Connecting"
    /\ sendingConnect' = FALSE
    /\ UNCHANGED <<known, waitWillMsg, topics, nextTopicId, waitedPub,
                   brokerSendQue, brokerLink, link, netVars>>

SendRequest ==
    /\ ~sendingConnect
    /\ brokerSendQue # <<>> /\ Head(brokerSendQue).type # "CONNECT"
    /\ brokerSendQue' = Tail(brokerSendQue)
    /\ IF link = "open"
       THEN /\ Len(brokerLink) < MaxQueue
            /\ brokerLink' = Append(brokerLink, Head(brokerSendQue))
            /\ UNCHANGED link
       ELSE link' = "closed" /\ UNCHANGED brokerLink
    /\ UNCHANGED <<clientObject, sendingConnect, netVars>>

----------------------------------------------------------------------------
(* The broker's answer to the oldest request, received by BrokerRecvTask and  *)
(* handled by MQTTGWConnectionHandler or MQTTGWPublishHandler.                *)

Answers(type, qos) ==
    /\ brokerLink # <<>>
    /\ Head(brokerLink).type = type /\ Head(brokerLink).qos = qos
    /\ UNCHANGED <<brokerSendQue, sendingConnect, toGateway>>

ConnackAccepted ==
    /\ Answers("CONNECT", 0)
    /\ brokerLink' = Tail(brokerLink)
    /\ status' = "Active"
    /\ GatewaySends(ConnAck("accepted"))
    /\ UNCHANGED <<known, waitWillMsg, topics, nextTopicId, waitedPub, link>>

\* The broker refuses and closes the connection.
ConnackRefused ==
    /\ BrokerRefuses
    /\ Answers("CONNECT", 0)
    /\ brokerLink' = <<>>
    /\ link' = "closed"
    /\ disconnected
    /\ GatewaySends(ConnAck("rejected"))
    /\ UNCHANGED <<known, topics, nextTopicId, waitedPub>>

HandlePingresp ==
    /\ Answers("PINGREQ", 0)
    /\ brokerLink' = Tail(brokerLink)
    /\ GatewaySends(PingResp)
    /\ UNCHANGED <<clientObject, link>>

\* At QoS 0 the broker answers nothing.
PublishTaken ==
    /\ Answers("PUBLISH", 0)
    /\ brokerLink' = Tail(brokerLink)
    /\ UNCHANGED <<clientObject, link, toClient>>

\* Only a message id that is waited for can be given its topic id back.
HandlePuback ==
    /\ Answers("PUBLISH", 1)
    /\ brokerLink' = Tail(brokerLink)
    /\ LET id      == Head(brokerLink).id
           waiting == {w \in waitedPub : w.msgID = id}
       IN  /\ waitedPub' = waitedPub \ waiting
           /\ IF waiting = {}
              THEN UNCHANGED toClient
              ELSE \E w \in waiting : GatewaySends(PubAck(w.topicID, id, "accepted"))
    /\ UNCHANGED <<known, status, waitWillMsg, topics, nextTopicId, link>>

\* handleAck: PUBREC for a PUBLISH at QoS 2, PUBCOMP for a PUBREL.
HandleBrokerAck(request, qos, answer) ==
    /\ Answers(request, qos)
    /\ brokerLink' = Tail(brokerLink)
    /\ IF status = "Active"
       THEN GatewaySends(Ack(answer, Head(brokerLink).id))
       ELSE UNCHANGED toClient
    /\ UNCHANGED <<clientObject, link>>

\* After a DISCONNECT the broker closes the connection.
BrokerCloses ==
    /\ Answers("DISCONNECT", 0)
    /\ brokerLink' = <<>>
    /\ link' = "closed"
    /\ UNCHANGED <<clientObject, toClient>>

\* BrokerRecvTask reads the end of the connection and erases the Client, as its
\* session is clean; what is still queued for it goes with it.  (The case in which
\* BrokerSendTask is about to call connectSended for the same Client is left out.)
EraseClient ==
    /\ link = "closed" /\ ~sendingConnect
    /\ known' = FALSE
    /\ disconnected
    /\ topics' = NoTopics
    /\ nextTopicId' = 0
    /\ waitedPub' = {}
    /\ brokerSendQue' = <<>>
    /\ link' = "none"
    /\ UNCHANGED <<brokerLink, sendingConnect, netVars>>

----------------------------------------------------------------------------
PacketHandleTask(m) ==
    \/ DiscardUnknown(m)
    \/ HandleConnect(m) \/ HandleWilltopic(m) \/ HandleWillmsg(m)
    \/ HandleDisconnect(m) \/ HandlePingreq(m)
    \/ HandleRegister(m)
    \/ HandlePublishInvalidTopic(m) \/ HandlePublish(m) \/ HandlePubrel(m)
    \/ HandleIgnored(m)

BrokerSendTask == SendConnect \/ connectSended \/ SendRequest

BrokerRecvTask ==
    \/ ConnackAccepted \/ ConnackRefused
    \/ HandlePingresp \/ PublishTaken \/ HandlePuback
    \/ HandleBrokerAck("PUBLISH", 2, "PUBREC")
    \/ HandleBrokerAck("PUBREL", 0, "PUBCOMP")
    \/ BrokerCloses \/ EraseClient

GatewayStep ==
    \/ \E m \in toGateway : PacketHandleTask(m)
    \/ BrokerSendTask
    \/ BrokerRecvTask

----------------------------------------------------------------------------
Requests == [type : {"CONNECT", "DISCONNECT", "PINGREQ", "PUBLISH", "PUBREL"},
             qos : 0..2, id : Word]

GatewayTypeOK ==
    /\ known \in BOOLEAN
    /\ status \in {"Disconnected", "Connecting", "Active"}
    /\ waitWillMsg \in BOOLEAN
    /\ topics \in [TopicNames -> 0..MaxTopicID]
    /\ nextTopicId \in 0..MaxTopicID
    /\ waitedPub \subseteq [msgID : Word, topicID : Word]
    /\ brokerSendQue \in Seq(Requests)
    /\ brokerLink \in Seq(Requests)
    /\ link \in {"none", "open", "closed"}
    /\ sendingConnect \in BOOLEAN

----------------------------------------------------------------------------
(* What is under way while a program joins, for the inductive invariants. *)

Handshake == {"CONNECT", "WILLTOPICREQ", "WILLTOPIC", "WILLMSGREQ", "WILLMSG", "CONNACK"}

ConnectRequest == Request("CONNECT", 0, 0)

\* One message of the handshake and nothing else: what the other side is to answer, or what
\* it has answered.  An acceptance under way has a connection behind it.
HandshakeAlone ==
    /\ \A m \in toGateway :
          /\ m.type \in Handshake
          /\ toGateway = {m} /\ toClient = {} /\ brokerSendQue = <<>> /\ brokerLink = <<>>
    /\ \A m \in toClient :
          /\ m.type \in Handshake
          /\ m = ConnAck("accepted") => known /\ link = "open"
          /\ toClient = {m} /\ toGateway = {} /\ brokerSendQue = <<>> /\ brokerLink = <<>>
    /\ brokerSendQue # <<>> =>
          known /\ brokerSendQue = <<ConnectRequest>> /\ brokerLink = <<>>
    /\ brokerLink # <<>> =>
          known /\ link = "open" /\ brokerLink = <<ConnectRequest>> /\ brokerSendQue = <<>>
============================================================================
