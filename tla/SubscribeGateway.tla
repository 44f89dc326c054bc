--------------------------- MODULE SubscribeGateway ---------------------------
(***************************************************************************)
(* The gateway for a client that subscribes, and that may sleep: what      *)
(* Gateway.tla says of connecting, registering and publishing, with the    *)
(* subscriptions (MQTTSNSubscribeHandler, MQTTGWSubscribeHandler), the     *)
(* PUBLISHes of the broker (MQTTGWPublishHandler::handlePublish) and the   *)
(* states Asleep and Awake of the client added.                            *)
(*                                                                         *)
(* The PUBLISHes that were saved for a sleeping client come back through   *)
(* the queue of events: "stored" holds them.  An event may be handled      *)
(* before them, as one that was in the queue already.                      *)
(***************************************************************************)
EXTENDS Gateway, SequencesExt

CONSTANTS
    MaxSaved,          \* MAX_SAVED_PUBLISH
    BrokerQos,         \* levels at which the broker publishes
    MaxPublishes       \* bound: PUBLISHes of the broker

ASSUME SubscribeGatewayAssumption ==
    /\ TopicNames = {Topic1, Topic2, Checking, Filter}
    /\ MaxSaved \in Nat
    /\ BrokerQos \subseteq 1..2
    /\ MaxPublishes \in Nat
    /\ MaxPublishes < IdModulus

VARIABLES
    waitedSub,         \* Client::_waitedSubTopicIdMap, as a set of [msgID, topicID]
    sleepQue,          \* Client::_clientSleepPacketQue
    stored,            \* the packets of sleepQue that were posted as events
    parked,            \* Client::_waitREGACKList: [msgID, publish]
    holdPing,          \* Client::_holdPingRequest
    snMsgId,           \* Client::_snMsgId
    brokerSub,         \* the broker's subscription for the client: its name, or 0
    published,         \* number of PUBLISHes of the broker, each of which has its own id
    earlier,           \* how many of them in earlier sessions of the broker
    acknowledged       \* the ids of those of this session it has a PUBACK or PUBREC for

deliveryVars == <<sleepQue, stored, parked, holdPing, snMsgId>>

brokerSession == <<brokerSub, published, earlier, acknowledged>>

subscriptionVars == <<waitedSub, deliveryVars, brokerSession>>

SubscribeGatewayInit ==
    /\ GatewayInit
    /\ waitedSub = {}
    /\ sleepQue = <<>>
    /\ stored = <<>>
    /\ parked = <<>>
    /\ holdPing = FALSE
    /\ snMsgId = 0
    /\ brokerSub = 0
    /\ published = 0
    /\ earlier = 0
    /\ acknowledged = {}

Resting == status \in {"Asleep", "Awake"}

----------------------------------------------------------------------------
(* MQTTSNConnectionHandler, with updateStatus. *)

\* A client that rests is accepted without the broker, and gets what was saved.
HandleConnectResting(m) ==
    /\ m.type = "CONNECT" /\ Resting
    /\ FromClient(m)
    /\ GatewaySends(ConnAck("accepted"))
    /\ stored' = stored \o sleepQue
    /\ sleepQue' = <<>>
    /\ status' = "Active"
    /\ UNCHANGED <<known, waitWillMsg, topics, nextTopicId, waitedPub, brokerVars,
                   waitedSub, parked, holdPing, snMsgId, brokerSession>>

HandleConnectClean(m) ==
    /\ ~Resting
    /\ HandleConnect(m)
    /\ waitedSub' = {}
    /\ UNCHANGED <<deliveryVars, brokerSession>>

\* The duration is looked at when the client is Active, not when it rests.
HandleDisconnectOrSleep(m) ==
    /\ m.type = "DISCONNECT"
    /\ FromClient(m)
    /\ IF m.duration = 0 THEN ToBroker(Request("DISCONNECT", 0, 0)) ELSE UNCHANGED brokerSendQue
    /\ GatewaySends(Disconnect(0))
    /\ CASE status = "Active" /\ m.duration # 0 -> status' = "Asleep" /\ UNCHANGED waitWillMsg
         [] status = "Active" /\ m.duration = 0 -> disconnected
         [] Resting                             -> disconnected
         [] OTHER                               -> UNCHANGED <<status, waitWillMsg>>
    /\ UNCHANGED <<known, topics, nextTopicId, waitedPub, brokerLink, link, sendingConnect,
                   subscriptionVars>>

\* Mutant: the saved packets are forgotten.
HandlePingreqForgets(m) ==
    /\ m.type = "PINGREQ"
    /\ FromClient(m)
    /\ IF Resting /\ sleepQue # <<>>
       THEN /\ sleepQue' = <<>>
            /\ holdPing' = TRUE
            /\ UNCHANGED <<stored, brokerSendQue>>
       ELSE /\ ToBroker(Request("PINGREQ", 0, 0))
            /\ holdPing' = FALSE
            /\ UNCHANGED <<stored, sleepQue>>
    /\ status' = IF Resting THEN "Awake" ELSE status
    /\ UNCHANGED <<known, waitWillMsg, topics, nextTopicId, waitedPub, brokerLink, link,
                   sendingConnect, toClient, waitedSub, parked, snMsgId, brokerSession>>

\* Mutant: the PINGREQ is held without a note of it.
HandlePingreqNotHeld(m) ==
    /\ m.type = "PINGREQ"
    /\ FromClient(m)
    /\ IF Resting /\ sleepQue # <<>>
       THEN /\ stored' = stored \o sleepQue
            /\ sleepQue' = <<>>
            /\ UNCHANGED <<holdPing, brokerSendQue>>
       ELSE /\ ToBroker(Request("PINGREQ", 0, 0))
            /\ holdPing' = FALSE
            /\ UNCHANGED <<stored, sleepQue>>
    /\ status' = IF Resting THEN "Awake" ELSE status
    /\ UNCHANGED <<known, waitWillMsg, topics, nextTopicId, waitedPub, brokerLink, link,
                   sendingConnect, toClient, waitedSub, parked, snMsgId, brokerSession>>

\* With something saved the PINGREQ is held, and sendStoredPublish posts it all.
HandlePingreqOrWake(m) ==
    /\ m.type = "PINGREQ"
    /\ FromClient(m)
    /\ IF Resting /\ sleepQue # <<>>
       THEN /\ stored' = stored \o sleepQue
            /\ sleepQue' = <<>>
            /\ holdPing' = TRUE
            /\ UNCHANGED brokerSendQue
       ELSE /\ ToBroker(Request("PINGREQ", 0, 0))
            /\ holdPing' = FALSE
            /\ UNCHANGED <<stored, sleepQue>>
    /\ status' = IF Resting THEN "Awake" ELSE status
    /\ UNCHANGED <<known, waitWillMsg, topics, nextTopicId, waitedPub, brokerLink, link,
                   sendingConnect, toClient, waitedSub, parked, snMsgId, brokerSession>>

----------------------------------------------------------------------------
(* MQTTSNSubscribeHandler and MQTTGWSubscribeHandler. *)

\* TopicIdMap::add, as for waitedPub.
SetWaitedSub(msgID, topicID) ==
    IF Cardinality(waitedSub) > 2 * MaxInflight \/ topicID = 0
    THEN waitedSub
    ELSE {w \in waitedSub : w.msgID # msgID} \cup {[msgID |-> msgID, topicID |-> topicID]}

\* Whatever the status; a filter with a wildcard is a topic like any other.
HandleSubscribe(m) ==
    /\ m.type = "SUBSCRIBE"
    /\ FromClient(m)
    /\ IF m.msgID = 0
       THEN UNCHANGED <<topics, nextTopicId, waitedSub, brokerSendQue>>
       ELSE /\ AddTopic(m.name)
            /\ waitedSub' = SetWaitedSub(m.msgID, topics'[m.name])
            /\ ToBroker([type |-> "SUBSCRIBE", qos |-> m.qos, id |-> m.msgID, name |-> m.name])
    /\ UNCHANGED <<known, status, waitWillMsg, waitedPub, brokerLink, link, sendingConnect,
                   toClient, deliveryVars, brokerSession>>

\* The broker takes a subscription before it says so.
BrokerSubscribes ==
    /\ brokerLink # <<>> /\ Head(brokerLink).type = "SUBSCRIBE"
    /\ brokerSub = 0
    /\ brokerSub' = Head(brokerLink).name
    /\ UNCHANGED <<gatewayVars, netVars, waitedSub, deliveryVars,
                   published, earlier, acknowledged>>

\* Mutant: the topic id is looked up in the map of the publishes.
HandleSubackFromPub ==
    /\ brokerLink # <<>> /\ Head(brokerLink).type = "SUBSCRIBE"
    /\ brokerSub # 0 \/ BrokerRefuses
    /\ brokerLink' = Tail(brokerLink)
    /\ LET request == Head(brokerLink)
           mine    == {w \in waitedPub \cup waitedSub : w.msgID = request.id}
           rc      == IF brokerSub # 0 THEN "accepted" ELSE "rejected"
           qos     == IF brokerSub # 0 THEN request.qos ELSE 0
       IN  /\ waitedSub' = waitedSub \ mine
           /\ IF mine = {}
              THEN UNCHANGED toClient
              ELSE \E w \in mine : GatewaySends(SubAck(qos, w.topicID, request.id, rc))
    /\ UNCHANGED <<clientObject, brokerSendQue, link, sendingConnect, toGateway,
                   deliveryVars, brokerSession>>

\* Accepted at the level asked for, or refused (0x80).
HandleSuback ==
    /\ brokerLink # <<>> /\ Head(brokerLink).type = "SUBSCRIBE"
    /\ brokerSub # 0 \/ BrokerRefuses
    /\ brokerLink' = Tail(brokerLink)
    /\ LET request == Head(brokerLink)
           mine    == {w \in waitedSub : w.msgID = request.id}
           rc      == IF brokerSub # 0 THEN "accepted" ELSE "rejected"
           qos     == IF brokerSub # 0 THEN request.qos ELSE 0
       IN  /\ waitedSub' = waitedSub \ mine
           /\ IF mine = {}
              THEN UNCHANGED toClient
              ELSE \E w \in mine : GatewaySends(SubAck(qos, w.topicID, request.id, rc))
    /\ UNCHANGED <<clientObject, brokerSendQue, link, sendingConnect, toGateway,
                   deliveryVars, brokerSession>>

----------------------------------------------------------------------------
(* MQTTGWPublishHandler::handlePublish, of a packet p = [qos, name, id] from the broker *)
(* or from the packets that were saved.                                                 *)

ReplyACK(p) == ToBroker(Request(IF p.qos = 1 THEN "PUBACK" ELSE "PUBREC", 0, p.id))

PublishIgnored ==
    /\ status \notin {"Active", "Asleep", "Awake"}
    /\ UNCHANGED <<toClient, topics, nextTopicId, brokerSendQue, sleepQue, parked, snMsgId>>

\* Acknowledged first, then saved; Que::post discards what does not fit.
PublishSaved(p) ==
    /\ status = "Asleep"
    /\ ReplyACK(p)
    /\ sleepQue' = IF Len(sleepQue) < MaxSaved THEN Append(sleepQue, p) ELSE sleepQue
    /\ UNCHANGED <<toClient, topics, nextTopicId, parked, snMsgId>>

PublishForwarded(p) ==
    /\ status \in {"Active", "Awake"} /\ topics[p.name] # 0
    /\ GatewaySends(Publish(p.qos, topics[p.name], p.id))
    /\ UNCHANGED <<topics, nextTopicId, brokerSendQue, sleepQue, parked, snMsgId>>

\* Topics::match, of a name that is not there itself.
MatchesFilter(name) == topics[Filter] # 0 /\ name = Topic1

\* "Invalid Topic. PUBLISH message is canceled": acknowledged all the same.
PublishCancelled(p) ==
    /\ status \in {"Active", "Awake"} /\ topics[p.name] = 0 /\ ~MatchesFilter(p.name)
    /\ ReplyACK(p)
    /\ UNCHANGED <<toClient, topics, nextTopicId, sleepQue, parked, snMsgId>>

\* The first PUBLISH on a name that a wildcard matches waits for the client's REGACK.
PublishParked(p) ==
    /\ status \in {"Active", "Awake"} /\ topics[p.name] = 0 /\ MatchesFilter(p.name)
    /\ AddTopic(p.name)
    /\ snMsgId' = snMsgId + 1
    /\ GatewaySends(Register(nextTopicId', snMsgId', p.name))
    /\ parked' = Append(parked, [msgID |-> snMsgId', publish |-> Publish(p.qos, nextTopicId', p.id)])
    /\ UNCHANGED <<brokerSendQue, sleepQue>>

DeliverPublish(p) ==
    /\ \/ PublishIgnored \/ PublishSaved(p) \/ PublishForwarded(p)
       \/ PublishCancelled(p) \/ PublishParked(p)
    /\ UNCHANGED <<known, status, waitWillMsg, waitedPub, brokerLink, link, sendingConnect,
                   toGateway, waitedSub, holdPing, brokerSub, earlier, acknowledged>>

\* On a name that the subscription covers.
BrokerPublishes(qos) ==
    /\ link = "open" /\ brokerSub # 0 /\ published < MaxPublishes
    /\ published' = published + 1
    /\ DeliverPublish([qos |-> qos, id |-> published + 1,
                       name |-> IF brokerSub = Filter THEN Topic1 ELSE brokerSub])
    /\ UNCHANGED stored

HandleStored ==
    /\ stored # <<>>
    /\ DeliverPublish(Head(stored))
    /\ stored' = Tail(stored)
    /\ UNCHANGED published

\* What the client answers: a PUBACK that accepts, a PUBREC, a PUBCOMP.
HandleClientAck(m) ==
    /\ m.type \in {"PUBACK", "PUBREC", "PUBCOMP"}
    /\ status = "Active"
    /\ m.type = "PUBACK" => m.rc = "accepted"
    /\ FromClient(m)
    /\ ToBroker(Request(m.type, 0, m.msgID))
    /\ UNCHANGED <<clientObject, brokerLink, link, sendingConnect, toClient, subscriptionVars>>

\* They are dropped when the client is not Active, Awake included.
HandleIgnoredAck(m) ==
    /\ m.type \in {"PUBACK", "PUBREC", "PUBCOMP", "REGISTER"}
    /\ status = "Active" => m.type = "PUBACK" /\ m.rc = "rejected"
    /\ FromClient(m)
    /\ UNCHANGED <<toClient, gatewayVars, subscriptionVars>>

\* WaitREGACKPacketList::getPacket and erase stop at the first element of that id.
FirstParked(i, msgID) ==
    parked[i].msgID = msgID /\ \A j \in 1..(i - 1) : parked[j].msgID # msgID

\* Whatever the return code, the PUBLISH that waits for this REGACK goes out.
SendParked(msgID) ==
    IF \E i \in 1..Len(parked) : parked[i].msgID = msgID
    THEN \E i \in 1..Len(parked) :
            /\ FirstParked(i, msgID)
            /\ GatewaySends(parked[i].publish)
            /\ parked' = RemoveAt(parked, i)
    ELSE UNCHANGED <<parked, toClient>>

\* The last one sends the held PINGREQ on.
HandleRegAck(m) ==
    /\ m.type = "REGACK"
    /\ FromClient(m)
    /\ IF status \in {"Active", "Awake"}
       THEN /\ SendParked(m.msgID)
            /\ IF holdPing /\ parked' = <<>>
               THEN ToBroker(Request("PINGREQ", 0, 0)) /\ holdPing' = FALSE
               ELSE UNCHANGED <<brokerSendQue, holdPing>>
       ELSE UNCHANGED <<parked, toClient, brokerSendQue, holdPing>>
    /\ UNCHANGED <<clientObject, brokerLink, link, sendingConnect, waitedSub, sleepQue,
                   stored, snMsgId, brokerSession>>

----------------------------------------------------------------------------
(* The broker's other answers. *)

HandlePingrespOrSleep ==
    /\ Answers("PINGREQ", 0)
    /\ brokerLink' = Tail(brokerLink)
    /\ GatewaySends(PingResp)
    /\ status' = IF Resting THEN "Asleep" ELSE status
    /\ UNCHANGED <<known, waitWillMsg, topics, nextTopicId, waitedPub, link, subscriptionVars>>

\* PUBACK and PUBCOMP end a PUBLISH; PUBREC is answered with a PUBREL, which the gateway
\* completes itself for a client that sleeps.
BrokerAcknowledged ==
    /\ brokerLink # <<>> /\ Head(brokerLink).type \in {"PUBACK", "PUBCOMP", "PUBREC"}
    /\ brokerLink' = Tail(brokerLink)
    /\ LET answer == Head(brokerLink)
       IN  /\ acknowledged' = acknowledged \cup ({answer.id} \cap (earlier + 1)..published)
           /\ CASE answer.type = "PUBREC" /\ status \in {"Active", "Awake"} ->
                       GatewaySends(Ack("PUBREL", answer.id)) /\ UNCHANGED brokerSendQue
                [] answer.type = "PUBREC" /\ status = "Asleep" ->
                       ToBroker(Request("PUBCOMP", 0, answer.id)) /\ UNCHANGED toClient
                [] OTHER -> UNCHANGED <<toClient, brokerSendQue>>
    /\ UNCHANGED <<clientObject, link, sendingConnect, toGateway, waitedSub, deliveryVars,
                   brokerSub, published, earlier>>

\* A new connection begins a clean session at the broker.
SendConnectClean ==
    /\ SendConnect
    /\ brokerSub' = 0
    /\ earlier' = published
    /\ acknowledged' = {}
    /\ UNCHANGED <<waitedSub, deliveryVars, published>>

\* The Client goes, with all that was saved, parked or waited for.
EraseSubscriber ==
    /\ EraseClient
    /\ waitedSub' = {}
    /\ sleepQue' = <<>>
    /\ stored' = <<>>
    /\ parked' = <<>>
    /\ holdPing' = FALSE
    /\ snMsgId' = 0
    /\ brokerSub' = 0
    /\ UNCHANGED <<published, earlier, acknowledged>>

----------------------------------------------------------------------------
\* Handled as for a client that only publishes.
OtherPackets(m) ==
    \/ DiscardUnknown(m) \/ HandleWilltopic(m) \/ HandleWillmsg(m)
    \/ HandleRegister(m) \/ HandlePublishInvalidTopic(m) \/ HandlePublish(m)

OtherAnswers == ConnackAccepted \/ ConnackRefused \/ HandlePuback \/ BrokerCloses

SubscriberPackets(m) ==
    \/ HandleConnectResting(m) \/ HandleConnectClean(m)
    \/ HandleDisconnectOrSleep(m) \/ HandlePingreqOrWake(m)
    \/ HandleSubscribe(m)
    \/ HandleClientAck(m) \/ HandleIgnoredAck(m) \/ HandleRegAck(m)
    \/ OtherPackets(m) /\ UNCHANGED subscriptionVars

SubscribeGatewayStep ==
    \/ \E m \in toGateway : SubscriberPackets(m)
    \/ HandleStored
    \/ SendConnectClean
    \/ (connectSended \/ SendRequest) /\ UNCHANGED subscriptionVars
    \/ BrokerSubscribes \/ HandleSuback
    \/ \E qos \in BrokerQos : BrokerPublishes(qos)
    \/ HandlePingrespOrSleep \/ BrokerAcknowledged
    \/ OtherAnswers /\ UNCHANGED subscriptionVars
    \/ EraseSubscriber

----------------------------------------------------------------------------
SubscribeRequests ==
    [type : {"CONNECT", "DISCONNECT", "PINGREQ", "PUBLISH", "PUBACK", "PUBREC", "PUBCOMP"},
     qos : 0..1, id : Word]
      \cup [type : {"SUBSCRIBE"}, qos : 0..2, id : Word, name : TopicNames]

BrokerPackets == [qos : BrokerQos, id : 1..MaxPublishes, name : TopicNames]

ParkedPackets ==
    [msgID : 1..MaxPublishes,
     publish : [type : {"PUBLISH"}, qos : BrokerQos, topicID : Word, msgID : 1..MaxPublishes]]

\* What the gateway may send to a client that subscribes.
DeliveryMessages ==
    [type : {"CONNACK"}, rc : {"accepted", "rejected"}]
      \cup [type : {"WILLTOPICREQ", "WILLMSGREQ", "PINGRESP"}]
      \cup [type : {"DISCONNECT"}, duration : {0}]
      \cup [type : {"REGISTER"}, topicID : Word, msgID : Word, name : TopicNames]
      \cup [type : {"SUBACK"}, qos : 0..2, topicID : Word, msgID : Word,
             rc : {"accepted", "rejected"}]
      \cup [type : {"REGACK", "PUBACK"}, topicID : Word, msgID : Word,
             rc : {"accepted", "rejected"}]
      \cup [type : {"PUBLISH"}, qos : BrokerQos, topicID : Word, msgID : 1..MaxPublishes]
      \cup [type : {"PUBREL"}, msgID : Word]

\* A PUBLISH the broker sends once is saved, posted or given a message id of the gateway's
\* once, so neither queue nor list outgrows them.
Accounted ==
    /\ Len(sleepQue) + Len(stored) + snMsgId <= published
    /\ Len(parked) <= snMsgId

SubscribeGatewayTypeOK ==
    /\ known \in BOOLEAN
    /\ status \in {"Disconnected", "Connecting", "Active", "Asleep", "Awake"}
    /\ waitWillMsg \in BOOLEAN
    /\ topics \in [TopicNames -> 0..MaxTopicID]
    /\ nextTopicId \in 0..MaxTopicID
    /\ waitedPub \cup waitedSub \subseteq [msgID : Word, topicID : Word]
    /\ brokerSendQue \in Seq(SubscribeRequests)
    /\ brokerLink \in Seq(SubscribeRequests)
    /\ link \in {"none", "open", "closed"}
    /\ sendingConnect \in BOOLEAN
    /\ sleepQue \in Seq(BrokerPackets) /\ Len(sleepQue) <= MaxSaved
    /\ stored \in Seq(BrokerPackets)
    /\ parked \in Seq(ParkedPackets)
    /\ holdPing \in BOOLEAN
    /\ snMsgId \in Nat
    /\ brokerSub \in TopicNames \cup {0}
    /\ published \in 0..MaxPublishes
    /\ earlier \in 0..published
    /\ acknowledged \subseteq 1..published
    /\ Accounted
    /\ toClient \subseteq DeliveryMessages
============================================================================
