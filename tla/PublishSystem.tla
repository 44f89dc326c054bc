---------------------------- MODULE PublishSystem ----------------------------
(***************************************************************************)
(* The program of MQTTSN_PublishV2.c, the gateway and the network between  *)
(* them.                                                                   *)
(***************************************************************************)
EXTENDS PublishClient, Gateway

ASSUME PublishSystemAssumption == TopicNames = {1, 2}

vars == <<clientVars, netVars, gatewayVars>>

Init == ClientInit /\ GatewayInit

Next ==
    \/ ClientStep /\ UNCHANGED gatewayVars
    \/ TimePasses /\ UNCHANGED gatewayVars
    \/ GatewayStep /\ UNCHANGED clientVars

Spec == Init /\ [][Next]_vars

\* The loop of the program keeps turning, and time keeps passing.
FairSpec ==
    /\ Spec
    /\ WF_vars(ClientStep /\ UNCHANGED gatewayVars)
    /\ WF_vars(TimePasses /\ UNCHANGED gatewayVars)

----------------------------------------------------------------------------
(* Properties. *)

\* Every variable, and every datagram under way, has its type; every id fits uint16_t.
TypeOK ==
    /\ ClientTypeOK
    /\ GatewayTypeOK
    /\ toGateway \subseteq ClientMessages(TopicNames)
    /\ toClient \subseteq GatewayMessages

\* The states of a program that has not been accepted yet.
Joining == {"Q_CONNECTING", "Q_WILL_TOP_REQ", "Q_WILL_MSG_REQ"}

\* From its CONNACK to its DISCONNECT.
InSession == eventID \notin Joining \cup {"Q_DISCONNECTED"}

\* However often REGISTER and REGACK are repeated, lost or late, and whatever else is
\* taken for a REGACK, the program fills at most two entries of pub_topicID, and
\* never with one topic id for both of its topics (readRegAck appends without a test).
RegisteredTopics ==
    /\ Len(client.pub_topicID) <= 2
    /\ \A i, j \in 1..Len(client.pub_topicID) :
          i # j => client.pub_topicID[i] # client.pub_topicID[j]

\* While the program takes itself for connected the gateway has a Client for it, with
\* an open connection to the broker.
SessionHasLink == InSession => known /\ link = "open"

\* When no message of the handshake comes twice, each entry of pub_topicID is the id the
\* gateway has for the topic of that number, so what is published reaches the topic it is
\* meant for.
TopicsAgree ==
    InSession => \A i \in 1..Len(client.pub_topicID) : client.pub_topicID[i] = topics[i]

\* When no message of the handshake comes twice, what ends Q_REGISTERING for the first
\* topic is its REGACK: the publish at QoS 0 never reads an entry of pub_topicID nobody has written.
FirstTopicKnown == publishFlag => client.pub_topicID # <<>>

\* What the gateway keeps to answer the broker's PUBACKs is about topics it still has
\* (TopicIdMap against Topics, which a clean session empties together).
WaitedIsTopic == \A w \in waitedPub : IsTopic(w.topicID)

\* A PUBLISH at QoS 1 on its way to the broker has its topic id in the map, so that its
\* PUBACK can be passed on, although publishes at QoS 1 and 2 share message ids.
PubackIsWaitedFor ==
    \A r \in Entries(brokerSendQue) \cup Entries(brokerLink) :
        r.type = "PUBLISH" /\ r.qos = 1 => \E w \in waitedPub : w.msgID = r.id

\* Whatever is lost, late or refused, the program gets back to Q_CONNECTED, from which
\* it publishes and pings, or ends.
Responsive == []<>(eventID \in {"Q_CONNECTED", "Q_DISCONNECTED"})

----------------------------------------------------------------------------
(* Inductive invariants: why SessionHasLink and RegisteredTopics hold when the broker *)
(* refuses nobody.  Both are about the time before the program's DISCONNECT.          *)

TypesOf(messages) == {m.type : m \in messages}

\* The connection to the broker is opened for the program's first CONNECT and then only
\* ever replaced by another open one: what would close it, a DISCONNECT or a packet
\* without a CONNECT before it, is nowhere under way.
LinkInvariant == eventID # "Q_DISCONNECTED" =>
    /\ link # "closed"
    /\ "DISCONNECT" \notin TypesOf(toGateway \cup Entries(brokerSendQue) \cup Entries(brokerLink))
    /\ brokerLink # <<>> => link = "open"
    /\ link = "none" =>
          /\ eventID \in Joining
          /\ TypesOf(toGateway) \subseteq {"CONNECT", "WILLTOPIC", "WILLMSG"}
          /\ TypesOf(toClient) \subseteq {"WILLTOPICREQ", "WILLMSGREQ"}
          /\ TypesOf(Entries(brokerSendQue)) \subseteq {"CONNECT"}
    /\ ~known => link = "none" /\ brokerSendQue = <<>>

\* The topic id is the gateway's for the topic of number n, or on its way as that.
IsFor(topicID, n) ==
    \/ topicID # 0 /\ topics[n] = topicID
    \/ RegAck(topicID, n, "accepted") \in toClient

\* The number of a topic is the message id of its REGISTER, in every copy of it and of
\* its answers, and no topic id is ever meant for both topics.
NumbersAgree ==
    /\ \A m \in toGateway : m.type = "REGISTER" => m.name = m.msgID
    /\ \A m \in toClient : m.type = "REGACK" =>
          /\ m.rc = "accepted"
          /\ m.msgID \in TopicNames
          /\ m.topicID \in 1..nextTopicId
    /\ \A n \in TopicNames : topics[n] <= nextTopicId
    /\ \A topicID \in 1..nextTopicId : ~(IsFor(topicID, 1) /\ IsFor(topicID, 2))

\* An entry is written while its own message id is the outstanding one, and neither is
\* outstanding once the program publishes.
EntriesInTurn ==
    /\ \A i \in 1..Len(client.pub_topicID) : client.pub_topicID[i] \in 1..nextTopicId
    /\ registerFlag /\ reg1 =>
          /\ eventID \in Joining \cup {"Q_CONNECTED", "Q_REGISTERING"}
          /\ ~reg2
          /\ event.send_msgID = 1
          /\ client.pub_topicID = <<>>
    /\ registerFlag /\ ~reg1 =>
          /\ eventID \in {"Q_CONNECTED", "Q_REGISTERING"}
          /\ reg2
          /\ event.send_msgID = 2
          /\ Len(client.pub_topicID) <= 1
          /\ \A i \in 1..Len(client.pub_topicID) : ~IsFor(client.pub_topicID[i], 2)
    /\ ~registerFlag =>
          /\ eventID \in {"Q_CONNECTED", "Q_PUBLISH", "Q_PUB_QOS2", "Q_CLIENT_PING"}
          /\ event.send_msgID \in 3..(MaxMsgID + 1)
          /\ eventID \in {"Q_PUBLISH", "Q_PUB_QOS2"} => event.send_msgID <= MaxMsgID

SlotInvariant ==
    /\ RegisteredTopics
    /\ eventID # "Q_DISCONNECTED" => NumbersAgree /\ EntriesInTurn

----------------------------------------------------------------------------
(* Inductive invariants: why TopicsAgree, FirstTopicKnown and PubackIsWaitedFor hold,   *)
(* also with a broker that refuses, when no message of the handshake comes twice.       *)

\* Until the program is accepted there is one message at a time.
OneHandshake == eventID \in Joining => HandshakeAlone

\* A CONNECT nobody has read is alone, and the program waits for its answer or has given up.
FirstConnect ==
    \A m \in toGateway : m.type = "CONNECT" =>
        /\ toGateway = {m} /\ toClient = {} /\ brokerSendQue = <<>> /\ brokerLink = <<>>
        /\ eventID \in {"Q_CONNECTING", "Q_DISCONNECTED"}

\* In the session nothing is under way that would end it or begin another.
NoOtherSession ==
    InSession =>
        /\ known /\ link = "open"
        /\ TypesOf(toGateway) \subseteq {"REGISTER", "PUBLISH", "PUBREL", "PINGREQ", "PUBACK"}
        /\ TypesOf(Entries(brokerSendQue) \cup Entries(brokerLink))
              \subseteq {"PUBLISH", "PUBREL", "PINGREQ"}

\* While the first topic is registered nothing is under way but REGISTERs and REGACKs for
\* it; a REGACK carries the id its topic has; the first entry is there before the second.
FirstTopicFirst ==
    /\ publishFlag => ~reg1
    /\ reg1 => registerFlag
    /\ ~reg1 => client.pub_topicID # <<>>
    /\ InSession =>
          /\ \A m \in toClient : m.type = "REGACK" => m.topicID = topics[m.msgID]
          /\ reg1 =>
                /\ brokerSendQue = <<>> /\ brokerLink = <<>>
                /\ \A m \in toGateway : m.type = "REGISTER" /\ m.msgID = 1
                /\ \A m \in toClient : m.type = "REGACK" /\ m.msgID = 1

OnceInvariant ==
    SlotInvariant /\ OneHandshake /\ FirstConnect /\ NoOtherSession /\ FirstTopicFirst /\ TopicsAgree

AtQos1(r) == r.type = "PUBLISH" /\ r.qos = 1

\* No two packets of a queue are PUBLISHes at QoS 1 with one message id.
OnceIn(queue) ==
    \A i, j \in 1..Len(queue) :
        AtQos1(queue[i]) /\ AtQos1(queue[j]) /\ queue[i].id = queue[j].id => i = j

\* The program gives a message id to one PUBLISH at QoS 1 only, and when no datagram of it
\* comes twice there is one copy of it: in the air, in the queue or at the broker.
OnePublish ==
    /\ OnceIn(brokerSendQue) /\ OnceIn(brokerLink)
    /\ \A r \in Entries(brokerSendQue), s \in Entries(brokerLink) :
          AtQos1(r) /\ AtQos1(s) => r.id # s.id
    /\ \A m \in toGateway : AtQos1(m) =>
          /\ \A n \in toGateway : AtQos1(n) /\ n.msgID = m.msgID => n = m
          /\ \A r \in Entries(brokerSendQue) \cup Entries(brokerLink) :
                AtQos1(r) => r.id # m.msgID
    /\ eventID # "Q_DISCONNECTED" =>
          /\ \A m \in toGateway : AtQos1(m) =>
                m.msgID < event.send_msgID \/ (m.msgID = event.send_msgID /\ pub # 1)
          /\ \A r \in Entries(brokerSendQue) \cup Entries(brokerLink) : AtQos1(r) =>
                r.id < event.send_msgID \/ (r.id = event.send_msgID /\ pub # 1)

\* The map of topic ids has one element for a message id, and the ids are the program's.
WaitedOnce ==
    /\ \A w, v \in waitedPub : w.msgID = v.msgID => w = v
    /\ \A w \in waitedPub : w.msgID \in 1..MaxMsgID
    /\ \A m \in toGateway : m.type = "PUBLISH" =>
          m.msgID <= MaxMsgID /\ (m.qos > 0 => m.msgID # 0)

PubackInvariant ==
    /\ OnePublish /\ WaitedOnce /\ PubackIsWaitedFor
    /\ link # "open" => brokerLink = <<>>

----------------------------------------------------------------------------
(* What comments in the code say and the program does not do. *)

\* "Expecting a RegAck with an accepted return code" (MQTTSN_PublishV2.c,
\* Q_REGISTERING): once registerFlag is cleared both topics have their id.
PublishOnlyRegistered == ~registerFlag => Len(client.pub_topicID) = 2
============================================================================
