------------------------------ MODULE BrokerCodec ------------------------------
(***************************************************************************)
(* The gateway's side of MQTT (MQTTGWPacket.cpp), the translation of       *)
(* messages between MQTT-SN and MQTT by the handlers, and the broker's     *)
(* reading of what it is sent.  A packet is its header and its data; the   *)
(* remaining length between them is that of the data.                      *)
(***************************************************************************)
EXTENDS Octets

\* enum of the MQTT packet types
MqttCode ==
    [CONNECT |-> 1, CONNACK |-> 2, PUBLISH |-> 3, PUBACK |-> 4, PUBREC |-> 5, PUBREL |-> 6,
     PUBCOMP |-> 7, SUBSCRIBE |-> 8, SUBACK |-> 9, UNSUBSCRIBE |-> 10, UNSUBACK |-> 11,
     PINGREQ |-> 12, PINGRESP |-> 13, DISCONNECT |-> 14]

\* Header, in bits: the type, dup, two of the level, retain.
Header(type, dup, qos, retain) == 16 * MqttCode[type] + 8 * dup + 2 * qos + retain

HeaderType(p) == p.header \div 16
HeaderDup(p) == (p.header \div 8) % 2
HeaderQos(p) == (p.header \div 2) % 4
HeaderRetain(p) == p.header % 2

\* The most that MAX_NO_OF_REMAINING_LENGTH_BYTES octets hold.
MaxRemainingLength == 2097151

\* The remaining length: digits of seven bits, the lowest first, the top bit for more.
MQTTPacket_encode[length \in 0 .. MaxRemainingLength] ==
    IF length < 128 THEN <<length>>
    ELSE <<128 + (length % 128)>> \o MQTTPacket_encode[length \div 128]

writeUTF(text) == writeInt(Len(text)) \o text

getPacketData(p) == <<p.header>> \o MQTTPacket_encode[Len(p.data)] \o p.data

\* MQTTGWPacket::send never compares the packet with the buffer it copies it into.
send(p) == [size |-> MQTTSNGW_MAX_PACKET_SIZE, octets |-> getPacketData(p)]

\* The remaining length at s, in at most MAX_NO_OF_REMAINING_LENGTH_BYTES octets, and the
\* octets it takes.
RemainingLength(s) ==
    CASE s[2] < 128 -> [value |-> s[2], octets |-> 1]
      [] s[2] >= 128 /\ s[3] < 128 -> [value |-> s[2] - 128 + 128 * s[3], octets |-> 2]
      [] OTHER -> [value |-> s[2] - 128 + 128 * (s[3] - 128) + 16384 * s[4], octets |-> 3]

recv(s) ==
    LET length == RemainingLength(s)
    IN  [header |-> s[1], data |-> SubSeq(s, 2 + length.octets, 1 + length.octets + length.value)]

----------------------------------------------------------------------------
(* What is sent to the broker. *)

setPUBLISH(pub) ==
    [header |-> Header("PUBLISH", pub.dup, pub.qos, pub.retain),
     data   |-> writeUTF(pub.topic)
                  \o (IF pub.qos > 0 THEN writeInt(pub.msgID) ELSE <<>>) \o pub.payload]

setSUBSCRIBE(topic, qos, msgID) ==
    [header |-> Header("SUBSCRIBE", 0, 1, 0), data |-> writeInt(msgID) \o writeUTF(topic) \o <<qos>>]

setUNSUBSCRIBE(topic, msgID) ==
    [header |-> Header("UNSUBSCRIBE", 0, 1, 0), data |-> writeInt(msgID) \o writeUTF(topic)]

setAck(type, msgID) ==
    [header |-> Header(type, 0, IF type = "PUBREL" THEN 1 ELSE 0, 0), data |-> writeInt(msgID)]

setHeader(type) == [header |-> Header(type, 0, 0, 0), data |-> <<>>]

\* Version 4, with no user name; c.will is <<>>, or the one will of the client.
ConnectOctet(c) ==
    2 * c.clean + IF c.will = <<>> THEN 0 ELSE 4 + 8 * c.will[1].qos + 32 * c.will[1].retain

setCONNECT(c) ==
    [header |-> Header("CONNECT", 0, 0, 0),
     data   |-> writeUTF(<<77, 81, 84, 84>>) \o <<4, ConnectOctet(c)>> \o writeInt(c.duration)
                  \o writeUTF(c.clientID)
                  \o (IF c.will = <<>> THEN <<>>
                      ELSE writeUTF(c.will[1].topic) \o writeUTF(c.will[1].msg))]

----------------------------------------------------------------------------
(* What comes from the broker. *)

getPUBLISH(p) ==
    LET topiclen == readInt(p.data, 1)
        start    == topiclen + 3 + IF HeaderQos(p) > 0 THEN 2 ELSE 0
    IN  [type |-> "PUBLISH", dup |-> HeaderDup(p), qos |-> HeaderQos(p),
         retain |-> HeaderRetain(p), topic |-> SubSeq(p.data, 3, topiclen + 2),
         msgID |-> IF HeaderQos(p) > 0 THEN readInt(p.data, topiclen + 3) ELSE 0,
         payload |-> From(p.data, start)]

getAck(type, p) == [type |-> type, msgID |-> readInt(p.data, 1)]

getSUBACK(p) == [type |-> "SUBACK", msgID |-> readInt(p.data, 1), rc |-> p.data[3]]

getCONNACK(p) == [type |-> "CONNACK", rc |-> p.data[2]]

\* MQTTGWPacket::getMsgId.
mqttMsgId(p) == IF HeaderType(p) = MqttCode["PUBLISH"] THEN getPUBLISH(p).msgID ELSE readInt(p.data, 1)

\* Mutant: the low octet of the id comes first.
setAckMsgIdSwapped(p, msgID) ==
    [p EXCEPT !.data = <<msgID % 256, msgID \div 256>> \o From(@, 3)]

\* MQTTGWPacket::setMsgId, for the packets of the broker it is called with.
setAckMsgId(p, msgID) == [p EXCEPT !.data = writeInt(msgID) \o From(@, 3)]

----------------------------------------------------------------------------
(* The handlers' translations.  "names" is what the Topics of the client know: the name  *)
(* of an id of each kind.                                                                 *)

NameOf(topic, names) ==
    IF topic.kind = SHORT THEN topic.name ELSE names[<<topic.kind, topic.id>>]

\* MQTTSNPublishHandler::handlePublish: QoS -1 becomes QoS 0.  A topic by its long name is
\* not found and never comes here.
ToMqttPublish(m, names) ==
    setPUBLISH([dup |-> m.dup, qos |-> IF m.qos = 3 THEN 0 ELSE m.qos, retain |-> m.retain,
                topic |-> NameOf(m.topic, names), msgID |-> m.msgID, payload |-> m.payload])

FilterName(topic, names) == IF topic.kind = NORMAL THEN topic.name ELSE NameOf(topic, names)

\* MQTTSNSubscribeHandler::handleSubscribe and handleUnsubscribe.
ToMqttSubscribe(m, names) == setSUBSCRIBE(FilterName(m.topic, names), m.qos, m.msgID)

ToMqttUnsubscribe(m, names) == setUNSUBSCRIBE(FilterName(m.topic, names), m.msgID)

\* MQTTGWPublishHandler::handlePublish: a name of two octets is a short one, any other is
\* looked up.
ToSnPublish(pub, names) ==
    LET ids   == {i \in DOMAIN names : names[i] = pub.topic}
        topic == IF Len(pub.topic) = 2 THEN Topic(SHORT, 0, pub.topic)
                 ELSE LET i == CHOOSE i \in ids : TRUE IN Topic(i[1], i[2], <<>>)
    IN  [type |-> "PUBLISH", dup |-> pub.dup, qos |-> pub.qos, retain |-> pub.retain,
         msgID |-> pub.msgID, topic |-> topic, payload |-> pub.payload]

\* Mutant: a refusal is taken for a level.
ToSnSubackGranted(ack, topicID) ==
    [type |-> "SUBACK", qos |-> ack.rc % 4, topicID |-> topicID, msgID |-> ack.msgID, rc |-> 0]

\* MQTTGWSubscribeHandler::handleSuback: 0x80 is a refusal, anything else a level.
ToSnSuback(ack, topicID) ==
    [type |-> "SUBACK", qos |-> IF ack.rc = 128 THEN 0 ELSE ack.rc, topicID |-> topicID,
     msgID |-> ack.msgID, rc |-> IF ack.rc = 128 THEN 2 ELSE 0]

\* MQTTGWConnectionHandler::handleConnack, for the return codes of MQTT 3.1.1: accepted,
\* congested for an unavailable server, and not supported for all others.
ToSnConnack(ack) ==
    [type |-> "CONNACK", rc |-> CASE ack.rc = 0 -> 0 [] ack.rc = 3 -> 1 [] OTHER -> 3]

\* MQTTSNConnectionHandler::handleConnect, handleWilltopic and handleWillmsg gather what
\* the CONNECT takes.
ToMqttConnect(connect, will) ==
    setCONNECT([clean |-> connect.clean, duration |-> connect.duration,
                clientID |-> connect.clientID, will |-> will])
============================================================================
