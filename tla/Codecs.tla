-------------------------------- MODULE Codecs --------------------------------
(***************************************************************************)
(* One message on its way between a client, the gateway and the broker:    *)
(* written by one library, perhaps wrapped by a forwarder, read by         *)
(* another, translated by a handler of the gateway, and read at the far    *)
(* end.  Every message the programs and the gateway write makes its way,   *)
(* for the values of the constants.                                        *)
(***************************************************************************)
EXTENDS BrokerCodec

CONSTANTS Ids,          \* message ids, topic ids and durations
          TextLengths,  \* the lengths of names, client ids and payloads
          ShortLengths  \* those that are combined with every flag

\* What two octets hold.
Word == 0 .. 65535

ASSUME IdsAssumption == Ids \subseteq Word \ {0}
\* What fits into the gateway's buffers of MQTTSNGW_MAX_PACKET_SIZE octets with the length, the
\* type, the flags, a topic id and a message id.
ASSUME LengthsAssumption == ShortLengths \subseteq TextLengths /\ TextLengths \subseteq 0 .. 1015

Client == INSTANCE Senders
Gw == INSTANCE GatewayCodec

VARIABLES m,       \* the message, as its writer was given it
          at,      \* where it is
          octets,  \* the octets in the air
          got      \* what the last reader has made of them

vars == <<m, at, octets, got>>

----------------------------------------------------------------------------
(* The messages. *)

Text(n) == [i \in 1 .. n |-> 97 + (i % 26)]
Texts == {Text(n) : n \in TextLengths}
ShortTexts == {Text(n) : n \in ShortLengths}
Bit == {0, 1}
Qos == 0 .. 2

\* What the Topics of the client know.
Names == [i \in {NORMAL, PREDEFINED} \X Ids |-> <<110 + i[1], 47>> \o writeInt(i[2])]

ShortTopic == Topic(SHORT, 0, <<97, 98>>)
Filters == {Topic(NORMAL, 0, t) : t \in Texts \ {<<>>}} \cup {Topic(PREDEFINED, i, <<>>) : i \in Ids}
             \cup {ShortTopic}
PublishTopics == {Topic(kind, i, <<>>) : kind \in {NORMAL, PREDEFINED}, i \in Ids}
                   \cup {ShortTopic}
LongTopics == {Topic(NORMAL, 0, t) : t \in Texts \ {<<>>}}

Publishes(topics, qos, payloads) ==
    [type : {"PUBLISH"}, dup : Bit, qos : qos, retain : Bit, msgID : Ids, topic : topics,
     payload : payloads]

Acks(types) == [type : types, msgID : Ids]

AcksWithTopic == [type : {"PUBACK", "REGACK"}, topicID : Ids, msgID : Ids, rc : 0 .. 3]

\* Only a PUBLISH of QoS -1 carries a name, which must fit together with the payload.
QoSMinus ==
    {p \in Publishes(LongTopics \cup {t \in PublishTopics : t.kind # NORMAL}, {3}, ShortTexts) :
         Len(p.topic.name) + Len(p.payload) <= 1015}

ClientMessages ==
    UNION {[type : {"CONNECT"}, will : Bit, clean : Bit, duration : Ids, clientID : Texts],
           [type : {"DISCONNECT"}, duration : Ids \cup {0}], [type : {"PINGRESP"}],
           [type : {"PINGREQ"}, clientID : Texts],
           [type : {"WILLTOPIC", "WILLTOPICUPD"}, qos : Qos, retain : Bit, topic : Texts],
           [type : {"WILLMSG", "WILLMSGUPD"}, msg : Texts],
           [type : {"SEARCHGW"}, radius : Bit],
           [type : {"SUBSCRIBE"}, dup : Bit, qos : Qos, msgID : Ids, topic : Filters],
           [type : {"UNSUBSCRIBE"}, msgID : Ids, topic : Filters],
           Publishes(PublishTopics, 1 .. 2, ShortTexts), Publishes({ShortTopic}, {1}, Texts),
           {[p EXCEPT !.msgID = 0] : p \in Publishes(PublishTopics, {0}, ShortTexts)},
           QoSMinus, AcksWithTopic, Acks({"PUBREC", "PUBREL", "PUBCOMP"}),
           [type : {"REGISTER"}, topicID : {0}, msgID : Ids, name : Texts]}

\* What the gateway writes on its own account.
GatewayMessages ==
    UNION {[type : {"ADVERTISE"}, gwID : Bit, duration : Ids],
           [type : {"GWINFO"}, gwID : Bit, address : {<<>>}],
           [type : {"WILLTOPICREQ", "WILLMSGREQ", "PINGRESP"}],
           [type : {"WILLTOPICRESP", "WILLMSGRESP"}, rc : 0 .. 3],
           [type : {"DISCONNECT"}, duration : Ids \cup {0}],
           [type : {"SUBACK"}, qos : Qos, topicID : Ids, msgID : Ids, rc : 0 .. 3],
           [type : {"REGISTER"}, topicID : Ids, msgID : Ids, name : Texts],
           AcksWithTopic, Acks({"PUBREC", "PUBREL", "PUBCOMP", "UNSUBACK"})}

BrokerMessages ==
    UNION {[type : {"PUBLISH"}, dup : Bit, qos : Qos, retain : Bit, msgID : Ids,
            topic : {Names[i] : i \in DOMAIN Names} \cup {ShortTopic.name}, payload : ShortTexts],
           [type : {"PUBLISH"}, dup : {0}, qos : {1}, retain : {0}, msgID : Ids,
            topic : {ShortTopic.name}, payload : Texts],
           [type : {"CONNACK"}, rc : 0 .. 5],
           [type : {"SUBACK"}, msgID : Ids, rc : {0, 1, 2, 128}],
           Acks({"PUBACK", "PUBREC", "PUBREL", "PUBCOMP", "UNSUBACK"})}

----------------------------------------------------------------------------
(* Writers and readers by the type of the message. *)

\* What the programs have no sender for is written as the library does it.
ClientSender(msg) ==
    CASE msg.type = "CONNECT"      -> Client!connect(msg)
      [] msg.type = "DISCONNECT"   -> Client!disconnect(msg)
      [] msg.type = "PINGREQ"      -> Client!pingReq(msg)
      [] msg.type = "PINGRESP"     -> Client!pingResp(msg)
      [] msg.type = "WILLTOPIC"    -> Client!willTopic(msg)
      [] msg.type = "WILLTOPICUPD" -> Client!Given(Client!MQTTSNSerialize_willtopicupd(msg))
      [] msg.type = "WILLMSG"      -> Client!willMsg(msg)
      [] msg.type = "WILLMSGUPD"   -> Client!Given(Client!MQTTSNSerialize_willmsgupd(msg))
      [] msg.type = "SEARCHGW"     -> Client!Given(Client!MQTTSNSerialize_searchgw(msg))
      [] msg.type = "SUBSCRIBE"    -> Client!subscribe(msg)
      [] msg.type = "UNSUBSCRIBE"  -> Client!Given(Client!MQTTSNSerialize_unsubscribe(msg))
      [] msg.type = "PUBLISH"      -> IF msg.topic.name = <<>> THEN Client!publish(msg)
                                      ELSE Client!Given(Client!MQTTSNSerialize_publish(msg))
      [] msg.type = "PUBACK"       -> Client!pubAck(msg)
      [] msg.type = "REGACK"       -> Client!regAck(msg)
      [] msg.type = "REGISTER"     -> Client!reg(msg)
      [] OTHER                     -> Client!pubRecRelComp(msg)

ClientWriter(msg) == ClientSender(msg).octets

ClientReader(s) ==
    LET is(type) == TypeOf(s) = Code[type]
    IN  CASE is("ADVERTISE")     -> Client!MQTTSNDeserialize_advertise(s)
          [] is("GWINFO")        -> Client!MQTTSNDeserialize_gwinfo(s)
          [] is("CONNACK")       -> Client!MQTTSNDeserialize_connack(s)
          [] is("WILLTOPICREQ")  -> Client!MQTTSNDeserialize_willtopicreq(s)
          [] is("WILLMSGREQ")    -> Client!MQTTSNDeserialize_willmsgreq(s)
          [] is("WILLTOPICRESP") -> Client!MQTTSNDeserialize_willtopicresp(s)
          [] is("WILLMSGRESP")   -> Client!MQTTSNDeserialize_willmsgresp(s)
          [] is("PINGRESP")      -> Client!MQTTSNDeserialize_pingresp(s)
          [] is("DISCONNECT")    -> Client!MQTTSNDeserialize_disconnect(s)
          [] is("SUBACK")        -> Client!MQTTSNDeserialize_suback(s)
          [] is("UNSUBACK")      -> Client!MQTTSNDeserialize_unsuback(s)
          [] is("PUBLISH")       -> Client!MQTTSNDeserialize_publish(s)
          [] is("PUBACK")        -> Client!MQTTSNDeserialize_puback(s)
          [] is("REGACK")        -> Client!MQTTSNDeserialize_regack(s)
          [] is("REGISTER")      -> Client!MQTTSNDeserialize_register(s)
          [] is("PUBREC")        -> Client!MQTTSNDeserialize_ack("PUBREC", s)
          [] is("PUBREL")        -> Client!MQTTSNDeserialize_ack("PUBREL", s)
          [] is("PUBCOMP")       -> Client!MQTTSNDeserialize_ack("PUBCOMP", s)

\* The gateway's readers of what the broker has sent.
BrokerReader(p) ==
    LET is(type) == HeaderType(p) = MqttCode[type]
        ack(type) == getAck(type, p)
    IN  CASE is("PUBLISH")  -> getPUBLISH(p)
          [] is("CONNACK")  -> getCONNACK(p)
          [] is("SUBACK")   -> getSUBACK(p)
          [] is("UNSUBACK") -> ack("UNSUBACK")
          [] is("PUBACK")   -> ack("PUBACK")
          [] is("PUBREC")   -> ack("PUBREC")
          [] is("PUBREL")   -> ack("PUBREL")
          [] is("PUBCOMP")  -> ack("PUBCOMP")

\* The CONNECT and the will topic the gateway has gathered before a WILLMSG.
Connected == [clean |-> 1, duration |-> 60, clientID |-> Text(3)]
WillOf(msg) == [qos |-> 2, retain |-> 1, topic |-> Text(2), msg |-> msg.msg]

\* The handlers of a client's message.
ToMqtt(msg) ==
    CASE msg.type = "CONNECT"     -> ToMqttConnect(msg, <<>>)
      [] msg.type = "WILLMSG"     -> ToMqttConnect(Connected, <<WillOf(msg)>>)
      [] msg.type = "PUBLISH"     -> ToMqttPublish(msg, Names)
      [] msg.type = "SUBSCRIBE"   -> ToMqttSubscribe(msg, Names)
      [] msg.type = "UNSUBSCRIBE" -> ToMqttUnsubscribe(msg, Names)
      [] msg.type \in {"PUBACK", "PUBREC", "PUBREL", "PUBCOMP"} -> setAck(msg.type, msg.msgID)
      [] msg.type \in {"PINGREQ", "DISCONNECT"}                 -> setHeader(msg.type)

Translated == {"CONNECT", "WILLMSG", "PUBLISH", "SUBSCRIBE", "UNSUBSCRIBE", "PUBACK", "PUBREC",
               "PUBREL", "PUBCOMP", "PINGREQ", "DISCONNECT"}

\* The handlers of a broker's packet; the Topics of the client and its tables of waited ids
\* have the topic id 1 for what was subscribed and published.
ToSn(msg) ==
    CASE msg.type = "PUBLISH" -> ToSnPublish(msg, Names)
      [] msg.type = "SUBACK"  -> ToSnSuback(msg, 1)
      [] msg.type = "CONNACK" -> ToSnConnack(msg)
      [] msg.type = "PUBACK"  -> [type |-> "PUBACK", topicID |-> 1, msgID |-> msg.msgID, rc |-> 0]
      [] OTHER                -> msg

----------------------------------------------------------------------------
(* The broker reads and writes MQTT 3.1.1. *)

\* The octets of the remaining length behind the header, and its value.
RemainingOctets(s) == CHOOSE n \in 1 .. 4 : s[n + 1] < 128 /\ \A i \in 2 .. n : s[i] >= 128

RemainingValue(s) ==
    LET n == RemainingOctets(s)
        digit(i) == IF i > n THEN 0 ELSE s[i + 1] % 128
    IN  digit(1) + 128 * digit(2) + 16384 * digit(3) + 2097152 * digit(4)

Utf(s, i) == SubSeq(s, i + 2, i + 1 + readInt(s, i))

\* What follows the string at i.
After(s, i) == From(s, i + 2 + readInt(s, i))

ParseWill(flags, s) ==
    IF (flags \div 4) % 2 = 0 THEN <<>>
    ELSE <<[qos |-> (flags \div 8) % 4, retain |-> (flags \div 32) % 2, topic |-> Utf(s, 1),
            msg |-> Utf(After(s, 1), 1)]>>

ParseConnect(d) ==
    [type |-> "CONNECT", protocol |-> SubSeq(d, 1, 7), clean |-> (d[8] \div 2) % 2,
     duration |-> readInt(d, 9), clientID |-> Utf(d, 11), will |-> ParseWill(d[8], After(d, 11))]

ParsePublish(flags, d) ==
    LET qos  == (flags \div 2) % 4
        rest == After(d, 1)
    IN  [type |-> "PUBLISH", dup |-> flags \div 8, qos |-> qos, retain |-> flags % 2,
         topic |-> Utf(d, 1), msgID |-> IF qos = 0 THEN 0 ELSE readInt(rest, 1),
         payload |-> IF qos = 0 THEN rest ELSE From(rest, 3)]

ParseData(type, flags, d) ==
    CASE type = "CONNECT"     -> ParseConnect(d)
      [] type = "PUBLISH"     -> ParsePublish(flags, d)
      [] type = "SUBSCRIBE"   -> [type |-> type, flags |-> flags, msgID |-> readInt(d, 1),
                                  topic |-> Utf(d, 3), qos |-> After(d, 3)[1]]
      [] type = "UNSUBSCRIBE" -> [type |-> type, flags |-> flags, msgID |-> readInt(d, 1),
                                  topic |-> Utf(d, 3)]
      [] d = <<>>             -> [type |-> type]
      [] OTHER                -> [type |-> type, flags |-> flags, msgID |-> readInt(d, 1)]

\* A packet whose announced length is not its own is refused.
BrokerReads(s) ==
    LET type == CHOOSE t \in DOMAIN MqttCode : MqttCode[t] = s[1] \div 16
        d    == From(s, 2 + RemainingOctets(s))
    IN  IF RemainingValue(s) = Len(d) THEN ParseData(type, s[1] % 16, d) ELSE Rejected

BrokerData(msg) ==
    CASE msg.type = "PUBLISH" -> writeInt(Len(msg.topic)) \o msg.topic
                                   \o (IF msg.qos = 0 THEN <<>> ELSE writeInt(msg.msgID)) \o msg.payload
      [] msg.type = "CONNACK" -> <<0, msg.rc>>
      [] msg.type = "SUBACK"  -> writeInt(msg.msgID) \o <<msg.rc>>
      [] OTHER                -> writeInt(msg.msgID)

BrokerWrites(msg) ==
    LET d     == BrokerData(msg)
        flags == CASE msg.type = "PUBLISH" -> 8 * msg.dup + 2 * msg.qos + msg.retain
                   [] msg.type = "PUBREL"  -> 2
                   [] OTHER                -> 0
        size  == IF Len(d) < 128 THEN <<Len(d)>> ELSE <<128 + (Len(d) % 128), Len(d) \div 128>>
    IN  <<16 * MqttCode[msg.type] + flags>> \o size \o d

----------------------------------------------------------------------------
(* The way of a message. *)

None == [type |-> "none"]

Init == m = None /\ at = "nowhere" /\ octets = <<>> /\ got = None

Move(from, to) == at = from /\ at' = to

\* What comes of a packet that was written beyond its buffer is undefined: it ends here.
Put(written, to) == at' = IF Overruns(written) THEN "overrun" ELSE to

ClientWrites ==
    /\ at = "nowhere"
    /\ m' \in ClientMessages
    /\ Put(ClientSender(m'), "to gateway")
    /\ octets' = ClientWriter(m')
    /\ UNCHANGED got

\* A forwarder puts its header before the packet, the gateway takes it off.  With the header
\* the packet must fit into the buffer of the gateway.
ForwarderWraps ==
    /\ Move("to gateway", "forwarded")
    /\ got = None
    /\ \E n \in {1, 4} : octets' = Gw!Encapsulate(0, Text(n), octets)
    /\ Len(octets') <= MQTTSNGW_MAX_PACKET_SIZE
    /\ UNCHANGED <<m, got>>

GatewayUnwraps ==
    /\ Move("forwarded", "to gateway")
    /\ octets' = Gw!Desirialize(octets).packet
    /\ got' = [type |-> "ENCAPSULATED", nodeID |-> Gw!Desirialize(octets).nodeID]
    /\ UNCHANGED m

GatewayReads ==
    /\ Move("to gateway", "gateway")
    /\ got' = Gw!GetPacket(octets)
    /\ UNCHANGED <<m, octets>>

\* A CONNECT that announces a will is kept until the WILLMSG; a PUBLISH by a long name is
\* dropped.
GatewayTranslates ==
    /\ at = "gateway"
    /\ got.type \in Translated
    /\ got.type = "CONNECT" => got.will = 0
    /\ got.type = "PUBLISH" => ~Client!LongName(got.qos, got.topic)
    /\ Put(send(ToMqtt(got)), "to broker")
    /\ octets' = getPacketData(ToMqtt(got))
    /\ UNCHANGED <<m, got>>

BrokerReceives ==
    /\ Move("to broker", "broker")
    /\ got' = BrokerReads(octets)
    /\ UNCHANGED <<m, octets>>

BrokerSends ==
    /\ Move("nowhere", "from broker")
    /\ m' \in BrokerMessages
    /\ octets' = BrokerWrites(m')
    /\ UNCHANGED got

GatewayReceives ==
    /\ Move("from broker", "answering")
    /\ got' = BrokerReader(recv(octets))
    /\ UNCHANGED <<m, octets>>

GatewayAnswers ==
    /\ Move("answering", "answered")
    /\ octets' = Gw!SetPacket(ToSn(got))
    /\ UNCHANGED <<m, got>>

GatewayWrites ==
    /\ Move("nowhere", "to client")
    /\ m' \in GatewayMessages
    /\ octets' = Gw!SetPacket(m')
    /\ UNCHANGED got

ClientReads ==
    /\ Move("to client", "client") \/ Move("answered", "told")
    /\ octets # <<>>
    /\ got' = ClientReader(octets)
    /\ UNCHANGED <<m, octets>>

Next ==
    \/ ClientWrites \/ ForwarderWraps \/ GatewayUnwraps \/ GatewayReads \/ GatewayTranslates
    \/ BrokerReceives \/ BrokerSends \/ GatewayReceives \/ GatewayAnswers \/ GatewayWrites
    \/ ClientReads

Spec == Init /\ [][Next]_vars

----------------------------------------------------------------------------
(* Properties.  A packet of 258 octets is the one case in which a message is cut: its      *)
(* writer announces 256 octets (module PacketLength), so that its reader leaves two off.   *)
(* That is if it was written into a large buffer: one of the announced length it overruns. *)

HasText(msg) ==
    /\ msg.type = "CONNECT" => msg.clientID # <<>>
    /\ msg.type \in {"WILLTOPIC", "WILLTOPICUPD"} => msg.topic # <<>>
    /\ msg.type \in {"WILLMSG", "WILLMSGUPD"} => msg.msg # <<>>

Cut(s) == Len(s) = 258

\* Every variable has its type; what is in the air is made of octets, whatever the ids and
\* the lengths.
TypeOK ==
    /\ at \in {"nowhere", "to gateway", "forwarded", "gateway", "to broker", "broker",
               "from broker", "answering", "answered", "to client", "client", "told",
               "overrun"}
    /\ \A i \in DOMAIN octets : octets[i] \in 0 .. 255

\* Whatever a client writes, the gateway reads, and whatever the gateway writes of its own, a
\* client reads: the two libraries agree octet by octet on every message, also one that came
\* behind the header of a forwarder, except for an empty text, which readMQTTSNString
\* refuses, and the client id of a PINGREQ.
SentIsRead ==
    /\ at = "gateway" /\ ~Cut(octets) =>
         got = CASE ~HasText(m)        -> Rejected
                 [] m.type = "PINGREQ" -> [type |-> "PINGREQ"]
                 [] OTHER              -> m
    /\ at = "client" /\ ~Cut(octets) => got = m

\* A forwarder's header comes off as it was put on: the gateway answers the node it names.
NodeIsKnown ==
    at = "to gateway" /\ got # None =>
        got.nodeID \in {Text(1), Text(4)} /\ octets = ClientWriter(m)

NameOfTopic(topic) ==
    IF topic.kind = NORMAL /\ topic.name # <<>> THEN topic.name ELSE NameOf(topic, Names)

\* The texts with which a message has 254 octets behind its type: the sender has a buffer of
\* the 256 octets it announces, and 258 are written.
OfTheWrongLength(msg) ==
    \/ msg.type = "CONNECT"   /\ Len(msg.clientID) = 250
    \/ msg.type = "PINGREQ"   /\ Len(msg.clientID) = 254
    \/ msg.type = "WILLTOPIC" /\ Len(msg.topic) = 253
    \/ msg.type = "WILLMSG"   /\ Len(msg.msg) = 254
    \/ msg.type = "REGISTER"  /\ Len(msg.name) = 250
    \/ msg.type = "SUBSCRIBE" /\ msg.topic.kind = NORMAL /\ Len(msg.topic.name) = 251
    \/ msg.type = "PUBLISH"   /\ msg.topic.name = <<>> /\ Len(msg.payload) = 249

\* The texts the gateway can receive, in a packet of 1024 octets, but not send to the broker:
\* a CONNECT has 15 more octets, with this will 24, a PUBLISH has the name for the id.
TooLongForMqtt(msg) ==
    \/ msg.type = "CONNECT" /\ Len(msg.clientID) > 1009
    \/ msg.type = "WILLMSG" /\ Len(msg.msg) > 1000
    \/ /\ msg.type = "PUBLISH" /\ msg.qos \in 1 .. 2
       /\ Len(NameOfTopic(msg.topic)) + Len(msg.payload) > 1017

\* No sender of a client and no set function of the gateway finds its own buffer too small, and
\* a packet is written beyond the buffer of a client's sender, or beyond that of the
\* gateway's connection to the broker, for the texts above and for no others.
BuffersSuffice ==
    /\ at \in {"to gateway", "to client", "answered"} => octets # <<>>
    /\ at = "overrun" => IF got = None THEN OfTheWrongLength(m) ELSE TooLongForMqtt(m)
    /\ at = "to gateway" => ~OfTheWrongLength(m)
    /\ at = "to broker" => ~TooLongForMqtt(m)

\* What the gateway takes from a packet it has not read, for its tables of outstanding ids
\* and to tell the clients of QoS -1, is what the client wrote; an id written over it is the
\* one that is read.  A REGISTER, where it looks at a fixed place, must be short.
UnreadIsKnown ==
    at = "to gateway" /\ ~Cut(octets) /\ (m.type = "REGISTER" => Len(octets) < 256) =>
        /\ "msgID" \in DOMAIN m =>
              /\ Gw!GetMsgId(octets) = m.msgID
              /\ \A i \in Ids : Gw!GetPacket(Gw!SetMsgId(octets, i)) = [m EXCEPT !.msgID = i]
        /\ "dup" \in DOMAIN m => Gw!IsDuplicate(octets) = (m.dup = 1)
        /\ Gw!IsQoSMinusPUBLISH(octets) = (m.type = "PUBLISH" /\ m.qos = 3)

\* An acknowledgement of the broker whose id is replaced (for a client of the aggregator) is
\* read as the same acknowledgement with the new id.
IdIsReplaced ==
    at = "from broker" /\ m.type \notin {"PUBLISH", "CONNACK"} =>
        /\ mqttMsgId(recv(octets)) = m.msgID
        /\ \A i \in Ids : BrokerReader(setAckMsgId(recv(octets), i)) = [m EXCEPT !.msgID = i]

\* What the broker should be told.
ConnectMeant(c, will) ==
    [type |-> "CONNECT", protocol |-> <<0, 4, 77, 81, 84, 84, 4>>, clean |-> c.clean,
     duration |-> c.duration, clientID |-> c.clientID, will |-> will]

Meant(msg) ==
    CASE msg.type = "PUBLISH" ->
           [type |-> "PUBLISH", dup |-> msg.dup, qos |-> msg.qos % 3, retain |-> msg.retain,
            topic |-> NameOfTopic(msg.topic), payload |-> msg.payload,
            msgID |-> IF msg.qos \in 1 .. 2 THEN msg.msgID ELSE 0]
      [] msg.type = "SUBSCRIBE" ->
           [type |-> "SUBSCRIBE", flags |-> 2, msgID |-> msg.msgID,
            topic |-> NameOfTopic(msg.topic), qos |-> msg.qos]
      [] msg.type = "UNSUBSCRIBE" ->
           [type |-> "UNSUBSCRIBE", flags |-> 2, msgID |-> msg.msgID,
            topic |-> NameOfTopic(msg.topic)]
      [] msg.type = "CONNECT" -> ConnectMeant(msg, <<>>)
      [] msg.type = "WILLMSG" -> ConnectMeant(Connected, <<WillOf(msg)>>)
      [] msg.type \in {"PINGREQ", "DISCONNECT"} -> [type |-> msg.type]
      [] OTHER -> [type |-> msg.type, flags |-> IF msg.type = "PUBREL" THEN 2 ELSE 0,
                   msgID |-> msg.msgID]

\* The broker is told what the client meant: the name of the topic for its id, QoS 0 for
\* QoS -1, a will with the CONNECT, in a packet of the length it announces.
BrokerIsTold == at = "broker" /\ ~Cut(ClientWriter(m)) => got = Meant(m)

\* A client is told what the broker meant: the topic by the id it knows for the name (or by its
\* two octets), a granted level or a refusal, an accepted or a refused connection.
ClientIsTold ==
    at = "told" /\ ~Cut(octets) =>
        CASE m.type = "PUBLISH" ->
               [got EXCEPT !.topic = NameOf(@, Names)]
                 = [m EXCEPT !.msgID = IF m.qos = 0 THEN 0 ELSE @]
          [] m.type = "SUBACK"  ->
               /\ got.msgID = m.msgID
               /\ IF got.rc = 0 THEN got.qos = m.rc ELSE m.rc = 128
          [] m.type = "CONNACK" -> got.type = "CONNACK" /\ (got.rc = 0 <=> m.rc = 0)
          [] m.type = "PUBACK"  -> got.type = "PUBACK" /\ got.msgID = m.msgID /\ got.rc = 0
          [] OTHER              -> got = m

\* What one end means by a message is what the other end is told, both ways.
MeaningKept == BrokerIsTold /\ ClientIsTold
============================================================================
