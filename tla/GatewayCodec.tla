------------------------------ MODULE GatewayCodec ------------------------------
(***************************************************************************)
(* The gateway's side of MQTT-SN: the readers of what clients send and the *)
(* writers of what they are sent, of the Paho library (MQTTSNPacket/src),  *)
(* and class MQTTSNPacket, which calls them with a buffer for each type of *)
(* message, looks for the message id without reading the message, and      *)
(* takes and adds the header of a forwarder.                               *)
(***************************************************************************)
EXTENDS Octets

----------------------------------------------------------------------------
(* MQTTSNConnectServer.c and MQTTSNSearchServer.c *)

\* readMQTTSNString refuses an empty text.
IfText(text, m) == IF text = <<>> THEN Rejected ELSE m

MQTTSNDeserialize_connect(s) ==
    LET b == Body(s)
        f == FlagsOf(b[1])
    IN  IF b[2] # 1
        THEN Rejected
        ELSE IfText(From(b, 5), [type |-> "CONNECT", will |-> f.will, clean |-> f.clean,
                                 duration |-> readInt(b, 3), clientID |-> From(b, 5)])

MQTTSNSerialize_connack(m) == Packet("CONNACK", <<m.rc>>)

\* The caller has set the duration to 0.
MQTTSNDeserialize_disconnect(s) ==
    CASE Len(Body(s)) = 2 -> [type |-> "DISCONNECT", duration |-> readInt(Body(s), 1)]
      [] Len(Body(s)) = 0 -> [type |-> "DISCONNECT", duration |-> 0]
      [] OTHER            -> Rejected

MQTTSNSerialize_disconnect(m) ==
    Packet("DISCONNECT", IF m.duration > 0 THEN writeInt(m.duration) ELSE <<>>)

MQTTSNSerialize_willtopicreq(m) == Packet("WILLTOPICREQ", <<>>)

MQTTSNSerialize_willmsgreq(m) == Packet("WILLMSGREQ", <<>>)

MQTTSNSerialize_pingresp(m) == Packet("PINGRESP", <<>>)

MQTTSNDeserialize_willtopic1(s, type) ==
    LET f == FlagsOf(Body(s)[1])
    IN  IfText(From(Body(s), 2),
               [type |-> type, qos |-> f.qos, retain |-> f.retain, topic |-> From(Body(s), 2)])

MQTTSNDeserialize_willtopic(s) == MQTTSNDeserialize_willtopic1(s, "WILLTOPIC")

MQTTSNDeserialize_willtopicupd(s) == MQTTSNDeserialize_willtopic1(s, "WILLTOPICUPD")

MQTTSNDeserialize_willmsg1(s, type) == IfText(Body(s), [type |-> type, msg |-> Body(s)])

MQTTSNDeserialize_willmsg(s) == MQTTSNDeserialize_willmsg1(s, "WILLMSG")

MQTTSNDeserialize_willmsgupd(s) == MQTTSNDeserialize_willmsg1(s, "WILLMSGUPD")

MQTTSNSerialize_willtopicresp(m) == Packet("WILLTOPICRESP", <<m.rc>>)

MQTTSNSerialize_willmsgresp(m) == Packet("WILLMSGRESP", <<m.rc>>)

MQTTSNSerialize_advertise(m) == Packet("ADVERTISE", <<m.gwID>> \o writeInt(m.duration))

MQTTSNDeserialize_searchgw(s) == [type |-> "SEARCHGW", radius |-> Body(s)[1]]

MQTTSNSerialize_gwinfo(m) == Packet("GWINFO", <<m.gwID>> \o m.address)

----------------------------------------------------------------------------
(* MQTTSNSubscribeServer.c and MQTTSNUnsubscribeServer.c *)

FilterOf(kind, octets) ==
    IF kind = PREDEFINED THEN Topic(kind, readInt(octets, 1), <<>>)
    ELSE Topic(kind, 0, octets)

MQTTSNDeserialize_subscribe(s) ==
    LET b == Body(s)
        f == FlagsOf(b[1])
    IN  [type |-> "SUBSCRIBE", dup |-> f.dup, qos |-> f.qos, msgID |-> readInt(b, 2),
         topic |-> FilterOf(f.kind, From(b, 4))]

MQTTSNSerialize_suback(m) ==
    Packet("SUBACK", <<Flags(0, m.qos, 0, 0)>> \o writeInt(m.topicID) \o writeInt(m.msgID) \o <<m.rc>>)

MQTTSNDeserialize_unsubscribe(s) ==
    LET b == Body(s)
    IN  [type |-> "UNSUBSCRIBE", msgID |-> readInt(b, 2),
         topic |-> FilterOf(FlagsOf(b[1]).kind, From(b, 4))]

MQTTSNSerialize_unsuback(m) == Packet("UNSUBACK", writeInt(m.msgID))

----------------------------------------------------------------------------
(* MQTTSNDeserializePublish.c and MQTTSNSerializePublish.c *)

\* The long name in a PUBLISH: its length is not compared with that of the packet.
LongNameAt(s, length) ==
    LET first == MQTTSNPacket_decode(s).rc + 7 IN SubSeq(s, first, first + length - 1)

MQTTSNDeserialize_publish(s) ==
    LET b     == Body(s)
        f     == FlagsOf(b[1])
        long  == f.qos = 3 /\ f.kind = NORMAL
        start == 6 + IF long THEN readInt(b, 2) ELSE 0
        topic == CASE long             -> Topic(NORMAL, 0, LongNameAt(s, start - 6))
                   [] f.kind = SHORT   -> Topic(SHORT, 0, SubSeq(b, 2, 3))
                   [] OTHER            -> Topic(f.kind, readInt(b, 2), <<>>)
    IN  [type |-> "PUBLISH", dup |-> f.dup, qos |-> f.qos, retain |-> f.retain,
         msgID |-> readInt(b, 4), topic |-> topic, payload |-> From(b, start)]

MQTTSNDeserialize_ack(type, s) == [type |-> type, msgID |-> readInt(Body(s), 1)]

\* The octets of a PUBACK or a REGACK.
Acked(type, s) ==
    [type |-> type, topicID |-> readInt(Body(s), 1), msgID |-> readInt(Body(s), 3),
     rc |-> Body(s)[5]]

MQTTSNDeserialize_puback(s) == Acked("PUBACK", s)

MQTTSNDeserialize_regack(s) == Acked("REGACK", s)

MQTTSNDeserialize_register(s) ==
    [type |-> "REGISTER", topicID |-> readInt(Body(s), 1), msgID |-> readInt(Body(s), 3),
     name |-> From(Body(s), 5)]

\* The gateway sends a long name with no PUBLISH: what it sends has an id or two octets.
MQTTSNSerialize_publish(m) ==
    Packet("PUBLISH",
           <<Flags(m.dup, m.qos, m.retain, m.topic.kind)>>
             \o (IF m.topic.kind = SHORT THEN m.topic.name ELSE writeInt(m.topic.id))
             \o writeInt(m.msgID) \o m.payload)

MQTTSNSerialize_puback(m) == Packet("PUBACK", writeInt(m.topicID) \o writeInt(m.msgID) \o <<m.rc>>)

MQTTSNSerialize_ack(m) == Packet(m.type, writeInt(m.msgID))

MQTTSNSerialize_register(m) == Packet("REGISTER", writeInt(m.topicID) \o writeInt(m.msgID) \o m.name)

MQTTSNSerialize_regack(m) == Packet("REGACK", writeInt(m.topicID) \o writeInt(m.msgID) \o <<m.rc>>)

----------------------------------------------------------------------------
(* MQTTSNGWPacket.cpp *)

\* The buffer each of the set functions has on its stack.
BufferSize(type) ==
    CASE type = "ADVERTISE"                                            -> 5
      [] type \in {"GWINFO", "CONNACK"}                                -> 3
      [] type \in {"WILLTOPICREQ", "WILLMSGREQ"}                       -> 2
      [] type \in {"REGACK", "PUBACK"}                                 -> 7
      [] type \in {"PUBREC", "PUBREL", "PUBCOMP", "UNSUBACK", "DISCONNECT"} -> 4
      [] type = "SUBACK"                                               -> 8
      [] type = "PINGRESP"                                             -> 32
      [] OTHER                                                         -> MQTTSNGW_MAX_PACKET_SIZE

Serialize(m) ==
    CASE m.type = "ADVERTISE"     -> MQTTSNSerialize_advertise(m)
      [] m.type = "GWINFO"        -> MQTTSNSerialize_gwinfo(m)
      [] m.type = "CONNACK"       -> MQTTSNSerialize_connack(m)
      [] m.type = "WILLTOPICREQ"  -> MQTTSNSerialize_willtopicreq(m)
      [] m.type = "WILLMSGREQ"    -> MQTTSNSerialize_willmsgreq(m)
      [] m.type = "WILLTOPICRESP" -> MQTTSNSerialize_willtopicresp(m)
      [] m.type = "WILLMSGRESP"   -> MQTTSNSerialize_willmsgresp(m)
      [] m.type = "REGISTER"      -> MQTTSNSerialize_register(m)
      [] m.type = "REGACK"        -> MQTTSNSerialize_regack(m)
      [] m.type = "PUBLISH"       -> MQTTSNSerialize_publish(m)
      [] m.type = "PUBACK"        -> MQTTSNSerialize_puback(m)
      [] m.type \in {"PUBREC", "PUBREL", "PUBCOMP"} -> MQTTSNSerialize_ack(m)
      [] m.type = "SUBACK"        -> MQTTSNSerialize_suback(m)
      [] m.type = "UNSUBACK"      -> MQTTSNSerialize_unsuback(m)
      [] m.type = "PINGRESP"      -> MQTTSNSerialize_pingresp(m)
      [] m.type = "DISCONNECT"    -> MQTTSNSerialize_disconnect(m)

\* The set functions; <<>> when the writer has found the buffer too short.
SetPacket(m) ==
    LET packet == Serialize(m) IN IF Len(packet) <= BufferSize(m.type) THEN packet ELSE <<>>

\* The get functions.  The client id of a PINGREQ is not looked at, nor is a PINGRESP.
GetPacket(s) ==
    CASE TypeOf(s) = Code["SEARCHGW"]     -> MQTTSNDeserialize_searchgw(s)
      [] TypeOf(s) = Code["CONNECT"]      -> MQTTSNDeserialize_connect(s)
      [] TypeOf(s) = Code["WILLTOPIC"]    -> MQTTSNDeserialize_willtopic(s)
      [] TypeOf(s) = Code["WILLMSG"]      -> MQTTSNDeserialize_willmsg(s)
      [] TypeOf(s) = Code["WILLTOPICUPD"] -> MQTTSNDeserialize_willtopicupd(s)
      [] TypeOf(s) = Code["WILLMSGUPD"]   -> MQTTSNDeserialize_willmsgupd(s)
      [] TypeOf(s) = Code["REGISTER"]     -> MQTTSNDeserialize_register(s)
      [] TypeOf(s) = Code["REGACK"]       -> MQTTSNDeserialize_regack(s)
      [] TypeOf(s) = Code["PUBLISH"]      -> MQTTSNDeserialize_publish(s)
      [] TypeOf(s) = Code["PUBACK"]       -> MQTTSNDeserialize_puback(s)
      [] TypeOf(s) = Code["PUBREC"]       -> MQTTSNDeserialize_ack("PUBREC", s)
      [] TypeOf(s) = Code["PUBREL"]       -> MQTTSNDeserialize_ack("PUBREL", s)
      [] TypeOf(s) = Code["PUBCOMP"]      -> MQTTSNDeserialize_ack("PUBCOMP", s)
      [] TypeOf(s) = Code["SUBSCRIBE"]    -> MQTTSNDeserialize_subscribe(s)
      [] TypeOf(s) = Code["UNSUBSCRIBE"]  -> MQTTSNDeserialize_unsubscribe(s)
      [] TypeOf(s) = Code["PINGREQ"]      -> [type |-> "PINGREQ"]
      [] TypeOf(s) = Code["PINGRESP"]     -> [type |-> "PINGRESP"]
      [] TypeOf(s) = Code["DISCONNECT"]   -> MQTTSNDeserialize_disconnect(s)

\* Where getMsgId and setMsgId take the message id to be, or 0.
MsgIdPlace(s) ==
    LET type == TypeOf(s)
        rc   == MQTTSNPacket_decode(s).rc
    IN  CASE type = Code["PUBLISH"]                                        -> rc + 5
          [] type \in {Code["PUBACK"], Code["REGISTER"], Code["REGACK"]}   -> 5
          [] type \in {Code["PUBREC"], Code["PUBREL"], Code["PUBCOMP"], Code["UNSUBACK"]} -> 3
          [] type \in {Code["SUBSCRIBE"], Code["UNSUBSCRIBE"]}             -> rc + 3
          [] type = Code["SUBACK"]                                         -> 6
          [] OTHER                                                         -> 0

\* Mutant: the octets of the length are forgotten.
GetMsgIdNoLength(s) ==
    IF TypeOf(s) \in {Code["SUBSCRIBE"], Code["UNSUBSCRIBE"]} THEN readInt(s, 4)
    ELSE IF MsgIdPlace(s) = 0 THEN 0 ELSE readInt(s, MsgIdPlace(s))

GetMsgId(s) == IF MsgIdPlace(s) = 0 THEN 0 ELSE readInt(s, MsgIdPlace(s))

SetMsgId(s, msgID) ==
    IF MsgIdPlace(s) = 0 THEN s
    ELSE [s EXCEPT ![MsgIdPlace(s)] = msgID \div 256, ![MsgIdPlace(s) + 1] = msgID % 256]

IsDuplicate(s) == s[MQTTSNPacket_decode(s).rc + 2] >= 128

IsQoSMinusPUBLISH(s) ==
    TypeOf(s) = Code["PUBLISH"] /\ FlagsOf(s[MQTTSNPacket_decode(s).rc + 2]).qos = 3

----------------------------------------------------------------------------
(* MQTTSNGWEncapsulatedPacket.cpp: a packet behind the header of a forwarder. *)

Encapsulate(ctrl, nodeID, packet) ==
    <<Len(nodeID) + 3, Code["ENCAPSULATED"], ctrl>> \o nodeID \o packet

\* Mutant: the octet of ctrl is counted twice.
DesirializeLong(s) ==
    [ctrl |-> s[3], nodeID |-> SubSeq(s, 4, s[1] + 1), packet |-> From(s, s[1] + 1)]

Desirialize(s) ==
    [ctrl |-> s[3], nodeID |-> SubSeq(s, 4, s[1]), packet |-> From(s, s[1] + 1)]
============================================================================
