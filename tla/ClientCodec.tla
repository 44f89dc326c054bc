------------------------------ MODULE ClientCodec ------------------------------
(***************************************************************************)
(* mqtt-sn-lib: the writers of what a client sends and the readers of what *)
(* it receives, one definition for each function.  A message is a record   *)
(* of the arguments.  A reader that finds another type returns an error;   *)
(* readMsg has chosen it by the type.                                      *)
(***************************************************************************)
EXTENDS Octets

----------------------------------------------------------------------------
(* MQTTSNConnectClient.c and MQTTSNSearchClient.c *)

MQTTSNSerialize_connect(m) ==
    Packet("CONNECT", <<ConnectFlags(m.will, m.clean), 1>> \o writeInt(m.duration) \o m.clientID)

MQTTSNSerialize_disconnect(m) ==
    Packet("DISCONNECT", IF m.duration > 0 THEN writeInt(m.duration) ELSE <<>>)

MQTTSNSerialize_pingreq(m) == Packet("PINGREQ", m.clientID)

MQTTSNSerialize_willtopic1(m, type) == Packet(type, <<Flags(0, m.qos, m.retain, 0)>> \o m.topic)

MQTTSNSerialize_willtopicupd(m) == MQTTSNSerialize_willtopic1(m, "WILLTOPICUPD")

MQTTSNSerialize_willtopic(m) == MQTTSNSerialize_willtopic1(m, "WILLTOPIC")

MQTTSNSerialize_willmsg1(m, type) == Packet(type, m.msg)

MQTTSNSerialize_willmsg(m) == MQTTSNSerialize_willmsg1(m, "WILLMSG")

MQTTSNSerialize_willmsgupd(m) == MQTTSNSerialize_willmsg1(m, "WILLMSGUPD")

MQTTSNSerialize_searchgw(m) == Packet("SEARCHGW", <<m.radius>>)

MQTTSNDeserialize_connack(s) == [type |-> "CONNACK", rc |-> Body(s)[1]]

MQTTSNDeserialize_pingresp(s) == [type |-> "PINGRESP"]

MQTTSNDeserialize_willtopicreq(s) == [type |-> "WILLTOPICREQ"]

MQTTSNDeserialize_willmsgreq(s) == [type |-> "WILLMSGREQ"]

MQTTSNDeserialize_willtopicresp(s) == [type |-> "WILLTOPICRESP", rc |-> Body(s)[1]]

MQTTSNDeserialize_willmsgresp(s) == [type |-> "WILLMSGRESP", rc |-> Body(s)[1]]

\* The caller has set the duration to 0.
MQTTSNDeserialize_disconnect(s) ==
    CASE Len(Body(s)) = 2 -> [type |-> "DISCONNECT", duration |-> readInt(Body(s), 1)]
      [] Len(Body(s)) = 0 -> [type |-> "DISCONNECT", duration |-> 0]
      [] OTHER            -> Rejected

MQTTSNDeserialize_advertise(s) ==
    [type |-> "ADVERTISE", gwID |-> Body(s)[1], duration |-> readInt(Body(s), 2)]

MQTTSNDeserialize_gwinfo(s) ==
    [type |-> "GWINFO", gwID |-> Body(s)[1], address |-> From(Body(s), 2)]

----------------------------------------------------------------------------
(* MQTTSNSubscribeClient.c and MQTTSNUnsubscribeClient.c *)

FilterOctets(t) == IF t.kind = PREDEFINED THEN writeInt(t.id) ELSE t.name

MQTTSNSerialize_subscribe(m) ==
    Packet("SUBSCRIBE",
           <<Flags(m.dup, m.qos, 0, m.topic.kind)>> \o writeInt(m.msgID) \o FilterOctets(m.topic))

MQTTSNDeserialize_suback(s) ==
    LET b == Body(s)
    IN  [type |-> "SUBACK", qos |-> FlagsOf(b[1]).qos, topicID |-> readInt(b, 2),
         msgID |-> readInt(b, 4), rc |-> b[6]]

MQTTSNSerialize_unsubscribe(m) ==
    Packet("UNSUBSCRIBE", <<m.topic.kind>> \o writeInt(m.msgID) \o FilterOctets(m.topic))

MQTTSNDeserialize_unsuback(s) == [type |-> "UNSUBACK", msgID |-> readInt(Body(s), 1)]

----------------------------------------------------------------------------
(* MQTTSNSerializePublish.c and MQTTSNDeserializePublish.c *)

\* At QoS -1 (3 on the wire) a normal topic is sent by its name, after the message id.
LongName(qos, topic) == qos = 3 /\ topic.kind = NORMAL

MQTTSNSerialize_publish(m) ==
    LET id == CASE LongName(m.qos, m.topic) -> writeInt(Len(m.topic.name))
                [] m.topic.kind = SHORT     -> m.topic.name
                [] OTHER                    -> writeInt(m.topic.id)
    IN  Packet("PUBLISH",
               <<Flags(m.dup, m.qos, m.retain, m.topic.kind)>> \o id \o writeInt(m.msgID)
                 \o (IF LongName(m.qos, m.topic) THEN m.topic.name ELSE <<>>) \o m.payload)

MQTTSNSerialize_puback(m) == Packet("PUBACK", writeInt(m.topicID) \o writeInt(m.msgID) \o <<m.rc>>)

MQTTSNSerialize_ack(m) == Packet(m.type, writeInt(m.msgID))

MQTTSNSerialize_register(m) == Packet("REGISTER", writeInt(m.topicID) \o writeInt(m.msgID) \o m.name)

MQTTSNSerialize_regack(m) == Packet("REGACK", writeInt(m.topicID) \o writeInt(m.msgID) \o <<m.rc>>)

\* The long name in a PUBLISH: its length is not compared with that of the packet.
LongNameAt(s, length) ==
    LET first == MQTTSNPacket_decode(s).rc + 7 IN SubSeq(s, first, first + length - 1)

MQTTSNDeserialize_publish(s) ==
    LET b     == Body(s)
        f     == FlagsOf(b[1])
        long  == f.qos = 3 /\ f.kind = NORMAL
        start == 6 + IF long THEN readInt(b, 2) ELSE 0
        topic == CASE long             -> Topic(NORMAL, 0, LongNameAt(s, start - 6))
                   [] f.kind = SHORT   -> Topic(SHORT, 0, SubSeq(b, 2, 3))
                   [] OTHER            -> Topic(f.kind, readInt(b, 2), <<>>)
    IN  [type |-> "PUBLISH", dup |-> f.dup, qos |-> f.qos, retain |-> f.retain,
         msgID |-> readInt(b, 4), topic |-> topic, payload |-> From(b, start)]

\* The octets of a PUBACK or a REGACK.
Acked(type, s) ==
    [type |-> type, topicID |-> readInt(Body(s), 1), msgID |-> readInt(Body(s), 3),
     rc |-> Body(s)[5]]

MQTTSNDeserialize_puback(s) == Acked("PUBACK", s)

MQTTSNDeserialize_ack(type, s) == [type |-> type, msgID |-> readInt(Body(s), 1)]

MQTTSNDeserialize_register(s) ==
    [type |-> "REGISTER", topicID |-> readInt(Body(s), 1), msgID |-> readInt(Body(s), 3),
     name |-> From(Body(s), 5)]

MQTTSNDeserialize_regack(s) == Acked("REGACK", s)
============================================================================
