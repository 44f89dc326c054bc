-------------------------------- MODULE Senders --------------------------------
(***************************************************************************)
(* src/src: the functions that send a message.  Each has a buffer of the   *)
(* size it computes itself, has the library write the message there, and   *)
(* gives transport_sendPacketBuffer what the writer has returned.  A       *)
(* writer compares the length it is going to announce with the buffer, not *)
(* the octets it is going to write: a length of 256 is announced for 258.  *)
(* WillTopicUpd and WillMsgUpd are left out: the files do not compile.     *)
(***************************************************************************)
EXTENDS ClientCodec

\* What is written into the buffer: nothing, if the writer finds it too short.
Sent(bufSize, packet) ==
    [size   |-> bufSize,
     octets |-> IF MQTTSNPacket_decode(packet).value > bufSize THEN <<>> ELSE packet]

\* A writer that is called with a buffer of its caller, which is large enough.
Given(packet) == [size |-> Len(packet), octets |-> packet]

connect(m) == Sent(MQTTSNPacket_len(5 + Len(m.clientID)), MQTTSNSerialize_connect(m))

disconnect(m) ==
    Sent(MQTTSNPacket_len(IF m.duration > 0 THEN 3 ELSE 1), MQTTSNSerialize_disconnect(m))

pingReq(m) ==
    Sent(IF m.clientID = <<>> THEN 2 ELSE MQTTSNPacket_len(Len(m.clientID) + 1),
         MQTTSNSerialize_pingreq(m))

pingResp(m) == Sent(2, Packet("PINGRESP", <<>>))

willTopic(m) == Sent(MQTTSNPacket_len(Len(m.topic) + 2), MQTTSNSerialize_willtopic(m))

\* Mutant: the octet of the type is forgotten, as in WillMsgUpd.c.
willMsgLengthOnly(m) == Sent(MQTTSNPacket_len(Len(m.msg)), MQTTSNSerialize_willmsg(m))

willMsg(m) == Sent(MQTTSNPacket_len(Len(m.msg) + 1), MQTTSNSerialize_willmsg(m))

reg(m) == Sent(MQTTSNPacket_len(Len(m.name) + 5), MQTTSNSerialize_register(m))

\* The codes above 3 are refused.
regAck(m) == Sent(7, MQTTSNSerialize_regack(m))

subscribe(m) ==
    Sent(MQTTSNPacket_len(4 + IF m.topic.kind = NORMAL THEN Len(m.topic.name) ELSE 2),
         MQTTSNSerialize_subscribe(m))

\* There is no message id at QoS 0.  A short topic would be sent with a first octet nobody
\* has written, a normal one at QoS -1 with a length nobody has written: neither is used.
publish(m) ==
    Sent(MQTTSNPacket_len(6 + Len(m.payload)),
         MQTTSNSerialize_publish([m EXCEPT !.msgID = IF m.qos = 0 THEN 0 ELSE @]))

pubAck(m) == Sent(7, MQTTSNSerialize_puback(m))

pubRecRelComp(m) == Sent(4, MQTTSNSerialize_ack(m))
============================================================================
