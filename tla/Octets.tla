-------------------------------- MODULE Octets --------------------------------
(***************************************************************************)
(* What the readers and writers of MQTT-SN messages are built from         *)
(* (MQTTSNPacket.c and MQTTSNPacket.h; mqtt-sn-lib and the Paho library    *)
(* under the gateway each have a copy).  A datagram is a sequence of       *)
(* octets; a text is the sequence of its octets.                           *)
(***************************************************************************)
EXTENDS Naturals, Sequences

\* enum MQTTSN_msgTypes
Code ==
    [ADVERTISE |-> 0, SEARCHGW |-> 1, GWINFO |-> 2, CONNECT |-> 4, CONNACK |-> 5,
     WILLTOPICREQ |-> 6, WILLTOPIC |-> 7, WILLMSGREQ |-> 8, WILLMSG |-> 9,
     REGISTER |-> 10, REGACK |-> 11, PUBLISH |-> 12, PUBACK |-> 13, PUBCOMP |-> 14,
     PUBREC |-> 15, PUBREL |-> 16, SUBSCRIBE |-> 18, SUBACK |-> 19, UNSUBSCRIBE |-> 20,
     UNSUBACK |-> 21, PINGREQ |-> 22, PINGRESP |-> 23, DISCONNECT |-> 24,
     WILLTOPICUPD |-> 26, WILLTOPICRESP |-> 27, WILLMSGUPD |-> 28, WILLMSGRESP |-> 29,
     ENCAPSULATED |-> 254]

\* enum MQTTSN_topicTypes, and a topic: an id, or the octets of its name.
NORMAL == 0
PREDEFINED == 1
SHORT == 2

Topic(kind, id, name) == [kind |-> kind, id |-> id, name |-> name]

\* writeInt and readInt: two octets, the high one first.
writeInt(n) == <<(n \div 256) % 256, n % 256>>

readInt(s, i) == 256 * s[i] + s[i + 1]

\* The octet of MQTTSNFlags, and its fields.  (dup is an int of one bit: read back it is -1,
\* which every use of it takes for true.)
Flags(dup, qos, retain, kind) == 128 * dup + 32 * qos + 16 * retain + kind

ConnectFlags(will, clean) == 8 * will + 4 * clean

FlagsOf(octet) ==
    [dup |-> octet \div 128, qos |-> (octet \div 32) % 4, retain |-> (octet \div 16) % 2,
     will |-> (octet \div 8) % 2, clean |-> (octet \div 4) % 2, kind |-> octet % 4]

MQTTSNPacket_len(length) == length + IF length > 255 THEN 3 ELSE 1

\* Mutant: a length above 255 has no form of its own.
MQTTSNPacket_encodeShort(length) == <<length>>

MQTTSNPacket_encode(length) == IF length > 255 THEN <<1>> \o writeInt(length) ELSE <<length>>

\* Mutant: the three octets of a long length are not skipped.
MQTTSNPacket_decodeShort(s) ==
    IF s[1] = 1 THEN [rc |-> 1, value |-> readInt(s, 2)] ELSE [rc |-> 1, value |-> s[1]]

\* The octets the length takes, and its value.
MQTTSNPacket_decode(s) ==
    IF s[1] = 1 THEN [rc |-> 3, value |-> readInt(s, 2)] ELSE [rc |-> 1, value |-> s[1]]

\* What every writer does with the octets that follow the type, and every reader before it
\* looks at them: "enddata" is where the announced length ends.
Packet(type, body) ==
    MQTTSNPacket_encode(MQTTSNPacket_len(1 + Len(body))) \o <<Code[type]>> \o body

TypeOf(s) == s[MQTTSNPacket_decode(s).rc + 1]

Body(s) ==
    LET length == MQTTSNPacket_decode(s) IN SubSeq(s, length.rc + 2, length.value)

\* The octets of s from the i-th one on.
From(s, i) == SubSeq(s, i, Len(s))

\* The size of the gateway's buffers (MQTTSNGWDefines.h).
MQTTSNGW_MAX_PACKET_SIZE == 1024

\* What was written into a buffer of that size is longer: the rest is in other variables.
Overruns(written) == Len(written.octets) > written.size

\* What a reader returns when it returns an error.
Rejected == [type |-> "rejected"]
============================================================================
