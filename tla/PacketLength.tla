---------------------------- MODULE PacketLength ----------------------------
(***************************************************************************)
(* The length field of an MQTT-SN packet, one byte or three: what publish  *)
(* writes into it (Publish.c, MQTTSNSerializePublish.c, MQTTSNPacket.c of  *)
(* mqtt-sn-lib) and what readMsg makes of it at the other end (Util.c,     *)
(* MQTTSNPacket.c, MQTTSNDeserializePublish.c).  A datagram is its length  *)
(* field, byte by byte, and its size; the other bytes are never changed.   *)
(***************************************************************************)
EXTENDS Naturals, Sequences, TLAPS

CONSTANTS
    Q_BUF_LEN,     \* size of the buffer readMsg receives into
    MaxPayload     \* bound: payloads tried

ASSUME PacketLengthAssumption ==
    /\ Q_BUF_LEN \in Nat /\ Q_BUF_LEN >= 258 /\ Q_BUF_LEN < 65536
    /\ MaxPayload \in Nat /\ MaxPayload <= 65498      \* what one UDP datagram takes

VARIABLES
    stage,         \* "publish", "readMsg" or "done"
    payload,       \* number of bytes to publish
    datagram,      \* what sendto was given
    result         \* what readMsg returned, and the payload length it found

vars == <<stage, payload, datagram, result>>

\* Message type, flags, topic id and message id of a PUBLISH.
FixedFields == 6

\* Length with the length field, from the length without it.
MQTTSNPacket_len(length) == IF length > 255 THEN length + 3 ELSE length + 1

\* Mutant: 255 is taken for long as well.
MQTTSNPacket_encodeEarly(length) ==
    IF length >= 255
    THEN <<1, (length \div 256) % 256, length % 256>>
    ELSE <<length>>

\* The length field for a packet of that length in all.
MQTTSNPacket_encode(length) ==
    IF length > 255
    THEN <<1, (length \div 256) % 256, length % 256>>
    ELSE <<length>>

\* The size is how far the write pointer gets.
MQTTSNSerialize_publish(payloadlen) ==
    LET field == MQTTSNPacket_encode(MQTTSNPacket_len(FixedFields + payloadlen))
    IN  [field |-> field, size |-> Len(field) + FixedFields + payloadlen]

\* The announced length.
MQTTSNPacket_decode(field) ==
    IF field[1] = 1 THEN 256 * field[2] + field[3] ELSE field[1]

\* Mutant: the size of the buffer is not looked at.
readMsgNoMaximum(d) ==
    LET announced == MQTTSNPacket_decode(d.field)
        length    == IF d.size > Q_BUF_LEN THEN Q_BUF_LEN ELSE d.size
    IN  IF announced # length
        THEN [code |-> "Q_ERR_Read", payload |-> 0]
        ELSE [code |-> "read", payload |-> announced - Len(d.field) - FixedFields]

\* recvfrom cuts a datagram to the buffer.  A long length field is compared with the
\* buffer, any with what has come; the payload ends where the length field says.
readMsg(d) ==
    LET announced == MQTTSNPacket_decode(d.field)
        length    == IF d.size > Q_BUF_LEN THEN Q_BUF_LEN ELSE d.size
    IN  CASE d.field[1] = 1 /\ announced > Q_BUF_LEN -> [code |-> "Q_ERR_MaxLength", payload |-> 0]
          [] ~(d.field[1] = 1 /\ announced > Q_BUF_LEN) /\ announced # length ->
                 [code |-> "Q_ERR_Read", payload |-> 0]
          [] OTHER -> [code |-> "read", payload |-> announced - Len(d.field) - FixedFields]

----------------------------------------------------------------------------
Init ==
    /\ stage = "publish"
    /\ payload \in 0..MaxPayload
    /\ datagram = [field |-> <<>>, size |-> 0]
    /\ result = [code |-> "none", payload |-> 0]

Publish ==
    /\ stage = "publish"
    /\ stage' = "readMsg"
    /\ datagram' = MQTTSNSerialize_publish(payload)
    /\ UNCHANGED <<payload, result>>

Read ==
    /\ stage = "readMsg"
    /\ stage' = "done"
    /\ result' = readMsg(datagram)
    /\ UNCHANGED <<payload, datagram>>

Next == Publish \/ Read

Spec == Init /\ [][Next]_vars

----------------------------------------------------------------------------
\* Every payload that fits readMsg's buffer arrives whole, at whichever length of the
\* length field, except for the one payload that makes a body of 255 bytes.
ArrivesWhole ==
    stage = "done" /\ datagram.size <= Q_BUF_LEN /\ payload + FixedFields # 255
        => result = [code |-> "read", payload |-> payload]

\* What does not fit is rejected for its length, never read in part.
LongIsRejected ==
    stage = "done" /\ datagram.size > Q_BUF_LEN => result.code = "Q_ERR_MaxLength"

----------------------------------------------------------------------------
(* Proofs, for every size of the buffer and every payload. *)

\* The two forms of the length field.
LEMMA ShortField ==
    ASSUME NEW n \in Nat, FixedFields + n < 255
    PROVE  MQTTSNSerialize_publish(n) = [field |-> <<n + 7>>, size |-> n + 7]
BY DEF MQTTSNSerialize_publish, MQTTSNPacket_encode, MQTTSNPacket_len, FixedFields

LEMMA LongField ==
    ASSUME NEW n \in Nat, FixedFields + n >= 255, n <= 65498
    PROVE  LET total == MQTTSNPacket_len(FixedFields + n)
           IN  /\ MQTTSNSerialize_publish(n) =
                     [field |-> <<1, total \div 256, total % 256>>, size |-> n + 9]
               /\ total \in Nat
               /\ total < 65536
               /\ 256 * (total \div 256) + (total % 256) = total
<1> DEFINE total == MQTTSNPacket_len(FixedFields + n)
<1>1. total \in Nat /\ total >= 256 /\ total < 65536
  BY DEF MQTTSNPacket_len, FixedFields
<1> HIDE DEF total
<1>2. (total \div 256) % 256 = total \div 256
  <2>1. total \div 256 \in Nat /\ total \div 256 < 256
    BY <1>1
  <2> QED
    BY <2>1
<1>3. MQTTSNPacket_encode(total) = <<1, total \div 256, total % 256>>
  BY <1>1, <1>2 DEF MQTTSNPacket_encode
<1>5. MQTTSNSerialize_publish(n) =
         [field |-> <<1, total \div 256, total % 256>>, size |-> n + 9]
  <2>1. MQTTSNSerialize_publish(n) =
           [field |-> MQTTSNPacket_encode(total),
            size  |-> Len(MQTTSNPacket_encode(total)) + FixedFields + n]
    BY DEF MQTTSNSerialize_publish, total
  <2>2. Len(MQTTSNPacket_encode(total)) = 3
    BY <1>3
  <2> QED
    BY <1>3, <2>1, <2>2 DEF FixedFields
<1>6. 256 * (total \div 256) + (total % 256) = total
  BY <1>1
<1> QED
  BY <1>1, <1>5, <1>6 DEF total

\* What readMsg makes of a packet the buffer takes, body of 255 bytes excepted.
LEMMA RoundTrip ==
    ASSUME NEW n \in 0..MaxPayload, FixedFields + n # 255,
           MQTTSNSerialize_publish(n).size <= Q_BUF_LEN
    PROVE  readMsg(MQTTSNSerialize_publish(n)) = [code |-> "read", payload |-> n]
<1> USE PacketLengthAssumption
<1>1. CASE FixedFields + n < 255
  <2>1. MQTTSNSerialize_publish(n) = [field |-> <<n + 7>>, size |-> n + 7]
    BY <1>1, ShortField
  <2> QED
    BY <2>1 DEF readMsg, MQTTSNPacket_decode, FixedFields
<1>2. CASE FixedFields + n > 255
  <2> DEFINE total == MQTTSNPacket_len(FixedFields + n)
  <2>1. /\ MQTTSNSerialize_publish(n) =
              [field |-> <<1, total \div 256, total % 256>>, size |-> n + 9]
        /\ 256 * (total \div 256) + (total % 256) = total
    BY <1>2, LongField DEF FixedFields
  <2>2. total = n + 9
    BY <1>2 DEF MQTTSNPacket_len, FixedFields
  <2> HIDE DEF total
  <2>3. MQTTSNPacket_decode(MQTTSNSerialize_publish(n).field) = n + 9
    BY <2>1, <2>2 DEF MQTTSNPacket_decode
  <2>4. /\ MQTTSNSerialize_publish(n).size = n + 9
        /\ MQTTSNSerialize_publish(n).field[1] = 1
        /\ Len(MQTTSNSerialize_publish(n).field) = 3
    BY <2>1
  <2> QED
    BY <2>3, <2>4 DEF readMsg, FixedFields
<1> QED
  BY <1>1, <1>2 DEF FixedFields

LEMMA TooLong ==
    ASSUME NEW n \in 0..MaxPayload, MQTTSNSerialize_publish(n).size > Q_BUF_LEN
    PROVE  readMsg(MQTTSNSerialize_publish(n)).code = "Q_ERR_MaxLength"
<1> USE PacketLengthAssumption
<1>1. FixedFields + n >= 255
  <2> SUFFICES ASSUME FixedFields + n < 255
               PROVE  FALSE
    BY DEF FixedFields
  <2>1. MQTTSNSerialize_publish(n).size = n + 7
    BY ShortField
  <2> QED
    BY <2>1 DEF FixedFields
<1> DEFINE total == MQTTSNPacket_len(FixedFields + n)
<1>2. /\ MQTTSNSerialize_publish(n) =
            [field |-> <<1, total \div 256, total % 256>>, size |-> n + 9]
      /\ 256 * (total \div 256) + (total % 256) = total
  BY <1>1, LongField
<1>3. n + 9 > Q_BUF_LEN
  BY <1>2
<1>4. total > Q_BUF_LEN
  BY <1>1, <1>3 DEF MQTTSNPacket_len, FixedFields
<1> HIDE DEF total
<1>5. /\ MQTTSNPacket_decode(MQTTSNSerialize_publish(n).field) = total
      /\ MQTTSNSerialize_publish(n).field[1] = 1
  BY <1>2 DEF MQTTSNPacket_decode
<1> QED
  BY <1>4, <1>5 DEF readMsg

----------------------------------------------------------------------------
\* Each stage holds what the function before it returned.
PipelineInv ==
    /\ stage \in {"publish", "readMsg", "done"}
    /\ payload \in 0..MaxPayload
    /\ stage # "publish" => datagram = MQTTSNSerialize_publish(payload)
    /\ stage = "done" => result = readMsg(datagram)

LEMMA PipelineInvariant == Spec => []PipelineInv
<1>1. Init => PipelineInv
  BY DEF Init, PipelineInv
<1>2. PipelineInv /\ [Next]_vars => PipelineInv'
  BY DEF PipelineInv, Next, Publish, Read, vars
<1> QED
  BY <1>1, <1>2, PTL DEF Spec

\* A payload that fits the buffer of readMsg arrives whole, body of 255 bytes excepted.
THEOREM PublishArrivesWhole == Spec => []ArrivesWhole
<1>1. PipelineInv => ArrivesWhole
  <2> SUFFICES ASSUME PipelineInv, stage = "done", datagram.size <= Q_BUF_LEN,
                      payload + FixedFields # 255
               PROVE  result = [code |-> "read", payload |-> payload]
    BY DEF ArrivesWhole
  <2>1. datagram = MQTTSNSerialize_publish(payload) /\ result = readMsg(datagram)
    BY DEF PipelineInv
  <2> QED
    BY <2>1, RoundTrip DEF PipelineInv, FixedFields
<1> QED
  BY <1>1, PipelineInvariant, PTL

\* A packet longer than that buffer is rejected for its length, never read in part.
THEOREM LongPublishIsRejected == Spec => []LongIsRejected
<1>1. PipelineInv => LongIsRejected
  <2> SUFFICES ASSUME PipelineInv, stage = "done", datagram.size > Q_BUF_LEN
               PROVE  result.code = "Q_ERR_MaxLength"
    BY DEF LongIsRejected
  <2>1. datagram = MQTTSNSerialize_publish(payload) /\ result = readMsg(datagram)
    BY DEF PipelineInv
  <2> QED
    BY <2>1, TooLong DEF PipelineInv
<1> QED
  BY <1>1, PipelineInvariant, PTL
============================================================================
