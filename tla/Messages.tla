------------------------------ MODULE Messages ------------------------------
(***************************************************************************)
(* The MQTT-SN messages of mqtt-sn-lib (MQTTSNPacket.h, and the            *)
(* serialise/deserialise pairs), reduced to the fields either side looks   *)
(* at.  A payload, a will text or a client identifier is never compared,   *)
(* so it has no field; a return code is accepted or rejected; a topic name *)
(* is a number, distinct names being distinct numbers.                     *)
(***************************************************************************)
EXTENDS Naturals

CONSTANT IdModulus     \* number of values of a uint16_t, the type of every id

ASSUME MessagesAssumption == IdModulus \in Nat \ {0}

Word == 0..(IdModulus - 1)

\* The names in the programs: PubClientV2/Test1, PubClientV2/Test2,
\* PubSubClient/Test/Checking, and a filter with a wildcard that matches the first.
Topic1   == 1
Topic2   == 2
Checking == 3
Filter   == 4

\* client to gateway
Connect(will)              == [type |-> "CONNECT", will |-> will]
WillTopic                  == [type |-> "WILLTOPIC"]
WillMsg                    == [type |-> "WILLMSG"]
Disconnect(duration)       == [type |-> "DISCONNECT", duration |-> duration]   \* both ways
PingReq                    == [type |-> "PINGREQ"]
Subscribe(qos, msgID, name) ==
    [type |-> "SUBSCRIBE", qos |-> qos, msgID |-> msgID, name |-> name]

\* gateway to client
ConnAck(rc)                == [type |-> "CONNACK", rc |-> rc]
WillTopicReq               == [type |-> "WILLTOPICREQ"]
WillMsgReq                 == [type |-> "WILLMSGREQ"]
PingResp                   == [type |-> "PINGRESP"]

\* both ways
Register(topicID, msgID, name) ==
    [type |-> "REGISTER", topicID |-> topicID, msgID |-> msgID, name |-> name]

RegAck(topicID, msgID, rc) ==
    [type |-> "REGACK", topicID |-> topicID, msgID |-> msgID, rc |-> rc]

Publish(qos, topicID, msgID) ==
    [type |-> "PUBLISH", qos |-> qos, topicID |-> topicID, msgID |-> msgID]

PubAck(topicID, msgID, rc) ==
    [type |-> "PUBACK", topicID |-> topicID, msgID |-> msgID, rc |-> rc]

\* PUBREC, PUBREL and PUBCOMP carry nothing but a message id.
Ack(type, msgID) == [type |-> type, msgID |-> msgID]

SubAck(qos, topicID, msgID, rc) ==
    [type |-> "SUBACK", qos |-> qos, topicID |-> topicID, msgID |-> msgID, rc |-> rc]

\* What a publishing client may send, and what it may be sent.
ClientMessages(names) ==
    [type : {"CONNECT"}, will : BOOLEAN]
      \cup [type : {"WILLTOPIC", "WILLMSG", "PINGREQ"}]
      \cup [type : {"DISCONNECT"}, duration : Word]
      \cup [type : {"REGISTER"}, topicID : Word, msgID : Word, name : names]
      \cup [type : {"PUBACK"}, topicID : Word, msgID : Word, rc : {"rejected"}]
      \cup [type : {"PUBLISH"}, qos : 0..2, topicID : Word, msgID : Word]
      \cup [type : {"PUBREL"}, msgID : Word]

GatewayMessages ==
    [type : {"CONNACK"}, rc : {"accepted", "rejected"}]
      \cup [type : {"WILLTOPICREQ", "WILLMSGREQ", "PINGRESP"}]
      \cup [type : {"DISCONNECT"}, duration : Word]
      \cup [type : {"REGACK", "PUBACK"}, topicID : Word, msgID : Word,
             rc : {"accepted", "rejected"}]
      \cup [type : {"PUBREC", "PUBCOMP"}, msgID : Word]
============================================================================
