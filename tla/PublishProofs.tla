----------------------------- MODULE PublishProofs -----------------------------
(***************************************************************************)
(* What holds of PublishSystem for every network, and every number of ids, *)
(* topics and retries: TypeOK and WaitedIsTopic; when the broker refuses   *)
(* nobody, LinkInvariant, SessionHasLink, SlotInvariant and                *)
(* RegisteredTopics.  When no message of the handshake comes twice,        *)
(* whomever the broker refuses, OnceInvariant, and with it TopicsAgree,    *)
(* FirstTopicKnown and SessionHasLink; and, when no PUBLISH comes twice    *)
(* either and the map of topic ids has room, PubackInvariant and           *)
(* PubackIsWaitedFor.                                                      *)
(***************************************************************************)
EXTENDS PublishSystem, FiniteSetTheorems, TLAPS

----------------------------------------------------------------------------
(* TypeOK: what the readers of the client and the network may do to their  *)
(* arguments, and then each step.                                          *)

\* A send adds nothing but its message to a channel, a receipt adds nothing.
LEMMA SendAdds ==
    ASSUME NEW channel, NEW m, NEW after \in AfterSend(channel, m)
    PROVE  after \subseteq channel \cup {m}
BY DEF AfterSend

LEMMA ReceiveAdds ==
    ASSUME NEW channel, NEW m, NEW after \in AfterReceive(channel, m)
    PROVE  after \subseteq channel
BY DEF AfterReceive

\* What the clients that do not subscribe can make of a message: send_msgID stays, and
\* pub_topicID grows by the topic id of a REGACK with that id or not at all.
LEMMA ReadMsgEffect ==
    ASSUME NEW m \in GatewayMessages, NEW c \in Clients, NEW e \in Events
    PROVE  /\ readMsg(m, c, e).client \in Clients
           /\ readMsg(m, c, e).event \in Events
           /\ readMsg(m, c, e).event.send_msgID = e.send_msgID
           /\ \/ readMsg(m, c, e).client.pub_topicID = c.pub_topicID
              \/ /\ m.type = "REGACK"
                 /\ m.msgID = e.send_msgID
                 /\ readMsg(m, c, e).client.pub_topicID = Append(c.pub_topicID, m.topicID)
<1>1. CASE m.type = "REGACK"
  <2>1. m.topicID \in Word
    BY <1>1 DEF GatewayMessages
  <2>2. readMsg(m, c, e) = readRegAck(m, c, e)
    BY <1>1 DEF readMsg
  <2>3. CASE m.rc = "accepted" /\ m.msgID = e.send_msgID
    <3>1. readMsg(m, c, e) =
             Outcome("Q_RegAckRead",
                     [c EXCEPT !.pub_topicID = Append(c.pub_topicID, m.topicID)], e)
      BY <2>2, <2>3 DEF readRegAck
    <3>2. Append(c.pub_topicID, m.topicID) \in Seq(Word)
      BY <2>1 DEF Clients
    <3>3. readMsg(m, c, e).client =
             [c EXCEPT !.pub_topicID = Append(c.pub_topicID, m.topicID)]
      BY <3>1 DEF Outcome
    <3>4. readMsg(m, c, e).event = e
      BY <3>1 DEF Outcome
    <3>5. readMsg(m, c, e).client \in Clients
      BY <3>2, <3>3 DEF Clients
    <3>6. readMsg(m, c, e).client.pub_topicID = Append(c.pub_topicID, m.topicID)
      BY <3>3 DEF Clients
    <3> QED
      BY <1>1, <2>3, <3>4, <3>5, <3>6
  <2>4. CASE ~(m.rc = "accepted" /\ m.msgID = e.send_msgID)
    BY <2>2, <2>4 DEF readRegAck, Outcome
  <2> QED
    BY <2>3, <2>4
<1>2. CASE m.type # "REGACK"
  <2>1. m.type \in {"CONNACK", "WILLTOPICREQ", "WILLMSGREQ", "PINGRESP",
                    "DISCONNECT", "PUBACK", "PUBREC", "PUBCOMP"}
    BY <1>2 DEF GatewayMessages
  <2>2. readMsg(m, c, e).client = c /\ readMsg(m, c, e).event = e
    BY <2>1 DEF readMsg, readConnack, readPubAck, readRecRelComp, Outcome
  <2> QED
    BY <2>2
<1> QED
  BY <1>1, <1>2

----------------------------------------------------------------------------
(* Initial states. *)

LEMMA TypeInit == Init => TypeOK
<1> SUFFICES ASSUME Init
             PROVE  TypeOK
  OBVIOUS
<1>1. 0 \in Word /\ 1 \in Word
  BY PublishAssumption, MessagesAssumption DEF Word
<1>2. ClientTypeOK
  <2>1. client \in Clients
    <3>1. <<>> \in Seq(Word) /\ \A u \in Uninit : u \in Word
      BY MachineAssumption
    <3>2. client \in [sub_topicID : {<<>>}, pub_topicID : {<<>>},
                      wildcard_Sub : {FALSE}, wild_topicID : Uninit, unset : Uninit]
      BY DEF Init, ClientInit, MachineInit, InitialClients, InitialEvents
    <3> QED
      BY <3>1, <3>2 DEF Clients
  <2>2. event \in Events
    BY <1>1, MachineAssumption
      DEF Init, ClientInit, MachineInit, InitialClients, InitialEvents, Events
  <2>3. retries \in 0..(MaxRetry + 1)
    BY MachineAssumption DEF Init, ClientInit, MachineInit, InitialClients, InitialEvents
  <2>4. eventID \in States /\ loopFlag \in BOOLEAN /\ due \subseteq Timers
    BY DEF Init, ClientInit, MachineInit, InitialClients, InitialEvents, States
  <2>5. /\ registerFlag \in BOOLEAN /\ reg1 \in BOOLEAN /\ reg2 \in BOOLEAN
        /\ publishFlag \in BOOLEAN
    BY DEF Init, ClientInit
  <2>6. pub = 0
    BY DEF Init, ClientInit
  <2> QED
    BY <2>1, <2>2, <2>3, <2>4, <2>5, <2>6 DEF ClientTypeOK
<1>3. GatewayTypeOK
  <2>1. 0 \in 0..MaxTopicID
    BY GatewayAssumption
  <2>2. topics \in [TopicNames -> 0..MaxTopicID] /\ nextTopicId \in 0..MaxTopicID
    BY <2>1 DEF Init, GatewayInit, NoTopics
  <2>3. brokerSendQue \in Seq(Requests) /\ brokerLink \in Seq(Requests)
    BY DEF Init, GatewayInit
  <2>4. /\ known \in BOOLEAN /\ waitWillMsg \in BOOLEAN /\ sendingConnect \in BOOLEAN
        /\ status \in {"Disconnected", "Connecting", "Active"}
        /\ link \in {"none", "open", "closed"}
        /\ waitedPub \subseteq [msgID : Word, topicID : Word]
    BY DEF Init, GatewayInit
  <2> QED
    BY <2>2, <2>3, <2>4 DEF GatewayTypeOK
<1>4. toGateway \subseteq ClientMessages(TopicNames)
  <2>1. PICK will \in WillFlags : toGateway \in AfterSend({}, Connect(will))
    BY DEF Init, ClientInit
  <2>2. Connect(will) \in ClientMessages(TopicNames)
    BY PublishAssumption DEF Connect, ClientMessages
  <2> QED
    BY <2>1, <2>2, SendAdds
<1>5. toClient \subseteq GatewayMessages
  BY DEF Init, ClientInit
<1> QED
  BY <1>2, <1>3, <1>4, <1>5 DEF TypeOK

----------------------------------------------------------------------------
(* The program's steps.  Each but the clock's changes toGateway by a message of its  *)
(* own, and client and event as readMsg does.                                        *)

\* The messages of the program are messages.
LEMMA ClientMessagesTyped ==
    /\ WillTopic \in ClientMessages(TopicNames)
    /\ WillMsg \in ClientMessages(TopicNames)
    /\ PingReq \in ClientMessages(TopicNames)
    /\ Disconnect(0) \in ClientMessages(TopicNames)
    /\ \A topicID, msgID \in Word, name \in TopicNames :
          Register(topicID, msgID, name) \in ClientMessages(TopicNames)
    /\ \A qos \in 0..2, topicID, msgID \in Word :
          Publish(qos, topicID, msgID) \in ClientMessages(TopicNames)
    /\ \A topicID, msgID \in Word :
          PubAck(topicID, msgID, "rejected") \in ClientMessages(TopicNames)
    /\ \A msgID \in Word : Ack("PUBREL", msgID) \in ClientMessages(TopicNames)
<1>1. 0 \in Word
  BY MessagesAssumption DEF Word
<1> QED
  BY <1>1 DEF WillTopic, WillMsg, PingReq, Disconnect, Register, Publish, PubAck, Ack,
              ClientMessages

\* What Reads and ReadsAndAdvances do to the types.
LEMMA ReadsTyped ==
    ASSUME TypeOK, NEW m \in toClient, Reads(m) \/ ReadsAndAdvances(m)
    PROVE  /\ client' \in Clients
           /\ event' \in Events
           /\ toClient' \subseteq GatewayMessages
<1>1. m \in GatewayMessages /\ client \in Clients /\ event \in Events
  BY DEF TypeOK, ClientTypeOK
<1>2. Result(m).client \in Clients /\ Result(m).event \in Events
  BY <1>1, ReadMsgEffect DEF Result
<1>3. NextMsgID(Result(m).event.send_msgID) \in Word
  BY <1>2, MessagesAssumption DEF NextMsgID, Events, Word
<1>4. event' \in Events
  <2>1. CASE Reads(m)
    BY <1>2, <2>1 DEF Reads
  <2>2. CASE ReadsAndAdvances(m)
    BY <1>2, <1>3, <2>2 DEF ReadsAndAdvances, Events
  <2> QED
    BY <2>1, <2>2
<1>5. client' \in Clients
  BY <1>2 DEF Reads, ReadsAndAdvances
<1>6. toClient' \subseteq toClient
  BY ReceiveAdds DEF Reads, ReadsAndAdvances, ClientReceives
<1> QED
  BY <1>4, <1>5, <1>6 DEF TypeOK

\* The two channels, as the program's steps leave them.
ChannelsTyped ==
    /\ toGateway \subseteq ClientMessages(TopicNames)
    /\ toClient \subseteq GatewayMessages

\* A send of the program, an attempt that fails, and the end of the session.
LEMMA SendTyped ==
    ASSUME TypeOK, NEW m \in ClientMessages(TopicNames), ClientSends(m)
    PROVE  toGateway' \subseteq ClientMessages(TopicNames)
BY SendAdds DEF TypeOK, ClientSends

LEMMA QuitTyped ==
    ASSUME TypeOK, Quit
    PROVE  toGateway' \subseteq ClientMessages(TopicNames) /\ eventID' \in States
<1>1. toGateway' \subseteq toGateway \cup {Disconnect(0)}
  BY SendAdds DEF Quit
<1> QED
  BY <1>1, ClientMessagesTyped DEF Quit, TypeOK, States

LEMMA SendOrQuitTyped ==
    ASSUME TypeOK, NEW m \in ClientMessages(TopicNames), NEW next \in States,
           SendOrQuit(m, next)
    PROVE  toGateway' \subseteq ClientMessages(TopicNames) /\ eventID' \in States
BY SendTyped, QuitTyped DEF SendOrQuit

\* The turns of the loop that read nothing.
LEMMA SilentTyped ==
    ASSUME TypeOK, UNCHANGED flagVars,
           \/ ConnectingNoMsg \/ WillNoMsg \/ PublishNoMsg \/ PubQos2NoMsg
           \/ PingRetry \/ PingGiveUp \/ Close
    PROVE  ClientTypeOK' /\ ChannelsTyped'
<1> USE DEF TypeOK, ClientTypeOK, ChannelsTyped, flagVars, netVars
<1>1. CASE ConnectingNoMsg
  <2>1. retries' \in 0..(MaxRetry + 1)
    BY <1>1, MachineAssumption DEF ConnectingNoMsg
  <2>2. eventID' \in States
    BY <1>1 DEF ConnectingNoMsg, States
  <2> QED
    BY <1>1, <2>1, <2>2 DEF ConnectingNoMsg
<1>2. CASE WillNoMsg
  BY <1>2, QuitTyped DEF WillNoMsg
<1>3. CASE PublishNoMsg
  BY <1>3 DEF PublishNoMsg, States
<1>4. CASE PubQos2NoMsg
  BY <1>4 DEF PubQos2NoMsg, States
<1>5. CASE PingRetry
  <2>1. toGateway' \subseteq ClientMessages(TopicNames) /\ eventID' \in States
    BY <1>5, ClientMessagesTyped, SendOrQuitTyped DEF PingRetry, States
  <2>2. retries' \in 0..(MaxRetry + 1)
    BY <1>5, MachineAssumption DEF PingRetry
  <2> QED
    BY <1>5, <2>1, <2>2 DEF PingRetry
<1>6. CASE PingGiveUp
  BY <1>6 DEF PingGiveUp, States
<1>7. CASE Close
  BY <1>7 DEF Close
<1> QED
  BY <1>1, <1>2, <1>3, <1>4, <1>5, <1>6, <1>7

\* The turns of the loop that read a datagram in a state the programs share.
LEMMA ReadingTyped ==
    ASSUME TypeOK, UNCHANGED flagVars, NEW m \in toClient,
           \/ ConnectingRead(m) \/ WillTopReqRead(m) \/ WillMsgReqRead(m)
           \/ PublishAcked(m) \/ PublishReceived(m) \/ PublishUnexpected(m)
           \/ PubQos2Complete(m) \/ PubQos2Unexpected(m)
           \/ PingAnswered(m) \/ PingUnexpected(m)
    PROVE  ClientTypeOK' /\ ChannelsTyped'
<1>1. Reads(m) \/ ReadsAndAdvances(m)
  BY DEF ConnectingRead, WillTopReqRead, WillMsgReqRead, PublishAcked, PublishReceived,
         PublishUnexpected, PubQos2Complete, PubQos2Unexpected, PingAnswered, PingUnexpected
<1>2. client' \in Clients /\ event' \in Events /\ toClient' \subseteq GatewayMessages
  BY <1>1, ReadsTyped
<1>3. retries' \in 0..(MaxRetry + 1) /\ due' \subseteq Timers /\ loopFlag' \in BOOLEAN
  BY MachineAssumption
     DEF TypeOK, ClientTypeOK, ConnectingRead, WillTopReqRead, WillMsgReqRead, PublishAcked,
         PublishReceived, PublishUnexpected, PubQos2Complete, PubQos2Unexpected,
         PingAnswered, PingUnexpected
<1>4. toGateway' \subseteq ClientMessages(TopicNames) /\ eventID' \in States
  <2>1. CASE ConnectingRead(m)
    BY <2>1, ClientMessagesTyped, SendOrQuitTyped
       DEF ConnectingRead, TypeOK, ClientTypeOK, States
  <2>2. CASE WillTopReqRead(m)
    BY <2>2, ClientMessagesTyped, SendOrQuitTyped, QuitTyped DEF WillTopReqRead, States
  <2>3. CASE WillMsgReqRead(m)
    BY <2>3, QuitTyped DEF WillMsgReqRead, States, TypeOK
  <2>4. CASE PublishReceived(m)
    <3>1. Ack("PUBREL", event'.msgID) \in ClientMessages(TopicNames)
      BY <1>2, ClientMessagesTyped DEF Events
    <3> QED
      BY <2>4, <3>1, SendTyped DEF PublishReceived, States, TypeOK, ClientTypeOK
  <2>5. CASE \/ PublishAcked(m) \/ PublishUnexpected(m)
             \/ PubQos2Complete(m) \/ PubQos2Unexpected(m)
             \/ PingAnswered(m) \/ PingUnexpected(m)
    BY <2>5 DEF PublishAcked, PublishUnexpected, PubQos2Complete, PubQos2Unexpected,
                PingAnswered, PingUnexpected, States, TypeOK
  <2> QED
    BY <2>1, <2>2, <2>3, <2>4, <2>5
<1> QED
  BY <1>2, <1>3, <1>4 DEF TypeOK, ClientTypeOK, ChannelsTyped, flagVars

\* Every entry of pub_topicID the program may use, written or not, is an id.
LEMMA PubTopicTyped ==
    ASSUME TypeOK, NEW i \in 1..2
    PROVE  PubTopic(i) \in Word
BY DEF TypeOK, ClientTypeOK, Clients, PubTopic

LEMMA NextMsgIDTyped ==
    ASSUME NEW id \in Word
    PROVE  NextMsgID(id) \in Word
BY MessagesAssumption DEF NextMsgID, Word

\* The turns of the loop in Q_CONNECTED and Q_REGISTERING.
LEMMA SendRegisterTyped ==
    ASSUME TypeOK, SendRegister
    PROVE  ClientTypeOK' /\ ChannelsTyped'
<1>1. Register(0, event.send_msgID, WantedTopic) \in ClientMessages(TopicNames)
  <2>1. WantedTopic \in TopicNames
    BY PublishSystemAssumption DEF WantedTopic
  <2>2. 0 \in Word /\ event.send_msgID \in Word
    BY MessagesAssumption DEF Word, TypeOK, ClientTypeOK, Events
  <2> QED
    BY <2>1, <2>2, ClientMessagesTyped
<1>2. toGateway' \subseteq ClientMessages(TopicNames) /\ eventID' \in States
  BY <1>1, SendOrQuitTyped DEF SendRegister, States
<1> QED
  BY <1>2 DEF SendRegister, TypeOK, ClientTypeOK, ChannelsTyped, flagVars

LEMMA SendPublishTyped ==
    ASSUME TypeOK, SendPublishQos0 \/ SendPublishQos1 \/ SendPublishQos2
    PROVE  ClientTypeOK' /\ ChannelsTyped'
<1>1. PubTopic(1) \in Word /\ PubTopic(2) \in Word
  BY PubTopicTyped
<1>2. event \in Events /\ event.send_msgID \in Word /\ NextMsgID(event.send_msgID) \in Word
  BY NextMsgIDTyped DEF TypeOK, ClientTypeOK, Events
<1>3. 0 \in Word
  BY MessagesAssumption DEF Word
<1>4. CASE SendPublishQos0
  <2>1. Publish(0, PubTopic(1), 0) \in ClientMessages(TopicNames)
    BY <1>1, <1>3, ClientMessagesTyped
  <2>2. toGateway' \subseteq ClientMessages(TopicNames) /\ eventID' \in States
    BY <1>4, <2>1, SendOrQuitTyped DEF SendPublishQos0, States
  <2>3. event' \in Events
    BY <1>2, <1>4 DEF SendPublishQos0, Events
  <2> QED
    BY <1>4, <2>2, <2>3 DEF SendPublishQos0, TypeOK, ClientTypeOK, ChannelsTyped
<1>5. CASE SendPublishQos1
  <2>1. Publish(1, PubTopic(2), event.send_msgID) \in ClientMessages(TopicNames)
    BY <1>1, <1>2, ClientMessagesTyped
  <2>2. toGateway' \subseteq ClientMessages(TopicNames) /\ eventID' \in States
    BY <1>5, <2>1, SendOrQuitTyped DEF SendPublishQos1, States
  <2>3. event' \in Events
    BY <1>1, <1>2, <1>5 DEF SendPublishQos1, Events
  <2> QED
    BY <1>5, <2>2, <2>3 DEF SendPublishQos1, TypeOK, ClientTypeOK, ChannelsTyped
<1>6. CASE SendPublishQos2
  <2>1. Publish(2, PubTopic(2), event.send_msgID) \in ClientMessages(TopicNames)
    BY <1>1, <1>2, ClientMessagesTyped
  <2>2. toGateway' \subseteq ClientMessages(TopicNames) /\ eventID' \in States
    BY <1>6, <2>1, SendOrQuitTyped DEF SendPublishQos2, States
  <2>3. event' \in Events
    BY <1>2, <1>6 DEF SendPublishQos2, Events
  <2> QED
    BY <1>6, <2>2, <2>3 DEF SendPublishQos2, TypeOK, ClientTypeOK, ChannelsTyped
<1> QED
  BY <1>4, <1>5, <1>6

LEMMA SendPingTyped ==
    ASSUME TypeOK, SendPing
    PROVE  ClientTypeOK' /\ ChannelsTyped'
BY ClientMessagesTyped, SendTyped
   DEF SendPing, States, TypeOK, ClientTypeOK, ChannelsTyped, flagVars

LEMMA ReadConnectedTyped ==
    ASSUME TypeOK, NEW m \in toClient, ReadConnected(m)
    PROVE  ClientTypeOK' /\ ChannelsTyped'
<1>1. client' \in Clients /\ event' \in Events /\ toClient' \subseteq GatewayMessages
  BY ReadsTyped DEF ReadConnected
<1>2. Result(m).event \in Events
  BY <1>1 DEF ReadConnected, Reads
<1>3. ASSUME NEW answer \in Answer(m)
      PROVE  answer \in ClientMessages(TopicNames)
  BY <1>2, ClientMessagesTyped DEF Answer, Events
<1>4. toGateway' \subseteq ClientMessages(TopicNames)
  <2>1. CASE toGateway' = toGateway
    BY <2>1 DEF TypeOK
  <2>2. CASE \E answer \in Answer(m) : toGateway' \in AfterSend(toGateway, answer)
    BY <2>2, <1>3, SendAdds DEF TypeOK
  <2>3. \/ toGateway' = toGateway
        \/ \E answer \in Answer(m) : toGateway' \in AfterSend(toGateway, answer)
    BY DEF ReadConnected, AfterAnswer
  <2> QED
    BY <2>1, <2>2, <2>3
<1> QED
  BY <1>1, <1>4 DEF ReadConnected, TypeOK, ClientTypeOK, ChannelsTyped, flagVars

LEMMA RegisteringTyped ==
    ASSUME TypeOK, RegisteringNoMsg \/ \E m \in toClient : RegisteringRead(m)
    PROVE  ClientTypeOK' /\ ChannelsTyped'
<1>1. CASE RegisteringNoMsg
  BY <1>1 DEF RegisteringNoMsg, States, TypeOK, ClientTypeOK, ChannelsTyped, flagVars, netVars
<1>2. ASSUME NEW m \in toClient, RegisteringRead(m)
      PROVE  ClientTypeOK' /\ ChannelsTyped'
  <2>1. client' \in Clients /\ event' \in Events /\ toClient' \subseteq GatewayMessages
    BY <1>2, ReadsTyped DEF RegisteringRead
  <2>2. /\ registerFlag' \in BOOLEAN /\ reg1' \in BOOLEAN /\ reg2' \in BOOLEAN
        /\ publishFlag' \in BOOLEAN
    BY <1>2 DEF RegisteringRead, TypeOK, ClientTypeOK
  <2> QED
    BY <1>2, <2>1, <2>2 DEF RegisteringRead, States, TypeOK, ClientTypeOK, ChannelsTyped
<1> QED
  BY <1>1, <1>2

\* A turn of the loop, and time.
LEMMA ClientStepTyped ==
    ASSUME TypeOK, ClientStep \/ TimePasses
    PROVE  ClientTypeOK' /\ ChannelsTyped'
<1>1. CASE ClientStep
  BY <1>1, SilentTyped, ReadingTyped, SendRegisterTyped, SendPublishTyped, SendPingTyped,
     ReadConnectedTyped, RegisteringTyped DEF ClientStep, SharedStates, OwnStates
<1>2. CASE TimePasses
  BY <1>2 DEF TimePasses, Tick, TypeOK, ClientTypeOK, ChannelsTyped, flagVars, netVars
<1> QED
  BY <1>1, <1>2

----------------------------------------------------------------------------
(* The gateway's steps. *)

\* The gateway's messages are messages.
LEMMA GatewayMessagesTyped ==
    /\ WillTopicReq \in GatewayMessages
    /\ WillMsgReq \in GatewayMessages
    /\ PingResp \in GatewayMessages
    /\ Disconnect(0) \in GatewayMessages
    /\ \A rc \in {"accepted", "rejected"} :
          /\ ConnAck(rc) \in GatewayMessages
          /\ \A topicID, msgID \in Word :
                /\ PubAck(topicID, msgID, rc) \in GatewayMessages
                /\ RegAck(topicID, msgID, rc) \in GatewayMessages
    /\ \A type \in {"PUBREC", "PUBCOMP"}, msgID \in Word : Ack(type, msgID) \in GatewayMessages
<1>1. 0 \in Word
  BY MessagesAssumption DEF Word
<1> QED
  BY <1>1 DEF WillTopicReq, WillMsgReq, PingResp, Disconnect, ConnAck, PubAck, RegAck, Ack,
              GatewayMessages

\* A topic id is a uint16_t.
LEMMA TopicIdTyped == 0..MaxTopicID \subseteq Word
BY GatewayAssumption, MessagesAssumption DEF Word

LEMMA GatewaySendTyped ==
    ASSUME TypeOK, NEW m \in GatewayMessages, GatewaySends(m)
    PROVE  toClient' \subseteq GatewayMessages
BY SendAdds DEF TypeOK, GatewaySends

LEMMA GatewayReceiveTyped ==
    ASSUME TypeOK, NEW m \in toGateway, GatewayReceives(m)
    PROVE  /\ m \in ClientMessages(TopicNames)
           /\ toGateway' \subseteq ClientMessages(TopicNames)
BY ReceiveAdds DEF TypeOK, GatewayReceives

\* A packet for the broker joins the queue.
LEMMA ToBrokerTyped ==
    ASSUME TypeOK, NEW request \in Requests, ToBroker(request)
    PROVE  brokerSendQue' \in Seq(Requests)
BY DEF TypeOK, GatewayTypeOK, ToBroker

\* The packets the handlers make.
LEMMA RequestsTyped ==
    /\ \A type \in {"CONNECT", "DISCONNECT", "PINGREQ"} : Request(type, 0, 0) \in Requests
    /\ \A qos \in 0..2, id \in Word : Request("PUBLISH", qos, id) \in Requests
    /\ \A id \in Word : Request("PUBREL", 0, id) \in Requests
BY MessagesAssumption DEF Request, Requests, Word

LEMMA ConnectionHandlerTyped ==
    ASSUME TypeOK, NEW m \in toGateway,
           \/ DiscardUnknown(m) \/ HandleConnect(m) \/ HandleWilltopic(m)
           \/ HandleWillmsg(m) \/ HandleDisconnect(m) \/ HandlePingreq(m)
    PROVE  GatewayTypeOK' /\ ChannelsTyped'
<1> USE DEF TypeOK, GatewayTypeOK, ChannelsTyped, clientObject, brokerVars, FromClient,
            disconnected
<1>1. CASE DiscardUnknown(m)
  BY <1>1, GatewayReceiveTyped DEF DiscardUnknown, gatewayVars
<1>2. CASE HandleConnect(m)
  <2>1. toGateway' \subseteq ClientMessages(TopicNames)
    BY <1>2, GatewayReceiveTyped DEF HandleConnect
  <2>2. toClient' \subseteq GatewayMessages /\ brokerSendQue' \in Seq(Requests)
    BY <1>2, GatewaySendTyped, GatewayMessagesTyped, ToBrokerTyped, RequestsTyped
       DEF HandleConnect
  <2>3. topics' \in [TopicNames -> 0..MaxTopicID]
    BY <1>2, GatewayAssumption DEF HandleConnect, NoTopics
  <2> QED
    BY <1>2, <2>1, <2>2, <2>3 DEF HandleConnect
<1>3. CASE HandleWilltopic(m)
  BY <1>3, GatewayReceiveTyped, GatewaySendTyped, GatewayMessagesTyped DEF HandleWilltopic
<1>4. CASE HandleWillmsg(m)
  <2>1. toGateway' \subseteq ClientMessages(TopicNames)
    BY <1>4, GatewayReceiveTyped DEF HandleWillmsg
  <2>2. brokerSendQue' \in Seq(Requests)
    BY <1>4, ToBrokerTyped, RequestsTyped DEF HandleWillmsg
  <2> QED
    BY <1>4, <2>1, <2>2 DEF HandleWillmsg
<1>5. CASE HandleDisconnect(m)
  <2>1. toGateway' \subseteq ClientMessages(TopicNames)
    BY <1>5, GatewayReceiveTyped DEF HandleDisconnect
  <2>2. toClient' \subseteq GatewayMessages /\ brokerSendQue' \in Seq(Requests)
    BY <1>5, GatewaySendTyped, GatewayMessagesTyped, ToBrokerTyped, RequestsTyped
       DEF HandleDisconnect
  <2> QED
    BY <1>5, <2>1, <2>2 DEF HandleDisconnect
<1>6. CASE HandlePingreq(m)
  <2>1. toGateway' \subseteq ClientMessages(TopicNames)
    BY <1>6, GatewayReceiveTyped DEF HandlePingreq
  <2>2. brokerSendQue' \in Seq(Requests)
    BY <1>6, ToBrokerTyped, RequestsTyped DEF HandlePingreq
  <2> QED
    BY <1>6, <2>1, <2>2 DEF HandlePingreq
<1> QED
  BY <1>1, <1>2, <1>3, <1>4, <1>5, <1>6

\* TopicIdMap::add keeps pairs of ids.
LEMMA SetWaitedTyped ==
    ASSUME TypeOK, NEW msgID \in Word, NEW topicID \in Word
    PROVE  SetWaited(msgID, topicID) \subseteq [msgID : Word, topicID : Word]
BY DEF TypeOK, GatewayTypeOK, SetWaited

LEMMA PublishHandlerTyped ==
    ASSUME TypeOK, NEW m \in toGateway,
           \/ HandleRegister(m) \/ HandlePublishInvalidTopic(m) \/ HandlePublish(m)
           \/ HandlePubrel(m) \/ HandleIgnored(m)
    PROVE  GatewayTypeOK' /\ ChannelsTyped'
<1>1. /\ m \in ClientMessages(TopicNames)
      /\ toGateway' \subseteq ClientMessages(TopicNames)
  BY GatewayReceiveTyped DEF HandleRegister, HandlePublishInvalidTopic, HandlePublish,
     HandlePubrel, HandleIgnored, FromClient
<1>2. m.type = "REGISTER" => m.msgID \in Word /\ m.name \in TopicNames
  BY <1>1 DEF ClientMessages
<1>3. m.type = "PUBLISH" => m.msgID \in Word /\ m.topicID \in Word /\ m.qos \in 0..2
  BY <1>1 DEF ClientMessages
<1>4. m.type = "PUBREL" => m.msgID \in Word
  BY <1>1 DEF ClientMessages
<1> USE DEF TypeOK, GatewayTypeOK, ChannelsTyped, clientObject, brokerVars
<1>5. CASE HandleRegister(m)
  <2>1. topics' \in [TopicNames -> 0..MaxTopicID] /\ nextTopicId' \in 0..MaxTopicID
    BY <1>2, <1>5, GatewayAssumption DEF HandleRegister, AddTopic
  <2>2. topics'[m.name] \in Word
    BY <1>2, <1>5, <2>1, TopicIdTyped DEF HandleRegister
  <2>3. toClient' \subseteq GatewayMessages
    BY <1>2, <1>5, <2>2, GatewaySendTyped, GatewayMessagesTyped DEF HandleRegister
  <2> QED
    BY <1>1, <1>5, <2>1, <2>3 DEF HandleRegister
<1>6. CASE HandlePublishInvalidTopic(m)
  <2>1. toClient' \subseteq GatewayMessages
    BY <1>3, <1>6, GatewaySendTyped, GatewayMessagesTyped DEF HandlePublishInvalidTopic
  <2> QED
    BY <1>1, <1>6, <2>1 DEF HandlePublishInvalidTopic, gatewayVars
<1>7. CASE HandlePublish(m)
  <2>1. brokerSendQue' \in Seq(Requests)
    BY <1>3, <1>7, ToBrokerTyped, RequestsTyped DEF HandlePublish
  <2>2. waitedPub' \subseteq [msgID : Word, topicID : Word]
    BY <1>3, <1>7, SetWaitedTyped DEF HandlePublish
  <2> QED
    BY <1>1, <1>7, <2>1, <2>2 DEF HandlePublish
<1>8. CASE HandlePubrel(m)
  <2>1. brokerSendQue' \in Seq(Requests)
    BY <1>4, <1>8, ToBrokerTyped, RequestsTyped DEF HandlePubrel
  <2> QED
    BY <1>1, <1>8, <2>1 DEF HandlePubrel
<1>9. CASE HandleIgnored(m)
  BY <1>1, <1>9 DEF HandleIgnored, gatewayVars
<1> QED
  BY <1>5, <1>6, <1>7, <1>8, <1>9

\* What taking from a queue, or moving its head to the other, leaves.
LEMMA QueuesTyped ==
    ASSUME NEW queue \in Seq(Requests), queue # <<>>
    PROVE  /\ Head(queue) \in Requests
           /\ Tail(queue) \in Seq(Requests)
           /\ <<Head(queue)>> \in Seq(Requests)
           /\ \A other \in Seq(Requests) : Append(other, Head(queue)) \in Seq(Requests)
OBVIOUS

LEMMA BrokerSendTyped ==
    ASSUME TypeOK, BrokerSendTask
    PROVE  GatewayTypeOK' /\ ChannelsTyped'
<1> USE DEF TypeOK, GatewayTypeOK, ChannelsTyped, clientObject, netVars
<1>1. CASE SendConnect
  BY <1>1, QueuesTyped DEF SendConnect
<1>2. CASE connectSended
  BY <1>2 DEF connectSended
<1>3. CASE SendRequest
  <2>1. brokerSendQue' \in Seq(Requests) /\ brokerLink' \in Seq(Requests)
    BY <1>3, QueuesTyped DEF SendRequest
  <2> QED
    BY <1>3, <2>1 DEF SendRequest
<1> QED
  BY <1>1, <1>2, <1>3 DEF BrokerSendTask

\* A message id taken from the link is an id.
LEMMA AnsweredTyped ==
    ASSUME TypeOK, brokerLink # <<>>
    PROVE  Head(brokerLink).id \in Word
<1>1. Head(brokerLink) \in Requests
  BY QueuesTyped DEF TypeOK, GatewayTypeOK
<1> QED
  BY <1>1 DEF Requests

LEMMA BrokerRecvTyped ==
    ASSUME TypeOK, BrokerRecvTask
    PROVE  GatewayTypeOK' /\ ChannelsTyped'
<1> USE DEF TypeOK, GatewayTypeOK, ChannelsTyped, clientObject, Answers, disconnected
<1>1. CASE ConnackAccepted
  <2>1. toClient' \subseteq GatewayMessages
    BY <1>1, GatewaySendTyped, GatewayMessagesTyped DEF ConnackAccepted
  <2>2. brokerLink' \in Seq(Requests)
    BY <1>1, QueuesTyped DEF ConnackAccepted
  <2> QED
    BY <1>1, <2>1, <2>2 DEF ConnackAccepted
<1>2. CASE ConnackRefused
  <2>1. toClient' \subseteq GatewayMessages
    BY <1>2, GatewaySendTyped, GatewayMessagesTyped DEF ConnackRefused
  <2>2. brokerLink' \in Seq(Requests)
    BY <1>2 DEF ConnackRefused
  <2> QED
    BY <1>2, <2>1, <2>2 DEF ConnackRefused
<1>3. CASE HandlePingresp
  <2>1. toClient' \subseteq GatewayMessages
    BY <1>3, GatewaySendTyped, GatewayMessagesTyped DEF HandlePingresp
  <2>2. brokerLink' \in Seq(Requests)
    BY <1>3, QueuesTyped DEF HandlePingresp
  <2> QED
    BY <1>3, <2>1, <2>2 DEF HandlePingresp
<1>4. CASE PublishTaken
  BY <1>4, QueuesTyped DEF PublishTaken
<1>5. CASE HandlePuback
  <2>1. Head(brokerLink).id \in Word
    BY <1>5, AnsweredTyped DEF HandlePuback
  <2>2. toClient' \subseteq GatewayMessages
    BY <1>5, <2>1, GatewaySendTyped, GatewayMessagesTyped DEF HandlePuback
  <2>3. brokerLink' \in Seq(Requests)
    BY <1>5, QueuesTyped DEF HandlePuback
  <2>4. waitedPub' \subseteq waitedPub
    BY <1>5 DEF HandlePuback
  <2>5. UNCHANGED <<known, status, waitWillMsg, topics, nextTopicId, link,
                    brokerSendQue, sendingConnect, toGateway>>
    BY <1>5 DEF HandlePuback
  <2> QED
    BY <2>2, <2>3, <2>4, <2>5
<1>6. ASSUME NEW request, NEW qos, NEW answer \in {"PUBREC", "PUBCOMP"},
             HandleBrokerAck(request, qos, answer)
      PROVE  GatewayTypeOK' /\ ChannelsTyped'
  <2>1. Head(brokerLink).id \in Word
    BY <1>6, AnsweredTyped DEF HandleBrokerAck
  <2>2. toClient' \subseteq GatewayMessages
    BY <1>6, <2>1, GatewaySendTyped, GatewayMessagesTyped DEF HandleBrokerAck
  <2> QED
    BY <1>6, <2>2, QueuesTyped DEF HandleBrokerAck
<1>7. CASE BrokerCloses
  BY <1>7 DEF BrokerCloses
<1>8. CASE EraseClient
  <2>1. topics' \in [TopicNames -> 0..MaxTopicID] /\ nextTopicId' \in 0..MaxTopicID
    BY <1>8, GatewayAssumption DEF EraseClient, NoTopics
  <2>2. brokerSendQue' \in Seq(Requests) /\ brokerLink' \in Seq(Requests)
    BY <1>8 DEF EraseClient
  <2> QED
    BY <1>8, <2>1, <2>2 DEF EraseClient, netVars
<1> QED
  BY <1>1, <1>2, <1>3, <1>4, <1>5, <1>6, <1>7, <1>8 DEF BrokerRecvTask

----------------------------------------------------------------------------
LEMMA TypeStep == TypeOK /\ [Next]_vars => TypeOK'
<1> SUFFICES ASSUME TypeOK, [Next]_vars
             PROVE  TypeOK'
  OBVIOUS
<1>1. CASE (ClientStep \/ TimePasses) /\ UNCHANGED gatewayVars
  <2>1. ClientTypeOK' /\ ChannelsTyped'
    BY <1>1, ClientStepTyped
  <2>2. GatewayTypeOK'
    BY <1>1 DEF TypeOK, GatewayTypeOK, gatewayVars, clientObject, brokerVars
  <2> QED
    BY <2>1, <2>2 DEF TypeOK, ChannelsTyped
<1>2. CASE GatewayStep /\ UNCHANGED clientVars
  <2>1. GatewayTypeOK' /\ ChannelsTyped'
    BY <1>2, ConnectionHandlerTyped, PublishHandlerTyped, BrokerSendTyped, BrokerRecvTyped
       DEF GatewayStep, PacketHandleTask
  <2>2. ClientTypeOK'
    BY <1>2 DEF TypeOK, ClientTypeOK, clientVars, machineVars, flagVars
  <2> QED
    BY <2>1, <2>2 DEF TypeOK, ChannelsTyped
<1>3. CASE UNCHANGED vars
  BY <1>3 DEF vars, clientVars, machineVars, flagVars, netVars, gatewayVars, clientObject,
              brokerVars, TypeOK, ClientTypeOK, GatewayTypeOK
<1> QED
  BY <1>1, <1>2, <1>3 DEF Next

\* Whatever the network does and whoever refuses what, the program's counters and
\* arrays and the gateway's tables hold values of their types, for every size of an id.
THEOREM TypeCorrect == Spec => []TypeOK
BY TypeInit, TypeStep, PTL DEF Spec

----------------------------------------------------------------------------
(* WaitedIsTopic is inductive as it stands. *)

LEMMA WaitedInit == Init => WaitedIsTopic
BY DEF Init, GatewayInit, WaitedIsTopic

LEMMA WaitedStep == TypeOK /\ WaitedIsTopic /\ [Next]_vars => WaitedIsTopic'
<1> SUFFICES ASSUME TypeOK, WaitedIsTopic, [Next]_vars
             PROVE  WaitedIsTopic'
  OBVIOUS
<1>1. ASSUME UNCHANGED topics, waitedPub' \subseteq waitedPub
      PROVE  WaitedIsTopic'
  BY <1>1 DEF WaitedIsTopic, IsTopic
<1>2. ASSUME waitedPub' = {}
      PROVE  WaitedIsTopic'
  BY <1>2 DEF WaitedIsTopic
<1>3. ASSUME NEW m \in toGateway, HandleRegister(m)
      PROVE  WaitedIsTopic'
  <2>1. waitedPub' = waitedPub /\ AddTopic(m.name)
    BY <1>3 DEF HandleRegister
  <2>2. \A name \in TopicNames : topics[name] # 0 => topics'[name] = topics[name]
    BY <2>1 DEF AddTopic, TypeOK, GatewayTypeOK
  <2> QED
    BY <2>1, <2>2 DEF WaitedIsTopic, IsTopic
<1>4. ASSUME NEW m \in toGateway, HandlePublish(m)
      PROVE  WaitedIsTopic'
  <2>1. topics' = topics
    BY <1>4 DEF HandlePublish
  <2>2. \A w \in waitedPub' : w \in waitedPub \/ IsTopic(w.topicID)
    BY <1>4 DEF HandlePublish, SetWaited
  <2> QED
    BY <2>1, <2>2 DEF WaitedIsTopic, IsTopic
<1>5. CASE (ClientStep \/ TimePasses) /\ UNCHANGED gatewayVars
  BY <1>1, <1>5 DEF gatewayVars, clientObject
<1>6. ASSUME NEW m \in toGateway, PacketHandleTask(m)
      PROVE  WaitedIsTopic'
  <2>1. CASE HandleConnect(m)
    BY <1>2, <2>1 DEF HandleConnect
  <2>2. CASE \/ DiscardUnknown(m) \/ HandleWilltopic(m) \/ HandleWillmsg(m)
             \/ HandleDisconnect(m) \/ HandlePingreq(m) \/ HandlePublishInvalidTopic(m)
             \/ HandlePubrel(m) \/ HandleIgnored(m)
    BY <1>1, <2>2 DEF DiscardUnknown, HandleWilltopic, HandleWillmsg, HandleDisconnect,
       HandlePingreq, HandlePublishInvalidTopic, HandlePubrel, HandleIgnored, gatewayVars,
       clientObject
  <2> QED
    BY <1>3, <1>4, <1>6, <2>1, <2>2 DEF PacketHandleTask
<1>7. CASE BrokerSendTask
  BY <1>1, <1>7 DEF BrokerSendTask, SendConnect, connectSended, SendRequest, clientObject
<1>8. CASE BrokerRecvTask
  <2>1. CASE HandlePuback
    BY <1>1, <2>1 DEF HandlePuback
  <2>2. CASE EraseClient
    BY <1>2, <2>2 DEF EraseClient
  <2>3. CASE ~HandlePuback /\ ~EraseClient
    BY <1>1, <1>8, <2>3 DEF BrokerRecvTask, ConnackAccepted, ConnackRefused, HandlePingresp,
       PublishTaken, HandleBrokerAck, BrokerCloses, clientObject
  <2> QED
    BY <2>1, <2>2, <2>3
<1>9. CASE UNCHANGED vars
  BY <1>1, <1>9 DEF vars, gatewayVars, clientObject
<1> QED
  BY <1>5, <1>6, <1>7, <1>8, <1>9 DEF Next, GatewayStep

\* Every topic id the gateway keeps for a PUBACK is the id of a topic it has, whatever
\* is lost or repeated, CONNECT included (TopicIdMap against Topics).
THEOREM WaitedAlwaysTopic == Spec => []WaitedIsTopic
BY WaitedInit, WaitedStep, TypeCorrect, PTL DEF Spec

----------------------------------------------------------------------------
(* The steps of the program, as LinkInvariant sees them. *)

\* What a step sends while the session goes on; only Quit sends a DISCONNECT, and only
\* a CONNACK ends the joining.
LEMMA ClientStepEffect ==
    ASSUME TypeOK, ClientStep \/ TimePasses, eventID' # "Q_DISCONNECTED"
    PROVE  /\ eventID # "Q_DISCONNECTED"
           /\ toClient' \subseteq toClient
           /\ \A m \in toGateway' : m \in toGateway \/ m.type # "DISCONNECT"
           /\ \A m \in toGateway' :
                 m.type = "REGISTER" /\ m \notin toGateway =>
                    SendRegister /\ m.msgID = event.send_msgID /\ m.name = WantedTopic
           /\ eventID \in Joining =>
                \A m \in toGateway' : m \in toGateway \/ m.type \in {"WILLTOPIC", "WILLMSG"}
           /\ eventID \in Joining /\ eventID' \notin Joining =>
                \E m \in toClient : m.type = "CONNACK"
<1> DEFINE Goal == /\ eventID # "Q_DISCONNECTED"
                   /\ toClient' \subseteq toClient
                   /\ \A m \in toGateway' : m \in toGateway \/ m.type # "DISCONNECT"
                   /\ \A m \in toGateway' :
                         m.type = "REGISTER" /\ m \notin toGateway =>
                            SendRegister /\ m.msgID = event.send_msgID /\ m.name = WantedTopic
                   /\ eventID \in Joining =>
                        \A m \in toGateway' : m \in toGateway \/ m.type \in {"WILLTOPIC", "WILLMSG"}
                   /\ eventID \in Joining /\ eventID' \notin Joining =>
                        \E m \in toClient : m.type = "CONNACK"
<1> USE DEF Joining
<1>1. ASSUME NEW m, NEW next, SendOrQuit(m, next)
      PROVE  eventID' = next /\ toGateway' \subseteq toGateway \cup {m}
  BY <1>1, SendAdds DEF SendOrQuit, Quit, ClientSends
<1>2. ASSUME NEW m \in toClient, Reads(m) \/ ReadsAndAdvances(m)
      PROVE  toClient' \subseteq toClient
  BY <1>2, ReceiveAdds DEF Reads, ReadsAndAdvances, ClientReceives
<1>3. ASSUME NEW m \in toClient, Result(m).rc = "Q_ConnackRead"
      PROVE  m.type = "CONNACK"
  BY <1>3 DEF TypeOK, GatewayMessages, Result, readMsg, readConnack, readRegAck, readPubAck,
     readRecRelComp, Outcome
<1>4. CASE /\ \/ ConnectingNoMsg \/ WillNoMsg \/ PublishNoMsg \/ PubQos2NoMsg
              \/ PingGiveUp \/ Close \/ RegisteringNoMsg \/ TimePasses
  BY <1>4 DEF ConnectingNoMsg, WillNoMsg, Quit, PublishNoMsg, PubQos2NoMsg, PingGiveUp,
     Close, RegisteringNoMsg, TimePasses, Tick, netVars
<1>5. CASE PingRetry
  BY <1>1, <1>5 DEF PingRetry, PingReq
<1>6. CASE SendRegister
  BY <1>1, <1>6 DEF SendRegister, Register
<1>7. CASE SendPublishQos0
  BY <1>1, <1>7 DEF SendPublishQos0, Publish
<1>8. CASE SendPublishQos1
  BY <1>1, <1>8 DEF SendPublishQos1, Publish
<1>9. CASE SendPublishQos2
  BY <1>1, <1>9 DEF SendPublishQos2, Publish
<1>10. CASE SendPing
  BY <1>10, SendAdds DEF SendPing, ClientSends, PingReq
<1>11. ASSUME NEW m \in toClient, ConnectingRead(m)
       PROVE  Goal
  BY <1>1, <1>2, <1>3, <1>11 DEF ConnectingRead, WillTopic
<1>12. ASSUME NEW m \in toClient, WillTopReqRead(m)
       PROVE  Goal
  BY <1>1, <1>2, <1>12 DEF WillTopReqRead, Quit, WillMsg
<1>13. ASSUME NEW m \in toClient, WillMsgReqRead(m)
       PROVE  Goal
  BY <1>2, <1>3, <1>13 DEF WillMsgReqRead, Quit
<1>14. ASSUME NEW m \in toClient, PublishReceived(m)
       PROVE  Goal
  BY <1>2, <1>14, SendAdds DEF PublishReceived, ClientSends, Ack
<1>15. ASSUME NEW m \in toClient,
              \/ PublishAcked(m) \/ PublishUnexpected(m) \/ PubQos2Complete(m)
              \/ PubQos2Unexpected(m) \/ PingAnswered(m) \/ PingUnexpected(m)
              \/ RegisteringRead(m)
       PROVE  Goal
  BY <1>2, <1>15 DEF PublishAcked, PublishUnexpected, PubQos2Complete, PubQos2Unexpected,
     PingAnswered, PingUnexpected, RegisteringRead
<1>16. ASSUME NEW m \in toClient, ReadConnected(m)
       PROVE  Goal
  <2>1. \/ toGateway' = toGateway
        \/ \E answer \in Answer(m) : toGateway' \in AfterSend(toGateway, answer)
    BY <1>16 DEF ReadConnected, AfterAnswer
  <2>2. \A answer \in Answer(m) : answer.type \notin {"DISCONNECT", "REGISTER"}
    BY DEF Answer, PubAck
  <2> QED
    BY <1>2, <1>16, <2>1, <2>2, SendAdds DEF ReadConnected
<1> QED
  BY <1>4, <1>5, <1>6, <1>7, <1>8, <1>9, <1>10, <1>11, <1>12, <1>13, <1>14, <1>15, <1>16
     DEF ClientStep, SharedStates, OwnStates

----------------------------------------------------------------------------
(* LinkInvariant. *)

\* The packets in a queue after Append, and after Tail.
LEMMA QueueEntries ==
    ASSUME NEW queue \in Seq(Requests)
    PROVE  /\ \A r \in Requests : Entries(Append(queue, r)) = Entries(queue) \cup {r}
           /\ queue # <<>> => /\ Head(queue) \in Entries(queue)
                              /\ Entries(Tail(queue)) \subseteq Entries(queue)
           /\ \A r \in Requests : Entries(<<r>>) = {r}
           /\ Entries(<<>>) = {}
<1>1. ASSUME NEW r \in Requests
      PROVE  Entries(Append(queue, r)) = Entries(queue) \cup {r}
  <2>1. /\ Len(Append(queue, r)) = Len(queue) + 1
        /\ \A i \in 1..Len(queue) : Append(queue, r)[i] = queue[i]
        /\ Append(queue, r)[Len(queue) + 1] = r
    OBVIOUS
  <2>2. Len(queue) + 1 \in 1..(Len(queue) + 1)
    OBVIOUS
  <2> QED
    BY <2>1, <2>2 DEF Entries
<1>2. ASSUME queue # <<>>
      PROVE  /\ Head(queue) \in Entries(queue)
             /\ Entries(Tail(queue)) \subseteq Entries(queue)
  <2>1. Head(queue) = queue[1] /\ 1 \in 1..Len(queue)
    BY <1>2
  <2>2. /\ Len(Tail(queue)) = Len(queue) - 1
        /\ \A i \in 1..Len(Tail(queue)) : Tail(queue)[i] = queue[i + 1]
    BY <1>2
  <2>3. \A i \in 1..Len(Tail(queue)) : i + 1 \in 1..Len(queue)
    BY <2>2
  <2> QED
    BY <2>1, <2>2, <2>3 DEF Entries
<1>3. /\ \A r \in Requests : Entries(<<r>>) = {r}
      /\ Entries(<<>>) = {}
  BY DEF Entries
<1> QED
  BY <1>1, <1>2, <1>3

LEMMA LinkInit == Init => LinkInvariant
<1> SUFFICES ASSUME Init
             PROVE  LinkInvariant
  OBVIOUS
<1>1. \A m \in toGateway : m.type = "CONNECT"
  BY SendAdds DEF Init, ClientInit, Connect
<1>2. /\ eventID \in Joining /\ toClient = {}
      /\ link = "none" /\ brokerSendQue = <<>> /\ brokerLink = <<>>
  BY DEF Init, ClientInit, MachineInit, InitialClients, InitialEvents, GatewayInit, Joining
<1>3. Entries(brokerSendQue) = {} /\ Entries(brokerLink) = {}
  BY <1>2 DEF Entries
<1> QED
  BY <1>1, <1>2, <1>3 DEF LinkInvariant, TypesOf

LEMMA LinkClientStep ==
    ASSUME TypeOK, LinkInvariant, ClientStep \/ TimePasses, UNCHANGED gatewayVars
    PROVE  LinkInvariant'
<1> SUFFICES ASSUME eventID' # "Q_DISCONNECTED"
             PROVE  LinkInvariant'
  BY DEF LinkInvariant
<1>1. /\ eventID # "Q_DISCONNECTED"
      /\ toClient' \subseteq toClient
      /\ \A m \in toGateway' : m \in toGateway \/ m.type # "DISCONNECT"
  BY ClientStepEffect
<1>2. /\ eventID \in Joining =>
           \A m \in toGateway' : m \in toGateway \/ m.type \in {"WILLTOPIC", "WILLMSG"}
      /\ eventID \in Joining /\ eventID' \notin Joining =>
           \E m \in toClient : m.type = "CONNACK"
  BY ClientStepEffect
<1>3. UNCHANGED <<known, brokerSendQue, brokerLink, link>>
  BY DEF gatewayVars, clientObject, brokerVars
<1>4. "DISCONNECT" \notin TypesOf(toGateway' \cup Entries(brokerSendQue) \cup Entries(brokerLink))
  BY <1>1 DEF LinkInvariant, TypesOf
<1>5. ASSUME link = "none"
      PROVE  /\ eventID' \in Joining
             /\ TypesOf(toGateway') \subseteq {"CONNECT", "WILLTOPIC", "WILLMSG"}
             /\ TypesOf(toClient') \subseteq {"WILLTOPICREQ", "WILLMSGREQ"}
  BY <1>1, <1>2, <1>5 DEF LinkInvariant, TypesOf
<1> QED
  BY <1>1, <1>3, <1>4, <1>5 DEF LinkInvariant

\* A message handled before the program's DISCONNECT: the connection stays as it is, and
\* before there is one only a CONNECT is queued and only the will is asked for.
LEMMA PacketEffect ==
    ASSUME TypeOK, LinkInvariant, eventID # "Q_DISCONNECTED",
           NEW m \in toGateway, PacketHandleTask(m)
    PROVE  /\ toGateway' \subseteq toGateway
           /\ UNCHANGED <<brokerLink, link>>
           /\ \A r \in Entries(brokerSendQue') :
                 \/ r \in Entries(brokerSendQue)
                 \/ r.type # "DISCONNECT" /\ (link = "none" => r.type = "CONNECT")
           /\ link = "none" =>
                 \A a \in toClient' : a \in toClient \/ a.type \in {"WILLTOPICREQ", "WILLMSGREQ"}
           /\ ~known' => ~known /\ brokerSendQue' = brokerSendQue
<1> DEFINE Goal == /\ toGateway' \subseteq toGateway
                   /\ UNCHANGED <<brokerLink, link>>
                   /\ \A r \in Entries(brokerSendQue') :
                         \/ r \in Entries(brokerSendQue)
                         \/ r.type # "DISCONNECT" /\ (link = "none" => r.type = "CONNECT")
                   /\ link = "none" =>
                         \A a \in toClient' : \/ a \in toClient
                                              \/ a.type \in {"WILLTOPICREQ", "WILLMSGREQ"}
                   /\ ~known' => ~known /\ brokerSendQue' = brokerSendQue
<1>1. ASSUME GatewayReceives(m)
      PROVE  toGateway' \subseteq toGateway
  BY <1>1, ReceiveAdds DEF GatewayReceives
<1>2. ASSUME NEW a, GatewaySends(a)
      PROVE  toClient' \subseteq toClient \cup {a}
  BY <1>2, SendAdds DEF GatewaySends
<1>3. ASSUME NEW r \in Requests, ToBroker(r)
      PROVE  Entries(brokerSendQue') = Entries(brokerSendQue) \cup {r}
  BY <1>3, QueueEntries DEF ToBroker, TypeOK, GatewayTypeOK
<1>4. /\ m.type # "DISCONNECT"
      /\ link = "none" => m.type \in {"CONNECT", "WILLTOPIC", "WILLMSG"}
  BY DEF LinkInvariant, TypesOf
<1>5. m \in ClientMessages(TopicNames)
  BY DEF TypeOK
<1> USE DEF FromClient, clientObject, brokerVars
<1>6. CASE DiscardUnknown(m) \/ HandleIgnored(m)
  BY <1>1, <1>6 DEF DiscardUnknown, HandleIgnored, gatewayVars
<1>7. CASE HandleConnect(m)
  <2>1. /\ toGateway' \subseteq toGateway
        /\ UNCHANGED <<brokerLink, link>>
        /\ known' = TRUE
    BY <1>1, <1>7 DEF HandleConnect
  <2>2. CASE GatewaySends(WillTopicReq) /\ UNCHANGED brokerSendQue
    BY <1>2, <2>1, <2>2 DEF WillTopicReq
  <2>3. CASE ToBroker(Request("CONNECT", 0, 0)) /\ UNCHANGED toClient
    <3>1. Request("CONNECT", 0, 0).type = "CONNECT"
      BY DEF Request
    <3> QED
      BY <1>3, <2>1, <2>3, <3>1, RequestsTyped
  <2> QED
    BY <1>7, <2>2, <2>3 DEF HandleConnect
<1>8. CASE HandleWilltopic(m)
  BY <1>1, <1>2, <1>8 DEF HandleWilltopic, WillMsgReq
<1>9. CASE HandleWillmsg(m)
  <2>1. /\ toGateway' \subseteq toGateway
        /\ UNCHANGED <<brokerLink, link, known, toClient>>
        /\ known
    BY <1>1, <1>9 DEF HandleWillmsg
  <2>2. CASE UNCHANGED brokerSendQue
    BY <2>1, <2>2
  <2>3. CASE ToBroker(Request("CONNECT", 0, 0))
    <3>1. Request("CONNECT", 0, 0).type = "CONNECT"
      BY DEF Request
    <3> QED
      BY <1>3, <2>1, <2>3, <3>1, RequestsTyped
  <2> QED
    BY <1>9, <2>2, <2>3 DEF HandleWillmsg
<1>10. CASE HandlePingreq(m)
  <2>1. Request("PINGREQ", 0, 0) \in Requests /\ Request("PINGREQ", 0, 0).type = "PINGREQ"
    BY RequestsTyped DEF Request
  <2> QED
    BY <1>1, <1>3, <1>4, <1>10, <2>1 DEF HandlePingreq
<1>11. CASE HandlePublish(m)
  <2>1. m.qos \in 0..2 /\ m.msgID \in Word
    BY <1>5, <1>11 DEF HandlePublish, ClientMessages
  <2>2. /\ Request("PUBLISH", m.qos, m.msgID) \in Requests
        /\ Request("PUBLISH", m.qos, m.msgID).type = "PUBLISH"
    BY <2>1, RequestsTyped DEF Request
  <2> QED
    BY <1>1, <1>3, <1>4, <1>11, <2>2 DEF HandlePublish
<1>12. CASE HandlePubrel(m)
  <2>1. m.msgID \in Word
    BY <1>5, <1>12 DEF HandlePubrel, ClientMessages
  <2>2. /\ Request("PUBREL", 0, m.msgID) \in Requests
        /\ Request("PUBREL", 0, m.msgID).type = "PUBREL"
    BY <2>1, RequestsTyped DEF Request
  <2> QED
    BY <1>1, <1>3, <1>4, <1>12, <2>2 DEF HandlePubrel
<1>13. CASE HandleRegister(m)
  BY <1>1, <1>4, <1>13 DEF HandleRegister
<1>14. CASE HandlePublishInvalidTopic(m)
  BY <1>1, <1>4, <1>14 DEF HandlePublishInvalidTopic, gatewayVars
<1>15. CASE HandleDisconnect(m)
  BY <1>4, <1>15 DEF HandleDisconnect
<1> QED
  BY <1>6, <1>7, <1>8, <1>9, <1>10, <1>11, <1>12, <1>13, <1>14, <1>15 DEF PacketHandleTask

LEMMA LinkPacketStep ==
    ASSUME TypeOK, LinkInvariant, UNCHANGED clientVars,
           NEW m \in toGateway, PacketHandleTask(m)
    PROVE  LinkInvariant'
<1> SUFFICES ASSUME eventID # "Q_DISCONNECTED"
             PROVE  LinkInvariant'
  BY DEF LinkInvariant, clientVars, machineVars
<1>1. eventID' = eventID
  BY DEF clientVars, machineVars
<1>2. /\ toGateway' \subseteq toGateway
      /\ UNCHANGED <<brokerLink, link>>
      /\ \A r \in Entries(brokerSendQue') :
            \/ r \in Entries(brokerSendQue)
            \/ r.type # "DISCONNECT" /\ (link = "none" => r.type = "CONNECT")
      /\ link = "none" =>
            \A a \in toClient' : a \in toClient \/ a.type \in {"WILLTOPICREQ", "WILLMSGREQ"}
      /\ ~known' => ~known /\ brokerSendQue' = brokerSendQue
  BY PacketEffect
<1>3. "DISCONNECT" \notin TypesOf(toGateway' \cup Entries(brokerSendQue') \cup Entries(brokerLink'))
  BY <1>2 DEF LinkInvariant, TypesOf
<1>4. ASSUME link = "none"
      PROVE  /\ TypesOf(toGateway') \subseteq {"CONNECT", "WILLTOPIC", "WILLMSG"}
             /\ TypesOf(toClient') \subseteq {"WILLTOPICREQ", "WILLMSGREQ"}
             /\ TypesOf(Entries(brokerSendQue')) \subseteq {"CONNECT"}
  BY <1>2, <1>4 DEF LinkInvariant, TypesOf
<1> QED
  BY <1>1, <1>2, <1>3, <1>4 DEF LinkInvariant

LEMMA LinkBrokerSendStep ==
    ASSUME TypeOK, LinkInvariant, UNCHANGED clientVars, BrokerSendTask
    PROVE  LinkInvariant'
<1> SUFFICES ASSUME eventID # "Q_DISCONNECTED"
             PROVE  LinkInvariant'
  BY DEF LinkInvariant, clientVars, machineVars
<1>1. eventID' = eventID
  BY DEF clientVars, machineVars
<1>2. brokerSendQue \in Seq(Requests) /\ brokerLink \in Seq(Requests)
  BY DEF TypeOK, GatewayTypeOK
<1> USE DEF LinkInvariant, TypesOf
<1>3. CASE SendConnect
  <2>1. /\ Head(brokerSendQue) \in Requests
        /\ Head(brokerSendQue) \in Entries(brokerSendQue)
        /\ Entries(brokerSendQue') \subseteq Entries(brokerSendQue)
        /\ brokerLink' = <<Head(brokerSendQue)>>
        /\ UNCHANGED <<toGateway, toClient>> /\ link' = "open"
        /\ UNCHANGED known /\ brokerSendQue # <<>>
    BY <1>2, <1>3, QueueEntries, QueuesTyped DEF SendConnect, netVars, clientObject
  <2>2. Entries(brokerLink') = {Head(brokerSendQue)}
    BY <2>1, QueueEntries, <1>2
  <2> QED
    BY <1>1, <2>1, <2>2
<1>4. CASE connectSended
  BY <1>1, <1>4 DEF connectSended, netVars
<1>5. CASE SendRequest
  <2>1. /\ Head(brokerSendQue) \in Entries(brokerSendQue)
        /\ Entries(brokerSendQue') \subseteq Entries(brokerSendQue)
        /\ Head(brokerSendQue) \in Requests
        /\ Head(brokerSendQue).type # "CONNECT"
        /\ UNCHANGED <<toGateway, toClient, known>>
        /\ brokerSendQue # <<>>
    BY <1>2, <1>5, QueueEntries, QueuesTyped DEF SendRequest, netVars, clientObject
  <2>2. link = "open"
    BY <2>1 DEF TypeOK, GatewayTypeOK
  <2>3. brokerLink' = Append(brokerLink, Head(brokerSendQue)) /\ link' = "open"
    BY <1>5, <2>2 DEF SendRequest
  <2>4. Entries(brokerLink') = Entries(brokerLink) \cup {Head(brokerSendQue)}
    BY <1>2, <2>1, <2>3, QueueEntries
  <2> QED
    BY <1>1, <2>1, <2>2, <2>3, <2>4
<1> QED
  BY <1>3, <1>4, <1>5 DEF BrokerSendTask

\* No answer of the broker closes the connection; only with a connection does the
\* gateway answer anything but a CONNECT with a will.
LEMMA LinkBrokerRecvStep ==
    ASSUME ~BrokerRefuses, TypeOK, LinkInvariant, UNCHANGED clientVars, BrokerRecvTask
    PROVE  LinkInvariant'
<1> SUFFICES ASSUME eventID # "Q_DISCONNECTED"
             PROVE  LinkInvariant'
  BY DEF LinkInvariant, clientVars, machineVars
<1>1. eventID' = eventID
  BY DEF clientVars, machineVars
<1>2. link # "closed"
  BY DEF LinkInvariant
<1>3. /\ brokerLink # <<>>
      /\ Head(brokerLink).type # "DISCONNECT"
      /\ brokerLink' = Tail(brokerLink)
      /\ UNCHANGED <<brokerSendQue, toGateway, link, known>>
  <2>1. brokerLink # <<>> => Head(brokerLink).type # "DISCONNECT"
    BY QueueEntries DEF TypeOK, GatewayTypeOK, LinkInvariant, TypesOf
  <2> QED
    BY <1>2, <2>1 DEF BrokerRecvTask, ConnackAccepted, ConnackRefused, HandlePingresp,
       PublishTaken, HandlePuback, HandleBrokerAck, BrokerCloses, EraseClient, Answers,
       clientObject
<1>4. Entries(brokerLink') \subseteq Entries(brokerLink)
  BY <1>3, QueueEntries DEF TypeOK, GatewayTypeOK
<1>5. link = "open" /\ known
  BY <1>3 DEF LinkInvariant
<1> QED
  BY <1>1, <1>3, <1>4, <1>5 DEF LinkInvariant, TypesOf

LEMMA LinkStep ==
    ASSUME ~BrokerRefuses
    PROVE  TypeOK /\ LinkInvariant /\ [Next]_vars => LinkInvariant'
<1> SUFFICES ASSUME TypeOK, LinkInvariant, [Next]_vars
             PROVE  LinkInvariant'
  OBVIOUS
<1>1. CASE (ClientStep \/ TimePasses) /\ UNCHANGED gatewayVars
  BY <1>1, LinkClientStep
<1>2. CASE GatewayStep /\ UNCHANGED clientVars
  BY <1>2, LinkPacketStep, LinkBrokerSendStep, LinkBrokerRecvStep DEF GatewayStep
<1>3. CASE UNCHANGED vars
  BY <1>3 DEF vars, clientVars, machineVars, netVars, gatewayVars, clientObject, brokerVars,
              LinkInvariant, TypesOf
<1> QED
  BY <1>1, <1>2, <1>3 DEF Next

\* When the broker refuses nobody, the connection the first CONNECT has opened stays, and
\* nothing that would close it is under way before the program disconnects.
THEOREM LinkAlways ==
    ASSUME ~BrokerRefuses
    PROVE  Spec => []LinkInvariant
<1>1. TypeOK /\ LinkInvariant /\ [Next]_vars => LinkInvariant'
  BY LinkStep
<1> QED
  BY <1>1, LinkInit, TypeCorrect, PTL DEF Spec

\* When the broker refuses nobody, a program that takes itself for connected has a
\* Client and an open connection in the gateway, however its CONNECT was repeated.
THEOREM SessionAlwaysLinked ==
    ASSUME ~BrokerRefuses
    PROVE  Spec => []SessionHasLink
<1>1. TypeOK /\ LinkInvariant => SessionHasLink
  BY DEF TypeOK, GatewayTypeOK, LinkInvariant, SessionHasLink, InSession, Joining
<1> QED
  BY <1>1, LinkAlways, TypeCorrect, PTL

----------------------------------------------------------------------------
(* SlotInvariant: the program's steps. *)

LEMMA SlotInit == Init => SlotInvariant
<1> SUFFICES ASSUME Init
             PROVE  SlotInvariant
  OBVIOUS
<1>1. /\ client.pub_topicID = <<>> /\ event.send_msgID = 1 /\ eventID \in Joining
      /\ registerFlag = TRUE /\ reg1 = TRUE /\ reg2 = FALSE
      /\ toClient = {} /\ nextTopicId = 0 /\ topics = NoTopics
  BY DEF Init, ClientInit, MachineInit, InitialClients, InitialEvents, GatewayInit, Joining
<1>2. \A m \in toGateway : m.type = "CONNECT"
  BY SendAdds DEF Init, ClientInit, Connect
<1>3. RegisteredTopics
  BY <1>1 DEF RegisteredTopics
<1>4. NumbersAgree
  BY <1>1, <1>2 DEF NumbersAgree, NoTopics
<1>5. EntriesInTurn
  BY <1>1 DEF EntriesInTurn
<1> QED
  BY <1>3, <1>4, <1>5 DEF SlotInvariant

\* A REGACK is what RegAck makes of its fields.
LEMMA RegAckFields ==
    ASSUME NEW m \in GatewayMessages, m.type = "REGACK", m.rc = "accepted"
    PROVE  /\ m = RegAck(m.topicID, m.msgID, "accepted")
           /\ m.topicID \in Word
BY DEF GatewayMessages, RegAck

\* An entry is only ever written by a REGACK for the outstanding message id.
LEMMA EntryStep ==
    ASSUME TypeOK, ClientStep \/ TimePasses
    PROVE  \/ client'.pub_topicID = client.pub_topicID
           \/ /\ eventID # "Q_DISCONNECTED"
              /\ \E m \in toClient : 
                    /\ m.type = "REGACK"
                    /\ m.msgID = event.send_msgID
                    /\ client'.pub_topicID = Append(client.pub_topicID, m.topicID)
<1>1. ASSUME NEW m \in toClient, Reads(m) \/ ReadsAndAdvances(m)
      PROVE  \/ client'.pub_topicID = client.pub_topicID
             \/ /\ m.type = "REGACK"
                /\ m.msgID = event.send_msgID
                /\ client'.pub_topicID = Append(client.pub_topicID, m.topicID)
  BY <1>1, ReadMsgEffect DEF Reads, ReadsAndAdvances, Result, TypeOK, ClientTypeOK
<1>2. ASSUME NEW m \in toClient,
             \/ ConnectingRead(m) \/ WillTopReqRead(m) \/ WillMsgReqRead(m)
             \/ PublishAcked(m) \/ PublishReceived(m) \/ PublishUnexpected(m)
             \/ PubQos2Complete(m) \/ PubQos2Unexpected(m)
             \/ PingAnswered(m) \/ PingUnexpected(m)
             \/ ReadConnected(m) \/ RegisteringRead(m)
      PROVE  eventID # "Q_DISCONNECTED" /\ (Reads(m) \/ ReadsAndAdvances(m))
  BY <1>2 DEF ConnectingRead, WillTopReqRead, WillMsgReqRead, PublishAcked, PublishReceived,
     PublishUnexpected, PubQos2Complete, PubQos2Unexpected, PingAnswered, PingUnexpected,
     ReadConnected, RegisteringRead
<1>3. ASSUME \/ ConnectingNoMsg \/ WillNoMsg \/ PublishNoMsg \/ PubQos2NoMsg
             \/ PingRetry \/ PingGiveUp \/ Close \/ RegisteringNoMsg \/ TimePasses
             \/ SendRegister \/ SendPublishQos0 \/ SendPublishQos1 \/ SendPublishQos2
             \/ SendPing
      PROVE  client' = client
  BY <1>3 DEF ConnectingNoMsg, WillNoMsg, PublishNoMsg, PubQos2NoMsg, PingRetry, PingGiveUp,
     Close, RegisteringNoMsg, TimePasses, Tick, SendRegister, SendPublishQos0,
     SendPublishQos1, SendPublishQos2, SendPing
<1> QED
  BY <1>1, <1>2, <1>3 DEF ClientStep, SharedStates, OwnStates

\* An append leaves the other entries.
LEMMA AppendEntry ==
    ASSUME NEW array \in Seq(Word), NEW id \in Word
    PROVE  /\ Len(Append(array, id)) = Len(array) + 1
           /\ \A i \in 1..Len(array) : Append(array, id)[i] = array[i]
           /\ Append(array, id)[Len(array) + 1] = id
           /\ Len(array) \in Nat
OBVIOUS

\* What such a REGACK means in the state it is read in.
LEMMA EntryWritten ==
    ASSUME TypeOK, SlotInvariant, eventID # "Q_DISCONNECTED",
           NEW m \in toClient, m.type = "REGACK", m.msgID = event.send_msgID,
           client'.pub_topicID = Append(client.pub_topicID, m.topicID)
    PROVE  /\ registerFlag
           /\ m.topicID \in 1..nextTopicId
           /\ reg1 => /\ client'.pub_topicID = <<m.topicID>>
                      /\ IsFor(m.topicID, 1) /\ ~IsFor(m.topicID, 2)
           /\ \A i \in 1..Len(client'.pub_topicID) : client'.pub_topicID[i] \in 1..nextTopicId
           /\ RegisteredTopics'
<1>1. client.pub_topicID \in Seq(Word) /\ m \in GatewayMessages
  BY DEF TypeOK, ClientTypeOK, Clients
<1>2. /\ m.rc = "accepted" /\ m.msgID \in {1, 2} /\ m.topicID \in 1..nextTopicId
  BY PublishSystemAssumption DEF SlotInvariant, NumbersAgree
<1>3. m.topicID \in Word /\ IsFor(m.topicID, m.msgID)
  BY <1>1, <1>2, RegAckFields DEF IsFor
<1>4. registerFlag
  BY <1>2 DEF SlotInvariant, EntriesInTurn, TypeOK, ClientTypeOK
<1>5. /\ Len(client'.pub_topicID) = Len(client.pub_topicID) + 1
      /\ \A i \in 1..Len(client.pub_topicID) : client'.pub_topicID[i] = client.pub_topicID[i]
      /\ client'.pub_topicID[Len(client.pub_topicID) + 1] = m.topicID
      /\ Len(client.pub_topicID) \in Nat
  BY <1>1, <1>3, AppendEntry
<1>6. \A i \in 1..Len(client'.pub_topicID) :
         i \in 1..Len(client.pub_topicID) \/ i = Len(client.pub_topicID) + 1
  BY <1>5
<1>7. \A i \in 1..Len(client'.pub_topicID) : client'.pub_topicID[i] \in 1..nextTopicId
  BY <1>2, <1>5, <1>6 DEF SlotInvariant, EntriesInTurn
<1>8. CASE reg1
  <2>1. client.pub_topicID = <<>> /\ event.send_msgID = 1
    BY <1>4, <1>8 DEF SlotInvariant, EntriesInTurn
  <2>2. client'.pub_topicID = <<m.topicID>>
    BY <2>1
  <2>3. RegisteredTopics'
    BY <2>2 DEF RegisteredTopics
  <2>4. IsFor(m.topicID, 1) /\ ~IsFor(m.topicID, 2)
    BY <1>2, <1>3, <2>1 DEF SlotInvariant, NumbersAgree
  <2> QED
    BY <1>2, <1>4, <1>7, <2>2, <2>3, <2>4
<1>9. CASE ~reg1
  <2>1. /\ Len(client.pub_topicID) <= 1 /\ event.send_msgID = 2
        /\ \A i \in 1..Len(client.pub_topicID) : ~IsFor(client.pub_topicID[i], 2)
    BY <1>4, <1>9 DEF SlotInvariant, EntriesInTurn
  <2>2. IsFor(m.topicID, 2)
    BY <1>3, <2>1
  <2>3. \A i \in 1..Len(client.pub_topicID) : client.pub_topicID[i] # m.topicID
    BY <2>1, <2>2
  <2>4. RegisteredTopics'
    BY <1>5, <1>6, <2>1, <2>3 DEF RegisteredTopics
  <2> QED
    BY <1>2, <1>4, <1>7, <1>9, <2>4
<1> QED
  BY <1>8, <1>9

LEMMA RegisteredClientStep ==
    ASSUME TypeOK, SlotInvariant, ClientStep \/ TimePasses
    PROVE  RegisteredTopics'
<1>1. CASE client'.pub_topicID = client.pub_topicID
  BY <1>1 DEF SlotInvariant, RegisteredTopics
<1> QED
  BY <1>1, EntryStep, EntryWritten

LEMMA NumbersClientStep ==
    ASSUME TypeOK, SlotInvariant, ClientStep \/ TimePasses, UNCHANGED gatewayVars,
           eventID' # "Q_DISCONNECTED"
    PROVE  NumbersAgree'
<1>1. /\ eventID # "Q_DISCONNECTED"
      /\ toClient' \subseteq toClient
      /\ \A m \in toGateway' :
            m.type = "REGISTER" /\ m \notin toGateway =>
               SendRegister /\ m.msgID = event.send_msgID /\ m.name = WantedTopic
  BY ClientStepEffect
<1>2. UNCHANGED <<topics, nextTopicId>>
  BY DEF gatewayVars, clientObject
<1>3. SendRegister => WantedTopic = event.send_msgID
  BY <1>1 DEF SendRegister, ToRegister, WantedTopic, SlotInvariant, EntriesInTurn
<1>4. \A m \in toGateway' : m.type = "REGISTER" => m.name = m.msgID
  BY <1>1, <1>3 DEF SlotInvariant, NumbersAgree
<1> QED
  BY <1>1, <1>2, <1>4 DEF SlotInvariant, NumbersAgree, IsFor

\* The turn an entry belongs to moves on in Q_REGISTERING only, and no other state
\* writes an entry and stays in the session.
LEMMA TurnStep ==
    ASSUME TypeOK, SlotInvariant, ClientStep \/ TimePasses, eventID' # "Q_DISCONNECTED",
           \A m \in toClient : ~RegisteringRead(m)
    PROVE  /\ UNCHANGED <<registerFlag, reg1, reg2>>
           /\ client'.pub_topicID = client.pub_topicID
           /\ registerFlag => event'.send_msgID = event.send_msgID
           /\ registerFlag /\ reg1 =>
                 eventID' \in Joining \cup {"Q_CONNECTED", "Q_REGISTERING"}
           /\ registerFlag /\ ~reg1 => eventID' \in {"Q_CONNECTED", "Q_REGISTERING"}
           /\ ~registerFlag =>
                 /\ eventID' \in {"Q_CONNECTED", "Q_PUBLISH", "Q_PUB_QOS2", "Q_CLIENT_PING"}
                 /\ event'.send_msgID \in 3..(MaxMsgID + 1)
                 /\ eventID' \in {"Q_PUBLISH", "Q_PUB_QOS2"} => event'.send_msgID <= MaxMsgID
<1> DEFINE Goal == /\ UNCHANGED <<registerFlag, reg1, reg2>>
                   /\ client'.pub_topicID = client.pub_topicID
                   /\ registerFlag => event'.send_msgID = event.send_msgID
                   /\ registerFlag /\ reg1 =>
                         eventID' \in Joining \cup {"Q_CONNECTED", "Q_REGISTERING"}
                   /\ registerFlag /\ ~reg1 => eventID' \in {"Q_CONNECTED", "Q_REGISTERING"}
                   /\ ~registerFlag =>
                         /\ eventID' \in {"Q_CONNECTED", "Q_PUBLISH", "Q_PUB_QOS2",
                                          "Q_CLIENT_PING"}
                         /\ event'.send_msgID \in 3..(MaxMsgID + 1)
                         /\ eventID' \in {"Q_PUBLISH", "Q_PUB_QOS2"} =>
                               event'.send_msgID <= MaxMsgID
<1>1. /\ eventID # "Q_DISCONNECTED"
      /\ EntriesInTurn
  BY ClientStepEffect DEF SlotInvariant
<1>2. \A id \in 1..MaxMsgID : NextMsgID(id) = id + 1
  BY PublishAssumption, MessagesAssumption DEF NextMsgID
<1>3. /\ MaxMsgID \in Nat /\ MaxMsgID >= 3
      /\ event \in Events /\ event.send_msgID \in Nat
      /\ registerFlag \in BOOLEAN /\ reg1 \in BOOLEAN /\ reg2 \in BOOLEAN
  BY PublishAssumption, MessagesAssumption DEF TypeOK, ClientTypeOK, Events, Word
<1>4. registerFlag => ToRegister
  BY <1>1, <1>3 DEF EntriesInTurn, ToRegister
<1>5. ASSUME NEW m, NEW next, SendOrQuit(m, next)
      PROVE  eventID' = next
  BY <1>5 DEF SendOrQuit, Quit
<1>6. ASSUME NEW m \in toClient, Reads(m)
      PROVE  event'.send_msgID = event.send_msgID
  BY <1>6, ReadMsgEffect DEF Reads, Result, TypeOK, ClientTypeOK
<1>7. ASSUME NEW m \in toClient, ReadsAndAdvances(m)
      PROVE  event'.send_msgID = NextMsgID(event.send_msgID)
  <2>1. Result(m).event \in Events /\ Result(m).event.send_msgID = event.send_msgID
    BY ReadMsgEffect DEF Result, TypeOK, ClientTypeOK
  <2> QED
    BY <1>7, <2>1 DEF ReadsAndAdvances, Events
<1>8. ASSUME ~registerFlag
      PROVE  client'.pub_topicID = client.pub_topicID
  BY <1>1, <1>8, EntryStep, EntryWritten
<1>9. ASSUME NEW m \in toClient,
             Result(m).rc \in {"Q_ConnackRead", "Q_WillTopReq", "Q_WillMsgReq"}
      PROVE  Result(m).client = client
  BY <1>9 DEF TypeOK, GatewayMessages, Result, readMsg, readConnack, readRegAck, readPubAck,
     readRecRelComp, Outcome
<1> USE DEF EntriesInTurn, Joining, flagVars
<1>10. CASE TimePasses \/ (ConnectingNoMsg /\ UNCHANGED flagVars) \/ RegisteringNoMsg
  <2>1. CASE TimePasses
    BY <1>1, <1>3, <2>1 DEF TimePasses, Tick
  <2>2. CASE ConnectingNoMsg /\ UNCHANGED flagVars
    BY <1>1, <1>3, <2>2 DEF ConnectingNoMsg
  <2>3. CASE RegisteringNoMsg
    BY <1>1, <1>3, <2>3 DEF RegisteringNoMsg
  <2> QED
    BY <1>10, <2>1, <2>2, <2>3
<1>11. CASE UNCHANGED flagVars /\ (WillNoMsg \/ Close)
  BY <1>1, <1>11 DEF WillNoMsg, Quit, Close
<1>12. CASE UNCHANGED flagVars /\ (PublishNoMsg \/ PubQos2NoMsg \/ PingGiveUp)
  BY <1>1, <1>3, <1>12 DEF PublishNoMsg, PubQos2NoMsg, PingGiveUp
<1>13. CASE UNCHANGED flagVars /\ PingRetry
  BY <1>1, <1>5, <1>13 DEF PingRetry
<1>14. CASE SendRegister
  BY <1>1, <1>4, <1>5, <1>14 DEF SendRegister, ToRegister
<1>15. CASE SendPublishQos0
  <2>1. ~registerFlag /\ event.send_msgID \in 3..MaxMsgID /\ eventID' = "Q_CONNECTED"
    BY <1>1, <1>3, <1>4, <1>5, <1>15 DEF SendPublishQos0, ToPublish
  <2>2. event'.send_msgID = event.send_msgID + 1
    BY <1>2, <1>3, <1>15, <2>1 DEF SendPublishQos0, Events
  <2> QED
    BY <1>3, <1>8, <1>15, <2>1, <2>2 DEF SendPublishQos0
<1>16. CASE SendPublishQos1
  <2>1. ~registerFlag /\ event.send_msgID \in 3..MaxMsgID /\ eventID' = "Q_PUBLISH"
    BY <1>1, <1>3, <1>4, <1>5, <1>16 DEF SendPublishQos1, ToPublish
  <2>2. event'.send_msgID = event.send_msgID
    BY <1>3, <1>16, <2>1 DEF SendPublishQos1, Events
  <2> QED
    BY <1>3, <1>8, <1>16, <2>1, <2>2 DEF SendPublishQos1
<1>17. CASE SendPublishQos2
  <2>1. ~registerFlag /\ event.send_msgID \in 3..MaxMsgID /\ eventID' = "Q_PUBLISH"
    BY <1>1, <1>3, <1>4, <1>5, <1>17 DEF SendPublishQos2, ToPublish
  <2>2. event'.send_msgID = event.send_msgID
    BY <1>3, <1>17, <2>1 DEF SendPublishQos2, Events
  <2> QED
    BY <1>3, <1>8, <1>17, <2>1, <2>2 DEF SendPublishQos2
<1>18. CASE SendPing
  BY <1>1, <1>4, <1>18 DEF SendPing
<1>19. ASSUME NEW m \in toClient, UNCHANGED flagVars,
              ConnectingRead(m) \/ WillTopReqRead(m) \/ WillMsgReqRead(m)
       PROVE  Goal
  <2>1. /\ registerFlag /\ reg1
        /\ Result(m).rc \in {"Q_ConnackRead", "Q_WillTopReq", "Q_WillMsgReq"}
        /\ eventID' \in {"Q_CONNECTED", "Q_WILL_TOP_REQ", "Q_WILL_MSG_REQ"}
        /\ Reads(m)
    BY <1>1, <1>3, <1>5, <1>19 DEF ConnectingRead, WillTopReqRead, WillMsgReqRead, Quit
  <2> QED
    BY <1>6, <1>9, <1>19, <2>1 DEF Reads
<1>20. ASSUME NEW m \in toClient, UNCHANGED flagVars,
              PublishAcked(m) \/ PubQos2Complete(m)
       PROVE  Goal
  <2>1. ~registerFlag /\ event.send_msgID \in 3..MaxMsgID /\ eventID' = "Q_CONNECTED"
    BY <1>1, <1>3, <1>20 DEF PublishAcked, PubQos2Complete
  <2>2. event'.send_msgID = event.send_msgID + 1
    BY <1>2, <1>3, <1>7, <1>20, <2>1 DEF PublishAcked, PubQos2Complete
  <2> QED
    BY <1>3, <1>8, <1>20, <2>1, <2>2
<1>21. ASSUME NEW m \in toClient, UNCHANGED flagVars,
              \/ PublishReceived(m) \/ PublishUnexpected(m) \/ PubQos2Unexpected(m)
              \/ PingAnswered(m) \/ PingUnexpected(m)
       PROVE  Goal
  <2>1. ~registerFlag /\ Reads(m)
    BY <1>1, <1>3, <1>21 DEF PublishReceived, PublishUnexpected, PubQos2Unexpected,
       PingAnswered, PingUnexpected
  <2> QED
    BY <1>1, <1>6, <1>8, <1>21, <2>1 DEF PublishReceived, PublishUnexpected,
       PubQos2Unexpected, PingAnswered, PingUnexpected
<1>22. ASSUME NEW m \in toClient, ReadConnected(m)
       PROVE  Goal
  <2>1. ~registerFlag /\ Reads(m) /\ eventID' = "Q_CONNECTED"
    BY <1>4, <1>22 DEF ReadConnected
  <2> QED
    BY <1>1, <1>6, <1>8, <1>22, <2>1 DEF ReadConnected
<1> HIDE DEF EntriesInTurn, Joining, flagVars
<1>23. CASE SharedStates
  BY <1>10, <1>11, <1>12, <1>13, <1>19, <1>20, <1>21, <1>23 DEF SharedStates
<1>24. CASE OwnStates
  BY <1>10, <1>14, <1>15, <1>16, <1>17, <1>18, <1>22, <1>24 DEF OwnStates
<1> QED
  BY <1>10, <1>23, <1>24 DEF ClientStep

LEMMA EntriesClientStep ==
    ASSUME TypeOK, SlotInvariant, ClientStep \/ TimePasses, UNCHANGED gatewayVars,
           eventID' # "Q_DISCONNECTED"
    PROVE  EntriesInTurn'
<1>1. /\ eventID # "Q_DISCONNECTED"
      /\ toClient' \subseteq toClient
      /\ EntriesInTurn
  BY ClientStepEffect DEF SlotInvariant
<1>2. UNCHANGED <<topics, nextTopicId>>
  BY DEF gatewayVars, clientObject
<1>3. \A topicID, n : IsFor(topicID, n)' => IsFor(topicID, n)
  BY <1>1, <1>2 DEF IsFor
<1>4. /\ MaxMsgID \in Nat /\ MaxMsgID >= 3
      /\ registerFlag \in BOOLEAN /\ reg1 \in BOOLEAN /\ reg2 \in BOOLEAN
  BY PublishAssumption DEF TypeOK, ClientTypeOK
<1>5. CASE \A m \in toClient : ~RegisteringRead(m)
  <2>1. /\ UNCHANGED <<registerFlag, reg1, reg2>>
        /\ client'.pub_topicID = client.pub_topicID
        /\ registerFlag => event'.send_msgID = event.send_msgID
        /\ registerFlag /\ reg1 =>
              eventID' \in Joining \cup {"Q_CONNECTED", "Q_REGISTERING"}
        /\ registerFlag /\ ~reg1 => eventID' \in {"Q_CONNECTED", "Q_REGISTERING"}
        /\ ~registerFlag =>
              /\ eventID' \in {"Q_CONNECTED", "Q_PUBLISH", "Q_PUB_QOS2", "Q_CLIENT_PING"}
              /\ event'.send_msgID \in 3..(MaxMsgID + 1)
              /\ eventID' \in {"Q_PUBLISH", "Q_PUB_QOS2"} => event'.send_msgID <= MaxMsgID
    BY <1>5, TurnStep
  <2> QED
    BY <1>1, <1>2, <1>3, <2>1 DEF EntriesInTurn
<1>6. ASSUME NEW m \in toClient, RegisteringRead(m)
      PROVE  EntriesInTurn'
  <2>1. /\ registerFlag /\ eventID = "Q_REGISTERING" /\ eventID' = "Q_CONNECTED"
        /\ registerFlag' = (registerFlag /\ ~reg2) /\ ~reg1' /\ reg2'
        /\ ReadsAndAdvances(m)
    BY <1>1, <1>4, <1>6 DEF RegisteringRead, EntriesInTurn, Joining
  <2>2. Result(m).event \in Events /\ Result(m).event.send_msgID = event.send_msgID
    BY ReadMsgEffect DEF Result, TypeOK, ClientTypeOK
  <2>3. event'.send_msgID = NextMsgID(event.send_msgID)
    BY <2>1, <2>2 DEF ReadsAndAdvances, Events
  <2>4. NextMsgID(1) = 2 /\ NextMsgID(2) = 3
    BY PublishAssumption, MessagesAssumption DEF NextMsgID
  <2>5. \/ client'.pub_topicID = client.pub_topicID
        \/ \E a \in toClient :
              /\ client'.pub_topicID = Append(client.pub_topicID, a.topicID)
              /\ a.topicID \in 1..nextTopicId
              /\ reg1 => /\ client'.pub_topicID = <<a.topicID>>
                         /\ ~IsFor(a.topicID, 2)
              /\ \A i \in 1..Len(client'.pub_topicID) : client'.pub_topicID[i] \in 1..nextTopicId
    BY EntryStep, EntryWritten
  <2>6. \A i \in 1..Len(client'.pub_topicID) : client'.pub_topicID[i] \in 1..nextTopicId'
    BY <1>1, <1>2, <2>5 DEF EntriesInTurn
  <2>7. CASE reg1
    <3>1. registerFlag' /\ event'.send_msgID = 2
      BY <1>1, <2>1, <2>3, <2>4, <2>7 DEF EntriesInTurn
    <3>2. /\ Len(client'.pub_topicID) <= 1
          /\ \A i \in 1..Len(client'.pub_topicID) : ~IsFor(client'.pub_topicID[i], 2)
      BY <1>1, <2>1, <2>5, <2>7 DEF EntriesInTurn
    <3>3. \A i \in 1..Len(client'.pub_topicID) : ~IsFor(client.pub_topicID[i], 2)'
      BY <1>2, <1>1, <3>2 DEF IsFor
    <3> QED
      BY <2>1, <2>6, <3>1, <3>2, <3>3 DEF EntriesInTurn
  <2>8. CASE ~reg1
    <3>1. ~registerFlag' /\ event'.send_msgID = 3
      BY <1>1, <2>1, <2>3, <2>4, <2>8 DEF EntriesInTurn
    <3> QED
      BY <1>4, <2>1, <2>6, <3>1 DEF EntriesInTurn
  <2> QED
    BY <2>7, <2>8
<1> QED
  BY <1>5, <1>6

----------------------------------------------------------------------------
(* SlotInvariant: the gateway's steps. *)

\* What a step of the gateway does to the topics, as long as it keeps the Client.
LEMMA GatewayStepEffect ==
    ASSUME TypeOK, ~EraseClient, GatewayStep
    PROVE  \/ \E m \in toGateway : HandleRegister(m)
           \/ /\ toGateway' \subseteq toGateway
              /\ topics' = topics
                    \/ (topics' = NoTopics /\ \E m \in toGateway : m.type = "CONNECT")
              /\ nextTopicId' = nextTopicId
              /\ \A m \in toClient' : m \in toClient \/ m.type # "REGACK"
<1> DEFINE Kept == /\ toGateway' \subseteq toGateway
                   /\ topics' = topics
                         \/ (topics' = NoTopics /\ \E m \in toGateway : m.type = "CONNECT")
                   /\ nextTopicId' = nextTopicId
                   /\ \A m \in toClient' : m \in toClient \/ m.type # "REGACK"
<1>1. ASSUME NEW a, GatewaySends(a), a.type # "REGACK"
      PROVE  \A m \in toClient' : m \in toClient \/ m.type # "REGACK"
  BY <1>1, SendAdds DEF GatewaySends
<1> USE DEF clientObject, brokerVars, netVars
<1>2. ASSUME NEW m \in toGateway, PacketHandleTask(m), ~HandleRegister(m)
      PROVE  Kept
  <2>1. GatewayReceives(m)
    BY <1>2 DEF PacketHandleTask, DiscardUnknown, HandleConnect, HandleWilltopic,
       HandleWillmsg, HandleDisconnect, HandlePingreq, HandlePublishInvalidTopic,
       HandlePublish, HandlePubrel, HandleIgnored, FromClient
  <2>2. toGateway' \subseteq toGateway
    BY <2>1, ReceiveAdds DEF GatewayReceives
  <2>3. CASE HandleConnect(m)
    BY <1>1, <2>2, <2>3 DEF HandleConnect, WillTopicReq
  <2>4. CASE HandleWilltopic(m)
    BY <1>1, <2>2, <2>4 DEF HandleWilltopic, WillMsgReq
  <2>5. CASE HandleDisconnect(m)
    BY <1>1, <2>2, <2>5 DEF HandleDisconnect, Disconnect
  <2>6. CASE HandlePublishInvalidTopic(m)
    BY <1>1, <2>2, <2>6 DEF HandlePublishInvalidTopic, PubAck, gatewayVars
  <2>7. CASE \/ DiscardUnknown(m) \/ HandleWillmsg(m) \/ HandlePingreq(m)
             \/ HandlePublish(m) \/ HandlePubrel(m) \/ HandleIgnored(m)
    BY <2>2, <2>7 DEF DiscardUnknown, HandleWillmsg, HandlePingreq, HandlePublish,
       HandlePubrel, HandleIgnored, gatewayVars
  <2> QED
    BY <1>2, <2>3, <2>4, <2>5, <2>6, <2>7 DEF PacketHandleTask
<1>3. CASE BrokerSendTask
  BY <1>3 DEF BrokerSendTask, SendConnect, connectSended, SendRequest
<1>4. CASE BrokerRecvTask
  <2> USE DEF Answers
  <2>1. CASE ConnackAccepted
    BY <1>1, <2>1 DEF ConnackAccepted, ConnAck
  <2>2. CASE ConnackRefused
    BY <1>1, <2>2 DEF ConnackRefused, ConnAck
  <2>3. CASE HandlePingresp
    BY <1>1, <2>3 DEF HandlePingresp, PingResp
  <2>4. CASE HandlePuback
    BY <1>1, <2>4 DEF HandlePuback, PubAck
  <2>5. ASSUME NEW request, NEW qos, NEW answer \in {"PUBREC", "PUBCOMP"},
               HandleBrokerAck(request, qos, answer)
        PROVE  Kept
    BY <1>1, <2>5 DEF HandleBrokerAck, Ack
  <2>6. CASE PublishTaken \/ BrokerCloses
    BY <2>6 DEF PublishTaken, BrokerCloses
  <2> QED
    BY <1>4, <2>1, <2>2, <2>3, <2>4, <2>5, <2>6 DEF BrokerRecvTask
<1> QED
  BY <1>2, <1>3, <1>4 DEF GatewayStep

LEMMA SlotRegisterStep ==
    ASSUME TypeOK, NumbersAgree, EntriesInTurn, UNCHANGED clientVars,
           NEW m \in toGateway, HandleRegister(m)
    PROVE  NumbersAgree' /\ EntriesInTurn'
<1> DEFINE n == m.name
<1>1. /\ n \in {1, 2} /\ m.msgID = n /\ TopicNames = {1, 2}
  <2>1. m \in ClientMessages(TopicNames) /\ m.type = "REGISTER"
    BY DEF TypeOK, HandleRegister
  <2>2. m.name \in TopicNames
    BY <2>1 DEF ClientMessages
  <2> QED
    BY <2>1, <2>2, PublishSystemAssumption DEF NumbersAgree
<1>2. /\ toGateway' \subseteq toGateway
      /\ toClient' \subseteq toClient \cup {RegAck(topics'[n], n, "accepted")}
  <2>1. GatewaySends(RegAck(topics'[n], n, "accepted")) /\ GatewayReceives(m)
    BY <1>1 DEF HandleRegister, FromClient
  <2> QED
    BY <2>1, SendAdds, ReceiveAdds DEF GatewaySends, GatewayReceives
<1>3. /\ nextTopicId \in Nat /\ topics \in [{1, 2} -> Nat]
      /\ \A k \in {1, 2} : topics[k] <= nextTopicId
  BY <1>1, GatewayAssumption DEF TypeOK, GatewayTypeOK, NumbersAgree
<1>4. /\ nextTopicId' \in Nat /\ nextTopicId <= nextTopicId'
      /\ topics'[n] \in 1..nextTopicId'
      /\ \A k \in {1, 2} : topics'[k] <= nextTopicId'
      /\ \A k \in {1, 2} : k # n => topics'[k] = topics[k]
      /\ \/ topics'[n] = topics[n]
         \/ topics'[n] = nextTopicId + 1
  BY <1>1, <1>3 DEF HandleRegister, AddTopic
<1>5. \A a \in toClient : a.type = "REGACK" =>
         a.rc = "accepted" /\ a.msgID \in {1, 2} /\ a.topicID \in 1..nextTopicId
  BY <1>1 DEF NumbersAgree
\* The only thing new is what the name's own id is for.
<1>6. \A topicID, k \in Nat :
         k \in {1, 2} /\ IsFor(topicID, k)' =>
            IsFor(topicID, k) \/ (k = n /\ topicID = topics'[n])
  <2> SUFFICES ASSUME NEW topicID \in Nat, NEW k \in {1, 2}, IsFor(topicID, k)'
               PROVE  IsFor(topicID, k) \/ (k = n /\ topicID = topics'[n])
    OBVIOUS
  <2>1. CASE topicID # 0 /\ topics'[k] = topicID
    BY <1>4, <2>1 DEF IsFor
  <2>2. CASE RegAck(topicID, k, "accepted") \in toClient'
    <3>1. RegAck(topicID, k, "accepted") = RegAck(topics'[n], n, "accepted")
             => topicID = topics'[n] /\ k = n
      BY DEF RegAck
    <3> QED
      BY <1>2, <2>2, <3>1 DEF IsFor
  <2> QED
    BY <2>1, <2>2 DEF IsFor
<1>7. \A topicID, k \in Nat : k \in {1, 2} /\ IsFor(topicID, k) => topicID <= nextTopicId
  <2> SUFFICES ASSUME NEW topicID \in Nat, NEW k \in {1, 2}, IsFor(topicID, k)
               PROVE  topicID <= nextTopicId
    OBVIOUS
  <2>1. CASE RegAck(topicID, k, "accepted") \in toClient
    <3>1. /\ RegAck(topicID, k, "accepted").type = "REGACK"
          /\ RegAck(topicID, k, "accepted").topicID = topicID
      BY DEF RegAck
    <3> QED
      BY <1>3, <1>5, <2>1, <3>1
  <2> QED
    BY <1>3, <2>1 DEF IsFor
\* So an id that was given out before keeps its one meaning.
<1>8. \A topicID \in 1..nextTopicId, k \in {1, 2} : IsFor(topicID, k)' => IsFor(topicID, k)
  BY <1>3, <1>4, <1>6 DEF IsFor
<1>9. \A topicID \in 1..nextTopicId' : ~(IsFor(topicID, 1)' /\ IsFor(topicID, 2)')
  <2> SUFFICES ASSUME NEW topicID \in 1..nextTopicId'
               PROVE  ~(IsFor(topicID, 1)' /\ IsFor(topicID, 2)')
    OBVIOUS
  <2>1. CASE topicID \in 1..nextTopicId
    BY <1>8, <2>1 DEF NumbersAgree
  <2>2. CASE topicID > nextTopicId
    <3>1. ~IsFor(topicID, 1) /\ ~IsFor(topicID, 2)
      BY <1>3, <1>4, <1>7, <2>2
    <3>2. IsFor(topicID, 1)' => n = 1
      BY <1>4, <1>6, <3>1
    <3>3. IsFor(topicID, 2)' => n = 2
      BY <1>4, <1>6, <3>1
    <3> QED
      BY <3>2, <3>3
  <2> QED
    BY <1>3, <1>4, <2>1, <2>2
<1>10. \A a \in toClient' : a.type = "REGACK" =>
          a.rc = "accepted" /\ a.msgID \in {1, 2} /\ a.topicID \in 1..nextTopicId'
  BY <1>1, <1>2, <1>3, <1>4, <1>5 DEF RegAck
<1>11. NumbersAgree'
  BY <1>1, <1>2, <1>4, <1>9, <1>10 DEF NumbersAgree
<1>12. EntriesInTurn'
  <2>1. UNCHANGED <<client, event, eventID, registerFlag, reg1, reg2>>
    BY DEF clientVars, machineVars, flagVars
  <2>2. \A i \in 1..Len(client.pub_topicID) : /\ client.pub_topicID[i] \in 1..nextTopicId
                                              /\ client.pub_topicID[i] \in 1..nextTopicId'
    BY <1>3, <1>4 DEF EntriesInTurn
  <2>3. registerFlag /\ ~reg1 =>
           \A i \in 1..Len(client.pub_topicID) : ~IsFor(client.pub_topicID[i], 2)'
    BY <1>8, <2>1, <2>2 DEF EntriesInTurn, IsFor
  <2> QED
    BY <2>1, <2>2, <2>3 DEF EntriesInTurn
<1> QED
  BY <1>11, <1>12

LEMMA SlotGatewayStep ==
    ASSUME TypeOK, SlotInvariant, UNCHANGED clientVars, GatewayStep,
           eventID # "Q_DISCONNECTED" => ~EraseClient
    PROVE  SlotInvariant'
<1>1. UNCHANGED <<client, event, eventID, registerFlag, reg1, reg2>>
  BY DEF clientVars, machineVars, flagVars
<1>2. RegisteredTopics'
  BY <1>1 DEF SlotInvariant, RegisteredTopics
<1> SUFFICES ASSUME eventID # "Q_DISCONNECTED"
             PROVE  NumbersAgree' /\ EntriesInTurn'
  BY <1>1, <1>2 DEF SlotInvariant
<1>3. NumbersAgree /\ EntriesInTurn /\ ~EraseClient
  BY DEF SlotInvariant
<1>4. CASE \E m \in toGateway : HandleRegister(m)
  BY <1>3, <1>4, SlotRegisterStep
<1>5. CASE /\ toGateway' \subseteq toGateway
           /\ topics' = topics
                 \/ (topics' = NoTopics /\ \E m \in toGateway : m.type = "CONNECT")
           /\ nextTopicId' = nextTopicId
           /\ \A m \in toClient' : m \in toClient \/ m.type # "REGACK"
  <2>1. nextTopicId \in Nat /\ TopicNames = {1, 2}
    BY PublishSystemAssumption, GatewayAssumption DEF TypeOK, GatewayTypeOK
  <2>2. \A topicID, k : k \in {1, 2} /\ IsFor(topicID, k)' => IsFor(topicID, k)
    BY <1>5, <2>1 DEF IsFor, NoTopics, RegAck
  <2>3. \A k \in TopicNames : topics'[k] <= nextTopicId'
    BY <1>3, <1>5, <2>1 DEF NumbersAgree, NoTopics
  <2>4. NumbersAgree'
    BY <1>3, <1>5, <2>1, <2>2, <2>3 DEF NumbersAgree
  <2>5. \A i \in 1..Len(client.pub_topicID) :
           ~IsFor(client.pub_topicID[i], 2) => ~IsFor(client.pub_topicID[i], 2)'
    BY <1>1, <2>2 DEF IsFor
  <2>6. EntriesInTurn'
    BY <1>1, <1>3, <1>5, <2>5 DEF EntriesInTurn
  <2> QED
    BY <2>4, <2>6
<1> QED
  BY <1>3, <1>4, <1>5, GatewayStepEffect

LEMMA SlotStep == TypeOK /\ LinkInvariant /\ SlotInvariant /\ [Next]_vars => SlotInvariant'
<1> SUFFICES ASSUME TypeOK, LinkInvariant, SlotInvariant, [Next]_vars
             PROVE  SlotInvariant'
  OBVIOUS
<1>1. CASE (ClientStep \/ TimePasses) /\ UNCHANGED gatewayVars
  BY <1>1, RegisteredClientStep, NumbersClientStep, EntriesClientStep DEF SlotInvariant
<1>2. CASE GatewayStep /\ UNCHANGED clientVars
  BY <1>2, SlotGatewayStep DEF LinkInvariant, EraseClient
<1>3. CASE UNCHANGED vars
  BY <1>3 DEF vars, clientVars, machineVars, flagVars, netVars, gatewayVars, clientObject,
              SlotInvariant, RegisteredTopics, NumbersAgree, EntriesInTurn, IsFor
<1> QED
  BY <1>1, <1>2, <1>3 DEF Next

\* When the broker refuses nobody, every topic id under way or kept by the program is, for
\* ever, the id of one and the same topic of the gateway, and the program's two entries are
\* filled in turn.
THEOREM SlotAlways ==
    ASSUME ~BrokerRefuses
    PROVE  Spec => []SlotInvariant
<1>1. TypeOK /\ LinkInvariant /\ SlotInvariant /\ [Next]_vars => SlotInvariant'
  BY SlotStep
<1> QED
  BY <1>1, SlotInit, LinkAlways, TypeCorrect, PTL DEF Spec

\* When the broker refuses nobody, no repetition, loss or delay of REGISTER and REGACK
\* gives the program a third topic id, or one id for both of its topics.
THEOREM AlwaysRegisteredTopics ==
    ASSUME ~BrokerRefuses
    PROVE  Spec => []RegisteredTopics
<1>1. SlotInvariant => RegisteredTopics
  BY DEF SlotInvariant
<1> QED
  BY <1>1, SlotAlways, PTL

----------------------------------------------------------------------------
(* OnceInvariant: the program's steps. *)

\* What any step of the program puts into the air, and that the joining is over once.
LEMMA ClientSendsEffect ==
    ASSUME TypeOK, ClientStep \/ TimePasses
    PROVE  /\ toClient' \subseteq toClient
           /\ \A m \in toGateway' : m \notin toGateway =>
                 \/ m.type = "DISCONNECT" /\ eventID' = "Q_DISCONNECTED"
                 \/ m.type \in {"WILLTOPIC", "WILLMSG"} /\ eventID \in Joining
                 \/ m.type = "REGISTER" /\ SendRegister /\ m.msgID = event.send_msgID
                 \/ /\ m.type \in {"PUBLISH", "PUBREL", "PINGREQ", "PUBACK"}
                    /\ eventID \in {"Q_CONNECTED", "Q_PUBLISH", "Q_CLIENT_PING"}
                    /\ eventID = "Q_CONNECTED" => ~ToRegister
           /\ \A m \in toGateway' : m \notin toGateway /\ m.type = "PUBLISH" =>
                 \/ SendPublishQos0 /\ m = Publish(0, PubTopic(1), 0)
                 \/ SendPublishQos1 /\ m = Publish(1, PubTopic(2), event.send_msgID)
                    /\ eventID' = "Q_PUBLISH"
                 \/ SendPublishQos2 /\ m = Publish(2, PubTopic(2), event.send_msgID)
           /\ eventID \notin Joining => eventID' \notin Joining
           /\ toClient = {} /\ eventID \in {"Q_CONNECTING", "Q_DISCONNECTED"} =>
                 UNCHANGED netVars /\ eventID' \in {"Q_CONNECTING", "Q_DISCONNECTED"}
<1> DEFINE Goal == /\ toClient' \subseteq toClient
                   /\ \A m \in toGateway' : m \notin toGateway =>
                         \/ m.type = "DISCONNECT" /\ eventID' = "Q_DISCONNECTED"
                         \/ m.type \in {"WILLTOPIC", "WILLMSG"} /\ eventID \in Joining
                         \/ m.type = "REGISTER" /\ SendRegister /\ m.msgID = event.send_msgID
                         \/ /\ m.type \in {"PUBLISH", "PUBREL", "PINGREQ", "PUBACK"}
                            /\ eventID \in {"Q_CONNECTED", "Q_PUBLISH", "Q_CLIENT_PING"}
                            /\ eventID = "Q_CONNECTED" => ~ToRegister
                   /\ \A m \in toGateway' : m \notin toGateway /\ m.type = "PUBLISH" =>
                         \/ SendPublishQos0 /\ m = Publish(0, PubTopic(1), 0)
                         \/ SendPublishQos1 /\ m = Publish(1, PubTopic(2), event.send_msgID)
                            /\ eventID' = "Q_PUBLISH"
                         \/ SendPublishQos2 /\ m = Publish(2, PubTopic(2), event.send_msgID)
                   /\ eventID \notin Joining => eventID' \notin Joining
                   /\ toClient = {} /\ eventID \in {"Q_CONNECTING", "Q_DISCONNECTED"} =>
                         UNCHANGED netVars /\ eventID' \in {"Q_CONNECTING", "Q_DISCONNECTED"}
<1> USE DEF Joining
<1>1. ASSUME Quit
      PROVE  /\ eventID' = "Q_DISCONNECTED"
             /\ \A m \in toGateway' : m \in toGateway \/ m.type = "DISCONNECT"
  BY <1>1, SendAdds DEF Quit, Disconnect
<1>2. ASSUME NEW m, NEW next, SendOrQuit(m, next)
      PROVE  /\ eventID' \in {next, "Q_DISCONNECTED"}
             /\ \A a \in toGateway' :
                   \/ a \in toGateway
                   \/ a = m /\ eventID' = next
                   \/ a.type = "DISCONNECT" /\ eventID' = "Q_DISCONNECTED"
  BY <1>1, <1>2, SendAdds DEF SendOrQuit, ClientSends
<1>3. ASSUME NEW m \in toClient, Reads(m) \/ ReadsAndAdvances(m)
      PROVE  toClient' \subseteq toClient
  BY <1>3, ReceiveAdds DEF Reads, ReadsAndAdvances, ClientReceives
<1>4. CASE \/ ConnectingNoMsg \/ PublishNoMsg \/ PubQos2NoMsg
           \/ PingGiveUp \/ Close \/ RegisteringNoMsg \/ TimePasses
  BY <1>4 DEF ConnectingNoMsg, PublishNoMsg, PubQos2NoMsg, PingGiveUp,
     Close, RegisteringNoMsg, TimePasses, Tick, netVars
<1>5. CASE WillNoMsg
  BY <1>1, <1>5 DEF WillNoMsg
<1>6. CASE PingRetry
  BY <1>2, <1>6 DEF PingRetry, PingReq
<1>7. CASE SendRegister
  BY <1>2, <1>7 DEF SendRegister, Register
<1>8. CASE SendPublishQos0
  BY <1>2, <1>8 DEF SendPublishQos0, Publish
<1>9. CASE SendPublishQos1
  BY <1>2, <1>9 DEF SendPublishQos1, Publish
<1>10. CASE SendPublishQos2
  BY <1>2, <1>10 DEF SendPublishQos2, Publish
<1>11. CASE SendPing
  BY <1>11, SendAdds DEF SendPing, ClientSends, PingReq
<1>12. ASSUME NEW m \in toClient, ConnectingRead(m)
       PROVE  Goal
  BY <1>2, <1>3, <1>12 DEF ConnectingRead, WillTopic
<1>13. ASSUME NEW m \in toClient, WillTopReqRead(m)
       PROVE  Goal
  BY <1>1, <1>2, <1>3, <1>13 DEF WillTopReqRead, WillMsg
<1>14. ASSUME NEW m \in toClient, WillMsgReqRead(m)
       PROVE  Goal
  BY <1>1, <1>3, <1>14 DEF WillMsgReqRead
<1>15. ASSUME NEW m \in toClient, PublishReceived(m)
       PROVE  Goal
  BY <1>3, <1>15, SendAdds DEF PublishReceived, ClientSends, Ack
<1>16. ASSUME NEW m \in toClient,
              \/ PublishAcked(m) \/ PublishUnexpected(m) \/ PubQos2Complete(m)
              \/ PubQos2Unexpected(m) \/ PingAnswered(m) \/ PingUnexpected(m)
              \/ RegisteringRead(m)
       PROVE  Goal
  BY <1>3, <1>16 DEF PublishAcked, PublishUnexpected, PubQos2Complete, PubQos2Unexpected,
     PingAnswered, PingUnexpected, RegisteringRead
<1>17. ASSUME NEW m \in toClient, ReadConnected(m)
       PROVE  Goal
  <2>1. \/ toGateway' = toGateway
        \/ \E answer \in Answer(m) : toGateway' \in AfterSend(toGateway, answer)
    BY <1>17 DEF ReadConnected, AfterAnswer
  <2>2. \A answer \in Answer(m) : answer.type = "PUBACK"
    BY DEF Answer, PubAck
  <2> QED
    BY <1>3, <1>17, <2>1, <2>2, SendAdds DEF ReadConnected
<1> QED
  BY <1>4, <1>5, <1>6, <1>7, <1>8, <1>9, <1>10, <1>11, <1>12, <1>13, <1>14, <1>15, <1>16,
     <1>17 DEF ClientStep, SharedStates, OwnStates

LEMMA FirstClientStep ==
    ASSUME TypeOK, FirstConnect, ClientStep \/ TimePasses, UNCHANGED gatewayVars
    PROVE  FirstConnect'
<1> SUFFICES ASSUME NEW m \in toGateway', m.type = "CONNECT"
             PROVE  /\ toGateway' = {m} /\ toClient' = {}
                    /\ brokerSendQue' = <<>> /\ brokerLink' = <<>>
                    /\ eventID' \in {"Q_CONNECTING", "Q_DISCONNECTED"}
  BY DEF FirstConnect
<1>1. m \in toGateway
  BY ClientSendsEffect
<1>2. /\ toGateway = {m} /\ toClient = {} /\ brokerSendQue = <<>> /\ brokerLink = <<>>
      /\ eventID \in {"Q_CONNECTING", "Q_DISCONNECTED"}
  BY <1>1 DEF FirstConnect
<1>3. UNCHANGED netVars /\ eventID' \in {"Q_CONNECTING", "Q_DISCONNECTED"}
  BY <1>2, ClientSendsEffect
<1> QED
  BY <1>2, <1>3 DEF netVars, gatewayVars, brokerVars

\* A turn of a program that has not been accepted: it waits, gives up, or takes the one
\* message there is and leaves at most one of its own.
LEMMA JoiningStep ==
    ASSUME TypeOK, OneHandshake, Duplicated \cap Handshake = {}, eventID \in Joining,
           ClientStep \/ TimePasses
    PROVE  /\ eventID' \in Joining =>
                 \/ UNCHANGED netVars
                 \/ /\ toClient # {} /\ toClient' = {} /\ toGateway = {}
                    /\ \E a : toGateway' \subseteq {a} /\ a.type \in Handshake
           /\ eventID' \in Joining \cup {"Q_CONNECTED", "Q_DISCONNECTED"}
           /\ eventID' = "Q_CONNECTED" =>
                 /\ ConnAck("accepted") \in toClient /\ toClient' = {}
                 /\ toGateway' = {} /\ brokerSendQue = <<>> /\ brokerLink = <<>>
           /\ UNCHANGED flagVars
<1> DEFINE Goal == /\ eventID' \in Joining =>
                         \/ UNCHANGED netVars
                         \/ /\ toClient # {} /\ toClient' = {} /\ toGateway = {}
                            /\ \E a : toGateway' \subseteq {a} /\ a.type \in Handshake
                   /\ eventID' \in Joining \cup {"Q_CONNECTED", "Q_DISCONNECTED"}
                   /\ eventID' = "Q_CONNECTED" =>
                         /\ ConnAck("accepted") \in toClient /\ toClient' = {}
                         /\ toGateway' = {} /\ brokerSendQue = <<>> /\ brokerLink = <<>>
                   /\ UNCHANGED flagVars
<1>1. ASSUME NEW m \in toClient, Reads(m)
      PROVE  /\ toClient' = {} /\ toGateway = {} /\ brokerSendQue = <<>> /\ brokerLink = <<>>
             /\ Result(m).rc = "Q_ConnackRead" => m = ConnAck("accepted")
  <2>1. m.type \in Handshake /\ toClient = {m}
        /\ toGateway = {} /\ brokerSendQue = <<>> /\ brokerLink = <<>>
    BY DEF OneHandshake, HandshakeAlone
  <2>2. m.type \notin Duplicated
    BY <2>1
  <2>3. toClient' = {}
    BY <1>1, <2>1, <2>2 DEF Reads, ClientReceives, AfterReceive
  <2>4. ASSUME Result(m).rc = "Q_ConnackRead"
        PROVE  m = ConnAck("accepted")
    <3>1. m \in GatewayMessages
      BY DEF TypeOK
    <3>2. m.type = "CONNACK"
      BY <2>1, <2>4, <3>1 DEF Handshake, GatewayMessages, Result, readMsg, Outcome
    <3>3. m.rc = "accepted"
      BY <2>4, <3>2 DEF Result, readMsg, readConnack, Outcome
    <3> QED
      BY <3>1, <3>2, <3>3 DEF GatewayMessages, ConnAck
  <2> QED
    BY <2>1, <2>3, <2>4
<1>2. ASSUME NEW m, NEW next, SendOrQuit(m, next), toGateway = {}
      PROVE  \/ eventID' = next /\ toGateway' \subseteq {m}
             \/ eventID' = "Q_DISCONNECTED"
  BY <1>2, SendAdds DEF SendOrQuit, Quit, ClientSends
<1>3. WillTopic.type \in Handshake /\ WillMsg.type \in Handshake
  BY DEF WillTopic, WillMsg, Handshake
<1> USE DEF Joining
<1>4. CASE UNCHANGED flagVars /\ (ConnectingNoMsg \/ WillNoMsg)
  BY <1>4 DEF ConnectingNoMsg, WillNoMsg, Quit
<1>5. CASE TimePasses
  BY <1>5 DEF TimePasses, Tick
<1>6. ASSUME NEW m \in toClient, UNCHANGED flagVars, ConnectingRead(m)
      PROVE  Goal
  <2>1. /\ toClient' = {} /\ toGateway = {} /\ brokerSendQue = <<>> /\ brokerLink = <<>>
        /\ Result(m).rc = "Q_ConnackRead" => m = ConnAck("accepted")
    BY <1>1, <1>6 DEF ConnectingRead
  <2>2. CASE Result(m).rc = "Q_ConnackRead"
    <3>1. eventID' = "Q_CONNECTED" /\ toGateway' = toGateway
      BY <1>6, <2>2 DEF ConnectingRead
    <3> QED
      BY <1>6, <2>1, <2>2, <3>1
  <2>3. CASE Result(m).rc = "Q_WillTopReq"
    <3>1. SendOrQuit(WillTopic, "Q_WILL_TOP_REQ")
      BY <1>6, <2>3 DEF ConnectingRead
    <3> QED
      BY <1>2, <1>3, <1>6, <2>1, <3>1
  <2>4. CASE Result(m).rc \notin {"Q_ConnackRead", "Q_WillTopReq"}
    BY <1>6, <2>4 DEF ConnectingRead
  <2> QED
    BY <2>2, <2>3, <2>4
<1>7. ASSUME NEW m \in toClient, UNCHANGED flagVars, WillTopReqRead(m)
      PROVE  Goal
  <2>1. /\ toClient' = {} /\ toGateway = {} /\ brokerSendQue = <<>> /\ brokerLink = <<>>
    BY <1>1, <1>7 DEF WillTopReqRead
  <2>2. SendOrQuit(WillMsg, "Q_WILL_MSG_REQ") \/ eventID' = "Q_DISCONNECTED"
    BY <1>7 DEF WillTopReqRead, Quit
  <2> QED
    BY <1>2, <1>3, <1>7, <2>1, <2>2
<1>8. ASSUME NEW m \in toClient, UNCHANGED flagVars, WillMsgReqRead(m)
      PROVE  Goal
  <2>1. /\ toClient' = {} /\ toGateway = {} /\ brokerSendQue = <<>> /\ brokerLink = <<>>
        /\ Result(m).rc = "Q_ConnackRead" => m = ConnAck("accepted")
    BY <1>1, <1>8 DEF WillMsgReqRead
  <2>2. \/ eventID' = "Q_DISCONNECTED"
        \/ /\ Result(m).rc = "Q_ConnackRead"
           /\ eventID' = "Q_CONNECTED" /\ toGateway' = toGateway
    BY <1>8 DEF WillMsgReqRead, Quit
  <2> QED
    BY <1>8, <2>1, <2>2
<1>9. ASSUME NEW m \in toClient
      PROVE  /\ ~PublishAcked(m) /\ ~PublishReceived(m) /\ ~PublishUnexpected(m)
             /\ ~PubQos2Complete(m) /\ ~PubQos2Unexpected(m)
             /\ ~PingAnswered(m) /\ ~PingUnexpected(m)
             /\ ~ReadConnected(m) /\ ~RegisteringRead(m)
  BY DEF PublishAcked, PublishReceived, PublishUnexpected, PubQos2Complete,
     PubQos2Unexpected, PingAnswered, PingUnexpected, ReadConnected, RegisteringRead
<1>10. /\ ~PublishNoMsg /\ ~PubQos2NoMsg /\ ~PingRetry /\ ~PingGiveUp /\ ~Close
       /\ ~SendRegister /\ ~RegisteringNoMsg /\ ~SendPing
       /\ ~SendPublishQos0 /\ ~SendPublishQos1 /\ ~SendPublishQos2
  BY DEF PublishNoMsg, PubQos2NoMsg, PingRetry, PingGiveUp, Close, SendRegister,
     RegisteringNoMsg, SendPing, SendPublishQos0, SendPublishQos1, SendPublishQos2
<1> QED
  BY <1>4, <1>5, <1>6, <1>7, <1>8, <1>9, <1>10 DEF ClientStep, SharedStates, OwnStates

LEMMA HandshakeClientStep ==
    ASSUME TypeOK, OneHandshake, Duplicated \cap Handshake = {},
           ClientStep \/ TimePasses, UNCHANGED gatewayVars
    PROVE  OneHandshake'
<1> SUFFICES ASSUME eventID' \in Joining
             PROVE  OneHandshake'
  BY DEF OneHandshake, HandshakeAlone
<1>1. eventID \in Joining
  BY ClientSendsEffect
<1>2. UNCHANGED <<known, link, brokerSendQue, brokerLink>>
  BY DEF gatewayVars, clientObject, brokerVars
<1>3. CASE UNCHANGED netVars
  BY <1>1, <1>2, <1>3 DEF OneHandshake, HandshakeAlone, netVars
<1>4. CASE /\ toClient # {} /\ toClient' = {} /\ toGateway = {}
           /\ \E a : toGateway' \subseteq {a} /\ a.type \in Handshake
  <2>1. brokerSendQue = <<>> /\ brokerLink = <<>>
    BY <1>1, <1>4 DEF OneHandshake, HandshakeAlone
  <2> QED
    BY <1>2, <1>4, <2>1 DEF OneHandshake, HandshakeAlone
<1> QED
  BY <1>1, <1>3, <1>4, JoiningStep

\* The flags move in Q_REGISTERING only.
LEMMA FlagsStep ==
    ASSUME ClientStep \/ TimePasses, \A m \in toClient : ~RegisteringRead(m)
    PROVE  UNCHANGED <<registerFlag, reg1, reg2, publishFlag>>
BY DEF ClientStep, SharedStates, OwnStates, TimePasses, flagVars, SendRegister,
   RegisteringNoMsg, SendPublishQos0, SendPublishQos1, SendPublishQos2, SendPing,
   ReadConnected

LEMMA SessionClientStep ==
    ASSUME TypeOK, OneHandshake, NoOtherSession, Duplicated \cap Handshake = {},
           ClientStep \/ TimePasses, UNCHANGED gatewayVars
    PROVE  NoOtherSession'
<1> SUFFICES ASSUME InSession'
             PROVE  NoOtherSession'
  BY DEF NoOtherSession
<1>1. UNCHANGED <<known, link, brokerSendQue, brokerLink>>
  BY DEF gatewayVars, clientObject, brokerVars
<1>2. eventID' # "Q_DISCONNECTED" /\ eventID' \notin Joining
  BY DEF InSession, Joining
<1>3. CASE eventID \in Joining
  <2>1. /\ ConnAck("accepted") \in toClient /\ toClient' = {}
        /\ toGateway' = {} /\ brokerSendQue = <<>> /\ brokerLink = <<>>
    BY <1>2, <1>3, JoiningStep
  <2>2. known /\ link = "open"
    BY <1>3, <2>1 DEF OneHandshake, HandshakeAlone
  <2> QED
    BY <1>1, <2>1, <2>2 DEF NoOtherSession, TypesOf, Entries
<1>4. CASE eventID \notin Joining
  <2>1. InSession
    BY <1>2, <1>4, ClientStepEffect DEF InSession
  <2>2. \A m \in toGateway' : m \in toGateway
           \/ m.type \in {"REGISTER", "PUBLISH", "PUBREL", "PINGREQ", "PUBACK"}
    BY <1>2, <1>4, ClientSendsEffect
  <2> QED
    BY <1>1, <2>1, <2>2 DEF NoOtherSession, TypesOf
<1> QED
  BY <1>3, <1>4

\* What ends the registration of the first topic is a REGACK with the id of the topic.
LEMMA FirstEntryWritten ==
    ASSUME TypeOK, OnceInvariant, reg1, NEW m \in toClient, RegisteringRead(m)
    PROVE  client'.pub_topicID = <<topics[1]>>
<1>1. InSession /\ eventID # "Q_DISCONNECTED" /\ registerFlag
  BY DEF OnceInvariant, FirstTopicFirst, RegisteringRead, InSession, Joining
<1>2. event.send_msgID = 1 /\ client.pub_topicID = <<>>
  BY <1>1 DEF OnceInvariant, SlotInvariant, EntriesInTurn
<1>3. m.type = "REGACK" /\ m.msgID = 1 /\ m.topicID = topics[1]
  BY <1>1 DEF OnceInvariant, FirstTopicFirst
<1>4. m.rc = "accepted"
  BY <1>1, <1>3 DEF OnceInvariant, SlotInvariant, NumbersAgree
<1>5. Result(m) = Outcome("Q_RegAckRead", [client EXCEPT !.pub_topicID = Append(@, m.topicID)], event)
  BY <1>2, <1>3, <1>4 DEF Result, readMsg, readRegAck
<1>6. client' = [client EXCEPT !.pub_topicID = Append(@, m.topicID)]
  BY <1>5 DEF RegisteringRead, ReadsAndAdvances, Outcome
<1>7. client'.pub_topicID = Append(client.pub_topicID, m.topicID)
  BY <1>6 DEF TypeOK, ClientTypeOK, Clients
<1> QED
  BY <1>2, <1>3, <1>7

\* The entries that are there stay in their places.
LEMMA EntriesKept ==
    ASSUME TypeOK, ClientStep \/ TimePasses, client.pub_topicID # <<>>
    PROVE  client'.pub_topicID # <<>>
<1>1. ASSUME NEW m \in toClient, m.type = "REGACK",
             client'.pub_topicID = Append(client.pub_topicID, m.topicID)
      PROVE  client'.pub_topicID # <<>>
  <2>1. m.topicID \in Word /\ client.pub_topicID \in Seq(Word)
    BY <1>1 DEF TypeOK, ClientTypeOK, Clients, GatewayMessages
  <2>2. Len(client'.pub_topicID) = Len(client.pub_topicID) + 1 /\ Len(client.pub_topicID) \in Nat
    BY <1>1, <2>1, AppendEntry
  <2> QED
    BY <2>2
<1> QED
  BY <1>1, EntryStep

LEMMA FirstTopicClientStep ==
    ASSUME TypeOK, OnceInvariant, Duplicated \cap Handshake = {},
           ClientStep \/ TimePasses, UNCHANGED gatewayVars
    PROVE  FirstTopicFirst'
<1>1. UNCHANGED <<topics, brokerSendQue, brokerLink>>
  BY DEF gatewayVars, clientObject, brokerVars
<1>2. FirstTopicFirst
  BY DEF OnceInvariant
<1>3. CASE \E m \in toClient : RegisteringRead(m)
  <2>1. PICK m \in toClient : RegisteringRead(m)
    BY <1>3
  <2>2. /\ eventID = "Q_REGISTERING" /\ eventID' = "Q_CONNECTED"
        /\ ~reg1' /\ toGateway' = toGateway
    BY <2>1 DEF RegisteringRead
  <2>3. client'.pub_topicID # <<>>
    <3>1. CASE reg1
      <4>1. client'.pub_topicID = <<topics[1]>>
        BY <2>1, <3>1, FirstEntryWritten
      <4> QED
        BY <4>1
    <3>2. CASE ~reg1
      BY <1>2, <3>2, EntriesKept DEF FirstTopicFirst
    <3> QED
      BY <3>1, <3>2
  <2>4. toClient' \subseteq toClient
    BY ClientSendsEffect
  <2>5. InSession
    BY <2>2 DEF InSession, Joining
  <2> QED
    BY <1>1, <1>2, <2>2, <2>3, <2>4, <2>5 DEF FirstTopicFirst
<1>4. CASE \A m \in toClient : ~RegisteringRead(m)
  <2>1. UNCHANGED <<registerFlag, reg1, publishFlag>>
    BY <1>4, FlagsStep
  <2>2. ~reg1' => client'.pub_topicID # <<>>
    BY <1>2, <2>1, EntriesKept DEF FirstTopicFirst
  <2>3. CASE ~InSession'
    BY <1>2, <2>1, <2>2, <2>3 DEF FirstTopicFirst
  <2>4. CASE InSession' /\ eventID \in Joining
    <3>1. /\ toClient' = {} /\ toGateway' = {} /\ brokerSendQue = <<>> /\ brokerLink = <<>>
      BY <2>4, JoiningStep DEF OnceInvariant, InSession, Joining
    <3> QED
      BY <1>1, <1>2, <2>1, <2>2, <3>1 DEF FirstTopicFirst
  <2>5. CASE InSession' /\ eventID \notin Joining
    <3>1. eventID' # "Q_DISCONNECTED" /\ eventID # "Q_DISCONNECTED" /\ InSession
      BY <2>5, ClientStepEffect DEF InSession
    <3>2. toClient' \subseteq toClient
      BY ClientSendsEffect
    <3>3. ASSUME reg1, NEW m \in toGateway', m \notin toGateway
          PROVE  m.type = "REGISTER" /\ m.msgID = 1
      <4>1. registerFlag /\ event.send_msgID = 1
            /\ eventID \in Joining \cup {"Q_CONNECTED", "Q_REGISTERING"}
        BY <1>2, <3>1, <3>3 DEF FirstTopicFirst, OnceInvariant, SlotInvariant, EntriesInTurn
      <4>2. ToRegister
        BY <3>3, <4>1 DEF ToRegister
      <4> QED
        BY <2>5, <3>1, <3>3, <4>1, <4>2, ClientSendsEffect
    <3> QED
      BY <1>1, <1>2, <2>1, <2>2, <3>1, <3>2, <3>3 DEF FirstTopicFirst
  <2> QED
    BY <2>3, <2>4, <2>5
<1> QED
  BY <1>3, <1>4

LEMMA AgreeClientStep ==
    ASSUME TypeOK, OnceInvariant, Duplicated \cap Handshake = {},
           ClientStep \/ TimePasses, UNCHANGED gatewayVars
    PROVE  TopicsAgree'
<1> SUFFICES ASSUME InSession', NEW i \in 1..Len(client'.pub_topicID)
             PROVE  client'.pub_topicID[i] = topics'[i]
  BY DEF TopicsAgree
<1>1. topics' = topics
  BY DEF gatewayVars, clientObject
<1>2. eventID' # "Q_DISCONNECTED" /\ eventID # "Q_DISCONNECTED" /\ SlotInvariant
  BY ClientStepEffect DEF InSession, OnceInvariant
<1>3. CASE eventID \in Joining
  <2>1. client.pub_topicID = <<>> /\ UNCHANGED flagVars
    BY <1>2, <1>3, JoiningStep DEF OnceInvariant, SlotInvariant, EntriesInTurn, Joining,
       TypeOK, ClientTypeOK
  <2>2. \A m \in toClient : ~RegisteringRead(m)
    BY <1>3 DEF RegisteringRead, Joining
  <2>3. client'.pub_topicID = client.pub_topicID
    BY <1>2, <2>2, TurnStep
  <2> QED
    BY <2>1, <2>3
<1>4. CASE eventID \notin Joining /\ \A m \in toClient : ~RegisteringRead(m)
  <2>1. client'.pub_topicID = client.pub_topicID
    BY <1>2, <1>4, TurnStep
  <2> QED
    BY <1>1, <1>2, <1>4, <2>1 DEF OnceInvariant, TopicsAgree, InSession
<1>5. ASSUME NEW m \in toClient, RegisteringRead(m)
      PROVE  client'.pub_topicID[i] = topics'[i]
  <2>1. InSession
    BY <1>5 DEF RegisteringRead, InSession, Joining
  <2>2. CASE reg1
    <3>1. client'.pub_topicID = <<topics[1]>>
      BY <1>5, <2>2, FirstEntryWritten
    <3> QED
      BY <1>1, <3>1
  <2>3. CASE ~reg1
    <3>1. registerFlag /\ event.send_msgID = 2 /\ Len(client.pub_topicID) <= 1
      BY <1>2, <1>5, <2>3 DEF SlotInvariant, EntriesInTurn, RegisteringRead
    <3>2. client.pub_topicID # <<>> /\ client.pub_topicID \in Seq(Word)
      BY <2>3 DEF OnceInvariant, FirstTopicFirst, TypeOK, ClientTypeOK, Clients
    <3>3. Len(client.pub_topicID) = 1 /\ client.pub_topicID[1] = topics[1]
      <4>1. Len(client.pub_topicID) \in Nat /\ Len(client.pub_topicID) # 0
        BY <3>2
      <4>2. \A n \in Nat : n # 0 /\ n <= 1 => n = 1
        OBVIOUS
      <4>3. Len(client.pub_topicID) = 1
        BY <3>1, <4>1, <4>2, Zenon
      <4> QED
        BY <2>1, <4>3 DEF OnceInvariant, TopicsAgree
    <3>4. CASE client'.pub_topicID = client.pub_topicID
      BY <1>1, <3>3, <3>4
    <3>5. ASSUME NEW a \in toClient, a.type = "REGACK", a.msgID = event.send_msgID,
                 client'.pub_topicID = Append(client.pub_topicID, a.topicID)
          PROVE  client'.pub_topicID[i] = topics'[i]
      <4>1. a.topicID = topics[2] /\ a.topicID \in Word
        BY <2>1, <3>1, <3>5 DEF OnceInvariant, FirstTopicFirst, TypeOK, GatewayMessages
      <4>2. /\ Len(client'.pub_topicID) = 2
            /\ client'.pub_topicID[1] = topics[1] /\ client'.pub_topicID[2] = a.topicID
        BY <3>2, <3>3, <3>5, <4>1, AppendEntry
      <4> QED
        BY <1>1, <4>1, <4>2
    <3> QED
      BY <3>4, <3>5, EntryStep
  <2> QED
    BY <2>2, <2>3
<1> QED
  BY <1>3, <1>4, <1>5

----------------------------------------------------------------------------
(* OnceInvariant: the gateway's steps. *)

\* What a handler, and an answer of the broker, takes from the channel it reads.
LEMMA PacketReceives ==
    ASSUME NEW m \in toGateway, PacketHandleTask(m)
    PROVE  GatewayReceives(m)
BY DEF PacketHandleTask, DiscardUnknown, HandleConnect, HandleWilltopic, HandleWillmsg,
   HandleDisconnect, HandlePingreq, HandleRegister, HandlePublishInvalidTopic, HandlePublish,
   HandlePubrel, HandleIgnored, FromClient

\* With nothing queued and nothing asked of the broker its two tasks send nothing.
LEMMA IdleBroker ==
    ASSUME brokerSendQue = <<>>, brokerLink = <<>>, BrokerSendTask \/ BrokerRecvTask
    PROVE  UNCHANGED netVars /\ brokerSendQue' = <<>> /\ brokerLink' = <<>>
BY DEF BrokerSendTask, BrokerRecvTask, SendConnect, connectSended, SendRequest,
   ConnackAccepted, ConnackRefused, HandlePingresp, PublishTaken, HandlePuback,
   HandleBrokerAck, BrokerCloses, EraseClient, Answers, netVars

LEMMA FirstGatewayStep ==
    ASSUME TypeOK, FirstConnect, Duplicated \cap Handshake = {},
           GatewayStep, UNCHANGED clientVars
    PROVE  FirstConnect'
<1>1. eventID' = eventID
  BY DEF clientVars, machineVars
<1>2. ASSUME NEW m \in toGateway, m.type = "CONNECT", PacketHandleTask(m)
      PROVE  toGateway' = {}
  <2>1. toGateway = {m} /\ m.type \notin Duplicated
    BY <1>2 DEF FirstConnect, Handshake
  <2> QED
    BY <1>2, <2>1, PacketReceives DEF GatewayReceives, AfterReceive
<1>3. ASSUME NEW m \in toGateway, PacketHandleTask(m)
      PROVE  toGateway' \subseteq toGateway
  BY <1>3, PacketReceives, ReceiveAdds DEF GatewayReceives
<1>4. CASE \E m \in toGateway : PacketHandleTask(m)
  BY <1>2, <1>3, <1>4 DEF FirstConnect
<1>5. CASE BrokerSendTask \/ BrokerRecvTask
  <2>1. toGateway' = toGateway
    BY <1>5 DEF BrokerSendTask, BrokerRecvTask, SendConnect, connectSended, SendRequest,
       ConnackAccepted, ConnackRefused, HandlePingresp, PublishTaken, HandlePuback,
       HandleBrokerAck, BrokerCloses, EraseClient, Answers, netVars
  <2> QED
    BY <1>1, <1>5, <2>1, IdleBroker DEF FirstConnect, netVars
<1> QED
  BY <1>4, <1>5 DEF GatewayStep

\* The CONNECT the handlers make for the broker.
LEMMA ConnectRequestFields ==
    /\ ConnectRequest.type = "CONNECT"
    /\ ConnectRequest.qos = 0
    /\ ConnectRequest \in Requests
BY RequestsTyped DEF ConnectRequest, Request

LEMMA HandshakeGatewayStep ==
    ASSUME TypeOK, OneHandshake, Duplicated \cap Handshake = {},
           GatewayStep, UNCHANGED clientVars
    PROVE  OneHandshake'
<1> SUFFICES ASSUME eventID \in Joining, eventID' = eventID
             PROVE  OneHandshake'
  BY DEF OneHandshake, HandshakeAlone, clientVars, machineVars
\* At most one answer, in an otherwise empty network.
<1>1. ASSUME toGateway' = {}, brokerSendQue' = <<>>, brokerLink' = <<>>,
             NEW a \in GatewayMessages, toClient' \subseteq {a}, a.type \in Handshake,
             a = ConnAck("accepted") => known' /\ link' = "open"
      PROVE  OneHandshake'
  BY <1>1 DEF OneHandshake, HandshakeAlone
<1>2. ASSUME NEW m \in toGateway, PacketHandleTask(m)
      PROVE  OneHandshake'
  <2>1. /\ m.type \in Handshake
        /\ toGateway = {m} /\ toClient = {} /\ brokerSendQue = <<>> /\ brokerLink = <<>>
    BY DEF OneHandshake, HandshakeAlone
  <2>2. toGateway' = {}
    BY <1>2, <2>1, PacketReceives DEF GatewayReceives, AfterReceive
  <2> USE DEF clientObject, brokerVars
  <2>3. ASSUME NEW a, GatewaySends(a)
        PROVE  toClient' \subseteq {a}
    BY <2>1, <2>3, SendAdds DEF GatewaySends
  <2>4. ASSUME ToBroker(ConnectRequest)
        PROVE  brokerSendQue' = <<ConnectRequest>>
    BY <2>1, <2>4 DEF ToBroker
  <2>5. CASE DiscardUnknown(m)
    BY <2>1, <2>2, <2>5 DEF DiscardUnknown, gatewayVars, OneHandshake, HandshakeAlone
  <2>6. CASE HandleConnect(m)
    <3>1. CASE ~m.will
      <4>1. /\ brokerSendQue' = <<ConnectRequest>> /\ toClient' = {}
            /\ brokerLink' = <<>> /\ known'
        BY <2>1, <2>4, <2>6, <3>1 DEF HandleConnect, ConnectRequest
      <4> QED
        BY <2>2, <4>1 DEF OneHandshake, HandshakeAlone
    <3>2. CASE m.will
      <4>1. brokerSendQue' = <<>> /\ toClient' \subseteq {WillTopicReq} /\ brokerLink' = <<>>
        BY <2>1, <2>3, <2>6, <3>2 DEF HandleConnect
      <4>2. WillTopicReq.type \in Handshake /\ WillTopicReq # ConnAck("accepted")
        BY DEF WillTopicReq, ConnAck, Handshake
      <4> QED
        BY <1>1, <2>2, <4>1, <4>2, GatewayMessagesTyped
    <3> QED
      BY <3>1, <3>2
  <2>7. CASE HandleWilltopic(m)
    <3>1. brokerSendQue' = <<>> /\ toClient' \subseteq {WillMsgReq} /\ brokerLink' = <<>>
      BY <2>1, <2>3, <2>7 DEF HandleWilltopic
    <3>2. WillMsgReq.type \in Handshake /\ WillMsgReq # ConnAck("accepted")
      BY DEF WillMsgReq, ConnAck, Handshake
    <3> QED
      BY <1>1, <2>2, <3>1, <3>2, GatewayMessagesTyped
  <2>8. CASE HandleWillmsg(m)
    <3>1. /\ brokerSendQue' \in {<<>>, <<ConnectRequest>>} /\ toClient' = {}
          /\ brokerLink' = <<>> /\ known'
      BY <2>1, <2>4, <2>8 DEF HandleWillmsg, FromClient, ConnectRequest
    <3> QED
      BY <2>2, <3>1 DEF OneHandshake, HandshakeAlone
  <2>9. /\ ~HandleDisconnect(m) /\ ~HandlePingreq(m) /\ ~HandleRegister(m)
        /\ ~HandlePublishInvalidTopic(m) /\ ~HandlePublish(m) /\ ~HandlePubrel(m)
        /\ ~HandleIgnored(m)
    BY <2>1 DEF Handshake, HandleDisconnect, HandlePingreq, HandleRegister,
       HandlePublishInvalidTopic, HandlePublish, HandlePubrel, HandleIgnored
  <2> QED
    BY <1>2, <2>5, <2>6, <2>7, <2>8, <2>9 DEF PacketHandleTask
<1>3. CASE BrokerSendTask
  <2>1. CASE SendConnect
    <3>1. brokerSendQue = <<ConnectRequest>> /\ brokerLink = <<>> /\ known
      BY <2>1 DEF SendConnect, OneHandshake, HandshakeAlone
    <3>2. toGateway = {} /\ toClient = {}
      BY <3>1 DEF OneHandshake, HandshakeAlone
    <3>3. /\ brokerSendQue' = <<>> /\ brokerLink' = <<ConnectRequest>>
          /\ link' = "open" /\ known' /\ toGateway' = {} /\ toClient' = {}
      BY <2>1, <3>1, <3>2 DEF SendConnect, clientObject, netVars
    <3> QED
      BY <3>3 DEF OneHandshake, HandshakeAlone
  <2>2. CASE connectSended
    BY <2>2 DEF connectSended, netVars, OneHandshake, HandshakeAlone
  <2>3. ~SendRequest
    BY ConnectRequestFields DEF SendRequest, OneHandshake, HandshakeAlone
  <2> QED
    BY <1>3, <2>1, <2>2, <2>3 DEF BrokerSendTask
<1>4. CASE BrokerRecvTask
  <2>1. ASSUME brokerLink # <<>>
        PROVE  /\ known /\ link = "open" /\ brokerLink = <<ConnectRequest>>
               /\ brokerSendQue = <<>> /\ toGateway = {} /\ toClient = {}
    BY <2>1 DEF OneHandshake, HandshakeAlone
  <2>2. ASSUME NEW a, GatewaySends(a), toClient = {}
        PROVE  toClient' \subseteq {a}
    BY <2>2, SendAdds DEF GatewaySends
  <2>3. CASE ConnackAccepted
    <3>1. /\ brokerLink' = <<>> /\ brokerSendQue' = <<>> /\ toGateway' = {}
          /\ toClient' \subseteq {ConnAck("accepted")} /\ known' /\ link' = "open"
      BY <2>1, <2>2, <2>3 DEF ConnackAccepted, Answers
    <3>2. ConnAck("accepted").type \in Handshake
      BY DEF ConnAck, Handshake
    <3> QED
      BY <1>1, <3>1, <3>2, GatewayMessagesTyped
  <2>4. CASE ConnackRefused
    <3>1. /\ brokerLink' = <<>> /\ brokerSendQue' = <<>> /\ toGateway' = {}
          /\ toClient' \subseteq {ConnAck("rejected")}
      BY <2>1, <2>2, <2>4 DEF ConnackRefused, Answers
    <3>2. ConnAck("rejected").type \in Handshake /\ ConnAck("rejected") # ConnAck("accepted")
      BY DEF ConnAck, Handshake
    <3> QED
      BY <1>1, <3>1, <3>2, GatewayMessagesTyped
  <2>5. CASE EraseClient
    <3>1. /\ link = "closed" /\ brokerLink' = brokerLink /\ brokerSendQue' = <<>>
          /\ UNCHANGED <<toGateway, toClient>>
      BY <2>5 DEF EraseClient, netVars
    <3>2. brokerLink = <<>> /\ \A m \in toClient : m # ConnAck("accepted")
      BY <3>1 DEF OneHandshake, HandshakeAlone
    <3> QED
      BY <3>1, <3>2 DEF OneHandshake, HandshakeAlone
  <2>6. /\ ~HandlePingresp /\ ~PublishTaken /\ ~HandlePuback /\ ~BrokerCloses
        /\ ~HandleBrokerAck("PUBLISH", 2, "PUBREC")
        /\ ~HandleBrokerAck("PUBREL", 0, "PUBCOMP")
    BY <2>1, ConnectRequestFields DEF HandlePingresp, PublishTaken, HandlePuback,
       BrokerCloses, HandleBrokerAck, Answers
  <2> QED
    BY <1>4, <2>3, <2>4, <2>5, <2>6 DEF BrokerRecvTask
<1> QED
  BY <1>2, <1>3, <1>4 DEF GatewayStep

\* In the session every handler only passes requests on, and while only REGISTERs are under
\* way it passes on none.
LEMMA SessionGatewayStep ==
    ASSUME TypeOK, NoOtherSession, InSession, GatewayStep
    PROVE  /\ toGateway' \subseteq toGateway
           /\ known' /\ link' = "open"
           /\ \A r \in Entries(brokerSendQue') \cup Entries(brokerLink') :
                 r.type \in {"PUBLISH", "PUBREL", "PINGREQ"}
           /\ /\ \A m \in toGateway : m.type = "REGISTER"
              /\ brokerSendQue = <<>> /\ brokerLink = <<>>
              => brokerSendQue' = <<>> /\ brokerLink' = <<>>
<1> DEFINE Goal == /\ toGateway' \subseteq toGateway
                   /\ known' /\ link' = "open"
                   /\ \A r \in Entries(brokerSendQue') \cup Entries(brokerLink') :
                         r.type \in {"PUBLISH", "PUBREL", "PINGREQ"}
                   /\ /\ \A m \in toGateway : m.type = "REGISTER"
                      /\ brokerSendQue = <<>> /\ brokerLink = <<>>
                      => brokerSendQue' = <<>> /\ brokerLink' = <<>>
<1>1. /\ known /\ link = "open"
      /\ \A m \in toGateway : m.type \in {"REGISTER", "PUBLISH", "PUBREL", "PINGREQ", "PUBACK"}
      /\ \A r \in Entries(brokerSendQue) \cup Entries(brokerLink) :
            r.type \in {"PUBLISH", "PUBREL", "PINGREQ"}
  BY DEF NoOtherSession, TypesOf
<1>2. brokerSendQue \in Seq(Requests) /\ brokerLink \in Seq(Requests)
  BY DEF TypeOK, GatewayTypeOK
<1> USE DEF clientObject, brokerVars
<1>3. ASSUME NEW m \in toGateway, PacketHandleTask(m)
      PROVE  Goal
  <2>1. toGateway' \subseteq toGateway
    BY <1>3, PacketReceives, ReceiveAdds DEF GatewayReceives
  <2>2. ASSUME NEW r \in Requests, ToBroker(r), r.type \in {"PUBLISH", "PUBREL", "PINGREQ"},
               m.type # "REGISTER", UNCHANGED <<known, brokerLink, link>>
        PROVE  Goal
    <3>1. Entries(brokerSendQue') = Entries(brokerSendQue) \cup {r}
      BY <1>2, <2>2, QueueEntries DEF ToBroker
    <3> QED
      BY <1>1, <2>1, <2>2, <3>1
  <2>3. m \in ClientMessages(TopicNames)
    BY DEF TypeOK
  <2>4. CASE HandlePingreq(m)
    <3>1. Request("PINGREQ", 0, 0) \in Requests /\ Request("PINGREQ", 0, 0).type = "PINGREQ"
      BY RequestsTyped DEF Request
    <3> QED
      BY <2>2, <2>4, <3>1 DEF HandlePingreq
  <2>5. CASE HandlePublish(m)
    <3>1. m.qos \in 0..2 /\ m.msgID \in Word
      BY <2>3, <2>5 DEF HandlePublish, ClientMessages
    <3>2. /\ Request("PUBLISH", m.qos, m.msgID) \in Requests
          /\ Request("PUBLISH", m.qos, m.msgID).type = "PUBLISH"
      BY <3>1, RequestsTyped DEF Request
    <3> QED
      BY <2>2, <2>5, <3>2 DEF HandlePublish
  <2>6. CASE HandlePubrel(m)
    <3>1. m.msgID \in Word
      BY <2>3, <2>6 DEF HandlePubrel, ClientMessages
    <3>2. /\ Request("PUBREL", 0, m.msgID) \in Requests
          /\ Request("PUBREL", 0, m.msgID).type = "PUBREL"
      BY <3>1, RequestsTyped DEF Request
    <3> QED
      BY <2>2, <2>6, <3>2 DEF HandlePubrel
  <2>7. CASE HandleRegister(m)
    BY <1>1, <2>1, <2>7 DEF HandleRegister
  <2>8. CASE HandlePublishInvalidTopic(m) \/ HandleIgnored(m)
    BY <1>1, <2>1, <2>8 DEF HandlePublishInvalidTopic, HandleIgnored, gatewayVars
  <2>9. /\ ~DiscardUnknown(m) /\ ~HandleConnect(m) /\ ~HandleWilltopic(m)
        /\ ~HandleWillmsg(m) /\ ~HandleDisconnect(m)
    BY <1>1 DEF DiscardUnknown, HandleConnect, HandleWilltopic, HandleWillmsg,
       HandleDisconnect
  <2> QED
    BY <1>3, <2>4, <2>5, <2>6, <2>7, <2>8, <2>9 DEF PacketHandleTask
<1>4. CASE BrokerSendTask
  <2>1. ~SendConnect
    BY <1>1, <1>2, QueueEntries DEF SendConnect
  <2>2. CASE connectSended
    BY <1>1, <2>2 DEF connectSended, netVars
  <2>3. CASE SendRequest
    <3>1. /\ Head(brokerSendQue) \in Requests
          /\ Head(brokerSendQue) \in Entries(brokerSendQue)
          /\ Entries(brokerSendQue') \subseteq Entries(brokerSendQue)
          /\ brokerLink' = Append(brokerLink, Head(brokerSendQue))
          /\ UNCHANGED <<toGateway, known, link>> /\ brokerSendQue # <<>>
      BY <1>1, <1>2, <2>3, QueueEntries, QueuesTyped DEF SendRequest, netVars
    <3>2. Entries(brokerLink') = Entries(brokerLink) \cup {Head(brokerSendQue)}
      BY <1>2, <3>1, QueueEntries
    <3> QED
      BY <1>1, <3>1, <3>2
  <2> QED
    BY <1>4, <2>1, <2>2, <2>3 DEF BrokerSendTask
<1>5. CASE BrokerRecvTask
  <2>1. brokerLink # <<>> => Head(brokerLink).type \in {"PUBLISH", "PUBREL", "PINGREQ"}
    BY <1>1, <1>2, QueueEntries
  <2>2. /\ brokerLink # <<>> /\ brokerLink' = Tail(brokerLink)
        /\ UNCHANGED <<brokerSendQue, toGateway, link, known>>
    BY <1>1, <1>5, <2>1 DEF BrokerRecvTask, ConnackAccepted, ConnackRefused, HandlePingresp,
       PublishTaken, HandlePuback, HandleBrokerAck, BrokerCloses, EraseClient, Answers
  <2>3. Entries(brokerLink') \subseteq Entries(brokerLink)
    BY <1>2, <2>2, QueueEntries
  <2> QED
    BY <1>1, <2>2, <2>3
<1> QED
  BY <1>3, <1>4, <1>5 DEF GatewayStep

\* Nor does anything but a REGISTER cause an answer while nothing else is under way.
LEMMA FirstAnswers ==
    ASSUME TypeOK, NoOtherSession, InSession, GatewayStep,
           \A m \in toGateway : m.type = "REGISTER",
           brokerSendQue = <<>>, brokerLink = <<>>
    PROVE  (\E m \in toGateway : HandleRegister(m)) \/ toClient' = toClient
<1>1. ASSUME NEW m \in toGateway, PacketHandleTask(m), ~HandleRegister(m)
      PROVE  toClient' = toClient
  BY <1>1 DEF PacketHandleTask, DiscardUnknown, HandleConnect, HandleWilltopic, HandleWillmsg,
     HandleDisconnect, HandlePingreq, HandlePublishInvalidTopic, HandlePublish, HandlePubrel,
     HandleIgnored
<1>2. CASE BrokerSendTask \/ BrokerRecvTask
  BY <1>2, IdleBroker DEF netVars
<1> QED
  BY <1>1, <1>2 DEF GatewayStep

\* A topic that has an id keeps it through the session.
LEMMA TopicsKept ==
    ASSUME TypeOK, NoOtherSession, InSession, GatewayStep,
           NEW n \in TopicNames, topics[n] # 0
    PROVE  topics'[n] = topics[n]
<1>1. \A m \in toGateway : m.type # "CONNECT"
  BY DEF NoOtherSession, TypesOf
<1>2. ~EraseClient
  BY DEF NoOtherSession, EraseClient
<1>3. ASSUME NEW m \in toGateway, HandleRegister(m)
      PROVE  topics'[n] = topics[n]
  BY <1>3 DEF HandleRegister, AddTopic, TypeOK, GatewayTypeOK
<1> QED
  BY <1>1, <1>2, <1>3, GatewayStepEffect

LEMMA SessionTopicsStep ==
    ASSUME TypeOK, OnceInvariant, GatewayStep, UNCHANGED clientVars
    PROVE  NoOtherSession' /\ FirstTopicFirst' /\ TopicsAgree'
<1>1. /\ UNCHANGED <<client, registerFlag, reg1, publishFlag>>
      /\ InSession' = InSession /\ eventID' = eventID
  BY DEF clientVars, machineVars, flagVars, InSession
<1>2. CASE ~InSession
  BY <1>1, <1>2 DEF OnceInvariant, NoOtherSession, FirstTopicFirst, TopicsAgree
<1>3. CASE InSession
  <2>1. NoOtherSession /\ FirstTopicFirst /\ TopicsAgree /\ NumbersAgree /\ EntriesInTurn
    BY <1>3 DEF OnceInvariant, SlotInvariant, InSession
  <2>2. /\ toGateway' \subseteq toGateway
        /\ known' /\ link' = "open"
        /\ \A r \in Entries(brokerSendQue') \cup Entries(brokerLink') :
              r.type \in {"PUBLISH", "PUBREL", "PINGREQ"}
        /\ /\ \A m \in toGateway : m.type = "REGISTER"
           /\ brokerSendQue = <<>> /\ brokerLink = <<>>
           => brokerSendQue' = <<>> /\ brokerLink' = <<>>
    BY <1>3, <2>1, SessionGatewayStep
  <2>3. NoOtherSession'
    BY <2>1, <2>2, <1>3 DEF NoOtherSession, TypesOf
  <2>4. \A n \in TopicNames : topics[n] # 0 => topics'[n] = topics[n]
    BY <1>3, <2>1, TopicsKept
  <2>5. \A m \in toClient : m.type = "REGACK" => m.topicID = topics'[m.msgID]
    BY <1>3, <2>1, <2>4 DEF FirstTopicFirst, NumbersAgree
  <2>6. ASSUME NEW m \in toGateway, HandleRegister(m)
        PROVE  /\ m.type = "REGISTER"
               /\ toClient' \subseteq toClient \cup {RegAck(topics'[m.msgID], m.msgID, "accepted")}
    <3>1. m.type = "REGISTER" /\ m.name = m.msgID
      BY <2>1, <2>6 DEF HandleRegister, NumbersAgree
    <3>2. GatewaySends(RegAck(topics'[m.msgID], m.msgID, "accepted"))
      BY <2>6, <3>1 DEF HandleRegister
    <3> QED
      BY <3>1, <3>2, SendAdds DEF GatewaySends
  <2>7. \A a \in toClient' : a.type = "REGACK" => a.topicID = topics'[a.msgID]
    <3>1. CASE \E m \in toGateway : HandleRegister(m)
      BY <2>5, <2>6, <3>1 DEF RegAck
    <3>2. CASE \A a \in toClient' : a \in toClient \/ a.type # "REGACK"
      BY <2>5, <3>2
    <3>3. ~EraseClient
      BY <1>3, <2>1 DEF NoOtherSession, EraseClient
    <3> QED
      BY <3>1, <3>2, <3>3, GatewayStepEffect
  <2>8. ASSUME reg1
        PROVE  /\ brokerSendQue' = <<>> /\ brokerLink' = <<>>
               /\ \A m \in toGateway' : m.type = "REGISTER" /\ m.msgID = 1
               /\ \A a \in toClient' : a.type = "REGACK" /\ a.msgID = 1
    <3>1. /\ brokerSendQue = <<>> /\ brokerLink = <<>>
          /\ \A m \in toGateway : m.type = "REGISTER" /\ m.msgID = 1
          /\ \A a \in toClient : a.type = "REGACK" /\ a.msgID = 1
      BY <1>3, <2>1, <2>8 DEF FirstTopicFirst
    <3>2. \A a \in toClient' : a.type = "REGACK" /\ a.msgID = 1
      BY <1>3, <2>1, <2>6, <3>1, FirstAnswers DEF RegAck
    <3> QED
      BY <2>2, <3>1, <3>2
  <2>9. FirstTopicFirst'
    BY <1>1, <2>1, <2>7, <2>8 DEF FirstTopicFirst
  <2>10. TopicsAgree'
    <3> SUFFICES ASSUME NEW i \in 1..Len(client.pub_topicID)
                 PROVE  client.pub_topicID[i] = topics'[i]
      BY <1>1 DEF TopicsAgree
    <3>1. client.pub_topicID[i] = topics[i] /\ client.pub_topicID[i] \in 1..nextTopicId
      BY <1>3, <2>1 DEF TopicsAgree, EntriesInTurn
    <3>2. i \in {1, 2}
      <4>1. Len(client.pub_topicID) <= 2 /\ Len(client.pub_topicID) \in Nat
        BY DEF OnceInvariant, SlotInvariant, RegisteredTopics, TypeOK, ClientTypeOK, Clients
      <4> QED
        BY <4>1
    <3>3. topics[i] # 0 /\ i \in TopicNames
      BY <3>1, <3>2, PublishSystemAssumption, GatewayAssumption DEF TypeOK, GatewayTypeOK
    <3> QED
      BY <2>4, <3>1, <3>3
  <2> QED
    BY <2>3, <2>9, <2>10
<1> QED
  BY <1>2, <1>3

\* A Client is erased while the program still waits for its acceptance: it has no entry yet.
LEMMA SlotEraseStep ==
    ASSUME TypeOK, OnceInvariant, eventID # "Q_DISCONNECTED", EraseClient, UNCHANGED clientVars
    PROVE  SlotInvariant'
<1>1. UNCHANGED <<client, event, eventID, registerFlag, reg1, reg2, toGateway, toClient>>
  BY DEF clientVars, machineVars, flagVars, EraseClient, netVars
<1>2. eventID \in Joining
  BY DEF OnceInvariant, NoOtherSession, InSession, EraseClient
<1>3. /\ \A m \in toGateway : m.type # "REGISTER"
      /\ \A m \in toClient : m.type # "REGACK"
  BY <1>2 DEF OnceInvariant, OneHandshake, HandshakeAlone, Handshake
<1>4. nextTopicId' = 0 /\ topics' = NoTopics
  BY DEF EraseClient
<1>5. NumbersAgree'
  BY <1>1, <1>3, <1>4 DEF NumbersAgree, NoTopics
<1>6. registerFlag /\ reg1 /\ client.pub_topicID = <<>> /\ EntriesInTurn
  BY <1>2 DEF OnceInvariant, SlotInvariant, EntriesInTurn, Joining, TypeOK, ClientTypeOK
<1>7. EntriesInTurn'
  BY <1>1, <1>6 DEF EntriesInTurn
<1>8. RegisteredTopics'
  BY <1>1 DEF OnceInvariant, SlotInvariant, RegisteredTopics
<1> QED
  BY <1>5, <1>7, <1>8 DEF SlotInvariant

----------------------------------------------------------------------------
LEMMA OnceInit == Init => OnceInvariant
<1> SUFFICES ASSUME Init
             PROVE  OnceInvariant
  OBVIOUS
<1>1. SlotInvariant
  BY SlotInit
<1>2. \A m \in toGateway : m.type = "CONNECT" /\ toGateway = {m}
  BY SendAdds DEF Init, ClientInit, Connect
<1>3. /\ eventID = "Q_CONNECTING" /\ toClient = {}
      /\ brokerSendQue = <<>> /\ brokerLink = <<>>
      /\ registerFlag = TRUE /\ reg1 = TRUE /\ publishFlag = FALSE
  BY DEF Init, ClientInit, MachineInit, InitialClients, InitialEvents, GatewayInit
<1> QED
  BY <1>1, <1>2, <1>3 DEF OnceInvariant, OneHandshake, HandshakeAlone, FirstConnect, NoOtherSession,
     FirstTopicFirst, TopicsAgree, InSession, Joining, Handshake

LEMMA OnceStep ==
    ASSUME Duplicated \cap Handshake = {}
    PROVE  TypeOK /\ OnceInvariant /\ [Next]_vars => OnceInvariant'
<1> SUFFICES ASSUME TypeOK, OnceInvariant, [Next]_vars
             PROVE  OnceInvariant'
  OBVIOUS
<1>1. SlotInvariant /\ OneHandshake /\ FirstConnect /\ NoOtherSession
  BY DEF OnceInvariant
<1>2. CASE (ClientStep \/ TimePasses) /\ UNCHANGED gatewayVars
  <2>1. SlotInvariant'
    BY <1>1, <1>2, RegisteredClientStep, NumbersClientStep, EntriesClientStep
       DEF SlotInvariant
  <2>2. OneHandshake' /\ FirstConnect' /\ NoOtherSession'
    BY <1>1, <1>2, HandshakeClientStep, FirstClientStep, SessionClientStep
  <2>3. FirstTopicFirst' /\ TopicsAgree'
    BY <1>2, FirstTopicClientStep, AgreeClientStep
  <2> QED
    BY <2>1, <2>2, <2>3 DEF OnceInvariant
<1>3. CASE GatewayStep /\ UNCHANGED clientVars
  <2>1. SlotInvariant'
    BY <1>1, <1>3, SlotGatewayStep, SlotEraseStep
  <2>2. OneHandshake' /\ FirstConnect'
    BY <1>1, <1>3, HandshakeGatewayStep, FirstGatewayStep
  <2>3. NoOtherSession' /\ FirstTopicFirst' /\ TopicsAgree'
    BY <1>3, SessionTopicsStep
  <2> QED
    BY <2>1, <2>2, <2>3 DEF OnceInvariant
<1>4. CASE UNCHANGED vars
  <2>1. SlotInvariant'
    BY <1>1, <1>4 DEF vars, clientVars, machineVars, flagVars, netVars, gatewayVars,
       clientObject, SlotInvariant, RegisteredTopics, NumbersAgree, EntriesInTurn, IsFor
  <2>2. OneHandshake' /\ FirstConnect' /\ NoOtherSession' /\ FirstTopicFirst' /\ TopicsAgree'
    BY <1>4 DEF vars, clientVars, machineVars, flagVars, netVars, gatewayVars, clientObject,
       brokerVars, OnceInvariant, OneHandshake, HandshakeAlone, FirstConnect, NoOtherSession,
       FirstTopicFirst, TopicsAgree, InSession, TypesOf
  <2> QED
    BY <2>1, <2>2 DEF OnceInvariant
<1> QED
  BY <1>2, <1>3, <1>4 DEF Next

\* When no message of the handshake comes twice, whatever else does and whomever the broker
\* refuses: there is one message at a time until the program is accepted, and from then on
\* its topics are registered one after the other with the ids the gateway has for them.
THEOREM OnceAlways ==
    ASSUME Duplicated \cap Handshake = {}
    PROVE  Spec => []OnceInvariant
<1>1. TypeOK /\ OnceInvariant /\ [Next]_vars => OnceInvariant'
  BY OnceStep
<1> QED
  BY <1>1, OnceInit, TypeCorrect, PTL DEF Spec

\* Then each entry of pub_topicID is the id the gateway has for the topic of that number.
THEOREM AlwaysTopicsAgree ==
    ASSUME Duplicated \cap Handshake = {}
    PROVE  Spec => []TopicsAgree
<1>1. OnceInvariant => TopicsAgree
  BY DEF OnceInvariant
<1> QED
  BY <1>1, OnceAlways, PTL

\* Then the program never publishes with an entry of pub_topicID nobody has written.
THEOREM FirstTopicAlwaysKnown ==
    ASSUME Duplicated \cap Handshake = {}
    PROVE  Spec => []FirstTopicKnown
<1>1. OnceInvariant => FirstTopicKnown
  BY DEF OnceInvariant, FirstTopicFirst, FirstTopicKnown
<1> QED
  BY <1>1, OnceAlways, PTL

\* And then a refusing broker, too, leaves no program in a session without a connection.
THEOREM SessionLinkedOnce ==
    ASSUME Duplicated \cap Handshake = {}
    PROVE  Spec => []SessionHasLink
<1>1. OnceInvariant => SessionHasLink
  BY DEF OnceInvariant, NoOtherSession, SessionHasLink
<1> QED
  BY <1>1, OnceAlways, PTL

----------------------------------------------------------------------------
(* PubackInvariant: the program's steps. *)

\* send_msgID never goes back, and where it stays pub does not come round to 1 again.
LEMMA MsgIDStep ==
    ASSUME TypeOK, SlotInvariant, ClientStep \/ TimePasses, eventID' # "Q_DISCONNECTED"
    PROVE  /\ event.send_msgID \in Nat /\ event'.send_msgID \in Nat
           /\ \/ event.send_msgID < event'.send_msgID
              \/ event'.send_msgID = event.send_msgID /\ (pub' = 1 => pub = 1)
<1> DEFINE On   == event'.send_msgID = event.send_msgID + 1
           Same == event'.send_msgID = event.send_msgID /\ (pub' = 1 => pub = 1)
<1>1. eventID # "Q_DISCONNECTED" /\ EntriesInTurn
  BY ClientStepEffect DEF SlotInvariant
<1>2. \A id \in 1..MaxMsgID : NextMsgID(id) = id + 1
  BY PublishAssumption, MessagesAssumption DEF NextMsgID
<1>3. /\ MaxMsgID \in Nat /\ MaxMsgID >= 3
      /\ event \in Events /\ event.send_msgID \in Nat
      /\ registerFlag \in BOOLEAN /\ reg1 \in BOOLEAN
  BY PublishAssumption, MessagesAssumption DEF TypeOK, ClientTypeOK, Events, Word
<1>4. ASSUME NEW m \in toClient, Reads(m)
      PROVE  event'.send_msgID = event.send_msgID
  BY <1>4, ReadMsgEffect DEF Reads, Result, TypeOK, ClientTypeOK
<1>5. ASSUME NEW m \in toClient, ReadsAndAdvances(m), event.send_msgID \in 1..MaxMsgID
      PROVE  On
  <2>1. Result(m).event \in Events /\ Result(m).event.send_msgID = event.send_msgID
    BY ReadMsgEffect DEF Result, TypeOK, ClientTypeOK
  <2>2. event'.send_msgID = NextMsgID(event.send_msgID)
    BY <1>5, <2>1 DEF ReadsAndAdvances, Events
  <2> QED
    BY <1>2, <1>5, <2>2
<1>6. eventID \in {"Q_PUBLISH", "Q_PUB_QOS2"} \/ (ToPublish /\ ~ToRegister) =>
         event.send_msgID \in 1..MaxMsgID
  BY <1>1, <1>3 DEF EntriesInTurn, Joining, ToPublish, ToRegister
<1>7. eventID = "Q_REGISTERING" => event.send_msgID \in 1..MaxMsgID
  BY <1>1, <1>3 DEF EntriesInTurn
<1>8. ASSUME NEW m, NEW next, SendOrQuit(m, next)
      PROVE  eventID' = next
  BY <1>8 DEF SendOrQuit, Quit
<1> USE DEF flagVars
<1>9. CASE TimePasses \/ RegisteringNoMsg \/ SendRegister \/ SendPing
  BY <1>3, <1>9 DEF TimePasses, Tick, RegisteringNoMsg, SendRegister, SendPing
<1>10. CASE /\ UNCHANGED flagVars
            /\ \/ ConnectingNoMsg \/ WillNoMsg \/ PublishNoMsg \/ PubQos2NoMsg
               \/ PingRetry \/ PingGiveUp \/ Close
  BY <1>3, <1>10 DEF ConnectingNoMsg, WillNoMsg, PublishNoMsg, PubQos2NoMsg, PingRetry,
     PingGiveUp, Close
<1>11. CASE SendPublishQos0
  <2>1. event.send_msgID \in 1..MaxMsgID /\ eventID' = "Q_CONNECTED"
    BY <1>6, <1>8, <1>11 DEF SendPublishQos0
  <2>2. On
    BY <1>2, <1>3, <1>11, <2>1 DEF SendPublishQos0, Events
  <2> QED
    BY <1>3, <2>2
<1>12. CASE SendPublishQos1
  BY <1>3, <1>8, <1>12 DEF SendPublishQos1, Events
<1>13. CASE SendPublishQos2
  BY <1>3, <1>8, <1>13 DEF SendPublishQos2, Events
<1>14. ASSUME NEW m \in toClient,
              \/ RegisteringRead(m)
              \/ UNCHANGED flagVars /\ (PublishAcked(m) \/ PubQos2Complete(m))
       PROVE  On
  <2>1. ReadsAndAdvances(m)
    BY <1>14 DEF RegisteringRead, PublishAcked, PubQos2Complete
  <2>2. eventID \in {"Q_REGISTERING", "Q_PUBLISH", "Q_PUB_QOS2"}
    BY <1>14 DEF RegisteringRead, PublishAcked, PubQos2Complete
  <2>3. event.send_msgID \in 1..MaxMsgID
    BY <1>6, <1>7, <2>2
  <2> QED
    BY <1>5, <2>1, <2>3
<1>15. ASSUME NEW m \in toClient,
              \/ /\ UNCHANGED flagVars
                 /\ \/ ConnectingRead(m) \/ WillTopReqRead(m) \/ WillMsgReqRead(m)
                    \/ PublishReceived(m) \/ PublishUnexpected(m) \/ PubQos2Unexpected(m)
                    \/ PingAnswered(m) \/ PingUnexpected(m)
              \/ ReadConnected(m)
       PROVE  Same
  <2>1. Reads(m) /\ pub' = pub
    BY <1>15 DEF ConnectingRead, WillTopReqRead, WillMsgReqRead, PublishReceived,
       PublishUnexpected, PubQos2Unexpected, PingAnswered, PingUnexpected, ReadConnected
  <2> QED
    BY <1>4, <2>1
<1> QED
  BY <1>3, <1>9, <1>10, <1>11, <1>12, <1>13, <1>14, <1>15
     DEF ClientStep, SharedStates, OwnStates

\* A PUBLISH at QoS 1 has the id send_msgID, and takes the turn of pub with it.
LEMMA PublishSent ==
    ASSUME TypeOK, SlotInvariant, ClientStep \/ TimePasses,
           NEW m \in toGateway', m \notin toGateway, m.type = "PUBLISH"
    PROVE  /\ m.msgID <= MaxMsgID
           /\ m.qos > 0 => m.msgID # 0
           /\ m.qos = 1 =>
                 /\ eventID # "Q_DISCONNECTED" /\ eventID' # "Q_DISCONNECTED"
                 /\ pub = 1 /\ pub' # 1
                 /\ m = Publish(1, PubTopic(2), event.send_msgID)
                 /\ m.msgID = event.send_msgID /\ event'.send_msgID = event.send_msgID
<1>1. /\ MaxMsgID \in Nat /\ event \in Events
      /\ registerFlag \in BOOLEAN /\ reg1 \in BOOLEAN
  BY PublishAssumption DEF TypeOK, ClientTypeOK
<1>2. ASSUME eventID = "Q_CONNECTED", ~ToRegister
      PROVE  event.send_msgID >= 3
  BY <1>1, <1>2, PublishAssumption DEF SlotInvariant, EntriesInTurn, ToRegister
<1>3. CASE SendPublishQos0 /\ m = Publish(0, PubTopic(1), 0)
  BY <1>1, <1>3, PublishAssumption DEF Publish
<1>4. CASE SendPublishQos1 /\ m = Publish(1, PubTopic(2), event.send_msgID)
              /\ eventID' = "Q_PUBLISH"
  BY <1>1, <1>2, <1>4 DEF SendPublishQos1, ToPublish, Publish, Events
<1>5. CASE SendPublishQos2 /\ m = Publish(2, PubTopic(2), event.send_msgID)
  BY <1>1, <1>2, <1>5 DEF SendPublishQos2, ToPublish, Publish
<1> QED
  BY <1>3, <1>4, <1>5, ClientSendsEffect

\* The ids in the air and in the queues are numbers.
LEMMA PublishIds ==
    ASSUME TypeOK
    PROVE  /\ \A m \in toGateway : m.type = "PUBLISH" => m.msgID \in Nat /\ m.qos \in 0..2
           /\ \A r \in Entries(brokerSendQue) \cup Entries(brokerLink) : r.id \in Nat
<1>1. Word \subseteq Nat
  BY MessagesAssumption DEF Word
<1>2. \A m \in ClientMessages(TopicNames) :
         m.type = "PUBLISH" => m.msgID \in Word /\ m.qos \in 0..2
  BY DEF ClientMessages
<1>3. ASSUME NEW queue \in Seq(Requests), NEW r \in Entries(queue)
      PROVE  r.id \in Word
  <2>1. PICK i \in 1..Len(queue) : r = queue[i]
    BY DEF Entries
  <2>2. queue[i] \in Requests
    OBVIOUS
  <2> QED
    BY <2>1, <2>2 DEF Requests
<1> QED
  BY <1>1, <1>2, <1>3 DEF TypeOK, GatewayTypeOK

LEMMA PubackClientStep ==
    ASSUME TypeOK, SlotInvariant, PubackInvariant, ClientStep \/ TimePasses,
           UNCHANGED gatewayVars
    PROVE  PubackInvariant'
<1>1. UNCHANGED <<brokerSendQue, brokerLink, waitedPub, link>>
  BY DEF gatewayVars, clientObject, brokerVars
<1>2. OnePublish /\ WaitedOnce
  BY DEF PubackInvariant
<1>3. \A r \in Entries(brokerSendQue) \cup Entries(brokerLink) : r.id \in Nat
  BY PublishIds
<1>4. \A m \in toGateway : m.type = "PUBLISH" => m.msgID \in Nat
  BY PublishIds
\* A new PUBLISH at QoS 1 has an id of its own.
<1>5. ASSUME NEW m \in toGateway', m \notin toGateway, AtQos1(m)
      PROVE  /\ \A n \in toGateway' : AtQos1(n) /\ n.msgID = m.msgID => n = m
             /\ \A r \in Entries(brokerSendQue) \cup Entries(brokerLink) :
                   AtQos1(r) => r.id # m.msgID
  <2>1. /\ eventID # "Q_DISCONNECTED" /\ pub = 1
        /\ m = Publish(1, PubTopic(2), event.send_msgID)
        /\ m.msgID = event.send_msgID
        /\ event.send_msgID \in Nat
    BY <1>5, PublishSent, MessagesAssumption DEF AtQos1, TypeOK, ClientTypeOK, Events, Word
  <2>2. ASSUME NEW n \in toGateway', AtQos1(n), n.msgID = m.msgID
        PROVE  n = m
    <3>1. CASE n \in toGateway
      BY <1>2, <1>4, <2>1, <2>2, <3>1 DEF OnePublish, AtQos1
    <3>2. CASE n \notin toGateway
      BY <2>1, <2>2, <3>2, PublishSent DEF AtQos1
    <3> QED
      BY <3>1, <3>2
  <2>3. ASSUME NEW r \in Entries(brokerSendQue) \cup Entries(brokerLink), AtQos1(r)
        PROVE  r.id # m.msgID
    BY <1>2, <1>3, <2>1, <2>3 DEF OnePublish
  <2> QED
    BY <2>2, <2>3
<1>6. \A m \in toGateway' : AtQos1(m) =>
         /\ \A n \in toGateway' : AtQos1(n) /\ n.msgID = m.msgID => n = m
         /\ \A r \in Entries(brokerSendQue) \cup Entries(brokerLink) :
               AtQos1(r) => r.id # m.msgID
  BY <1>2, <1>5 DEF OnePublish
<1>7. ASSUME eventID' # "Q_DISCONNECTED"
      PROVE  /\ \A m \in toGateway' : AtQos1(m) =>
                   m.msgID < event'.send_msgID \/ (m.msgID = event'.send_msgID /\ pub' # 1)
             /\ \A r \in Entries(brokerSendQue) \cup Entries(brokerLink) : AtQos1(r) =>
                   r.id < event'.send_msgID \/ (r.id = event'.send_msgID /\ pub' # 1)
  <2>1. eventID # "Q_DISCONNECTED"
    BY <1>7, ClientStepEffect
  <2>2. /\ event.send_msgID \in Nat /\ event'.send_msgID \in Nat
        /\ \/ event.send_msgID < event'.send_msgID
           \/ event'.send_msgID = event.send_msgID /\ (pub' = 1 => pub = 1)
    BY <1>7, MsgIDStep
  <2>3. ASSUME NEW id \in Nat,
               id < event.send_msgID \/ (id = event.send_msgID /\ pub # 1)
        PROVE  id < event'.send_msgID \/ (id = event'.send_msgID /\ pub' # 1)
    BY <2>2, <2>3
  <2>4. ASSUME NEW m \in toGateway', AtQos1(m)
        PROVE  m.msgID < event'.send_msgID \/ (m.msgID = event'.send_msgID /\ pub' # 1)
    <3>1. CASE m \in toGateway
      BY <1>2, <1>4, <2>1, <2>3, <2>4, <3>1 DEF OnePublish, AtQos1
    <3>2. CASE m \notin toGateway
      BY <2>4, <3>2, PublishSent DEF AtQos1
    <3> QED
      BY <3>1, <3>2
  <2>5. ASSUME NEW r \in Entries(brokerSendQue) \cup Entries(brokerLink), AtQos1(r)
        PROVE  r.id < event'.send_msgID \/ (r.id = event'.send_msgID /\ pub' # 1)
    BY <1>2, <1>3, <2>1, <2>3, <2>5 DEF OnePublish
  <2> QED
    BY <2>4, <2>5
<1>8. OnePublish'
  BY <1>1, <1>2, <1>6, <1>7 DEF OnePublish, OnceIn
<1>9. WaitedOnce'
  BY <1>1, <1>2, PublishSent DEF WaitedOnce
<1> QED
  BY <1>1, <1>8, <1>9 DEF PubackInvariant, PubackIsWaitedFor

----------------------------------------------------------------------------
(* PubackInvariant: the gateway's steps. *)

\* A packet with an id of its own may join a queue, and one may leave it.
LEMMA OnceAppend ==
    ASSUME NEW queue \in Seq(Requests), NEW r \in Requests, OnceIn(queue),
           \A e \in Entries(queue) : AtQos1(e) /\ AtQos1(r) => e.id # r.id
    PROVE  OnceIn(Append(queue, r))
<1>1. /\ Len(Append(queue, r)) = Len(queue) + 1 /\ Len(queue) \in Nat
      /\ \A i \in 1..Len(queue) : Append(queue, r)[i] = queue[i]
      /\ Append(queue, r)[Len(queue) + 1] = r
  OBVIOUS
<1>2. \A i \in 1..Len(queue) : queue[i] \in Entries(queue)
  BY DEF Entries
<1>3. \A i \in 1..Len(Append(queue, r)) : i \in 1..Len(queue) \/ i = Len(queue) + 1
  BY <1>1
<1> QED
  BY <1>1, <1>2, <1>3 DEF OnceIn

LEMMA OnceTail ==
    ASSUME NEW queue \in Seq(Requests), queue # <<>>, OnceIn(queue)
    PROVE  /\ OnceIn(Tail(queue))
           /\ \A e \in Entries(Tail(queue)) :
                 AtQos1(e) /\ AtQos1(Head(queue)) => e.id # Head(queue).id
<1>1. /\ Len(Tail(queue)) = Len(queue) - 1 /\ Len(queue) \in Nat
      /\ \A i \in 1..Len(Tail(queue)) : Tail(queue)[i] = queue[i + 1]
      /\ Head(queue) = queue[1] /\ 1 \in 1..Len(queue)
  OBVIOUS
<1>2. \A i \in 1..Len(Tail(queue)) : i + 1 \in 1..Len(queue) /\ i + 1 # 1
  BY <1>1
<1>3. OnceIn(Tail(queue))
  BY <1>1, <1>2 DEF OnceIn
<1>4. ASSUME NEW e \in Entries(Tail(queue)), AtQos1(e), AtQos1(Head(queue))
      PROVE  e.id # Head(queue).id
  <2>1. PICK i \in 1..Len(Tail(queue)) : e = queue[i + 1]
    BY <1>1, <1>4 DEF Entries
  <2> QED
    BY <1>1, <1>2, <1>4, <2>1 DEF OnceIn
<1> QED
  BY <1>3, <1>4

\* The map of topic ids never has more elements than there are message ids.
LEMMA WaitedRoom ==
    ASSUME TypeOK, WaitedOnce, MaxMsgID <= 2 * MaxInflight
    PROVE  ~(Cardinality(waitedPub) > 2 * MaxInflight)
<1> DEFINE f == [w \in waitedPub |-> w.msgID]
<1>1. f \in Injection(waitedPub, 1..MaxMsgID)
  BY DEF WaitedOnce, Injection, IsInjective
<1>2. MaxMsgID \in Nat /\ MaxMsgID >= 1 /\ MaxInflight \in Nat
  BY PublishAssumption, GatewayAssumption
<1>3. IsFiniteSet(1..MaxMsgID) /\ Cardinality(1..MaxMsgID) = MaxMsgID
  BY <1>2, FS_Interval
<1>4. IsFiniteSet(waitedPub) /\ Cardinality(waitedPub) <= MaxMsgID
  BY <1>1, <1>3, FS_Injection
<1>5. Cardinality(waitedPub) \in Nat
  BY <1>4, FS_CardinalityType
<1> QED
  BY <1>2, <1>4, <1>5

\* What passes on no PUBLISH at QoS 1 and leaves the map disturbs nothing.
LEMMA PubackKept ==
    ASSUME TypeOK, PubackInvariant, UNCHANGED clientVars,
           toGateway' \subseteq toGateway, waitedPub' = waitedPub,
           brokerSendQue' = brokerSendQue
              \/ \E r \in Requests : ~AtQos1(r) /\ brokerSendQue' = Append(brokerSendQue, r),
           UNCHANGED <<brokerLink, link>>
    PROVE  PubackInvariant'
<1>1. UNCHANGED <<eventID, event, pub>>
  BY DEF clientVars, machineVars, flagVars
<1>2. OnePublish /\ WaitedOnce /\ PubackIsWaitedFor
  BY DEF PubackInvariant
<1>3. /\ OnceIn(brokerSendQue')
      /\ \A r \in Entries(brokerSendQue') : r \in Entries(brokerSendQue) \/ ~AtQos1(r)
  <2>1. OnceIn(brokerSendQue) /\ brokerSendQue \in Seq(Requests)
    BY <1>2 DEF OnePublish, TypeOK, GatewayTypeOK
  <2>2. CASE brokerSendQue' = brokerSendQue
    BY <2>1, <2>2
  <2>3. ASSUME NEW r \in Requests, ~AtQos1(r), brokerSendQue' = Append(brokerSendQue, r)
        PROVE  /\ OnceIn(brokerSendQue')
               /\ Entries(brokerSendQue') = Entries(brokerSendQue) \cup {r}
    BY <2>1, <2>3, OnceAppend, QueueEntries
  <2> QED
    BY <2>2, <2>3
<1>4. OnePublish'
  BY <1>1, <1>2, <1>3 DEF OnePublish, OnceIn
<1>5. WaitedOnce'
  BY <1>2 DEF WaitedOnce
<1>6. PubackIsWaitedFor'
  BY <1>2, <1>3 DEF PubackIsWaitedFor, AtQos1
<1> QED
  BY <1>4, <1>5, <1>6 DEF PubackInvariant

\* A PUBLISH the gateway passes on.
LEMMA PubackPublishStep ==
    ASSUME TypeOK, PubackInvariant, UNCHANGED clientVars,
           "PUBLISH" \notin Duplicated, MaxMsgID <= 2 * MaxInflight,
           NEW m \in toGateway, HandlePublish(m)
    PROVE  PubackInvariant'
<1> DEFINE r == Request("PUBLISH", m.qos, m.msgID)
<1>1. UNCHANGED <<eventID, event, pub, brokerLink, link>>
  BY DEF clientVars, machineVars, flagVars, HandlePublish
<1>2. OnePublish /\ WaitedOnce /\ PubackIsWaitedFor
  BY DEF PubackInvariant
<1>3. m.type = "PUBLISH" /\ m.qos \in 0..2 /\ m.msgID \in Word
  BY DEF HandlePublish, TypeOK, ClientMessages
<1>4. /\ r \in Requests
      /\ r.type = "PUBLISH" /\ r.qos = m.qos /\ r.id = m.msgID
  BY <1>3, RequestsTyped DEF Request
<1>5. brokerSendQue \in Seq(Requests) /\ brokerSendQue' = Append(brokerSendQue, r)
  BY DEF HandlePublish, ToBroker, TypeOK, GatewayTypeOK
<1>6. Entries(brokerSendQue') = Entries(brokerSendQue) \cup {r}
  BY <1>4, <1>5, QueueEntries
<1>7. toGateway' = toGateway \ {m}
  BY <1>3 DEF HandlePublish, FromClient, GatewayReceives, AfterReceive
<1>8. AtQos1(r) <=> AtQos1(m)
  BY <1>3, <1>4 DEF AtQos1
\* In the map it has its topic id, or it had no need of one.
<1>9. waitedPub' =
         IF Acknowledged(m)
         THEN {w \in waitedPub : w.msgID # m.msgID} \cup {[msgID |-> m.msgID, topicID |-> m.topicID]}
         ELSE waitedPub
  <2>1. Acknowledged(m) => m.topicID # 0
    BY DEF HandlePublish, IsTopic
  <2>2. ~(Cardinality(waitedPub) > 2 * MaxInflight)
    BY <1>2, WaitedRoom
  <2> QED
    BY <2>1, <2>2 DEF HandlePublish, SetWaited
<1>10. Acknowledged(m) => m.msgID \in 1..MaxMsgID
  BY <1>2, <1>3, PublishAssumption, MessagesAssumption DEF WaitedOnce, Acknowledged, Word
<1>11. AtQos1(m) => Acknowledged(m)
  BY <1>2 DEF AtQos1, Acknowledged, WaitedOnce
<1>12. OnePublish'
  <2>1. OnceIn(brokerSendQue')
    BY <1>2, <1>4, <1>5, <1>8, OnceAppend DEF OnePublish
  <2>2. \A q \in Entries(brokerSendQue'), s \in Entries(brokerLink) :
           AtQos1(q) /\ AtQos1(s) => q.id # s.id
    BY <1>2, <1>4, <1>6, <1>8 DEF OnePublish
  <2>3. \A n \in toGateway' : AtQos1(n) =>
           /\ \A o \in toGateway' : AtQos1(o) /\ o.msgID = n.msgID => o = n
           /\ \A q \in Entries(brokerSendQue') \cup Entries(brokerLink) :
                 AtQos1(q) => q.id # n.msgID
    BY <1>2, <1>4, <1>6, <1>7, <1>8 DEF OnePublish
  <2>4. ASSUME eventID # "Q_DISCONNECTED",
               NEW q \in Entries(brokerSendQue') \cup Entries(brokerLink), AtQos1(q)
        PROVE  q.id < event.send_msgID \/ (q.id = event.send_msgID /\ pub # 1)
    BY <1>2, <1>4, <1>6, <1>8, <2>4 DEF OnePublish
  <2>5. ASSUME eventID # "Q_DISCONNECTED", NEW n \in toGateway', AtQos1(n)
        PROVE  n.msgID < event.send_msgID \/ (n.msgID = event.send_msgID /\ pub # 1)
    BY <1>2, <1>7, <2>5 DEF OnePublish
  <2> QED
    BY <1>1, <1>2, <2>1, <2>2, <2>3, <2>4, <2>5 DEF OnePublish, OnceIn
<1>13. WaitedOnce'
  BY <1>2, <1>7, <1>9, <1>10 DEF WaitedOnce
<1>14. PubackIsWaitedFor'
  <2> SUFFICES ASSUME NEW q \in Entries(brokerSendQue') \cup Entries(brokerLink'), AtQos1(q)
               PROVE  \E w \in waitedPub' : w.msgID = q.id
    BY DEF PubackIsWaitedFor, AtQos1
  <2>1. q = r => Acknowledged(m) /\ q.id = m.msgID
    BY <1>4, <1>8, <1>11
  <2>2. CASE Acknowledged(m) /\ q.id = m.msgID
    <3> DEFINE waited == [msgID |-> m.msgID, topicID |-> m.topicID]
    <3>1. waited \in waitedPub'
      BY <1>9, <2>2
    <3>2. waited.msgID = q.id
      BY <2>2
    <3> HIDE DEF waited
    <3> QED
      BY <3>1, <3>2
  <2>3. CASE ~(Acknowledged(m) /\ q.id = m.msgID)
    <3>1. q # r
      BY <2>1, <2>3
    <3>2. PICK w \in waitedPub : w.msgID = q.id
      BY <1>1, <1>2, <1>6, <3>1 DEF PubackIsWaitedFor, AtQos1
    <3> QED
      BY <1>9, <2>3, <3>2
  <2> QED
    BY <2>2, <2>3
<1> QED
  BY <1>1, <1>12, <1>13, <1>14 DEF PubackInvariant

LEMMA PubackPacketStep ==
    ASSUME TypeOK, PubackInvariant, FirstConnect, UNCHANGED clientVars,
           "PUBLISH" \notin Duplicated, MaxMsgID <= 2 * MaxInflight,
           NEW m \in toGateway, PacketHandleTask(m)
    PROVE  PubackInvariant'
<1>1. toGateway' \subseteq toGateway
  BY PacketReceives, ReceiveAdds DEF GatewayReceives
<1>2. m \in ClientMessages(TopicNames)
  BY DEF TypeOK
<1> USE DEF clientObject, brokerVars
<1>3. ASSUME NEW r \in Requests, r.type # "PUBLISH", ToBroker(r),
             waitedPub' = waitedPub, UNCHANGED <<brokerLink, link>>
      PROVE  PubackInvariant'
  BY <1>1, <1>3, PubackKept DEF ToBroker, AtQos1
<1>4. \A type \in {"CONNECT", "DISCONNECT", "PINGREQ"} :
         Request(type, 0, 0) \in Requests /\ Request(type, 0, 0).type # "PUBLISH"
  BY RequestsTyped DEF Request
<1>5. CASE HandleConnect(m)
  <2>1. /\ brokerSendQue = <<>> /\ brokerLink = <<>> /\ toGateway = {m}
    BY <1>5 DEF HandleConnect, FirstConnect
  <2>2. /\ brokerSendQue' \in {<<>>, <<ConnectRequest>>} /\ brokerLink' = <<>>
        /\ waitedPub' = {}
    BY <1>5, <2>1 DEF HandleConnect, ToBroker, ConnectRequest
  <2>3. \A n \in toGateway' : n.type = "CONNECT"
    BY <1>1, <1>5, <2>1 DEF HandleConnect
  <2>4. \A r \in Entries(brokerSendQue') \cup Entries(brokerLink') : ~AtQos1(r)
    <3>1. Entries(<<ConnectRequest>>) = {ConnectRequest} /\ Entries(<<>>) = {}
      BY DEF Entries
    <3> QED
      BY <2>2, <3>1, ConnectRequestFields DEF AtQos1
  <2>5. OnceIn(brokerSendQue') /\ OnceIn(brokerLink')
    BY <2>2 DEF OnceIn
  <2> QED
    BY <2>2, <2>3, <2>4, <2>5
       DEF PubackInvariant, OnePublish, WaitedOnce, PubackIsWaitedFor, AtQos1
<1>6. CASE HandlePublish(m)
  BY <1>6, PubackPublishStep
<1>7. CASE HandleWillmsg(m)
  <2>1. waitedPub' = waitedPub /\ UNCHANGED <<brokerLink, link>>
    BY <1>7 DEF HandleWillmsg
  <2>2. brokerSendQue' = brokerSendQue \/ ToBroker(Request("CONNECT", 0, 0))
    BY <1>7 DEF HandleWillmsg
  <2> QED
    BY <1>1, <1>3, <1>4, <2>1, <2>2, PubackKept
<1>8. CASE HandleDisconnect(m)
  BY <1>3, <1>4, <1>8 DEF HandleDisconnect
<1>9. CASE HandlePingreq(m)
  BY <1>3, <1>4, <1>9 DEF HandlePingreq
<1>10. CASE HandlePubrel(m)
  <2>1. m.msgID \in Word
    BY <1>2, <1>10 DEF HandlePubrel, ClientMessages
  <2>2. /\ Request("PUBREL", 0, m.msgID) \in Requests
        /\ Request("PUBREL", 0, m.msgID).type # "PUBLISH"
    BY <2>1, RequestsTyped DEF Request
  <2> QED
    BY <1>3, <1>10, <2>2 DEF HandlePubrel
<1>11. CASE \/ DiscardUnknown(m) \/ HandleWilltopic(m) \/ HandleRegister(m)
            \/ HandlePublishInvalidTopic(m) \/ HandleIgnored(m)
  <2>1. UNCHANGED <<waitedPub, brokerSendQue, brokerLink, link>>
    BY <1>11 DEF DiscardUnknown, HandleWilltopic, HandleRegister, HandlePublishInvalidTopic,
       HandleIgnored, gatewayVars
  <2> QED
    BY <1>1, <2>1, PubackKept
<1> QED
  BY <1>5, <1>6, <1>7, <1>8, <1>9, <1>10, <1>11 DEF PacketHandleTask

LEMMA PubackSendStep ==
    ASSUME TypeOK, PubackInvariant, UNCHANGED clientVars, BrokerSendTask
    PROVE  PubackInvariant'
<1> USE DEF clientObject, netVars
<1>1. UNCHANGED <<eventID, event, pub, toGateway, waitedPub>>
  BY DEF clientVars, machineVars, flagVars, BrokerSendTask, SendConnect, connectSended,
     SendRequest
<1>2. OnePublish /\ WaitedOnce /\ PubackIsWaitedFor
  BY DEF PubackInvariant
<1>3. brokerSendQue \in Seq(Requests) /\ brokerLink \in Seq(Requests)
  BY DEF TypeOK, GatewayTypeOK
<1>4. WaitedOnce'
  BY <1>1, <1>2 DEF WaitedOnce
<1>5. ASSUME brokerSendQue # <<>>
      PROVE  /\ Head(brokerSendQue) \in Requests
             /\ Head(brokerSendQue) \in Entries(brokerSendQue)
             /\ Entries(Tail(brokerSendQue)) \subseteq Entries(brokerSendQue)
             /\ OnceIn(Tail(brokerSendQue))
             /\ \A e \in Entries(Tail(brokerSendQue)) :
                   AtQos1(e) /\ AtQos1(Head(brokerSendQue)) => e.id # Head(brokerSendQue).id
  BY <1>2, <1>3, <1>5, QueueEntries, QueuesTyped, OnceTail DEF OnePublish
<1>6. CASE SendConnect
  <2>1. /\ brokerSendQue # <<>> /\ ~AtQos1(Head(brokerSendQue))
        /\ brokerSendQue' = Tail(brokerSendQue) /\ brokerLink' = <<Head(brokerSendQue)>>
        /\ link' = "open"
    BY <1>6 DEF SendConnect, AtQos1
  <2>2. \A r \in Entries(brokerLink') : ~AtQos1(r)
    BY <1>3, <1>5, <2>1, QueueEntries
  <2>3. OnceIn(brokerLink')
    BY <2>1 DEF OnceIn
  <2>4. OnePublish'
    BY <1>1, <1>2, <1>5, <2>1, <2>2, <2>3 DEF OnePublish, OnceIn
  <2>5. PubackIsWaitedFor'
    BY <1>1, <1>2, <1>5, <2>1, <2>2 DEF PubackIsWaitedFor, AtQos1
  <2> QED
    BY <1>4, <2>1, <2>4, <2>5 DEF PubackInvariant
<1>7. CASE connectSended
  BY <1>1, <1>7 DEF connectSended, PubackInvariant, OnePublish, OnceIn, WaitedOnce,
     PubackIsWaitedFor
<1>8. CASE SendRequest /\ link = "open"
  <2> DEFINE head == Head(brokerSendQue)
  <2>1. /\ brokerSendQue # <<>> /\ brokerSendQue' = Tail(brokerSendQue)
        /\ brokerLink' = Append(brokerLink, head) /\ link' = "open"
    BY <1>8 DEF SendRequest
  <2>2. Entries(brokerLink') = Entries(brokerLink) \cup {head}
    BY <1>3, <1>5, <2>1, QueueEntries
  <2>3. OnceIn(brokerLink')
    BY <1>2, <1>3, <1>5, <2>1, OnceAppend DEF OnePublish
  <2>4. \A r \in Entries(brokerSendQue'), s \in Entries(brokerLink') :
           AtQos1(r) /\ AtQos1(s) => r.id # s.id
    BY <1>2, <1>5, <2>1, <2>2 DEF OnePublish
  <2>5. Entries(brokerSendQue') \cup Entries(brokerLink')
           \subseteq Entries(brokerSendQue) \cup Entries(brokerLink)
    BY <1>5, <2>1, <2>2
  <2>6. OnePublish'
    <3>1. OnceIn(brokerSendQue')
      BY <1>5, <2>1 DEF OnceIn
    <3> QED
      BY <1>1, <1>2, <2>3, <2>4, <2>5, <3>1 DEF OnePublish
  <2>7. PubackIsWaitedFor'
    BY <1>1, <1>2, <2>5 DEF PubackIsWaitedFor
  <2> QED
    BY <1>4, <2>1, <2>6, <2>7 DEF PubackInvariant
<1>9. CASE SendRequest /\ link # "open"
  <2>1. /\ brokerSendQue # <<>> /\ brokerSendQue' = Tail(brokerSendQue)
        /\ brokerLink' = brokerLink /\ brokerLink = <<>>
    BY <1>9 DEF SendRequest, PubackInvariant
  <2>2. OnePublish'
    BY <1>1, <1>2, <1>5, <2>1 DEF OnePublish, OnceIn
  <2>3. PubackIsWaitedFor'
    BY <1>1, <1>2, <1>5, <2>1 DEF PubackIsWaitedFor
  <2> QED
    BY <1>4, <2>1, <2>2, <2>3 DEF PubackInvariant
<1> QED
  BY <1>6, <1>7, <1>8, <1>9 DEF BrokerSendTask

\* What the broker answers leaves the link, and its PUBACK takes only its own element.
LEMMA PubackRecvStep ==
    ASSUME TypeOK, PubackInvariant, UNCHANGED clientVars, BrokerRecvTask
    PROVE  PubackInvariant'
<1> USE DEF clientObject, netVars, Answers
<1>1. UNCHANGED <<eventID, event, pub, toGateway>>
  BY DEF clientVars, machineVars, flagVars, BrokerRecvTask, ConnackAccepted, ConnackRefused,
     HandlePingresp, PublishTaken, HandlePuback, HandleBrokerAck, BrokerCloses, EraseClient
<1>2. OnePublish /\ WaitedOnce /\ PubackIsWaitedFor
  BY DEF PubackInvariant
<1>3. brokerSendQue \in Seq(Requests) /\ brokerLink \in Seq(Requests)
  BY DEF TypeOK, GatewayTypeOK
<1>4. ASSUME brokerLink # <<>>
      PROVE  /\ Head(brokerLink) \in Entries(brokerLink)
             /\ Entries(Tail(brokerLink)) \subseteq Entries(brokerLink)
             /\ OnceIn(Tail(brokerLink))
             /\ \A e \in Entries(Tail(brokerLink)) :
                   AtQos1(e) /\ AtQos1(Head(brokerLink)) => e.id # Head(brokerLink).id
  BY <1>2, <1>3, <1>4, QueueEntries, OnceTail DEF OnePublish
<1>5. link # "open" => brokerLink = <<>>
  BY DEF PubackInvariant
<1>6. CASE HandlePuback
  <2> DEFINE head == Head(brokerLink)
  <2>1. /\ brokerLink # <<>> /\ AtQos1(head)
        /\ brokerSendQue' = brokerSendQue /\ brokerLink' = Tail(brokerLink)
        /\ waitedPub' = waitedPub \ {w \in waitedPub : w.msgID = head.id}
        /\ link' = link
    BY <1>6 DEF HandlePuback, AtQos1
  <2>2. OnePublish'
    BY <1>1, <1>2, <1>4, <2>1 DEF OnePublish, OnceIn
  <2>3. WaitedOnce'
    BY <1>1, <1>2, <2>1 DEF WaitedOnce
  <2>4. PubackIsWaitedFor'
    <3> SUFFICES ASSUME NEW r \in Entries(brokerSendQue) \cup Entries(Tail(brokerLink)),
                        AtQos1(r)
                 PROVE  \E w \in waitedPub' : w.msgID = r.id
      BY <2>1 DEF PubackIsWaitedFor, AtQos1
    <3>1. r.id # head.id
      BY <1>2, <1>4, <2>1 DEF OnePublish
    <3>2. PICK w \in waitedPub : w.msgID = r.id
      BY <1>2, <1>4, <2>1 DEF PubackIsWaitedFor, AtQos1
    <3> QED
      BY <2>1, <3>1, <3>2
  <2> QED
    BY <1>5, <2>1, <2>2, <2>3, <2>4 DEF PubackInvariant
<1>7. CASE EraseClient
  <2>1. brokerSendQue' = <<>> /\ brokerLink' = <<>> /\ waitedPub' = {}
    BY <1>5, <1>7 DEF EraseClient
  <2>2. Entries(<<>>) = {} /\ OnceIn(<<>>)
    BY DEF Entries, OnceIn
  <2> QED
    BY <1>1, <1>2, <2>1, <2>2
       DEF PubackInvariant, OnePublish, WaitedOnce, PubackIsWaitedFor
<1>8. CASE ~HandlePuback /\ ~EraseClient
  <2>1. /\ brokerLink # <<>> /\ waitedPub' = waitedPub /\ brokerSendQue' = brokerSendQue
        /\ \/ brokerLink' = <<>>
           \/ brokerLink' = Tail(brokerLink) /\ link' = link
    BY <1>8 DEF BrokerRecvTask, ConnackAccepted, ConnackRefused, HandlePingresp,
       PublishTaken, HandleBrokerAck, BrokerCloses
  <2>2. OnceIn(brokerLink') /\ Entries(brokerLink') \subseteq Entries(brokerLink)
    <3>1. Entries(<<>>) = {} /\ OnceIn(<<>>)
      BY DEF Entries, OnceIn
    <3> QED
      BY <1>4, <2>1, <3>1
  <2>3. OnePublish'
    BY <1>1, <1>2, <2>1, <2>2 DEF OnePublish, OnceIn
  <2>4. WaitedOnce' /\ PubackIsWaitedFor'
    BY <1>1, <1>2, <2>1, <2>2 DEF WaitedOnce, PubackIsWaitedFor
  <2>5. link' # "open" => brokerLink' = <<>>
    BY <1>5, <2>1
  <2> QED
    BY <2>3, <2>4, <2>5 DEF PubackInvariant
<1> QED
  BY <1>6, <1>7, <1>8

----------------------------------------------------------------------------
LEMMA PubackInit == Init => PubackInvariant
<1> SUFFICES ASSUME Init
             PROVE  PubackInvariant
  OBVIOUS
<1>1. \A m \in toGateway : m.type = "CONNECT"
  BY SendAdds DEF Init, ClientInit, Connect
<1>2. brokerSendQue = <<>> /\ brokerLink = <<>> /\ waitedPub = {}
  BY DEF Init, GatewayInit
<1>3. Entries(<<>>) = {} /\ OnceIn(<<>>)
  BY DEF Entries, OnceIn
<1> QED
  BY <1>1, <1>2, <1>3
     DEF PubackInvariant, OnePublish, WaitedOnce, PubackIsWaitedFor, AtQos1

LEMMA PubackStep ==
    ASSUME Duplicated \cap (Handshake \cup {"PUBLISH"}) = {}, MaxMsgID <= 2 * MaxInflight
    PROVE  TypeOK /\ OnceInvariant /\ PubackInvariant /\ [Next]_vars => PubackInvariant'
<1> SUFFICES ASSUME TypeOK, OnceInvariant, PubackInvariant, [Next]_vars
             PROVE  PubackInvariant'
  OBVIOUS
<1>1. SlotInvariant /\ FirstConnect /\ "PUBLISH" \notin Duplicated
  BY DEF OnceInvariant
<1>2. CASE (ClientStep \/ TimePasses) /\ UNCHANGED gatewayVars
  BY <1>1, <1>2, PubackClientStep
<1>3. CASE GatewayStep /\ UNCHANGED clientVars
  BY <1>1, <1>3, PubackPacketStep, PubackSendStep, PubackRecvStep DEF GatewayStep
<1>4. CASE UNCHANGED vars
  BY <1>4 DEF vars, clientVars, machineVars, flagVars, netVars, gatewayVars, clientObject,
     brokerVars, PubackInvariant, OnePublish, OnceIn, WaitedOnce, PubackIsWaitedFor
<1> QED
  BY <1>2, <1>3, <1>4 DEF Next

\* When neither a message of the handshake nor a PUBLISH comes twice, and for as many
\* messages as the map of topic ids has room for (the elements of QoS 2 are never taken
\* out), the broker's PUBACK for a PUBLISH at QoS 1 always finds the topic id it needs.
THEOREM PubackAlwaysWaitedFor ==
    ASSUME Duplicated \cap (Handshake \cup {"PUBLISH"}) = {}, MaxMsgID <= 2 * MaxInflight
    PROVE  Spec => []PubackIsWaitedFor
<1>1. TypeOK /\ OnceInvariant /\ PubackInvariant /\ [Next]_vars => PubackInvariant'
  BY PubackStep
<1>2. PubackInvariant => PubackIsWaitedFor
  BY DEF PubackInvariant
<1>3. Spec => []OnceInvariant
  BY OnceAlways
<1> QED
  BY <1>1, <1>2, <1>3, PubackInit, TypeCorrect, PTL DEF Spec
============================================================================
